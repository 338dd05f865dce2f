SPECIFICATION Spec
CONSTANTS
  Chunks = {1, 2, 3, 4}
  Pictured = {3}
  Section <- MCSection
  Related <- MCRelated
  Blank = {4}
  Overview = Overview
  Summary = Summary
  HitsFew = 1
  HitsMany = 2
  Scores = {0, 1, 2}
  Threshold = 1
  RerankLimit = 3
  RrfK = 60
  TopPlain = 1
  TopVisual = 2
  TopWide = 3
  GatePlain = 1
  GateGallery = 2
CONSTRAINT OneOfAKind
INVARIANTS
  TypeOK
  PicturesOnlyIfAskedFor
  SearchedUnlessSafe
  ContextGrounded

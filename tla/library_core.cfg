SPECIFICATION Spec
CONSTANTS
  Names = {n1, n2}
  Contents = {a, b}
  NoName = NoName
  NoContent = NoContent
  Requests = {r1, r2}
  Workers = {w1, w2}
  MaxFiles = 3
  MaxListed = 1
  MaxBatch = 2
CONSTRAINT NotCrowded
SYMMETRY Interchangeable
INVARIANTS
  TypeOK
  UploadsNeverWait
  ContentOnceUnlessForced
  FilesHaveObjects
  OverviewIsCurrent

SPECIFICATION Spec
CONSTANTS
  k1 = k1
  k2 = k2
  Guests = {}
  Docs = {d1, d2, d3}
  KBs = {k1}
  KbOf <- KbOfDocs
  NoFingerprint = NoFingerprint
  MaxTexts = 2
  MaxChanges = 4
  MaxCrashes = 0
INVARIANTS
  CommunityFromCurrent

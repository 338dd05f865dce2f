SPECIFICATION FairSpec
CONSTANTS
  k1 = k1
  k2 = k2
  Guests = {d3}
  Docs = {d1, d2, d3}
  KBs = {k1, k2}
  KbOf <- KbOfDocs
  NoFingerprint = NoFingerprint
  MaxTexts = 2
  MaxChanges = 3
  MaxCrashes = 1
CONSTRAINT Uneventful
INVARIANTS
  TypeOK
  CurrentRelationsHold
  CommunityCoversDocuments
  ChunkGraphFollows
PROPERTIES
  GraphCatchesUp

SPECIFICATION FairSpec
CONSTANTS
  f1 = f1
  f2 = f2
  a1 = a1
  a2 = a2
  a3 = a3
  b1 = b1
  c1 = c1
  Requests = {r1}
  Files = {f1, f2}
  Chunks = {a1, a2, a3, b1, c1}
  FileOf <- ChunkFile
  VersionOf <- ChunkVersion
  Section <- Window
  Related <- Relations
  Blank = {a2}
  Overall = Overall
  MaxVersions = 2
  MaxEvents = 2
CHECK_DEADLOCK FALSE
INVARIANTS
  TypeOK
  AnswerIsWhole
  ContextWasCurrent
  NoDoubleCitation
  EvidenceIsCited
PROPERTIES
  SettledAnswersStay
  StreamsSettle

SPECIFICATION FairSpec
CONSTANTS
  Summaries = {1}
  Chunks = {c1, c2}
  Concurrency = 1
  MaxRetries = 1
  Models = {m1, m2}
  NoModel = NoModel
  MaxRestarts = 1
CONSTRAINTS
  NotBlurred
  NotOvertaken
INVARIANTS
  TypeOK
  CompletedCoversDocument
  EndedLeavesNoChunk
  ForcedRetryRebuilds
PROPERTIES
  SummaryEnds

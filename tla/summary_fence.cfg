SPECIFICATION Spec
CONSTANTS
  Summaries = {1}
  Chunks = {c1, c2}
  Concurrency = 2
  MaxRetries = 1
  Models = {m1}
  NoModel = NoModel
  MaxRestarts = 0
INVARIANTS
  AllSuccessesMerged

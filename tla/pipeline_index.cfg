SPECIFICATION Spec
CONSTANTS
  Files = {f1}
  NoFile = NoFile
  MaxJobs = 2
  MaxGens = 2
  BatchSize = 1
  MaxCrashes = 0
  Requests = {"retry", "reindex"}
CONSTRAINT OneJobOverlaps
INVARIANTS
  Findable

SPECIFICATION FairSpec
CONSTANTS
  Files = {f1, f2}
  NoFile = NoFile
  MaxJobs = 2
  MaxGens = 2
  BatchSize = 1
  MaxCrashes = 0
  Requests = {}
CONSTRAINT NotOverlapped
PROPERTIES
  EveryJobSettles

SPECIFICATION FairSpec
CONSTANTS
  Files = {f1}
  NoFile = NoFile
  MaxJobs = 1
  MaxGens = 1
  BatchSize = 1
  MaxCrashes = 1
  Requests = {}
CONSTRAINT NotOverlapped
PROPERTY
  IndexingAdvances

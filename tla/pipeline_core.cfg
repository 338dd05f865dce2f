SPECIFICATION Spec
CONSTANTS
  Files = {f1}
  NoFile = NoFile
  MaxJobs = 2
  MaxGens = 2
  BatchSize = 1
  MaxCrashes = 1
  Requests = {"retry", "delete"}
CONSTRAINT NotOverlapped
INVARIANTS
  TypeOK
  OneActiveGeneration
  RetrievableFromLatestSuccess
  SettledFileAgrees
PROPERTIES
  StatusOnlyForward
  ImplementsVersions

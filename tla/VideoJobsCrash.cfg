CONSTANTS
  j1 = j1
  j2 = j2
  j3 = j3
  NoJob = NoJob
  Jobs = {j1, j2}
  Inline = {}
  MaxQueue = 2
  TTL = 1
  StoreMax = 3
  ClipBytes = 2
  MaxTime = 1
  MaxFails = 1
  MaxCrashes = 2
  MaxReloads = 0
SPECIFICATION Spec
SYMMETRY AnyJobs
INVARIANTS
  TypeOK
  CompletedHasClip
  CompletedIsDurable
  LiveJobHasInputs
  ClipHasRecord
PROPERTIES
  ImplementsVideoJob

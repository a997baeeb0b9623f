CONSTANTS
  j1 = j1
  j2 = j2
  j3 = j3
  NoJob = NoJob
  Jobs = {j1}
  Inline = {j1}
  MaxQueue = 1
  TTL = 1
  StoreMax = 3
  ClipBytes = 2
  MaxTime = 1
  MaxFails = 0
  MaxCrashes = 0
  MaxReloads = 0
SPECIFICATION Spec
SYMMETRY AnyJobs
INVARIANTS
  PostLeavesNothing

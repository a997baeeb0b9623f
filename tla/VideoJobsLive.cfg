CONSTANTS
  j1 = j1
  j2 = j2
  j3 = j3
  NoJob = NoJob
  Jobs = {j1, j2}
  Inline = {j2}
  MaxQueue = 2
  TTL = 1
  StoreMax = 3
  ClipBytes = 2
  MaxTime = 1
  MaxFails = 0
  MaxCrashes = 0
  MaxReloads = 1
SPECIFICATION FairSpec
PROPERTIES
  EveryJobEnds

CONSTANTS
  j1 = j1
  j2 = j2
  j3 = j3
  NoJob = NoJob
  Jobs = {j1}
  Inline = {}
  MaxQueue = 1
  TTL = 1
  StoreMax = 3
  ClipBytes = 2
  MaxTime = 1
  MaxFails = 1
  MaxCrashes = 0
  MaxReloads = 0
SPECIFICATION FairSpec
PROPERTIES
  EveryJobEnds

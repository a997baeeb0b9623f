CONSTANTS
  t1 = t1
  t2 = t2
  t3 = t3
  chat = chat
  big = big
  image = image
  video = video
  NoOne = NoOne
  Threads = {t1, t2, t3}
  Preloaders = {}
  Models = {big, image, video}
  Kind <- MCKind
  Price <- MCPrice
  Extra <- MCExtra
  Streaming = {big}
  Pinned = {}
  Budget = 4
  MaxModels = 9
  MaxHolds = 1
  Calls <- LoadCalls
  UnloadOps = {}
SPECIFICATION Spec
INVARIANTS
  TypeOK
  BusyIsHolders
  NoWaitUnderBuildLock
  NeverGivesUp
  NoDoubleLoad
  TearingAccounted
  BuildingBooked
PROPERTIES
  OverBudgetOnlyWhenForced

CONSTANTS
  t1 = t1
  t2 = t2
  t3 = t3
  chat = chat
  big = big
  image = image
  video = video
  NoOne = NoOne
  Threads = {t1, t2, t3}
  Preloaders = {t1}
  Models = {chat, image}
  Kind <- MCKind
  Price <- MCPrice
  Extra <- MCExtra
  Streaming = {}
  Pinned = {}
  Budget = 0
  MaxModels = 1
  MaxHolds = 1
  Calls <- UnloadCalls
  UnloadOps = {"evict", "clear", "sync", "reap"}
SPECIFICATION Spec
INVARIANTS
  BusyIsHolders
  HeldStaysResident
  TearingAccounted
  NoWaitUnderBuildLock
PROPERTIES
  ImplementsModelPool

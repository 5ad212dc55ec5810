SPECIFICATION Spec
CONSTANTS
  a = a
  b = b
  s1 = s1
  s2 = s2
  s3 = s3
  None = None
  Devices = {a}
  Streams = {1, 2}
  Sessions = {s1, s2}
  Parties <- BothSessions
  Items <- OneAndTwo
  Seeds <- MCSeeds
  NSlots = 2
  MinStreams = 1
  Batch = 2
  SkipBatches = 1
  MayCancel = TRUE
  OtherHosts = FALSE
  MaxInFlight = 2
  MaxResets = 1
  MaxSeeds = 3
INVARIANTS
  ActiveNoncesAreDisjoint
  ConsumptionIsDefined
  SignedIsReplayable
  CacheIsGenuine
  NoNonceReuse
CHECK_DEADLOCK FALSE

SPECIFICATION Spec
CONSTANTS
  a = a
  b = b
  s1 = s1
  s2 = s2
  s3 = s3
  None = None
  Devices = {a}
  Streams = {1, 2}
  Sessions = {s1}
  Parties <- BothSessions
  Items <- OneEach
  Seeds <- MCSeeds
  NSlots = 2
  MinStreams = 1
  Batch = 1
  SkipBatches = 1
  MayCancel = FALSE
  OtherHosts = FALSE
  MaxInFlight = 1
  MaxResets = 0
  MaxSeeds = 3
INVARIANTS
  SharesAreForActiveSessions
CHECK_DEADLOCK FALSE

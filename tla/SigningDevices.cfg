SPECIFICATION FairSpec
CONSTANTS
  a = a
  b = b
  s1 = s1
  s2 = s2
  s3 = s3
  None = None
  Devices = {a, b}
  Streams = {1}
  Sessions = {s1}
  Parties <- BothSessions
  Items <- OneEach
  Seeds <- MCSeeds
  NSlots = 2
  MinStreams = 1
  Batch = 1
  SkipBatches = 1
  MayCancel = TRUE
  OtherHosts = TRUE
  MaxInFlight = 1
  MaxResets = 1
  MaxSeeds = 2
INVARIANT FinishedIsUnanimous
PROPERTY Completes
CHECK_DEADLOCK FALSE

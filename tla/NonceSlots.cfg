SPECIFICATION Spec
CONSTANTS
  s1 = s1
  s2 = s2
  sA = sA
  sB = sB
  sC = sC
  None = None
  EmptyIndex = 4
  NSlots = 2
  Streams <- MCStreams
  Sessions <- MCSessions
  Items <- MCItems
  MaxNonce = 3
  Batch = 1
  SkipBatches = 1
  Faults = TRUE
  OpenStates <- MCOpenStates
  SignStates <- MCSignStates
  MaxSeeds = 3
  MaxServed = 3
INVARIANT OffersAreUnspent
PROPERTIES StreamsStayUnique NoncesAreBooked

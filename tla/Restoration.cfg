SPECIFICATION Spec
CONSTANTS
  a = a
  b = b
  K = K
  L = L
  x = x
  None = None
  Enter = Enter
  Devices = {a, b}
  Keys = {K, L}
  Indexes = {1, 2}
  Restorations = {x}
  Threshold = 2
  Backed <- OtherKeyB
  Knows <- OnlyK
  Paper <- Missing
  MaxFaults = 1
  MaxCuts = 1
  MaxInFlight = 2
INVARIANTS
  HeldSharesAreWrittenOrStaged
  RecordedSharesWereStored
  ConsolidationsAreOfKnownKeys
CHECK_DEADLOCK FALSE

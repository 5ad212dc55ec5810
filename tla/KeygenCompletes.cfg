SPECIFICATION FairSpec
CONSTANTS
  a = a
  b = b
  c = c
  k1 = k1
  k2 = k2
  None = None
  EmptyIndex = 3
  Devices = {a, b, c}
  Keygens = {k1}
  Members <- Everyone
  FlashFaults = FALSE
  MayCancel = FALSE
  Naming = FALSE
  MaxInFlight = 2
  MaxResets = 0
PROPERTIES
  KeygenCompletes
CHECK_DEADLOCK FALSE

SPECIFICATION Spec
CONSTANTS
  a = a
  b = b
  c = c
  k1 = k1
  k2 = k2
  None = None
  EmptyIndex = 3
  Devices = {a, b}
  Keygens = {k1, k2}
  Members <- Overlapping
  FlashFaults = TRUE
  MayCancel = TRUE
  Naming = TRUE
  MaxInFlight = 2
  MaxResets = 1
INVARIANTS
  KeysAreConfirmed
  SharesAreOfFinishedKeys
  NoOlderShareReturns
  NamesAreApproved

  
CHECK_DEADLOCK FALSE

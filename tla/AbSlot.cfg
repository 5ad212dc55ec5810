SPECIFICATION WriteSpec
CONSTANTS
  v1 = v1
  v2 = v2
  v3 = v3
  None = None
  EmptyIndex = 5
  Values <- MCValues
INVARIANT NeverStale
 

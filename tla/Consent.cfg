SPECIFICATION FairSpec
CONSTANTS
  r1 = r1
  r2 = r2
  e1 = e1
  q1 = q1
  p1 = p1
  None = None
  Ceremonies = {r1, r2, e1, q1, p1}
  Kind <- Kinds
  PromptPages <- TwoPages
  BackupPages = 2
INVARIANTS
  
  RecordedIsSeen
  SecretsAreAttended
  GrantsAreConsented
PROPERTIES
  CancelEndsTyping
CHECK_DEADLOCK FALSE

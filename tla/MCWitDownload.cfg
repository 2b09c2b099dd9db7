SPECIFICATION FairSpec
CONSTANTS
  BulckSize = 3
  MaxIds = 10
  MaxCount = 11
  Torn = Torn
  None = None
INVARIANTS
  TypeOK
  InOrder
  NoPartialFile
PROPERTY
  Returns
CHECK_DEADLOCK FALSE

SPECIFICATION Spec
CONSTANTS
  BulckSize = 2
  MaxIds = 6
  MaxCount = 3
  Torn = Torn
  None = None
INVARIANT
  AllDownloaded
CHECK_DEADLOCK FALSE

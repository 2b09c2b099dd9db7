SPECIFICATION Spec
CONSTANTS
  Name = {p1, p2}
  MaxUid = 2
  NoPod = NoPod
INVARIANT AllDeleted
CHECK_DEADLOCK FALSE

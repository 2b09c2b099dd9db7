SPECIFICATION Spec
CONSTANTS
  Item = {a, b}
  NewItem = NewItem
  Val = {new, active}
  NewVal = new
  Bad = Bad
  Torn = Torn
  Orphaned = Orphaned
  None = None
  MaxCrash = 2
PROPERTY
  Finishes

SPECIFICATION RootSpec
CONSTANTS
  Workers = {w1}
  Task = {t1, t2, t3, t4}
  Owner = Owner
  Starter = Starter
  None = None
INVARIANT
  Backpressure
PROPERTIES
  AddReturns
  CancelQuiesces
CHECK_DEADLOCK FALSE

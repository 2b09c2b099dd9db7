SPECIFICATION FairSpec
CONSTANTS
  Workers = {w1, w2}
  Task = {t1, t2, t3}
  Owner = Owner
  Starter = Starter
  None = None
INVARIANTS
  TypeOK
  WaitSound
  NoTaskLost
  HandedOnce
PROPERTIES
  ImplementsForest
  WaitReturns

SPECIFICATION FairSpec
CONSTANTS
  i1 = i1
  s1 = s1
  Interface = {i1}
  Subnet = {s1}
  SubnetOf <- OneSubnet
  Recorder = {r1, r2}
  PoolSize = 1
  PageLimit = 1
  MaxEvent = 1
  None = None
INVARIANTS
  TypeOK
  NoOrphan
  NoGap
PROPERTIES
  CancelledEnds
  DoneStops
CHECK_DEADLOCK FALSE

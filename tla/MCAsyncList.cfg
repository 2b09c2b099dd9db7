SPECIFICATION FairSpec
CONSTANTS
  i1 = i1
  i2 = i2
  i3 = i3
  i4 = i4
  i5 = i5
  i6 = i6
  Item <- MCItem
  Call = 2
  CallOf <- MCCallOf
  Root = Root
  Nil = Nil
INVARIANTS
  TypeOK
  ChainIntact
  ReturnComplete
  LenExact
PROPERTIES
  LinksAreFinal
  InsertReturns
  ImplementsLog

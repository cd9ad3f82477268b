CONSTANTS
  t1 = t1
  t2 = t2
  c1 = c1
  r1 = r1
  mine = mine
  other = other
  none = none
  Txs <- TwoTxs
  Connects = {}
  Reads = {}
  FactoryAccount = mine
  OtherAccount = other
  None = none
  Index = 0
  MaxBlock = 2
SPECIFICATION Spec
PROPERTY NeverPhantomAgain
CHECK_DEADLOCK FALSE

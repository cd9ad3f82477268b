CONSTANTS
  t1 = t1
  t2 = t2
  c1 = c1
  r1 = r1
  mine = mine
  other = other
  none = none
  Txs <- OneTx
  Connects <- OneConnect
  Reads <- OneRead
  FactoryAccount = mine
  OtherAccount = other
  None = none
  Index = 0
  MaxBlock = 3
SPECIFICATION MCSpec
INVARIANTS TypeOK ReceiptTruthful
PROPERTY LaterEventSettles
CHECK_DEADLOCK FALSE

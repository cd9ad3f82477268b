CONSTANTS
  alice = alice
  bob = bob
  ep = ep
  Addr <- MCAddr
  EntryPoint = ep
  Amounts = {0, 1, 2}
  Delays = {0, 1, 3}
  Supply = 3
  MaxUint112 = 2
  MaxUint48 = 5
  MaxNow = 4
  MaxGas = 3
SYMMETRY Accounts
SPECIFICATION Spec
INVARIANTS TypeOK Solvency StakeRecoverable
PROPERTIES LockRespected ImplementsLedger

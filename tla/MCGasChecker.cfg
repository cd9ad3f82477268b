SPECIFICATION MCSpec
CONSTANTS
  g = g
  o1 = o1
  o2 = o2
  o3 = o3
  None = None
  Checkers = {g}
  MaxTests = 2
  MaxCount = 2
  Shared = {0}
  Sponsored = {2}
  Random = {1}
  Others <- OtherCalls
  Factory = "deployer"
  Calls <- DeployCalls
  object <- ObjectOf
  contract <- ContractOf
  Contracts = {"EntryPoint", "AccountFactory", "Nothing"}
  Empty = {"Nothing"}
INVARIANTS
  TypeOK
  CreatedExist
  AllReported
  DeployedHasCode
PROPERTIES
  TestsEnd
CHECK_DEADLOCK FALSE

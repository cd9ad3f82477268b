CONSTANTS
  alice = alice
  bob = bob
  contract = contract
  simple = simple
  falcon = falcon
  People = {alice, bob}
  Unknown = {contract}
  Simple = {simple}
  Falcon = {falcon}
  EntryPoint = EntryPoint
  NoOne = NoOne
  MadeFor <- MCMadeFor
  Calls <- MCCalls
  AllCalls <- MCAllCalls
  Operations <- MCOperations
  Wealth = 1
  MaxCalls = 5
SPECIFICATION Spec
INVARIANTS
  TypeOK
  SpendsAsAsked
  ConfigurationKept
  BatchWhole

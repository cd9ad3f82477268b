CONSTANTS
  acct = acct
  pm = pm
  ep = ep
  agg = agg
  nobody = nobody
  sigFailed = sigFailed
  Addr <- GroupAddr
  EntryPoint = ep
  NoOne = nobody
  SigFailed = sigFailed
  Amounts = {1}
  Delays = {}
  Supply = 1
  MaxUint112 = 1
  MaxUint48 = 2
  MaxNow = 2
  MaxGas = 2
  SeqModulus = 4
  Keys = {0}
  MaxSeq = 2
  Ops <- GroupOps
  Bundles <- GroupBundles
  Deployed <- GroupDeployed
  ValidationData <- AllAnswers
  Costs = {0}
SPECIFICATION FairSpec
INVARIANTS NonceUsedOnce AllAuthorized
PROPERTY BundleEnds

CONSTANTS
  acct = acct
  pm = pm
  ep = ep
  agg = agg
  nobody = nobody
  sigFailed = sigFailed
  Addr <- PairAddr
  EntryPoint = ep
  NoOne = nobody
  SigFailed = sigFailed
  Amounts = {1}
  Delays = {}
  Supply = 3
  MaxUint112 = 2
  MaxUint48 = 2
  MaxNow = 1
  MaxGas = 3
  SeqModulus = 4
  Keys = {0}
  MaxSeq = 2
  Ops <- PairOps
  Bundles <- PairBundles
  Deployed <- PairAddr
  ValidationData <- Answers
  Costs = {0, 1, 3}
SPECIFICATION Spec
INVARIANTS TypeOK BundleSolvency EventsReplayDeposits EventTellsTruth
PROPERTY BundleComplete

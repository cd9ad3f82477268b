# Falcon-Smart-Account in TLA+

This directory models the repository's ERC-4337 EntryPoint, its accounts and their
Falcon signature check, and the off-chain code: the signer and its queue, the
deployer, the gas checker, the script that sends a Falcon operation and the decoders
that it relies on. TLC checks the models on small instances; TLAPS proves what matters
most for every value of the constants. Paths below are paths of the repository.

## 1. The system

| Part | State | Operations | Talks to |
|---|---|---|---|
| StakeManager (`contracts/core/StakeManager.sol`) | `deposits`: per address a deposit, a stake, its delay and withdraw time; the contract's balance | `receive`, `depositTo`, `addStake`, `unlockStake`, `withdrawStake`, `withdrawTo` | calls the recipient of a withdrawal, which may call back |
| NonceManager | `nonceSequenceNumber[sender][key]` | `getNonce`, `incrementNonce`, `_validateAndUpdateNonce` | EntryPoint |
| EntryPoint (`EntryPoint.sol`) | the two above, and the reentrancy guard; a bundle's `opInfos` in memory | `handleOps`, `handleAggregatedOps`, `innerHandleOp` | calls aggregators, SenderCreator and a factory, accounts, paymasters, the beneficiary; all of them may call the StakeManager and NonceManager functions back |
| SenderCreator | none | `createSender` | the factory |
| Accounts (`BaseAccount`, `FalconSimpleAccount`, `SimpleAccount`) | owner, public key, verifier, initialized, implementation | `validateUserOp`, `execute`, `executeBatch`, `initialize`, deposits, upgrades | EntryPoint, ZKNOX_falcon |
| Factory (`SimpleAccountFactory`) | the code at addresses | `createAccount`, `getAddress` | SenderCreator, proxies |
| Paymasters (`BasePaymaster`) | none beyond its deposit and stake | `validatePaymasterUserOp`, `postOp`, deposit and stake calls | EntryPoint |
| Simulations (`EntryPointSimulations`) | none kept | `simulateValidation`, `simulateHandleOp` | as EntryPoint |
| Formats (`Helpers`, `UserOperationLib`) | none | packing and parsing, gas price, hash | EntryPoint, accounts |
| Falcon (`ZKNOX_falcon`, `ZKNOX_NTT`, `HashToPoint_ZKNOX`, `ZKNOX_keccak_prng`) | the NTT's modulus, tables and `is_immutable`; the generator's counter and buffer | `verify`, `verify_opt`, `hashToPoint`, `extract`, `update`, `make_immutable` | the account |
| AASigner (`src/AASigner.ts`) | `_account`, `_isPhantom`; per call the operation, its response's listener, timer and promise | `connectAccountAddress`, `sendTransaction`, `getAddress`, `isPhantom` | a node; a sender of operations |
| Operation queue (`src/AASigner.ts`) | `queue`, `queueSize`, `lastQueueUpdate`, the interval; `sending`, shared by the process | the queueing function, `push`, `setInterval`, `cancelInterval` | a node, EntryPoint |
| Create2Factory (`src/Create2Factory.ts`) | `factoryDeployed` | `deploy`, `deployFactory` | a node, the deterministic deployer |
| Gas checker (`gascalc/GasChecker.ts`) | `createdAccounts`, `locked`, the estimates, the last result; the collector, shared by the process | the constructor, `addTestRow`, the report | a node, Create2Factory, EntryPoint |
| Falcon script (`scripts/anvil-falcon-tx.ts`) | the keys, the operation | `main` | a node, falcon-sign, the decoders, the account |
| Falcon decoders (`decode-*.js`, `investigate.js`, two functions of the script) | none | decoding of keys and signatures | falcon-sign's files |
| Other scripts (`src/runop.ts`, `deploy/`) | none | sequences of calls | all of the above |

What is hard:

* **Calls into unknown code.** A transaction is sequential, but at each call out the
  callee may call in again. What was read before the call is stale after it, and a
  revert takes back everything since some earlier point. A bundle nests three such
  points: the transaction, `innerHandleOp` and the call of the account.
* **Two loops over a bundle.** All operations are validated and their prefunds taken
  before the first is executed; refunds, fees and events have to come out right
  whoever pays, and whatever fails in between.
* **Time.** Stakes are locked by delays and operations accepted in time ranges.
* **Awaits.** The off-chain code is JavaScript: calls interleave at each `await`,
  answers are late, requests fail and take effect nevertheless, and several of them
  (a fee, a deposit, the creation of accounts, a block number) are not waited for.
* **What is checked and used later.** A simulation and the transaction, code that is
  looked for and then deployed, an account that counts as created.
* **Modular arithmetic.** The transform, the centring of coefficients and the
  rejection of words are loops whose errors show for some operands only.

The properties wanted of each part are the hazards of `PROJECT.json`, by line.

## 2. Modules

| Module | Models | Used by |
|---|---|---|
| `Wei` | `Total`, the sum of a function's values | all that count wei |
| `StakeManager` | the contract, with nested calls | `HandleOps` (INSTANCE) |
| `Ledger` | abstract: credits that are paid in, paid out and sent back | `StakeLedger` |
| `StakeLedger` | the refinement mapping: a credit is a deposit and a stake | |
| `NonceManager` | key and sequence of a nonce, `getNonce`, the check | `HandleOps` (EXTENDS) |
| `HandleOps` | bundles of the EntryPoint, composed with StakeManager and NonceManager | |
| `Accounts` | accounts, the factory and SenderCreator, under calls of users, unknown code and the EntryPoint | |
| `NTT` | `ZKNOX_NTT`'s arithmetic as functions, and the product by definition | `FalconVerifier` |
| `FalconVerifier` | a verification, and the NTT contract's storage | `FalconScript` (EXTENDS) |
| `FalconDecoders` | the decoders, and falcon-sign's encodings | `FalconScript` (INSTANCE) |
| `FalconScript` | the script's `main`, composed with the verifier and the decoders | |
| `AASigner`, `UserOpQueue` | the signer and its senders; the queues of a process | |
| `Create2Factory` | calls of `deploy`, and the chain's pool | `GasChecker` (EXTENDS) |
| `GasChecker` | gas measurements and the collector, composed with Create2Factory | |
| `*_proofs` | the theorems about the module of that name, and their lemmas; `Falcon_proofs`, about `FalconVerifier` and `FalconScript`; `GasChecker_proofs`, about `Create2Factory` too; `StakeManager_proofs` has the refinement of `StakeLedger`, `Wei_proofs` the sums | |
| `MC*` | values of the constants | |

Definitions whose comment begins with "Mutant:" change one definition the way a
plausible bug would. No specification uses them; replacing the definition that
follows with its mutant violates the property it is listed with in `PROJECT.json`.

**StakeManager.** One action per external function. A withdrawal sends wei to its
recipient in its last statement: the action pushes the world from before the call on
`frames`, and from then on any operation may be called until `RecipientReturns` pops
the frame or `RecipientReverts` goes back to it. What a revert undoes is one record,
`world`; `now` and `gas` are not undone. `logged` and `lockedUntil` are history. A
call costs one of `MaxGas` units per transaction: without some bound nesting would be
infinite, and a real transaction has one. Solidity's checked additions and its
narrowing to `uint112` and `uint48` are kept as guards and as `Truncate`; a sum of
deposits cannot reach 2^256 since `Supply` bounds the wei there are.

**Ledger.** What is promised without deposits, stakes and delays: money comes in for a
credit and goes out of one, never more than it has, and an open payment can be sent back.
`StakeLedger` maps a StakeManager to it, `frames` to the ledgers that can be restored.

**HandleOps.** `pc` says where a bundle is: in the EntryPoint's own code (`groups`,
`validate`, `execute`, `settle`) or in a call it made (`aggregator`, `factory`,
`account`, `paymaster`, `call`, `postOp`, `beneficiary`). In a call, and between
bundles, the StakeManager's operations, `incrementNonce` and the deployment of code
may happen in any number the gas allows; `nonReentrant` is `pc = "idle"` in
`HandleBundle`. `saved` holds the worlds of the three rollback points. Gas is a
choice: an operation's cost is any of `Costs`, the checks on gas (AA26, AA36, AA95, AA51
and out of gas anywhere) may fail at their places. The prefund of an operation is
part of its record; a cost may exceed it. An operation without `callData` has no call, and its paymaster's `postOp` all
the same.

**Accounts.** A transaction is a stack of frames; a frame knows the calls its code is still
to make (those given to `execute` and `executeBatch`, the call that `withdrawDepositTo` makes),
while unknown code makes any of `Calls`. Calls are data, so that a call back can be anything
a call can be; `AllCalls` are all that these and the operations lead to. `Runs` pushes the callee's frame, and the frame keeps the world from
before the call, which `Unwind` brings back; a caller of the repository's code then fails
too, but innerHandleOp and unknown code go on. The EntryPoint's frame goes through `create`,
`validate` and `executed` with one operation: here it is only what accounts see of it, and
`HandleOps` has the rest. A FalconSimpleAccount is deployed as in `scripts/anvil-falcon-tx.ts`, a
proxy first and `initialize` in a later transaction; the factory's proxies call `initialize` in
their constructor. `tx` and `start` are history: who asked for what, and the world before.

**FalconVerifier.** The bytes of keccak256 are named by their position in the
generator's output, which is all that `BytesInOrder` needs; the words they make are
any values of `Words`. `NTT` has no recursive operators: the passes of the transform are a
recursive function on the number of blocks or their size, a divisor of n, and the butterflies of one pass, which touch
disjoint pairs, are one function. A parameter `s` carries the contract's storage.

**FalconDecoders.** The data behind a header is a sequence of bits; `readBits` and
`LittleEndian` are the two ways in which the scripts read them, and each decoder goes through the coefficients by
a recursive function. The decoders differ in the order of bits, in the number of low bits and in
what they check; one without a look at the end does not end when no bit is set any more
(`"hangs"`). JavaScript reads zeros behind the end of a buffer.

**FalconScript.** One action per await of `main`. `DeployStack` deploys `ZKNOX_NTT` with what it finds in the code of `FalconConstants`: `Deployed(w)`, for
a second word of code w; the first word is never read, and all beyond is zero. The key is made and decoded there too,
a signature encoded by falcon-sign and decoded by the script in `Sign`, and `Simulate` and `Send`
each run a whole verification of `FalconVerifier`, of the same words: the hash of an operation
and its salt does not change. Of the operation only its signature is looked at. Meanwhile others call `initialize` (with the same verifier), `update` and
`make_immutable`; the script notices a rival's `initialize` or goes on with the account of the other's key. `Decode` is any other script that decodes a file.

**AASigner.** `at[c]` is the await a call is at. An answer is what was asked for as of
some moment between request and answer; since code, nonces and blocks only grow,
`seen` keeps the oldest possible answer and the chain has the newest. `getAddress`,
`getAccount` and `isPhantom` (`Reads`) are `syncAccount` alone. `local` says which of the two
senders the signer has: the RPC sender asks for the network once and returns when the operation was
taken; the local one waits until `handleOps` was mined, and throws when it reverted. Transactions have no `nonce` of their own
in the model, as in all callers of the repository. The chain handles bundles of one
operation; `OtherClient` stands for everything else that uses the account.

**UserOpQueue.** Code from one await to the next is one step, so `Push` takes the
operations and sets `sending`, the answers follow one by one, and `PushFails` is the
`finally` of any of them. A failed `handleOps` request may or may not have left a
transaction; `Mine` handles a whole bundle or none of it, as `HandleOps` shows.
`age` is the time since `lastQueueUpdate`, up to `IDLE_TIME`.

**Create2Factory.** `at[c]` is the request that call c of `deploy` waits for. A transaction is sent
in one step and mined in another; what the deployer does with it is decided when it is mined,
and so are out of gas and init code that returns no code, for which `emptied` remembers that the address is taken. The node takes the
presigned transaction once, from an account with its fee.

**GasChecker.** A test goes through the requests of `addTestRow`, and its tasks, one per account, are a
set, since they go on after the test has failed. `init[x]` and `awaits[x]` are the calls of the
collector's `init` and the promise each waits for; a collector is named by the call that
made it. A task sends to its random destination first (`Random`), and a bundle is estimated with the deposit of its senders unless a paymaster pays (`Sponsored`). Accounts come from a counter of salts, so another process makes the same ones
(`OtherCreates`). Gas figures are left out; the kept estimate remembers only whether there was an
account to measure.

## 3. Runs

| Run | Properties | Instance and why it is enough |
|---|---|---|
| `stakes` | `TypeOK`, `Solvency`, `StakeRecoverable`, `LockRespected`, `ImplementsLedger` | two accounts and the contract itself, 3 wei, stakes up to 2 (so a third wei overflows the uint112), delays 0, 1 and 3, four times with `MaxUint48 = 5` (so an unlock overflows), three calls per transaction: withdrawals nest twice and one more call runs inside. Accounts are symmetric |
| `bundle` | `TypeOK`, `BundleSolvency`, `EventsReplayDeposits`, `EventTellsTruth`, `BundleComplete` | a bundle of a self-paid and a sponsored operation of one account, and one of a sponsored operation without `callData`, again and again within three outside calls; costs of 0, 1 and 3, below, at and above both prefunds; account, paymaster and EntryPoint may each be depositor, recipient and beneficiary |
| `groups` | `NonceUsedOnce`, `AllAuthorized`, `BundleEnds` | two groups with and without aggregator, an operation that creates the account, a rival with its nonce, a malformed one; answers signed (without end: `validUntil` is 0), wrong, expired, not due or left to the aggregator; two times |
| `group_index` | `FailedOpIndex`, violated | finding 1 |
| `falcon` | `TypeOK`, `BytesInOrder`, `HashUniform`, `AcceptsShort`, `SignerUnderstood`, `HashJudged`, `SimulationForetells`, `Canonical` | n = 4, q = 17 with psi = 2, the smallest field with an eighth root of unity: two passes of the transform each way, blocks of both kinds; words of six bits, of which 51 to 63 are rejected; blocks of four bytes, so five words cross block ends; signatures with coefficients at q/2, at q and above it; a bound between the norms that occur. Bytes of three bits in the decoders, every file of at most four of them, so two coefficients with and without a tail in each order; other verifications run before `main` starts, updates of the tables at any time, to right ones and to others; the words of `FalconConstants`' code are the ones that the script's stack has for tables |
| `signer_accepted` | `SignerAccepted`, violated | finding 2; the instance of `falcon` |
| `accounts` | `TypeOK`, `SpendsAsAsked`, `ConfigurationKept`, `BatchWhole` | a SimpleAccount of one person, and a FalconSimpleAccount initialized with the SimpleAccount (and another person's key) or with a contract as owner; the contract is paid by either and calls back whatever the users call, withdrawals and upgrades included; the owner may take the deposit by an `execute` of the EntryPoint; five calls per transaction, enough for a call back that withdraws and is paid; one wei each, so that the second payment of a batch may fail |
| `queue` | `TypeOK`, `OneBundleAtATime`, `HandledInOrder`, `FullQueueSent` | two queues, two senders, two operations each, bundles from two operations on |
| `queue_idle` | `IdleQueueSent`, violated | finding 3; the code's threshold of three |
| `signer` | `TypeOK`, `ReceiptTruthful`, `LaterEventSettles` | one transaction, by RPC or a local sender, and one `connectAccountAddress` or one `getAddress` at the same time (`Apart`), three blocks, another client on the same account |
| `signer_phantom` | `NeverPhantomAgain`, violated | finding 4; two transactions |
| `gascheck` | `TypeOK`, `CreatedExist`, `AllReported`, `DeployedHasCode`, `TestsEnd` | a checker with two tests of one or two accounts, the first with random destinations, the second sponsored: a second test that finds accounts, an estimate, tasks and a lock of the first; one account that another process creates as well. Or three calls of `deploy` by other code, two of one contract, on one object or two, and one whose init code returns nothing (`Apart`: the two are explored one at a time, the tests' own calls of `deploy` with either) |

In the bundle runs stakes are switched off (`Delays = {}`): `stakes` has them, and they touch
a bundle only through the balance. Deadlock is checked except in the signer's runs, which stop at `MaxBlock` when all calls have
returned, and in `gascheck`, which stops after `MaxTests` tests.

What the properties say, in short. `BundleSolvency`: at every step, inside every call,
the balance is deposits, stakes, prefunds held and fees collected. `EventsReplayDeposits`:
the events of an address add up to its deposit, so each charge and refund went to
the right payer. `EventTellsTruth`: success is reported exactly if the call's effects
stayed. `AllAuthorized` and `NonceUsedOnce`: only what was accepted by account, paymaster
and aggregator runs, once. `AcceptsShort`: a signature is accepted if and only if the
vector `(c - s2*h, s2)`, with the product by its definition, is short.
`SpendsAsAsked`: what an account loses in a transaction was asked for by its key, its
owner or its owner's owner, however the code it called calls back (accounts whose owner is
unknown code excepted); asked for is what a call spends with all the calls that it leads to, value that it passes on and
deposits that it withdraws, by `withdrawDepositTo` or by an `execute` of the EntryPoint's `withdrawTo`. `BatchWhole` counts which calls remain of a transaction: each as often as
its batch. `LaterEventSettles`: an operation's `wait()` ends however the subscription, the timer
and the late block number race, provided that the event's block is later than the number.
`ImplementsLedger`: seen as credits, every call does what the ledger allows. `SignerUnderstood`: the script
decodes falcon-sign's own key, and the account, whoever initialized it, accepts what is short by the signer's own
coefficients, from before anything was encoded, with the product that the chain's tables give; with the right tables
and the signer's key that is what the signer signed. `HashJudged`: with the tables that the script deploys, it accepts only
if the operation's hash is itself short in all coefficients but two. `SimulationForetells`: an operation that fails after a
successful simulation fails because the tables were changed. `Canonical`: what `decode-final.js`
accepts is the one encoding of what it returns, and the script's decoder, which checks
nothing, then returns the same. `DeployedHasCode`: `deploy` returns an address with code, whoever races.
`CreatedExist`: an account that counts as created is there, on its way, or has failed.
`AllReported`: the collector has every measured row, in order. `TestsEnd`: no failure holds up a
later test.

**Fairness.** `HandleOps!FairSpec`: the EVM goes on with a transaction, and called code
ends, since it has finite gas. `UserOpQueue!FairSpec`: a running interval timer ticks, the
clock moves, each request is answered or fails, and a pending transaction is mined or
fails. The timer's fairness is weak, and queues here get finitely many operations; a
queue whose ticks always met another queue's bundle could wait longer.
`AASigner!FairSpec`: the node answers the listener's requests, the subscription delivers
and the timer fires; nothing is assumed of the user or of miners. `GasChecker!Fairness`: requests are answered, what is in
the pool is mined, and the test and its tasks go on; nothing makes the user call another test.
The timer of 1 ms that waits for the lock is the weak fairness of the tasks taken together.

### Findings

1. **`FailedOp` names the wrong operation in later groups.** `EntryPoint.sol:259` passes the
   index within the group, `IEntryPoint.sol:111` promises the index in the array of operations.
   In a bundle of `handleOps` the two indices are one.
2. **The script's account refuses its own signer.** `scripts/anvil-falcon-tx.ts:87` deploys `ZKNOX_NTT` with the address
   of `FalconConstants` for both tables. That contract has its tables in storage arrays and no functions, while
   `ZKNOX_NTT.sol:151` and `187` copy the tables from its code (comments at lines 103 and 134): they get less than two
   words of code and zeros, the same for both directions. The transform is then no transform, and the simulation fails with AA24, as in `out.log:24-31` and
   `hardhat_out.log:27-33`; `test/falcon-simple-wallet.test.ts:194` expects 0 of the same stack (line 142).
   What such an account accepts depends on little but the operation's hash (`HashJudged`). An `update` with contracts whose code is the tables repairs
   it, and with the right tables `AcceptsShort` and `SignerUnderstood` say that what the signer signed is accepted.
3. **A small queue is never sent.** `AASigner.ts:131` needs size *and* idle time, the comments at
   lines 118 and 121 describe either.
4. **A deployed account may become a phantom again.** `AASigner.ts:361` against line 356.

Met while modelling, with no run of their own: `make_immutable`, of which `ZKNOX_NTT.sol:128` says that the storage
cannot be modified after it, does not stop `update`, which tests `is_immutable > 0` (line 119), as the constructor and
`make_immutable` both make it; `Create2Factory.ts:25` says that deploying again fails and has to be checked for first, while `deploy` checks itself
(line 38) and returns the address, so that it fails only for calls that race; a coefficient q of a signature is accepted
as another 0 (`ZKNOX_falcon.sol:67` speaks of malleability, and rejects only what is above q); an `initialize` that reverts when it is mined goes unnoticed by the
script (`anvil-falcon-tx.ts:105`), whose operation the other's key then refuses; an account whose creation failed counts as created, and is
not created again (`GasChecker.ts:162`, allowed for by `CreatedExist`); the filter for `UserOperationRevertReason`
(`AASigner.ts:299`) has the sender in the place of the operation's hash, so a failed
operation's `wait()` resolves with status 0 and the rejection is never reached; an
operation mined before `getBlockNumber` is answered may be taken for a previous block's,
and its `wait()` stays open; `index`, documented as the account's, is used as the nonce of the
creating operation (`AASigner.ts:392`), so an index above zero makes it invalid; `initCode` is chosen before
an await and `sender` after it; operations of a failed bundle are dropped (`AASigner.ts:138`);
a call of the deployer where there is none succeeds, and only the look at the code after it
(`Create2Factory.ts:66`) tells; the gas checker's estimate may be that of an empty address, since the creation of
accounts is not waited for (`GasChecker.ts:171`, `223`); `decode-falcon.js:63` and `decode-full.js:65` read
eight low bits per coefficient where the encoding has seven.

## 4. Proofs

For every value of the constants that satisfies the named assumptions, TLAPS proves:

| Module | Theorem | Says |
|---|---|---|
| `StakeManager_proofs` | `TypeCorrect`, `AlwaysSolvent`, `StakeNeverStranded` | `Spec => []TypeOK`, `[]Solvency`, `[]StakeRecoverable` |
| | `StakeIsLocked` | `Spec => LockRespected`, an action property |
| | `LedgerImplemented` | `Spec => ImplementsLedger`, the refinement |
| `HandleOps_proofs` | `OnlyAcceptedRun` | `Spec => []AllAuthorized` |
| | `BundleIsSolvent`, `EventsMatchDeposits` | `Spec => []BundleSolvency`, `[]EventsReplayDeposits` |
| | `NextNonce` | `getNonce` gives the one nonce that validation accepts |
| | `StorageTyped`, `EventsTellTruth`, `NoNonceTwice` | `Spec => []TypeOK`, `[]EventTellsTruth`, `[]NonceUsedOnce` |
| | `BundlesComplete` | `Spec => BundleComplete`, an action property |
| `Accounts_proofs` | `AccountsTyped`, `ConfigurationIsKept`, `BatchesAreWhole` | `Spec => []TypeOK`, `[]ConfigurationKept`, `[]BatchWhole` |
| | `SpendingIsAsked` | `Spec => []SpendsAsAsked` |
| `Falcon_proofs` | `NoByteLost`, `HashFair`, `VerifierTyped` | `Spec => []BytesInOrder`, `[]HashUniform`, `[]TypeOK` of FalconVerifier |
| | `TransformMultiplies` | NTTFW, pointwise product and NTTINV give the product modulo X^n + 1 |
| | `VerifierAccepts` | `Spec => []AcceptsShort` of FalconVerifier |
| | `SimulationTells`, `DecodersInvert`, `ScriptUnderstands` | `ScriptSpec => []SimulationForetells`, `[]Canonical`, `[]SignerUnderstood` |
| | `DeployedJudgesHash` | `ScriptSpec => []HashJudged` |
| `AASigner_proofs` | `SignerTyped`, `ReceiptsTrue` | `Spec => []TypeOK`, `[]ReceiptTruthful` |
| `UserOpQueue_proofs` | `LockHolds`, `OrderKept`, `SizeExact` | `Spec => []OneBundleAtATime`, `[]HandledInOrder`, `[]TypeOK` |
| `GasChecker_proofs` | `OneSigner`, `AccountsAccounted`, `NoRowLost` | `Spec => []TypeOK`, `[]CreatedExist`, `[]AllReported` |
| | `AddressHasCode` | `Spec => []DeployedHasCode` |
| `Wei_proofs` | `TotalUpdate`, `TotalAdded`, `TotalOneLess`, `TotalFirst` | a sum after one entry changed, after one came, after several fell by one, and as its first and the rest |

The assumptions are those in the modules themselves, and TLC evaluates them in the runs:

* `StakeManager`: addresses are finitely many and amounts natural numbers.
* `HandleOps`: a bundle's operations are in one of its groups, answers are of their type, an operation's sender,
  payer and prefund are addresses and an amount; a sequence number has a width, and nobody increments one past it
  (`NonceAssumption`: the bound `MaxSeq` is below 2^64; beyond, `getNonce` and the check come apart).
* `Accounts`: no address is of two kinds; innerHandleOp calls the account, with no value; `AllCalls` has every call
  that one of its calls leads to.
* `AASigner`, `Create2Factory`, `GasChecker`: calls, transactions and reads are told apart by their names, and so are
  the deployer and what it deploys.
* `UserOpQueue`: the sizes, whose bounds are natural numbers. `FalconVerifier`: the field is smaller than the words,
  and a storage of `ZKNOX_NTT` has a modulus, a factor and two tables of words (`StorageAssumption`): what is read beyond the end of a contract's code is zero, so any
  contract gives a table.
* `GenuineAssumption` of `FalconVerifier`: what it is for the tables to be right. n is a power of two, `nm1modq` the
  inverse of n, `psirev` has at each k a square root of `Root(k)`, which is -1 at 1 and plus or minus the entry of the parent
  elsewhere, and `psiinvrev` the inverses. The 512 entries of each table in `contracts/samples/FalconConstants.sol` satisfy
  it with q = 12289, and so do those of the runs. No state is assumed to have right tables: the chain starts with any of `Updates`, and the script deploys the code of `FalconConstants`. Nothing else is assumed of q, not that it is a prime.
* `InputsAssumption` of `FalconVerifier`: coefficients are unsigned, as a `uint256[]` has them, of any size; a decoded signature has
  n of them, as `abi.decode` makes it, and a key is an array of any length (`verify` rejects all but n).
* `DecodersAssumption` of `FalconScript`: the low bits of a coefficient and its sign are `ByteBits` bits, a key's coefficient has
  more and holds every number below q; falcon-sign's coefficients are at most `MaxValue`, and 2 * `MaxValue` < q, so a
  coefficient and its negative remain different modulo q. In the code: 7 + 1 and 14 bits, 2047 and 12289. `CodeWords`, what the second word of `FalconConstants`' code may be, are any numbers.

*StakeManager.* The invariants are not inductive by themselves: a revert restores a world of `frames`,
about which they say nothing. `Inv` says of `world` and of every saved world that it
is well typed, solvent, recoverable and that a stake without a pending unstake outlasts
its locks. A saved world is older than `now`, so each of these is stated for a time and
shown to survive time's passing (`GoodLater`). Each operation has a lemma that it takes good
worlds to good worlds; `SendGood` treats the end of both withdrawals; `NextInv` splits
on the actions. Solvency needs the sum over all addresses after one entry changed:
`Wei_proofs` proves `TotalUpdate` with `Total` defined as the cardinality of a set of
tokens, which needs no induction.

*The ledger.* With that invariant, each call of the contract is shown to be one action of the ledger
or to leave it alone: staking and unlocking move nothing, a withdrawal to the contract itself is a
transfer, any other is a payment out, which the end of the recipient's code takes or sends back.

*What may run.* `AllAuthorized` speaks of the execution only. `Inv` says what each stage has established for
the next: the loop over the groups that the groups up to `i` are settled, the validation that
the operations before `i` were accepted on the answers in `opInfos`, the execution that all were.
The world is left out of it: nothing that decides what may run is stored on the chain, which
is why the calls back (`OutsideInv`) cannot disturb it.

*The money of a bundle.* It is in three places: deposits and stakes on the chain, prefunds taken and not
settled, fees collected and not paid out. `InOrder(w)` says that a world's balance and events account for the
prefunds of the operations in `HeldNow` and the fees besides what it owes; `AtRest(w)`, that they do with nothing held.
Neither is inductive about `world` alone, because of the reverts. A revert within the bundle
(`saved.call`, `saved.inner`, the frames of withdrawals that called code began) comes back while the same prefunds
are held, so those worlds must be `InOrder`; one of the bundle, or of a withdrawal that was open when the bundle
came, comes back when nothing is, so those must be `AtRest`. `MoneyInv` says just that of
each of them. Its proof has two layers: what every operation does to a world that is in order (`ReceiveBooks`
to `SettledBooks`, each by `BooksUpdate`, which changes one record), and what every step does to
`HeldNow`: taking a prefund adds an operation (`HoldMoney`), settling one removes it (`ReleaseMoney`), every
other step leaves it or ends with nothing held.

*What a bundle leaves behind.* An event can lie only if a revert takes back the effects and not the event, or the other
way round. `Told` says of a world that an operation with an event has just one and that its nonce is used (the stored sequence
number is beyond it), that of the operations validated and not settled the nonces are used and no event has them yet,
that the operations before have their events, and that effects without an event are those of the operation being executed
at most. `ToldInv` says it of the world, and what it must be of each world that may come back. Since sequence numbers
only grow, also by `incrementNonce`, no second operation with a nonce passes the check. 
*Accounts.* A revert may bring back any world that a call in progress has saved. `IInv` orders these: each is `Later` than
the one saved before it, and the world than all; a later world has all owners and keys of an earlier one. `Principals`, who may
speak for an account, is the least set closed under owner and key, and whoever speaks for an account in a world does in
any later one (`SpeaksLater`). So it suffices that each account in the stack that has calls to make was called by somebody
who then spoke for it (`Entitled`), and that the operation's signer speaks for its sender in every saved world (`Accepted`);
`CallerSpeaks` concludes that whoever passes `_requireFromEntryPointOrOwner` or `_onlyOwner` was asked. For `TypeOK`, the
EntryPoint's balance covers all deposits, the prefund it holds and the withdrawal it is about to pay, in the world and
in every saved one (`Backed`): settling cannot take more than there is. `Pushed` and `Popped` show once and for all what a call and its end,
by return or revert, keep; each function of an account is then a step that leaves a world as it should be.

*Batches.* `BatchWhole` is about the end of a transaction; before, a batch may be half done at several depths at once, and a
revert may take back any part. `BInv` keeps accounts of it: the `Surplus` of a call is how many more of it returned than the batches
that returned call for. In the world it is what the innermost frame has made of its batch since the
surplus it found (`Square`), and in each saved world the same of the frame that made the call, but for that call, which is not back.
So a return carries the accounts over to the caller. A revert ends where a frame catches it, and such a frame is never
a batch (`BatchFrame`): its surplus is as it found it. At the end only the transaction's own frame is left, and no surplus.
`BInv` is inductive relative to `IInv`.

*Spending.* `SpendsAsAsked` compares the world with that at the transaction's start; calls, calls back and reverts come between. `SInv` gives
each call in progress its own `Allowance` for each account: the first, what the transaction was asked for; any other, what that call and
those it leads to spend of the account's money. `Fair` says that what the account lost since the call began, and what the rest of the call
still spends (`Ahead`), is within the allowance, and that there is no loss at all if the asker does not speak for the account; `Thrifty` says it of
the innermost call, and of every other one up to the call that it made, whose allowance counts as ahead. So a call hands a part of what is
ahead to the callee, a return joins the callee's accounts to the caller's (`FairChain`), and a revert leaves the caller with the world
it had when it called. Accounts for which unknown code may speak (`Captive`) may lose anything to a call back: nothing is said of what they lose, the calls that
they make have no allowance, and they remain such in later worlds (`CaptiveLater`). What a call spends is a recursion over the calls that it leads to;
`Priced` shows that it has a solution, by `RecursionOn`, and `Bill` adds it up over a batch. `SInv` is inductive relative to `IInv` and `BInv`.
The proof corrected the property: it had counted a withdrawal of the deposit only if made by `withdrawDepositTo`, and an
`execute` of `withdrawTo` exceeded that. The run now has such a call.

*Falcon.* The generator's state determines how many bytes were read, and the words so far are made of exactly those bytes, in order.
The hash is fair since the words of one coefficient r are those m*q + r with m below `WordSize \div q`: a bijection. For
`SimulationTells`, the simulation and the transaction read the same words and so compute the same hash; with the same tables
the rest is the same function of the same arguments, whatever the transform computes.

*Induction.* The library's induction takes a formula as a parameter, which the provers cannot instantiate. Stated of a set
it needs none: a set of numbers with 0 and, with each number, the next is all of them (`Induction` of `Wei_proofs`,
from `WFMin` of the library). `RecursionOn` follows: a recursion whose calls descend defines a function, here on the divisors of n or
on the coefficients up to one. Each use names its set, for instance that of the k for which the claim holds. So the model has its
recursions as recursive functions, and what they compute is proved for every size.

*The transform.* The passes of NTTFW split polynomials modulo X^2t - r^2 into those modulo X^t - r and X^t + r. `ForwardHalves` says
this of one pass, in terms of coefficients: block i is that block plus, and minus, r times the one t further on. `Cyclic` is the coefficient
of a product modulo X^t - w of two blocks. `Butterfly` is the heart: from the products of the two halves, their sum is twice the
lower half of the product of the wholes, and their difference times the inverse of r twice the upper half, modulo q. This is
what a pass of NTTINV computes (`InverseJoins`). So, by induction from blocks of one coefficient up, block i of what NTTINV has
made is t times the product of the blocks i (`JoinedAll`), at the end n times the product modulo X^n + 1, and `nm1modq` removes
the n: `TransformMultiplies`. The sums in it are folds that the library leaves open, and `SumIsSigned` shows what they come to: the difference of
two totals of `Wei_proofs`.

*The verification.* `Verification` says what a running verification knows: it has a key and a signature of n coefficients, and
its hash so far is of coefficients below q; what has returned, and not reverted, is the value of `Verify` on the storage as it still is, since a
verification is one transaction. `verify` and `verify_opt`
compute s1 through the transform, `AcceptsShort` by the definition of the product, and `VerifyIsShort` shows that the centred
coefficients in the code have the squares of the nearest representatives modulo q (`CentredNearest`, also at q itself and at q/2).

*The decoders.* `Holds` says what stands in the data from some position on; what was joined stands one part after the other (`PartsHeld`), which is what the
proofs walk along. `BinaryRead` and `ReadBinary` are the two directions for the bits of a number, `CoefficientRead` and
`CoefficientWritten` those for one coefficient of a signature, where a minus zero and too large a magnitude are what the checks keep out.
`SignatureRead`, `SignatureCanonical`, `KeyRead` and `KeyCanonical` carry them to all coefficients: the state of the decoder
after u of them is the position behind the first u parts and those coefficients (`CheckedRuns`, `PlainRuns`).

*The script.* `Printing`: what is being printed is what the decoders make of one of the files. `Understanding`: `publicKey` is the
signer's key, read by `KeyUnderstood`; the submission stands for the signer's coefficients modulo q (`SignatureUnderstood`), the
key that is verified is the account's, and so are they in the verification that runs; the storage in use is one of `Updates` or the
deployed one but for its flag. What `Verify` gives is decided by the product that NTT_MUL gives, with any tables (`VerifiedIs`), and `SameOnChain` shows that the
signer's own coefficients give the same norm. Where the tables are right and the key is the signer's, `VerifierAccepts`' invariant and `ReducedIs`, that the norm
does not change modulo q, make it the norm of the product itself (`SameReckoning`).

*The deployed tables.* They are zero but for one word. A pass of NTTINV sums pairs of coefficients into the first half of a block and multiplies their
differences by the block's word into the second, so by induction every block of what it has made is zero but for its first coefficient (`ZeroPass`), except in the last
pass, whose one word is the one that is not zero. So all coefficients of the product but the first and the middle one are zero (`ZeroInverse`),
and the norm that is checked is at least that of the hash without these two (`SigmaGrows`, `JudgesHash`).

*AASigner.* `wait()` reports what its listener found, with awaits between. The invariant says of each transaction what its
response knows: before it is made there is no listener and no receipt (`Quiet`), each call of the listener holds an event of the
operation, and asks for the reasons only if that tells of a failure (`Listeners`), a status that was settled is that of such an
event (`Settled`), and what the local sender waits for was sent, what it returned handled (`Sending`); `Prepared` says what an operation is
filled from. Events stay, and an operation does not change once its response is made.

*UserOpQueue.* The flag `sending` alone does not give `OneBundleAtATime`: the invariant says that it is set exactly
while some queue is past its `Push`. For the order, it relates what was queued, what was
taken, what is in a pending transaction and what was handled: each sender's operations
in these, one after the other, are increasing. `queueSize` is the sum of the lengths; a push takes the first operation
of several senders at once, hence `TotalOneLess`.

*GasChecker.* The parts of the invariant are what the code remembers. `Deployments`: what a call of `deploy` found and may still send.
`Counted`: a test's accounts so far. `Exclusive`: the lock has at most one holder, and only it signs. `Collected`: the calls of
`init` wait for one promise, which made one collector, and it has the rows of the tests measured, in order. `CreatedExist` is inductive.

Only model-checked:

* The violated ones: `FailedOpIndex`, `SignerAccepted`, `IdleQueueSent`, `NeverPhantomAgain`.
* Liveness under fairness: `BundleEnds`, `FullQueueSent`, `LaterEventSettles`, `TestsEnd`.

## 5. Not modelled

* **EntryPointSimulations**: for `eth_call` only; it leaves no state, and what it calls is the validation and
  execution of `HandleOps`. `FalconScript` has the simulation that the repository makes.
* **Packing, hashes and the gas price** (`UserOperationLib`, `Helpers`): they only compute. Gas and costs are choices,
  hashes are names. The sum in `gasPrice` is unchecked, but of a 128-bit number and the base fee.
* **`src/runop.ts`, `deploy/`**: straight sequences of calls; each call is in a module with every interleaving.
* **BasePaymaster's access checks, aggregators' off-chain views**: a paymaster or aggregator of `HandleOps` may do
  all that they allow, and more.
* **Legacy interfaces and test contracts**: the former have no code, the latter stand as the arbitrary callees of
  `HandleOps` and `Accounts`.
* **The functions of `ZKNOX_NTT` that take tables as arguments**, `ZKNOX_VECADDMOD`: verification does not call them.
* **The text of errors, logs and tables.**

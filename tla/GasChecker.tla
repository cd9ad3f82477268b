----------------------------- MODULE GasChecker -----------------------------
(***************************************************************************)
(* gascalc/GasChecker.ts: the gas measurements of one GasChecker g, and    *)
(* the collector that it shares with the other checkers.  Both deploy with *)
(* Create2Factory, on a chain where other processes are at work.           *)
(*                                                                         *)
(* Tests follow one another.  Within a test one task per account makes its *)
(* operation, all tasks at once; when a task fails the test fails, and the *)
(* other tasks go on, into the next test.  One method is measured, so one  *)
(* estimate is kept.  Account number i is the one created with salt i.     *)
(***************************************************************************)
EXTENDS Create2Factory, Sequences

CONSTANTS
  Checkers,  \* the constructor calls, that of g and those of the other checkers
  MaxTests,  \* calls of addTestRow, numbered from 1
  MaxCount,  \* the largest count of a test
  Shared,    \* bound: the accounts that other processes create, too
  Sponsored, \* the tests with a paymaster
  Random,    \* the tests with dest 'random'
  Others,    \* calls of deploy by other code
  None       \* undefined

Tests == 1..MaxTests
Accounts == 0..(MaxCount - 1)

(* Whoever calls init may create the collector, and then deploys EntryPoint. *)
Callers == Checkers \cup {<<"test", t>> : t \in Tests}
InitDeploy(x) == <<"init", x>>
AccountsDeploy(t) == <<"accounts", t>>

ASSUME GasCheckerAssumption ==
  /\ Shared \subseteq Accounts /\ MaxTests \in Nat /\ MaxCount \in Nat \ {0} /\ None \notin Callers
  /\ Sponsored \subseteq Tests /\ Random \subseteq Tests
  /\ Calls = {InitDeploy(x) : x \in Callers} \cup {AccountsDeploy(t) : t \in Tests} \cup Others

VARIABLES
  inst, initPromise,  \* the collector and its promise, by the call that made it
  init, awaits,     \* init[x]: where x is in init(), and awaits[x] the promise it waits for
  tables,           \* tabRows of each collector
  test,             \* the last test that was called
  stage,            \* the request it waits for, or how it ended
  count, n,         \* its count, and the account that createAccounts1 is at
  creationOps,      \* its operations that create accounts, by their accounts
  createdAccounts, locked,  \* of g
  tasks,            \* the tasks that have not ended: test, account and request
  estimate,         \* gasEstimatePerExec: what was measured, "account" or "empty"
  lastGasUsed,      \* the test that measured it
  existing,         \* the accounts that have code
  deposited,        \* the accounts with more than minDepositOrBalance
  bundles,          \* the pool: handleOps and depositTo
  outcome,          \* of the test's bundle
  dropped, done     \* history: accounts whose creation failed, tests measured

collector == <<inst, initPromise, init, awaits, tables>>
locals == <<test, stage, count, n, creationOps>>
checker == <<createdAccounts, locked, tasks, estimate, lastGasUsed>>
pool == <<existing, deposited, bundles, outcome>>
history == <<dropped, done>>
vars == <<factoryVars, collector, locals, checker, pool, history>>

Over == {"none", "done", "thrown"}

---------------------------------------------------------------------------
(* GasCheckCollector.init *)

Await(x, promise) ==
  init' = [init EXCEPT ![x] = "waiting"] /\ awaits' = [awaits EXCEPT ![x] = promise]

(* Mutant: the promise is not shared. *)
InitEach(x) ==
  IF inst # None
  THEN init' = [init EXCEPT ![x] = "done"] /\ UNCHANGED <<factoryVars, initPromise, awaits>>
  ELSE initPromise' = x /\ Await(x, x) /\ Deploy(InitDeploy(x))

GetCollector(x) ==
  IF inst # None
  THEN init' = [init EXCEPT ![x] = "done"] /\ UNCHANGED <<factoryVars, initPromise, awaits>>
  ELSE IF initPromise # None
  THEN Await(x, initPromise) /\ UNCHANGED <<factoryVars, initPromise>>
  ELSE initPromise' = x /\ Await(x, x) /\ Deploy(InitDeploy(x))

InitSettled(x) ==
  /\ init[x] = "waiting"
  /\ \/ /\ at[InitDeploy(awaits[x])] = "returned"
        /\ inst' = awaits[x] /\ init' = [init EXCEPT ![x] = "done"]
     \/ /\ at[InitDeploy(awaits[x])] = "thrown"
        /\ init' = [init EXCEPT ![x] = "failed"] /\ UNCHANGED inst
  /\ UNCHANGED <<factoryVars, initPromise, awaits, tables, locals, checker, pool, history>>

(* constructor: nothing waits for init. *)
Construct(x) ==
  /\ init[x] = "no" /\ GetCollector(x)
  /\ UNCHANGED <<inst, tables, locals, checker, pool, history>>

---------------------------------------------------------------------------
(* addTestRow, and the accounts it needs: createAccounts1. *)

AddTestRow ==
  /\ stage \in Over /\ test < MaxTests /\ \A x \in Checkers : init[x] # "no"
  /\ test' = test + 1 /\ stage' = "init" /\ count' \in 1..MaxCount
  /\ n' = 0 /\ creationOps' = {} /\ outcome' = None
  /\ GetCollector(<<"test", test'>>)
  /\ UNCHANGED <<inst, tables, checker, existing, deposited, bundles, history>>

Initialised ==
  /\ stage = "init"
  /\ \/ init[<<"test", test>>] = "done" /\ stage' = "deploy" /\ Deploy(AccountsDeploy(test))
     \/ init[<<"test", test>>] = "failed" /\ stage' = "thrown" /\ UNCHANGED factoryVars
  /\ UNCHANGED <<collector, test, count, n, creationOps, checker, pool, history>>

FactoryReady ==
  /\ stage = "deploy"
  /\ \/ at[AccountsDeploy(test)] = "returned" /\ stage' = "code"
     \/ at[AccountsDeploy(test)] = "thrown" /\ stage' = "thrown"
  /\ UNCHANGED <<factoryVars, collector, test, count, n, creationOps, checker, pool, history>>

(* Mutant: only the last operation is kept. *)
OnlyLast == {n}

WithCreation == creationOps \cup {n}

(* An account counts as created once its operation is made. *)
AccountChecked ==
  /\ stage = "code"
  /\ creationOps' = IF n \in createdAccounts \cup existing THEN creationOps ELSE WithCreation
  /\ createdAccounts' = createdAccounts \cup {n}
  /\ stage' = "balance"
  /\ UNCHANGED <<factoryVars, collector, test, count, n, locked, tasks, estimate, lastGasUsed,
                 pool, history>>

SendBundle(kind, accounts) ==
  /\ bundles' = bundles \cup {[kind |-> kind, accounts |-> accounts]}
  /\ UNCHANGED <<existing, deposited, outcome>>

(* depositTo is sent, and not waited for. *)
BalanceChecked ==
  /\ stage = "balance"
  /\ IF n \in deposited THEN UNCHANGED pool ELSE SendBundle("depositTo", {n})
  /\ n' = n + 1
  /\ stage' = IF n' < count THEN "code" ELSE "creation"
  /\ UNCHANGED <<factoryVars, collector, test, count, creationOps, checker, history>>

Senders == 0..(count - 1)

LookForEstimate == IF estimate = None THEN "estimate" ELSE "lock"

(* handleOps(creationOps) is sent, unless an account was created meanwhile,  *)
(* and not waited for; then the tasks start, with a random dest's balance or *)
(* with the estimate that there may be.                                      *)
CreationSent ==
  /\ stage = "creation" /\ creationOps \cap existing = {}
  /\ IF creationOps = {} THEN UNCHANGED pool ELSE SendBundle("create", creationOps)
  /\ stage' = "ops"
  /\ tasks' = tasks \cup {[test |-> test, account |-> a, waits |->
                             IF test \in Random THEN "dest" ELSE LookForEstimate] : a \in Senders}
  /\ UNCHANGED <<factoryVars, collector, test, count, n, creationOps, createdAccounts, locked,
                 estimate, lastGasUsed, history>>

(* A request of the test itself is rejected. *)
Throws ==
  /\ stage \in {"code", "balance", "creation", "bundle", "sending"}
  /\ stage' = "thrown"
  /\ dropped' = IF stage \in {"bundle", "sending"} THEN dropped ELSE dropped \cup creationOps
  /\ UNCHANGED <<factoryVars, collector, test, count, n, creationOps, checker, pool, done>>

---------------------------------------------------------------------------
(* runTest: the tasks. *)

NextRequest(k, request) == tasks' = (tasks \ {k}) \cup {[k EXCEPT !.waits = request]}

(* The random dest has a balance, or was sent one. *)
Replenish(k) ==
  /\ k.waits = "dest" /\ NextRequest(k, LookForEstimate)
  /\ UNCHANGED <<factoryVars, collector, locals, createdAccounts, locked, estimate, lastGasUsed, pool, history>>

Estimate(k) ==
  /\ k.waits = "estimate" /\ NextRequest(k, "lock")
  /\ estimate' = IF k.account \in existing THEN "account" ELSE "empty"
  /\ UNCHANGED <<factoryVars, collector, locals, createdAccounts, locked, lastGasUsed, pool, history>>

(* Mutant: a task of a later test does not look at the lock. *)
FreeOrLater(k) == ~locked \/ k.test > 1

Free(k) == ~locked

Lock(k) ==
  /\ k.waits = "lock" /\ Free(k)
  /\ locked' = TRUE /\ NextRequest(k, "sign")
  /\ UNCHANGED <<factoryVars, collector, locals, createdAccounts, estimate, lastGasUsed, pool, history>>

(* Mutant: the lock is released only when signing succeeds. *)
UnlockedOnSuccess(k) == locked

UnlockedAfter(k) == locked /\ k.waits # "sign"

(* Promise.all resolves with the last operation. *)
Signed(k) ==
  /\ k.waits = "sign"
  /\ locked' = FALSE /\ tasks' = tasks \ {k}
  /\ stage' = IF stage = "ops" /\ \A other \in tasks' : other.test # test THEN "bundle" ELSE stage
  /\ UNCHANGED <<factoryVars, collector, test, count, n, creationOps, createdAccounts, estimate,
                 lastGasUsed, pool, history>>

TaskFails(k) ==
  /\ k.waits \in {"dest", "estimate", "sign"}
  /\ locked' = UnlockedAfter(k) /\ tasks' = tasks \ {k}
  /\ stage' = IF stage = "ops" /\ k.test = test THEN "thrown" ELSE stage
  /\ UNCHANGED <<factoryVars, collector, test, count, n, creationOps, createdAccounts, estimate,
                 lastGasUsed, pool, history>>

(* estimateGas.handleOps, rejected unless every operation would be accepted *)
(* and is paid for, by the paymaster or by its sender.                      *)
BundleEstimated ==
  /\ stage = "bundle" /\ Senders \subseteq existing
  /\ test \in Sponsored \/ Senders \subseteq deposited
  /\ stage' = "sending"
  /\ UNCHANGED <<factoryVars, collector, test, count, n, creationOps, checker, pool, history>>

BundleSent ==
  /\ stage = "sending"
  /\ SendBundle("measured", Senders)
  /\ stage' = "mining"
  /\ UNCHANGED <<factoryVars, collector, test, count, n, creationOps, checker, history>>

(* The receipt, its checks, and addRow. *)
Measured ==
  /\ stage = "mining" /\ outcome # None
  /\ IF outcome = "success"
     THEN /\ stage' = "done" /\ lastGasUsed' = test /\ done' = done \cup {test}
          /\ tables' = [tables EXCEPT ![inst] = Append(@, [test |-> test, previous |-> lastGasUsed])]
     ELSE stage' = "thrown" /\ UNCHANGED <<lastGasUsed, tables, done>>
  /\ UNCHANGED <<factoryVars, inst, initPromise, init, awaits, test, count, n, creationOps,
                 createdAccounts, locked, tasks, estimate, pool, dropped>>

(* What doneTable reports. *)
Report == tables[inst]

---------------------------------------------------------------------------
(* The chain, and other processes: they use the same keys and salts, which *)
(* come from a counter, and so make the same contracts and accounts.       *)

DepositMined(b) ==
  /\ b.kind = "depositTo"
  /\ deposited' = deposited \cup b.accounts
  /\ UNCHANGED <<existing, outcome, dropped>>

CreationMined(b) ==
  /\ b.kind = "create"
  /\ IF b.accounts \cap existing = {}
     THEN existing' = existing \cup b.accounts /\ UNCHANGED dropped
     ELSE dropped' = dropped \cup b.accounts /\ UNCHANGED existing
  /\ UNCHANGED <<deposited, outcome>>

MeasuredMined(b) ==
  /\ b.kind = "measured"
  /\ outcome' \in {"success", "failure"}
  /\ deposited' \in {deposited} \cup {deposited \ b.accounts : t \in {test} \ Sponsored}
  /\ UNCHANGED <<existing, dropped>>

BundleMined(b) ==
  /\ bundles' = bundles \ {b}
  /\ DepositMined(b) \/ CreationMined(b) \/ MeasuredMined(b)
  /\ UNCHANGED <<factoryVars, collector, locals, checker, done>>

OtherCreates(a) ==
  /\ a \notin existing
  /\ existing' = existing \cup {a}
  /\ UNCHANGED <<factoryVars, collector, locals, checker, deposited, bundles, outcome, history>>

FactoryOnly(A) == A /\ UNCHANGED <<collector, locals, checker, pool, history>>

TestSteps ==
  \/ Initialised \/ FactoryReady \/ AccountChecked \/ BalanceChecked
  \/ CreationSent \/ BundleEstimated \/ BundleSent \/ Measured

TaskSteps(k) == Replenish(k) \/ Estimate(k) \/ Lock(k) \/ Signed(k)

Init ==
  /\ FactoryInit
  /\ inst = None /\ initPromise = None
  /\ init = [x \in Callers |-> "no"]
  /\ awaits = [x \in Callers |-> None]
  /\ tables = [x \in Callers |-> <<>>]
  /\ test = 0 /\ stage = "none" /\ count = 0 /\ n = 0 /\ creationOps = {}
  /\ createdAccounts = {} /\ locked = FALSE /\ tasks = {}
  /\ estimate = None /\ lastGasUsed = None
  /\ existing = {} /\ deposited = {} /\ bundles = {} /\ outcome = None
  /\ dropped = {} /\ done = {}

Next ==
  \/ FactoryOnly(FactoryNext) \/ \E c \in Others : FactoryOnly(Deploy(c))
  \/ \E x \in Checkers : Construct(x)
  \/ \E x \in Callers : InitSettled(x)
  \/ AddTestRow \/ TestSteps \/ Throws
  \/ \E k \in tasks : TaskSteps(k) \/ TaskFails(k)
  \/ \E b \in bundles : BundleMined(b)
  \/ \E a \in Shared : OtherCreates(a)

Spec == Init /\ [][Next]_vars

(* The node answers what is asked and mines what is sent. *)
Fairness ==
  /\ WF_vars(FactoryOnly(\E c \in Calls : Answer(c) \/ Rejected(c)))
  /\ WF_vars(FactoryOnly(\E tx \in txs : Mined(tx)) \/ \E b \in bundles : BundleMined(b))
  /\ WF_vars(\E x \in Callers : InitSettled(x))
  /\ WF_vars(TestSteps \/ Throws)
  /\ WF_vars(\E k \in tasks : TaskSteps(k))

FairSpec == Spec /\ Fairness

---------------------------------------------------------------------------
(***************************************************************************)
(* One task at a time, of this test or of a failed one, signs its          *)
(* operation, and only under the lock.                                     *)
(***************************************************************************)
TypeOK ==
  /\ inst \in Callers \cup {None} /\ estimate \in {None, "account", "empty"}
  /\ test \in 0..MaxTests /\ n \in 0..count /\ count \in 0..MaxCount
  /\ Cardinality({k \in tasks : k.waits = "sign"}) <= IF locked THEN 1 ELSE 0

(***************************************************************************)
(* "create accounts up to this counter" (createAccounts1), as far as it    *)
(* goes: an account that counts as created is there, or its creation is    *)
(* about to be sent, in the pool, or has failed.                           *)
(***************************************************************************)
InPool == UNION {b.accounts : b \in {tx \in bundles : tx.kind = "create"}}

AboutToBeSent == IF stage \in {"code", "balance", "creation"} THEN creationOps ELSE {}

CreatedExist == createdAccounts \subseteq existing \cup InPool \cup AboutToBeSent \cup dropped

(***************************************************************************)
(* No measured row is lost, although every checker and every test calls    *)
(* init and the first calls race: the collector has a row of every test    *)
(* that was measured, in their order, each compared with the one before.   *)
(***************************************************************************)
AllReported ==
  inst # None =>
    /\ {Report[i].test : i \in DOMAIN Report} = done
    /\ \A i \in DOMAIN Report : Report[i].previous = IF i = 1 THEN None ELSE Report[i - 1].test

(***************************************************************************)
(* Every test ends, in a row or in an error: no failure, not even of a     *)
(* task that holds the lock, leaves a later test waiting.                  *)
(***************************************************************************)
TestsEnd == \A t \in Tests : test = t ~> test # t \/ stage \in Over
============================================================================

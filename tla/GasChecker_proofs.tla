-------------------------- MODULE GasChecker_proofs --------------------------
(***************************************************************************)
(* Proofs about GasChecker and the Create2Factory calls that it runs, for  *)
(* any number of checkers, tests, accounts, deployments and objects.       *)
(*                                                                         *)
(* The invariant has a part for each thing that the code remembers:        *)
(*   Deployments  what a call of deploy found;                             *)
(*   Counted      how far a test has come with its accounts;               *)
(*   Exclusive    the tasks and the lock;                                  *)
(*   Collected    the promise of init, the collector and its rows;         *)
(*   CreatedExist the accounts, which needs no strengthening.              *)
(***************************************************************************)
EXTENDS GasChecker, SequenceTheorems, FiniteSetTheorems, TLAPS

Deployments ==
  /\ factoryDeployed \in [Objects -> BOOLEAN]
  /\ DOMAIN at = Calls
  /\ DeployedHasCode

Counted ==
  /\ test \in 0..MaxTests /\ count \in 0..MaxCount /\ n \in 0..count
  /\ stage \in {"init", "deploy"} => test # 0 /\ n = 0 /\ count # 0
  /\ stage \in {"code", "balance"} => n < count

Task == [test : 0..MaxTests, account : Accounts, waits : {"dest", "estimate", "lock", "sign"}]

(* A task that signs has the lock, and no other task signs. *)
Exclusive ==
  /\ tasks \subseteq Task /\ locked \in BOOLEAN /\ estimate \in {None, "account", "empty"}
  /\ \A k \in tasks : k.waits = "sign" =>
       locked /\ \A other \in tasks : other.waits = "sign" => other = k

(* A test past init has the collector. *)
Collecting == {"deploy", "code", "balance", "creation", "ops", "bundle", "sending", "mining"}

Row == [test : 0..MaxTests, previous : 0..MaxTests \cup {None}]

(* Rows in the order of the tests measured, the last of them last. *)
Chained(rows, tests, last) ==
  /\ {rows[i].test : i \in DOMAIN rows} = tests
  /\ \A i \in DOMAIN rows : rows[i].previous = IF i = 1 THEN None ELSE rows[i - 1].test
  /\ last = IF rows = <<>> THEN None ELSE rows[Len(rows)].test

(* There is one promise, all wait for it, and the collector is what it      *)
(* gives: until then there is no row, and afterwards no other collector.    *)
Collected ==
  /\ initPromise \in Callers \cup {None} /\ inst \in {None, initPromise}
  /\ DOMAIN init = Callers /\ awaits \in [Callers -> Callers \cup {None}]
  /\ tables \in [Callers -> Seq(Row)] /\ lastGasUsed \in 0..MaxTests \cup {None}
  /\ \A x \in Callers : init[x] = "waiting" => awaits[x] = initPromise /\ initPromise # None
  /\ \A x \in Callers : init[x] = "done" => inst # None
  /\ stage \in Collecting => inst # None
  /\ inst = None => done = {} /\ lastGasUsed = None /\ \A x \in Callers : tables[x] = <<>>
  /\ inst # None => Chained(Report, done, lastGasUsed)

IInv == Deployments /\ Counted /\ Exclusive /\ Collected /\ CreatedExist

---------------------------------------------------------------------------
(* Each part, where its variables are left alone. *)

LEMMA DeploymentsKept ==
  Deployments /\ UNCHANGED factoryVars => Deployments'
BY DEF Deployments, DeployedHasCode, factoryVars

LEMMA CountedKept ==
  Counted /\ UNCHANGED <<test, count, n>> /\ stage' \in {stage} \cup (Collecting \ {"deploy", "code", "balance"}) \cup Over
    => Counted'
BY DEF Counted, Collecting, Over

LEMMA ExclusiveKept ==
  Exclusive /\ UNCHANGED <<tasks, locked, estimate>> => Exclusive'
BY DEF Exclusive

LEMMA CollectedKept ==
  Collected /\ UNCHANGED <<collector, lastGasUsed, done>>
    /\ (stage' \in Collecting => stage \in Collecting)
    => Collected'
BY DEF Collected, collector, Report

LEMMA CreatedKept ==
  CreatedExist /\ UNCHANGED <<createdAccounts, creationOps>>
    /\ existing \subseteq existing' /\ dropped \subseteq dropped' /\ InPool \subseteq InPool'
    /\ (stage \in {"code", "balance", "creation"} => stage' \in {"code", "balance", "creation"})
    => CreatedExist'
BY DEF CreatedExist, AboutToBeSent

LEMMA InPoolKept == bundles \subseteq bundles' => InPool \subseteq InPool'
BY DEF InPool

---------------------------------------------------------------------------
(* Create2Factory *)

LEMMA GoTo ==
  ASSUME NEW c \in Calls, NEW stg, DOMAIN at = Calls, Go(c, stg)
  PROVE  DOMAIN at' = Calls /\ at'[c] = stg /\ \A d \in Calls \ {c} : at'[d] = at[d]
BY DEF Go

(* A call takes a step, and returns where the contract is. *)
LEMMA DeployStep ==
  ASSUME Deployments, NEW c \in Calls, NEW stg, Go(c, stg), UNCHANGED code,
         factoryDeployed' \in [Objects -> BOOLEAN],
         \A o \in Objects : factoryDeployed'[o] => factoryDeployed[o] \/ Factory \in code,
         stg = "returned" => contract[c] \in code
  PROVE  Deployments'
<1>1. DOMAIN at' = Calls /\ at'[c] = stg /\ \A d \in Calls \ {c} : at'[d] = at[d]
  BY GoTo DEF Deployments
<1>2. DeployedHasCode'
  BY <1>1 DEF Deployments, DeployedHasCode
<1>3. QED  BY <1>1, <1>2 DEF Deployments

LEMMA DeployInv ==
  ASSUME Deployments, NEW c \in Calls, Deploy(c)
  PROVE  Deployments'
<1>1. (Go(c, "code") \/ Go(c, "factory")) /\ UNCHANGED <<code, factoryDeployed>>
  BY DEF Deploy
<1>2. factoryDeployed \in [Objects -> BOOLEAN]
  BY DEF Deployments
<1>3. QED  BY <1>1, <1>2, DeployStep

LEMMA AnswerInv ==
  ASSUME Deployments, NEW c \in Calls, Answer(c) \/ Rejected(c)
  PROVE  Deployments'
<1>1. factoryDeployed \in [Objects -> BOOLEAN] /\ object[c] \in Objects
  BY DEF Deployments, Objects
<1>2. ASSUME NEW missing \in {"fund", "thrown"}, IsFactoryDeployed(c, missing)
      PROVE  Deployments'
  <2>1. factoryDeployed' = [factoryDeployed EXCEPT ![object[c]] = factoryDeployed[object[c]] \/ Factory \in code]
    BY <1>2 DEF IsFactoryDeployed
  <2>2. /\ factoryDeployed' \in [Objects -> BOOLEAN]
        /\ \A o \in Objects : factoryDeployed'[o] => factoryDeployed[o] \/ Factory \in code
    BY <1>1, <2>1
  <2>3. UNCHANGED code /\ (Go(c, "code") \/ Go(c, missing))
    BY <1>2 DEF IsFactoryDeployed
  <2>4. QED  BY <1>2, <2>2, <2>3, DeployStep
<1>3. CASE FactoryChecked(c) \/ FactoryWaited(c)
  BY <1>2, <1>3 DEF FactoryChecked, FactoryWaited
<1>4. CASE \/ Fund(c) \/ SendFactory(c) \/ CodeChecked(c) \/ Estimated(c) \/ SendDeployment(c)
           \/ DeploymentWaited(c) \/ DeploymentChecked(c) \/ Rejected(c)
  <2>1. UNCHANGED <<code, factoryDeployed>>
    BY <1>4 DEF Fund, SendFactory, CodeChecked, Estimated, SendDeployment, DeploymentWaited,
                DeploymentChecked, Rejected
  <2>2. ASSUME NEW stg, Go(c, stg), stg = "returned" => contract[c] \in code PROVE Deployments'
    BY <1>1, <2>1, <2>2, DeployStep
  <2>3. CASE Fund(c) \/ SendFactory(c) \/ SendDeployment(c)
    <3>1. Go(c, "sleep") \/ Go(c, "factory wait") \/ Go(c, "thrown") \/ Go(c, "wait")
      BY <2>3 DEF Fund, SendFactory, SendDeployment
    <3>2. QED  BY <2>2, <3>1
  <2>4. CASE CodeChecked(c) \/ DeploymentChecked(c)
    <3>1. \/ Go(c, "returned") /\ contract[c] \in code
          \/ Go(c, "estimate") \/ Go(c, "send") \/ Go(c, "thrown")
      BY <2>4 DEF CodeChecked, DeploymentChecked
    <3>2. QED  BY <2>2, <3>1
  <2>5. CASE Estimated(c) \/ DeploymentWaited(c) \/ Rejected(c)
    <3>1. Go(c, "thrown") \/ Go(c, "send") \/ Go(c, "check")
      BY <2>5 DEF Estimated, DeploymentWaited, Rejected
    <3>2. QED  BY <2>2, <3>1
  <2>6. QED  BY <1>4, <2>3, <2>4, <2>5
<1>5. QED  BY <1>3, <1>4 DEF Answer

(* Mining only adds code. *)
LEMMA MinedInv ==
  ASSUME Deployments, NEW tx \in txs, Mined(tx)
  PROVE  Deployments'
<1>1. UNCHANGED <<factoryDeployed, at>> /\ code \subseteq code'
  BY DEF Mined
<1>2. QED  BY <1>1 DEF Deployments, DeployedHasCode

LEMMA FactoryInv ==
  ASSUME Deployments, FactoryNext
  PROVE  Deployments'
BY AnswerInv, MinedInv DEF FactoryNext

---------------------------------------------------------------------------
LEMMA InitInv == Init => IInv
<1> SUFFICES ASSUME Init PROVE IInv
  OBVIOUS
<1>1. Deployments
  <2>1. DeployedHasCode
    BY DEF Init, FactoryInit, DeployedHasCode, Objects
  <2>2. QED  BY <2>1 DEF Init, FactoryInit, Deployments
<1>2. Counted
  BY GasCheckerAssumption DEF GasCheckerAssumption, Init, Counted
<1>3. Exclusive
  BY DEF Init, Exclusive
<1>4. Collected
  <2>1. <<>> \in Seq(Row)
    BY EmptySeq
  <2>2. \A x \in Callers : init[x] = "no" /\ tables[x] = <<>>
    BY DEF Init
  <2>3. tables \in [Callers -> Seq(Row)] /\ awaits \in [Callers -> Callers \cup {None}]
    BY <2>1 DEF Init
  <2>4. inst = None /\ initPromise = None /\ DOMAIN init = Callers /\ stage = "none"
        /\ lastGasUsed = None /\ done = {}
    BY DEF Init
  <2>5. QED  BY <2>2, <2>3, <2>4 DEF Collected, Collecting
<1>5. CreatedExist
  BY DEF Init, CreatedExist
<1>6. QED  BY <1>1, <1>2, <1>3, <1>4, <1>5 DEF IInv

(* Every call of init waits for the one promise, or is the first. *)
LEMMA GetCollectorInv ==
  ASSUME Deployments, Collected, NEW x \in Callers, GetCollector(x),
         UNCHANGED <<inst, tables, lastGasUsed, done>>,
         stage' \in Collecting => stage \in Collecting
  PROVE  Deployments' /\ Collected'
<1>1. /\ DOMAIN init = Callers /\ awaits \in [Callers -> Callers \cup {None}]
      /\ initPromise \in Callers \cup {None} /\ inst \in {None, initPromise}
  BY DEF Collected
<1>2. Report' = Report
  BY DEF Report
<1>3. CASE inst # None
  <2>1. init' = [init EXCEPT ![x] = "done"] /\ UNCHANGED <<factoryVars, initPromise, awaits>>
    BY <1>3 DEF GetCollector
  <2>2. Deployments'
    BY <2>1, DeploymentsKept
  <2>3. DOMAIN init' = Callers /\ \A y \in Callers : init'[y] \in {init[y], "done"}
    BY <1>1, <2>1
  <2>4. Collected'
    BY <1>2, <1>3, <2>1, <2>3 DEF Collected
  <2>5. QED  BY <2>2, <2>4
<1>4. CASE inst = None /\ initPromise # None
  <2>1. Await(x, initPromise) /\ UNCHANGED <<factoryVars, initPromise>>
    BY <1>4 DEF GetCollector
  <2>2. Deployments'
    BY <2>1, DeploymentsKept
  <2>3. /\ DOMAIN init' = Callers /\ awaits' \in [Callers -> Callers \cup {None}]
        /\ \A y \in Callers : init'[y] \in {init[y], "waiting"} /\ awaits'[y] \in {awaits[y], initPromise}
        /\ init'[x] = "waiting" /\ awaits'[x] = initPromise
        /\ \A y \in Callers \ {x} : init'[y] = init[y] /\ awaits'[y] = awaits[y]
    BY <1>1, <2>1 DEF Await
  <2>4. Collected'
    BY <1>2, <1>4, <2>1, <2>3 DEF Collected
  <2>5. QED  BY <2>2, <2>4
<1>5. CASE inst = None /\ initPromise = None
  <2>1. initPromise' = x /\ Await(x, x) /\ Deploy(InitDeploy(x))
    BY <1>5 DEF GetCollector
  <2>2. InitDeploy(x) \in Calls /\ x # None
    BY GasCheckerAssumption DEF GasCheckerAssumption
  <2>3. Deployments'
    BY <2>1, <2>2, DeployInv
  <2>4. /\ DOMAIN init' = Callers /\ awaits' \in [Callers -> Callers \cup {None}]
        /\ init'[x] = "waiting" /\ awaits'[x] = x
        /\ \A y \in Callers \ {x} : init'[y] = init[y] /\ awaits'[y] = awaits[y]
    BY <1>1, <2>1 DEF Await
  <2>5. Collected'
    BY <1>2, <1>5, <2>1, <2>2, <2>4 DEF Collected
  <2>6. QED  BY <2>3, <2>5
<1>6. QED  BY <1>3, <1>4, <1>5

LEMMA InitSettledInv ==
  ASSUME Collected, NEW x \in Callers, InitSettled(x)
  PROVE  Collected'
<1>1. /\ DOMAIN init = Callers /\ init[x] = "waiting" /\ awaits[x] = initPromise /\ initPromise # None
      /\ initPromise \in Callers /\ inst \in {None, initPromise}
      /\ \/ init' = [init EXCEPT ![x] = "done"] /\ inst' = initPromise
         \/ init' = [init EXCEPT ![x] = "failed"] /\ inst' = inst
  BY DEF Collected, InitSettled
<1>2. UNCHANGED <<initPromise, awaits, tables, stage, lastGasUsed, done>>
  BY DEF InitSettled, locals, checker, history
<1>3. /\ DOMAIN init' = Callers /\ \A y \in Callers : init'[y] = "waiting" => init[y] = "waiting"
      /\ \A y \in Callers : init'[y] = "done" => init[y] = "done" \/ inst' = initPromise
      /\ inst' \in {inst, initPromise}
  BY <1>1
<1>4. inst' # None => Chained(Report', done', lastGasUsed')
  <2>1. CASE inst = None
    <3>1. inst' # None => Report' = <<>> /\ done' = {} /\ lastGasUsed' = None
      BY <1>1, <1>2, <1>3, <2>1 DEF Collected, Report
    <3>2. Chained(<<>>, {}, None)
      BY DEF Chained
    <3>3. QED  BY <3>1, <3>2
  <2>2. CASE inst # None
    <3>1. Report' = Report
      BY <1>1, <1>2, <1>3, <2>2 DEF Report
    <3>2. QED  BY <1>2, <2>2, <3>1 DEF Collected
  <2>3. QED  BY <2>1, <2>2
<1>5. QED  BY <1>1, <1>2, <1>3, <1>4 DEF Collected

LEMMA CollectorInv ==
  ASSUME IInv, (\E x \in Checkers : Construct(x)) \/ (\E x \in Callers : InitSettled(x))
  PROVE  IInv'
<1>1. UNCHANGED <<tables, locals, checker, pool, history>>
  BY DEF Construct, InitSettled
<1>2. Counted' /\ Exclusive' /\ CreatedExist'
  BY <1>1, CountedKept, ExclusiveKept, CreatedKept, InPoolKept DEF IInv, locals, checker, pool, history
<1>3. UNCHANGED <<stage, lastGasUsed, done>>
  BY <1>1 DEF locals, checker, history
<1>4. ASSUME NEW x \in Checkers, Construct(x) PROVE IInv'
  <2>1. x \in Callers /\ GetCollector(x) /\ UNCHANGED inst
    BY <1>4 DEF Callers, Construct
  <2>2. Deployments' /\ Collected'
    BY <1>1, <1>3, <2>1, GetCollectorInv DEF IInv
  <2>3. QED  BY <1>2, <2>2 DEF IInv
<1>5. ASSUME NEW x \in Callers, InitSettled(x) PROVE IInv'
  <2>1. Collected' /\ UNCHANGED factoryVars
    BY <1>5, InitSettledInv DEF IInv, InitSettled
  <2>2. QED  BY <1>2, <2>1, DeploymentsKept DEF IInv
<1>6. QED  BY <1>4, <1>5

---------------------------------------------------------------------------
(* The tests. *)

LEMMA AddTestRowInv ==
  ASSUME IInv, AddTestRow
  PROVE  IInv'
<1>1. /\ test \in 0..MaxTests /\ test < MaxTests /\ test' = test + 1 /\ MaxTests \in Nat /\ MaxCount \in Nat
      /\ count' \in 1..MaxCount /\ n' = 0 /\ stage' = "init" /\ stage \in Over /\ creationOps' = {}
      /\ GetCollector(<<"test", test'>>)
      /\ UNCHANGED <<inst, tables, checker, existing, deposited, bundles, history>>
  BY GasCheckerAssumption DEF GasCheckerAssumption, IInv, Counted, AddTestRow
<1>2. Counted'
  BY <1>1 DEF Counted
<1>3. Exclusive'
  BY <1>1, ExclusiveKept DEF IInv, checker
<1>4. CreatedExist'
  BY <1>1 DEF IInv, CreatedExist, AboutToBeSent, InPool, Over, checker, history
<1>5. Deployments' /\ Collected'
  <2>1. test' \in Tests
    BY <1>1 DEF Tests
  <2>2. <<"test", test'>> \in Callers
    BY <2>1 DEF Callers
  <2>3. stage' \notin Collecting /\ UNCHANGED <<inst, tables, lastGasUsed, done>>
    BY <1>1 DEF Collecting, checker, history
  <2>4. QED  BY <1>1, <2>2, <2>3, GetCollectorInv DEF IInv
<1>6. QED  BY <1>2, <1>3, <1>4, <1>5 DEF IInv

LEMMA SetupInv ==
  ASSUME IInv, Initialised \/ FactoryReady
  PROVE  IInv'
<1>1. UNCHANGED <<collector, test, count, n, creationOps, checker, pool, history>>
  BY DEF Initialised, FactoryReady
<1>2. /\ stage \in {"init", "deploy"} /\ stage' \in {"deploy", "code", "thrown"}
      /\ stage = "init" => stage' \in {"deploy", "thrown"}
  BY DEF Initialised, FactoryReady
<1>3. test \in Tests /\ <<"test", test>> \in Callers
  <2>1. test \in Tests
    BY <1>2, GasCheckerAssumption DEF GasCheckerAssumption, IInv, Counted, Tests
  <2>2. QED  BY <2>1 DEF Callers
<1>4. stage' \in Collecting => inst # None
  <2>1. CASE Initialised
    <3>1. CASE stage' = "thrown"
      BY <3>1 DEF Collecting
    <3>2. CASE init[<<"test", test>>] = "done"
      BY <1>3, <3>2 DEF IInv, Collected
    <3>3. QED  BY <2>1, <3>1, <3>2 DEF Initialised
  <2>2. CASE FactoryReady
    BY <2>2 DEF FactoryReady, IInv, Collected, Collecting
  <2>3. QED  BY <2>1, <2>2
<1>5. Counted'
  <2>1. stage' \in {"code", "balance"} => n < count
    BY <1>2 DEF IInv, Counted
  <2>2. QED  BY <1>1, <1>2, <2>1 DEF IInv, Counted
<1>6. Exclusive' /\ CreatedExist'
  BY <1>1, <1>2, ExclusiveKept, CreatedKept, InPoolKept DEF IInv, checker, pool, history
<1>7. Collected'
  BY <1>1, <1>4 DEF IInv, Collected, Report, collector, checker, history
<1>8. Deployments'
  <2>1. CASE UNCHANGED factoryVars
    BY <2>1, DeploymentsKept DEF IInv
  <2>2. CASE Deploy(AccountsDeploy(test))
    <3>1. AccountsDeploy(test) \in Calls
      BY <1>3, GasCheckerAssumption DEF GasCheckerAssumption
    <3>2. QED  BY <2>2, <3>1, DeployInv DEF IInv
  <2>3. QED  BY <2>1, <2>2 DEF Initialised, FactoryReady
<1>9. QED  BY <1>5, <1>6, <1>7, <1>8 DEF IInv

LEMMA AccountsInv ==
  ASSUME IInv, AccountChecked \/ BalanceChecked \/ CreationSent
  PROVE  IInv'
<1>1. /\ UNCHANGED <<factoryVars, collector, test, count, locked, estimate, lastGasUsed, existing, history>>
      /\ stage \in {"code", "balance", "creation"} /\ inst # None
      /\ test \in 0..MaxTests /\ count \in 0..MaxCount /\ n \in 0..count /\ MaxCount \in Nat
      /\ stage \in {"code", "balance"} => n < count
  BY GasCheckerAssumption DEF GasCheckerAssumption, AccountChecked, BalanceChecked, CreationSent, SendBundle, pool, checker,
     IInv, Collected, Collecting, Counted
<1>2. Deployments'
  BY <1>1, DeploymentsKept DEF IInv
<1>3. Collected'
  BY <1>1 DEF IInv, Collected, Report, collector, history
<1>4. Counted'
  <2>1. CASE AccountChecked
    BY <1>1, <2>1 DEF AccountChecked, Counted
  <2>2. CASE BalanceChecked
    <3>1. n' = n + 1 /\ stage' = IF n' < count THEN "code" ELSE "creation"
      BY <2>2 DEF BalanceChecked
    <3>2. n < count
      BY <1>1, <2>2 DEF BalanceChecked
    <3>3. n' \in 0..count
      BY <1>1, <3>1, <3>2
    <3>4. QED  BY <1>1, <3>1, <3>3 DEF Counted
  <2>3. CASE CreationSent
    BY <1>1, <2>3 DEF CreationSent, Counted
  <2>4. QED  BY <2>1, <2>2, <2>3
<1>5. Exclusive'
  <2>1. CASE UNCHANGED tasks
    BY <1>1, <2>1, ExclusiveKept DEF IInv
  <2>2. CASE CreationSent
    <3> DEFINE first == IF test \in Random THEN "dest" ELSE LookForEstimate
               new == {[test |-> test, account |-> a, waits |-> first] : a \in Senders}
    <3>1. tasks' = tasks \cup new
      BY <2>2 DEF CreationSent
    <3>2. Senders \subseteq Accounts
      BY <1>1 DEF Senders, Accounts
    <3>3. \A k \in new : k \in Task /\ k.waits # "sign"
      <4>1. first \in {"dest", "estimate", "lock"}
        BY DEF LookForEstimate
      <4> HIDE DEF first
      <4>2. QED  BY <1>1, <3>2, <4>1 DEF Task
    <3> HIDE DEF new
    <3>4. QED  BY <1>1, <3>1, <3>3 DEF IInv, Exclusive
  <2>3. QED  BY <2>1, <2>2 DEF AccountChecked, BalanceChecked, checker
<1>6. CreatedExist'
  <2>1. CASE AccountChecked
    <3>1. /\ createdAccounts' = createdAccounts \cup {n}
          /\ creationOps' = IF n \in createdAccounts \cup existing THEN creationOps ELSE creationOps \cup {n}
          /\ stage = "code" /\ stage' = "balance" /\ UNCHANGED <<pool, history>>
      BY <2>1 DEF AccountChecked, WithCreation
    <3>2. AboutToBeSent' = creationOps' /\ AboutToBeSent = creationOps /\ InPool' = InPool
      BY <3>1 DEF AboutToBeSent, InPool, pool
    <3>3. QED  BY <3>1, <3>2 DEF IInv, CreatedExist, pool, history
  <2>2. CASE BalanceChecked
    <3>1. /\ UNCHANGED <<createdAccounts, existing, dropped, creationOps>> /\ bundles \subseteq bundles'
          /\ stage' \in {"code", "creation"}
      BY <2>2 DEF BalanceChecked, SendBundle, checker, pool, history
    <3>2. QED  BY <3>1, CreatedKept, InPoolKept DEF IInv
  <2>3. CASE CreationSent
    <3>1. /\ UNCHANGED <<createdAccounts, existing, dropped>> /\ bundles \subseteq bundles'
          /\ creationOps = {} \/ bundles' = bundles \cup {[kind |-> "create", accounts |-> creationOps]}
          /\ stage = "creation"
      BY <2>3 DEF CreationSent, SendBundle, checker, pool, history
    <3>2. creationOps \subseteq InPool'
      <4>1. CASE creationOps = {}
        BY <4>1
      <4>2. CASE bundles' = bundles \cup {[kind |-> "create", accounts |-> creationOps]}
        <5> DEFINE b == [kind |-> "create", accounts |-> creationOps]
        <5>1. b \in bundles' /\ b.kind = "create" /\ b.accounts = creationOps
          BY <4>2
        <5> HIDE DEF b
        <5>2. QED  BY <5>1 DEF InPool
      <4>3. QED  BY <3>1, <4>1, <4>2
    <3>3. InPool \subseteq InPool' /\ AboutToBeSent = creationOps
      BY <3>1, InPoolKept DEF AboutToBeSent
    <3>4. QED  BY <3>1, <3>2, <3>3 DEF IInv, CreatedExist
  <2>4. QED  BY <2>1, <2>2, <2>3
<1>7. QED  BY <1>2, <1>3, <1>4, <1>5, <1>6 DEF IInv

LEMMA BundleInv ==
  ASSUME IInv, BundleEstimated \/ BundleSent \/ Throws
  PROVE  IInv'
<1>1. /\ UNCHANGED <<factoryVars, collector, test, count, n, creationOps, checker, existing, done>>
      /\ bundles \subseteq bundles' /\ dropped \subseteq dropped'
      /\ stage' \in {"sending", "mining", "thrown"} /\ (stage' \in Collecting => stage \in Collecting)
  BY DEF BundleEstimated, BundleSent, SendBundle, Throws, pool, history, Collecting
<1>2. Deployments' /\ Counted' /\ Exclusive' /\ Collected'
  <2>1. stage' \in {stage} \cup (Collecting \ {"deploy", "code", "balance"}) \cup Over
    BY <1>1 DEF Collecting, Over
  <2>2. QED  BY <1>1, <2>1, DeploymentsKept, CountedKept, ExclusiveKept, CollectedKept DEF IInv, checker
<1>3. CreatedExist'
  <2>1. CASE stage \in {"code", "balance", "creation"}
    <3>1. AboutToBeSent = creationOps /\ dropped' = dropped \cup creationOps
      BY <2>1 DEF AboutToBeSent, BundleEstimated, BundleSent, Throws
    <3>2. InPool \subseteq InPool'
      BY <1>1, InPoolKept
    <3>3. QED  BY <1>1, <3>1, <3>2 DEF IInv, CreatedExist, checker
  <2>2. CASE stage \notin {"code", "balance", "creation"}
    BY <1>1, <2>2, CreatedKept, InPoolKept DEF IInv, checker
  <2>3. QED  BY <2>1, <2>2
<1>4. QED  BY <1>2, <1>3 DEF IInv

(* A row is added with what was measured before. *)
LEMMA ChainedAppend ==
  ASSUME NEW rows \in Seq(Row), NEW tests, NEW last, Chained(rows, tests, last),
         NEW row \in Row, row.previous = last
  PROVE  Chained(Append(rows, row), tests \cup {row.test}, row.test)
<1> DEFINE new == Append(rows, row)
           len == Len(rows)
<1>1. /\ new \in Seq(Row) /\ Len(new) = len + 1 /\ new[len + 1] = row /\ len \in Nat
      /\ \A i \in 1..len : new[i] = rows[i]
  BY AppendProperties, LenProperties
<1>2. DOMAIN new = 1..(len + 1) /\ DOMAIN rows = 1..len /\ new # <<>>
  BY <1>1, LenProperties, EmptySeq
<1>3. rows = <<>> <=> len = 0
  BY EmptySeq, LenProperties
<1> HIDE DEF new, len
<1>4. \A i \in DOMAIN new : i \in DOMAIN rows \/ i = len + 1
  BY <1>1, <1>2
<1>5. {new[i].test : i \in DOMAIN new} = tests \cup {row.test}
  <2>1. {rows[i].test : i \in DOMAIN rows} = tests
    BY DEF Chained
  <2>2. DOMAIN rows \subseteq DOMAIN new /\ len + 1 \in DOMAIN new
    BY <1>1, <1>2
  <2>3. QED  BY <1>1, <1>2, <1>4, <2>1, <2>2
<1>6. ASSUME NEW i \in DOMAIN new
      PROVE  new[i].previous = IF i = 1 THEN None ELSE new[i - 1].test
  <2>1. CASE i \in DOMAIN rows
    <3>1. i # 1 => i - 1 \in 1..len
      BY <1>1, <1>2, <2>1
    <3>2. QED  BY <1>1, <1>2, <2>1, <3>1 DEF Chained
  <2>2. CASE i = len + 1
    <3>1. CASE len = 0
      BY <1>1, <1>3, <2>2, <3>1 DEF Chained
    <3>2. CASE len # 0
      <4>1. i # 1 /\ i - 1 = len /\ len \in 1..len
        BY <1>1, <2>2, <3>2
      <4>2. last = rows[len].test
        BY <1>3, <3>2 DEF Chained, len
      <4>3. QED  BY <1>1, <2>2, <4>1, <4>2
    <3>3. QED  BY <3>1, <3>2
  <2>3. QED  BY <1>4, <2>1, <2>2
<1>7. row.test = IF new = <<>> THEN None ELSE new[Len(new)].test
  BY <1>1, <1>2
<1>8. QED  BY <1>5, <1>6, <1>7 DEF Chained, new

LEMMA MeasuredInv ==
  ASSUME IInv, Measured
  PROVE  IInv'
<1>1. /\ UNCHANGED <<factoryVars, inst, initPromise, init, awaits, test, count, n, creationOps,
                     createdAccounts, locked, tasks, estimate, pool, dropped>>
      /\ stage = "mining" /\ stage' \in {"done", "thrown"}
  BY DEF Measured
<1>2. Deployments' /\ Counted' /\ Exclusive' /\ CreatedExist'
  BY <1>1, DeploymentsKept, CountedKept, ExclusiveKept, CreatedKept, InPoolKept DEF IInv, Over, pool
<1>3. inst # None /\ stage' \notin Collecting
  BY <1>1 DEF IInv, Collected, Collecting
<1>4. Collected'
  <2>1. CASE UNCHANGED <<lastGasUsed, tables, done>>
    BY <1>1, <1>3, <2>1, CollectedKept DEF IInv, collector
  <2>2. CASE outcome = "success"
    <3> DEFINE row == [test |-> test, previous |-> lastGasUsed]
    <3>1. /\ lastGasUsed' = test /\ done' = done \cup {test}
          /\ tables' = [tables EXCEPT ![inst] = Append(tables[inst], row)]
      BY <2>2 DEF Measured
    <3>2. row \in Row /\ row.test = test /\ row.previous = lastGasUsed
      BY DEF IInv, Collected, Counted, Row
    <3> HIDE DEF row
    <3>3. /\ tables \in [Callers -> Seq(Row)] /\ inst \in Callers /\ inst' = inst
          /\ Chained(tables[inst], done, lastGasUsed)
      BY <1>1, <1>3 DEF IInv, Collected, Report
    <3>4. Append(tables[inst], row) \in Seq(Row)
      BY <3>2, <3>3, AppendProperties
    <3>5. tables' \in [Callers -> Seq(Row)] /\ Report' = Append(tables[inst], row)
      BY <3>1, <3>3, <3>4 DEF Report
    <3>6. Chained(Report', done', lastGasUsed')
      BY <3>1, <3>2, <3>3, <3>5, ChainedAppend
    <3>7. lastGasUsed' \in 0..MaxTests \cup {None}
      BY <3>1 DEF IInv, Counted
    <3>8. QED  BY <1>1, <1>3, <3>5, <3>6, <3>7 DEF IInv, Collected
  <2>3. QED  BY <2>1, <2>2 DEF Measured
<1>5. QED  BY <1>2, <1>4 DEF IInv

---------------------------------------------------------------------------
(* The tasks. *)

LEMMA TaskMoved ==
  ASSUME NEW k \in Task, NEW request \in {"estimate", "lock", "sign"}
  PROVE  LET m == [k EXCEPT !.waits = request] IN m \in Task /\ m.waits = request
BY DEF Task

LEMMA TaskInv ==
  ASSUME IInv, NEW k \in tasks, TaskSteps(k) \/ TaskFails(k)
  PROVE  IInv'
<1>1. /\ UNCHANGED <<factoryVars, collector, test, count, n, creationOps, createdAccounts, lastGasUsed,
                     pool, history>>
      /\ stage' = stage \/ (stage = "ops" /\ stage' \in {"bundle", "thrown"})
  BY DEF TaskSteps, Replenish, Estimate, Lock, Signed, TaskFails, locals
<1>2. Deployments' /\ Counted' /\ Collected' /\ CreatedExist'
  <2>1. /\ stage' \in {stage} \cup (Collecting \ {"deploy", "code", "balance"}) \cup Over
        /\ stage' \in Collecting => stage \in Collecting
        /\ stage \in {"code", "balance", "creation"} => stage' = stage
    BY <1>1 DEF Collecting, Over
  <2>2. QED  BY <1>1, <2>1, DeploymentsKept, CountedKept, CollectedKept, CreatedKept, InPoolKept
             DEF IInv, pool, history
<1>3. /\ tasks \subseteq Task /\ locked \in BOOLEAN /\ estimate \in {None, "account", "empty"}
      /\ \A j \in tasks : j.waits = "sign" => locked /\ \A other \in tasks : other.waits = "sign" => other = j
  BY DEF IInv, Exclusive
<1>4. Exclusive'
  <2>1. CASE Estimate(k)
    <3> DEFINE m == [k EXCEPT !.waits = "lock"]
    <3>1. tasks' = (tasks \ {k}) \cup {m} /\ locked' = locked /\ estimate' \in {"account", "empty"}
      BY <2>1 DEF Estimate, NextRequest
    <3>2. m \in Task /\ m.waits = "lock"
      BY <1>3, TaskMoved
    <3> HIDE DEF m
    <3>3. QED  BY <1>3, <3>1, <3>2 DEF Exclusive
  <2>2. CASE Lock(k)
    <3> DEFINE m == [k EXCEPT !.waits = "sign"]
    <3>1. tasks' = (tasks \ {k}) \cup {m} /\ locked' = TRUE /\ ~locked /\ estimate' = estimate
      BY <2>2 DEF Lock, NextRequest, Free
    <3>2. m \in Task
      BY <1>3, TaskMoved
    <3> HIDE DEF m
    <3>3. QED  BY <1>3, <3>1, <3>2 DEF Exclusive
  <2>3. CASE Signed(k)
    <3>1. tasks' = tasks \ {k} /\ locked' = FALSE /\ k.waits = "sign" /\ estimate' = estimate
      BY <2>3 DEF Signed
    <3>2. QED  BY <1>3, <3>1 DEF Exclusive
  <2>4. CASE TaskFails(k)
    <3>1. tasks' = tasks \ {k} /\ locked' = (locked /\ k.waits # "sign") /\ estimate' = estimate
      BY <2>4 DEF TaskFails, UnlockedAfter
    <3>2. locked' \in BOOLEAN
      BY <3>1
    <3>3. ASSUME NEW j \in tasks', j.waits = "sign"
          PROVE  locked' /\ \A other \in tasks' : other.waits = "sign" => other = j
      BY <1>3, <3>1, <3>3
    <3>4. QED  BY <1>3, <3>1, <3>2, <3>3 DEF Exclusive
  <2>5. CASE Replenish(k)
    <3> DEFINE m == [k EXCEPT !.waits = LookForEstimate]
    <3>1. tasks' = (tasks \ {k}) \cup {m} /\ UNCHANGED <<locked, estimate>>
      BY <2>5 DEF Replenish, NextRequest
    <3>2. m \in Task /\ m.waits # "sign"
      <4>1. LookForEstimate \in {"estimate", "lock"}
        BY DEF LookForEstimate
      <4>2. QED  BY <1>3, <4>1, TaskMoved
    <3> HIDE DEF m
    <3>3. QED  BY <1>3, <3>1, <3>2 DEF Exclusive
  <2>6. QED  BY <2>1, <2>2, <2>3, <2>4, <2>5 DEF TaskSteps
<1>5. QED  BY <1>2, <1>4 DEF IInv

---------------------------------------------------------------------------
(* The chain. *)

LEMMA ChainInv ==
  ASSUME IInv, (\E b \in bundles : BundleMined(b)) \/ (\E a \in Shared : OtherCreates(a))
  PROVE  IInv'
<1>1. UNCHANGED <<factoryVars, collector, locals, checker, done>>
  BY DEF BundleMined, OtherCreates, history
<1>2. Deployments' /\ Counted' /\ Exclusive' /\ Collected'
  BY <1>1, DeploymentsKept, CountedKept, ExclusiveKept, CollectedKept DEF IInv, locals, checker
<1>3. CreatedExist'
  <2>1. UNCHANGED <<createdAccounts, creationOps, stage>> /\ AboutToBeSent' = AboutToBeSent
    BY <1>1 DEF checker, locals, AboutToBeSent
  <2>2. ASSUME NEW b \in bundles, BundleMined(b) PROVE CreatedExist'
    <3>1. existing \subseteq existing' /\ dropped \subseteq dropped'
      BY <2>2 DEF BundleMined, DepositMined, CreationMined, MeasuredMined
    <3>2. b.kind = "create" => b.accounts \subseteq existing' \cup dropped'
      BY <2>2 DEF BundleMined, DepositMined, CreationMined, MeasuredMined
    <3>3. bundles' = bundles \ {b}
      BY <2>2 DEF BundleMined
    <3>4. InPool \subseteq InPool' \cup existing' \cup dropped'
      BY <3>2, <3>3 DEF InPool
    <3>5. QED  BY <2>1, <3>1, <3>4 DEF IInv, CreatedExist
  <2>3. ASSUME NEW a \in Shared, OtherCreates(a) PROVE CreatedExist'
    <3>1. existing \subseteq existing' /\ UNCHANGED <<bundles, dropped>>
      BY <2>3 DEF OtherCreates, history
    <3>2. QED  BY <2>1, <3>1, CreatedKept, InPoolKept DEF IInv
  <2>4. QED  BY <2>2, <2>3
<1>4. QED  BY <1>2, <1>3 DEF IInv

(* Steps of deploy, by g or by other code, and stuttering. *)
LEMMA FactoryStepInv ==
  ASSUME IInv,
         \/ FactoryOnly(FactoryNext) \/ \E c \in Others : FactoryOnly(Deploy(c))
         \/ UNCHANGED vars
  PROVE  IInv'
<1>1. UNCHANGED <<collector, locals, checker, pool, history>>
  BY DEF FactoryOnly, vars
<1>2. Counted' /\ Exclusive' /\ Collected' /\ CreatedExist'
  BY <1>1, CountedKept, ExclusiveKept, CollectedKept, CreatedKept, InPoolKept
  DEF IInv, locals, checker, pool, history
<1>3. Deployments'
  <2>1. Others \subseteq Calls
    BY GasCheckerAssumption DEF GasCheckerAssumption
  <2>2. FactoryNext \/ (\E c \in Calls : Deploy(c)) \/ UNCHANGED factoryVars
    BY <2>1 DEF FactoryOnly, vars
  <2>3. QED  BY <2>2, FactoryInv, DeployInv, DeploymentsKept DEF IInv
<1>4. QED  BY <1>2, <1>3 DEF IInv

LEMMA StepInv == IInv /\ [Next]_vars => IInv'
<1> SUFFICES ASSUME IInv, [Next]_vars PROVE IInv'
  OBVIOUS
<1>1. CASE (\E x \in Checkers : Construct(x)) \/ (\E x \in Callers : InitSettled(x))
  BY <1>1, CollectorInv
<1>2. CASE AddTestRow
  BY <1>2, AddTestRowInv
<1>3. CASE TestSteps \/ Throws
  BY <1>3, SetupInv, AccountsInv, BundleInv, MeasuredInv DEF TestSteps
<1>4. CASE \E k \in tasks : TaskSteps(k) \/ TaskFails(k)
  BY <1>4, TaskInv
<1>5. CASE (\E b \in bundles : BundleMined(b)) \/ (\E a \in Shared : OtherCreates(a))
  BY <1>5, ChainInv
<1>6. CASE \/ FactoryOnly(FactoryNext) \/ \E c \in Others : FactoryOnly(Deploy(c))
           \/ UNCHANGED vars
  BY <1>6, FactoryStepInv
<1>7. QED  BY <1>1, <1>2, <1>3, <1>4, <1>5, <1>6 DEF Next

LEMMA Inductive == Spec => []IInv
BY InitInv, StepInv, PTL DEF Spec

---------------------------------------------------------------------------
(***************************************************************************)
(* One task at a time signs its operation, and only under the lock, for    *)
(* any number of tests and accounts and whichever tests and tasks fail;    *)
(* and a test never comes past the last of its accounts.                   *)
(***************************************************************************)
THEOREM OneSigner == Spec => []TypeOK
<1>1. IInv => TypeOK
  <2> SUFFICES ASSUME IInv PROVE TypeOK
    OBVIOUS
  <2> DEFINE signing == {k \in tasks : k.waits = "sign"}
  <2>1. signing = {} \/ (locked /\ \E k : signing = {k})
    BY DEF IInv, Exclusive
  <2>2. signing = {} => Cardinality(signing) = 0
    BY FS_EmptySet
  <2>3. (\E k : signing = {k}) => Cardinality(signing) = 1
    BY FS_Singleton
  <2>4. Cardinality(signing) <= IF locked THEN 1 ELSE 0
    <3> HIDE DEF signing
    <3>1. QED  BY <2>1, <2>2, <2>3
  <2>5. inst \in Callers \cup {None} /\ estimate \in {None, "account", "empty"}
    BY DEF IInv, Collected, Exclusive
  <2>6. QED  BY <2>4, <2>5 DEF IInv, Counted, TypeOK
<1>2. QED  BY <1>1, Inductive, PTL

(***************************************************************************)
(* An account that createAccounts1 counts as created exists, or is about   *)
(* to be created, or its creation has failed.                              *)
(***************************************************************************)
THEOREM AccountsAccounted == Spec => []CreatedExist
BY Inductive, PTL DEF IInv

(***************************************************************************)
(* The collector reports every test that was measured, in order, each with *)
(* the one before: no race of constructors and tests makes a second        *)
(* collector that would keep some of the rows.                             *)
(***************************************************************************)
THEOREM NoRowLost == Spec => []AllReported
<1>1. IInv => AllReported
  BY DEF IInv, Collected, Chained, AllReported
<1>2. QED  BY <1>1, Inductive, PTL

(***************************************************************************)
(* deploy returns only when the contract is there, and an object that      *)
(* remembers the deployer is right, for any number of racing calls.        *)
(***************************************************************************)
THEOREM AddressHasCode == Spec => []DeployedHasCode
<1>1. IInv => DeployedHasCode
  BY DEF IInv, Deployments
<1>2. QED  BY <1>1, Inductive, PTL
============================================================================

-------------------------- MODULE HandleOps_proofs --------------------------
(***************************************************************************)
(* The proofs about bundles, for every bundle and however the code that is *)
(* called answers and calls back, in three parts: what may run, the money, *)
(* and what a bundle leaves behind.                                        *)
(*                                                                         *)
(* What may run: operations that their accounts, paymasters and            *)
(* aggregators have accepted.  Nothing that decides this is stored on the  *)
(* chain, so the world is left out of the invariant.  It says what each    *)
(* stage has established for the next: the loop over the groups for the    *)
(* validation, and the validation for the execution, in which only the     *)
(* index moves.                                                            *)
(***************************************************************************)
EXTENDS HandleOps, Wei_proofs, SequenceTheorems, FiniteSetTheorems, TLAPS

Answer == [aggregator : Addr \cup {NoOne, SigFailed}, validAfter : Nat, validUntil : Nat]

Info == [context : BOOLEAN, account : Answer, paymaster : Answer]

Stages == Callees \cup {"idle", "groups", "validate", "execute", "settle"}

Asking == pc \in {"groups", "aggregator"}

(* A group whose signatures are not left to an aggregator that refused them. *)
Settled(g) ==
  /\ bundle.aggregators[g] # SigFailed
  /\ bundle.aggregators[g] # NoOne => g \in vouched

(* Operation j was accepted on these answers. *)
AuthorizedBy(info, j) ==
  /\ info.account.aggregator = Aggregator(j)
  /\ InTime(info.account)
  /\ Op(j).paymaster # NoOne =>
       /\ info.paymaster.aggregator = NoOne
       /\ InTime(info.paymaster)

Types ==
  /\ now \in Nat
  /\ pc \in Stages
  /\ data \in Answer
  /\ IF pc = "idle" THEN opInfos = <<>> ELSE bundle \in Bundles

GroupsOf ==
  Asking => /\ i \in 1..(Len(bundle.aggregators) + 1) /\ opInfos = <<>>
            /\ \A g \in 1..(i - 1) : Settled(g)
            /\ pc = "aggregator" => bundle.aggregators[i] \notin {SigFailed, NoOne}
                                      /\ i <= Len(bundle.aggregators)

ValidatedSoFar ==
  Validating =>
    /\ \A g \in 1..Len(bundle.aggregators) : Settled(g)
    /\ opInfos \in Seq(Info) /\ i = Len(opInfos) + 1 /\ i <= Last + 1
    /\ pc # "validate" => i <= Last
    /\ \A j \in 1..Len(opInfos) : AuthorizedBy(opInfos[j], j)

ValidatedAll ==
  Executing =>
    /\ \A g \in 1..Len(bundle.aggregators) : Settled(g)
    /\ opInfos \in Seq(Info) /\ Len(opInfos) = Last
    /\ \A j \in 1..Last : AuthorizedBy(opInfos[j], j)

Inv == Types /\ GroupsOf /\ ValidatedSoFar /\ ValidatedAll

LEMMA BundleType ==
  ASSUME NEW b \in Bundles
  PROVE  /\ b.aggregators \in Seq(Addr \cup {NoOne, SigFailed})
         /\ b.ops \in Seq([op : Ops, group : 1..Len(b.aggregators)])
         /\ Len(b.aggregators) \in Nat /\ Len(b.ops) \in Nat
         /\ \A j \in 1..Len(b.ops) : b.ops[j].group \in 1..Len(b.aggregators)
<1>1. b.aggregators \in Seq(Addr \cup {NoOne, SigFailed})
  BY BundlesAssumption DEF BundlesAssumption
<1>2. b.ops \in Seq([op : Ops, group : 1..Len(b.aggregators)])
  BY BundlesAssumption DEF BundlesAssumption
<1>3. Len(b.aggregators) \in Nat
  BY <1>1, LenProperties
<1>4. Len(b.ops) \in Nat
  BY <1>2, LenProperties
<1>5. ASSUME NEW j \in 1..Len(b.ops) PROVE b.ops[j].group \in 1..Len(b.aggregators)
  <2>1. b.ops[j] \in [op : Ops, group : 1..Len(b.aggregators)]
    BY <1>2, ElementOfSeq
  <2>2. QED  BY <2>1
<1>6. QED  BY <1>1, <1>2, <1>3, <1>4, <1>5

LEMMA NoDataType == NoData \in Answer
BY AnswersAssumption DEF AnswersAssumption, NoData, Answer

LEMMA InitInv == Init => Inv
<1> SUFFICES ASSUME Init PROVE Inv
  OBVIOUS
<1>1. now = 1 /\ pc = "idle" /\ data = NoData /\ opInfos = <<>>
  BY DEF Init
<1>2. Types
  BY <1>1, NoDataType DEF Types, Stages, Callees
<1>3. ~Asking /\ ~Validating /\ ~Executing
  BY <1>1 DEF Asking, Validating, Executing
<1>4. QED  BY <1>2, <1>3 DEF Inv, GroupsOf, ValidatedSoFar, ValidatedAll

(* A bundle that is over, however it ended. *)
LEMMA EndInv ==
  ASSUME Inv, NEW r, End(r)
  PROVE  Inv'
<1>1. pc' = "idle" /\ data' = NoData /\ now' = now /\ opInfos' = <<>>
  BY DEF End
<1>2. Types'
  BY <1>1, NoDataType DEF Inv, Types, Stages, Callees
<1>3. ~Asking' /\ ~Validating' /\ ~Executing'
  BY <1>1 DEF Asking, Validating, Executing
<1>4. QED  BY <1>2, <1>3 DEF Inv, GroupsOf, ValidatedSoFar, ValidatedAll

LEMMA AbortInv ==
  ASSUME Inv, Abort \/ \E index : FailedOp(index)
  PROVE  Inv'
BY EndInv DEF Abort, FailedOp, Revert

(* Called code, and the next transaction, leave what was established alone. *)
LEMMA SameStage ==
  ASSUME Inv, UNCHANGED <<pc, bundle, i, data, opInfos, vouched>>,
         now' \in Nat, pc # "idle" => now' = now
  PROVE  Inv'
<1>1. CASE pc = "idle"
  <2>1. ~Asking' /\ ~Validating' /\ ~Executing'
    BY <1>1 DEF Asking, Validating, Executing
  <2>2. Types'
    BY DEF Inv, Types
  <2>3. QED  BY <2>1, <2>2 DEF Inv, GroupsOf, ValidatedSoFar, ValidatedAll
<1>2. CASE pc # "idle"
  BY <1>2 DEF Inv, Types, GroupsOf, ValidatedSoFar, ValidatedAll, Asking, Validating, Executing,
              Settled, AuthorizedBy, InTime, Aggregator, Op, Last
<1>3. QED  BY <1>1, <1>2

(* The execution moves from operation to operation, and back from its calls. *)
LEMMA ExecutionInv ==
  ASSUME Inv, Executing, pc' \in Stages \ {"idle"}, Executing' \/ (~Asking' /\ ~Validating'),
         UNCHANGED <<now, bundle, data, opInfos, vouched>>
  PROVE  Inv'
<1>1. ~Asking' /\ ~Validating'
  BY DEF Executing, Asking, Validating
<1>2. Types'
  BY DEF Inv, Types, Executing
<1>3. ValidatedAll'
  BY DEF Inv, ValidatedAll, Settled, AuthorizedBy, InTime, Aggregator, Op, Last
<1>4. QED  BY <1>1, <1>2, <1>3 DEF Inv, GroupsOf, ValidatedSoFar

(* The loop over the groups: an aggregator that is asked and returns, vouches. *)
LEMMA GroupsInv ==
  ASSUME Inv, CheckGroup \/ AggregatorReturns
  PROVE  Inv'
<1>1. CASE pc' = "idle"
  <2>1. Abort
    BY <1>1 DEF CheckGroup, AggregatorReturns, Goto
  <2>2. QED  BY <2>1, AbortInv
<1>2. CASE pc' # "idle"
  <2>1. /\ Asking /\ Asking' /\ pc \in {"groups", "aggregator"} /\ pc' \in {"groups", "aggregator"}
        /\ UNCHANGED <<now, bundle, data, opInfos>>
    BY <1>2 DEF CheckGroup, AggregatorReturns, Goto, CalleeIs, Abort, Revert, End, Asking
  <2>2. /\ i \in 1..(Len(bundle.aggregators) + 1) /\ opInfos = <<>>
        /\ \A g \in 1..(i - 1) : Settled(g)
        /\ Len(bundle.aggregators) \in Nat
    BY <2>1, BundleType DEF Inv, GroupsOf, Types
  <2>3. /\ i <= Len(bundle.aggregators)
        /\ vouched \subseteq vouched'
        /\ \/ i' = i /\ pc' = "aggregator" /\ bundle.aggregators[i] \notin {SigFailed, NoOne}
           \/ i' = i + 1 /\ pc' = "groups" /\ bundle.aggregators[i] # SigFailed
                /\ (bundle.aggregators[i] # NoOne => i \in vouched')
    BY <1>2, <2>1, AnswersAssumption
       DEF CheckGroup, AggregatorReturns, Goto, CalleeIs, Abort, Revert, End, Inv, GroupsOf,
           AnswersAssumption
  <2>4. \A g \in 1..(i' - 1) : Settled(g)'
    BY <2>1, <2>2, <2>3 DEF Settled
  <2>5. GroupsOf'
    BY <2>1, <2>2, <2>3, <2>4 DEF GroupsOf
  <2>6. ~Validating' /\ ~Executing'
    BY <2>1 DEF Validating, Executing
  <2>7. Types'
    BY <2>1 DEF Inv, Types, Stages, Callees
  <2>8. QED  BY <2>5, <2>6, <2>7 DEF Inv, ValidatedSoFar, ValidatedAll
<1>3. QED  BY <1>1, <1>2
LEMMA GroupsCheckedInv ==
  ASSUME Inv, GroupsChecked
  PROVE  Inv'
<1>1. /\ pc = "groups" /\ pc' = "validate" /\ i' = 1 /\ i > Len(bundle.aggregators)
      /\ UNCHANGED <<now, bundle, data, opInfos, vouched>>
  BY DEF GroupsChecked, Goto
<1>2. /\ i \in 1..(Len(bundle.aggregators) + 1) /\ opInfos = <<>>
      /\ \A g \in 1..(i - 1) : Settled(g)
      /\ Len(bundle.aggregators) \in Nat /\ Len(bundle.ops) \in Nat
  BY <1>1, BundleType DEF Inv, GroupsOf, Types, Asking
<1>3. \A g \in 1..Len(bundle.aggregators) : Settled(g)'
  BY <1>1, <1>2 DEF Settled
<1>4. opInfos' = <<>> /\ opInfos' \in Seq(Info) /\ Len(opInfos') = 0
  BY <1>1, <1>2, EmptySeq
<1>5. ValidatedSoFar'
  BY <1>1, <1>2, <1>3, <1>4 DEF ValidatedSoFar, Last
<1>6. ~Asking' /\ ~Executing'
  BY <1>1 DEF Asking, Executing
<1>7. Types'
  BY <1>1 DEF Inv, Types, Stages
<1>8. QED  BY <1>5, <1>6, <1>7 DEF Inv, GroupsOf, ValidatedAll

(* A call inside the validation of operation i, and the return from it. *)
LEMMA CallInValidation ==
  ASSUME Inv, Validating, i <= Last, pc' \in {"factory", "account", "paymaster"},
         UNCHANGED <<now, bundle, i, opInfos, vouched>>, data' \in Answer
  PROVE  Inv'
<1>1. ~Asking' /\ ~Executing'
  BY DEF Asking, Executing
<1>2. Types'
  BY DEF Inv, Types, Stages, Callees, Validating
<1>3. ValidatedSoFar'
  BY DEF Inv, ValidatedSoFar, Settled, AuthorizedBy, InTime, Aggregator, Op, Last
<1>4. QED  BY <1>1, <1>2, <1>3 DEF Inv, GroupsOf, ValidatedAll

(* An operation whose answers were accepted joins those before it. *)
LEMMA NextOpInv ==
  ASSUME Inv, Validating, i <= Last,
         NEW w, NEW d \in Answer, NEW pmData \in Answer, NEW asked \in BOOLEAN,
         NextOp(w, d, pmData, asked), d.aggregator = Aggregator(i), ~OutOfTimeRange(d),
         Op(i).paymaster # NoOne => pmData.aggregator = NoOne /\ ~OutOfTimeRange(pmData)
  PROVE  Inv'
<1> DEFINE info == [context |-> asked, account |-> d, paymaster |-> pmData]
<1>1. /\ pc' = "validate" /\ i' = i + 1 /\ data' = NoData /\ opInfos' = Append(opInfos, info)
      /\ UNCHANGED <<now, bundle, vouched>>
  BY DEF NextOp, Goto
<1>2. info \in Info /\ info.account = d /\ info.paymaster = pmData
  BY DEF Info
<1> HIDE DEF info
<1>3. /\ opInfos \in Seq(Info) /\ i = Len(opInfos) + 1 /\ Len(opInfos) \in Nat /\ Last \in Nat
      /\ \A g \in 1..Len(bundle.aggregators) : Settled(g)
      /\ \A j \in 1..Len(opInfos) : AuthorizedBy(opInfos[j], j)
  <2>1. bundle \in Bundles
    BY DEF Inv, Types, Validating
  <2>2. opInfos \in Seq(Info)
    BY DEF Inv, ValidatedSoFar
  <2>3. QED  BY <2>1, <2>2, BundleType, LenProperties DEF Inv, ValidatedSoFar, Last
<1>4. /\ opInfos' \in Seq(Info) /\ Len(opInfos') = i /\ opInfos'[i] = info
      /\ \A j \in 1..Len(opInfos) : opInfos'[j] = opInfos[j]
  BY <1>1, <1>2, <1>3, AppendProperties
<1>5. InTime(d)
  BY DEF OutOfTimeRange, ValidUntil, InTime, Answer, Inv, Types
<1>6. Op(i).paymaster # NoOne => InTime(pmData)
  BY DEF OutOfTimeRange, ValidUntil, InTime, Answer, Inv, Types
<1>7. ASSUME NEW j \in 1..Len(opInfos')
      PROVE  AuthorizedBy(opInfos[j], j)'
  <2>1. CASE j = i
    BY <1>1, <1>2, <1>4, <1>5, <1>6, <2>1 DEF AuthorizedBy, InTime, Aggregator, Op
  <2>2. CASE j # i
    <3>1. j \in 1..Len(opInfos)
      BY <1>3, <1>4, <2>2
    <3>2. QED  BY <1>1, <1>3, <1>4, <3>1 DEF AuthorizedBy, InTime, Aggregator, Op
  <2>3. QED  BY <2>1, <2>2
<1>8. ValidatedSoFar'
  BY <1>1, <1>3, <1>4, <1>7 DEF ValidatedSoFar, Settled, Last
<1>9. ~Asking' /\ ~Executing'
  BY <1>1 DEF Asking, Executing
<1>10. Types'
  BY <1>1, NoDataType DEF Inv, Types, Stages, Validating
<1>11. QED  BY <1>8, <1>9, <1>10 DEF Inv, GroupsOf, ValidatedAll


LEMMA CallAccountInv ==
  ASSUME Inv, Validating, i <= Last, NEW w, CallAccount(w)
  PROVE  Inv'
<1>1. CASE Op(i).sender \in w.code
  <2>1. pc' = "account" /\ UNCHANGED <<now, bundle, i, data, opInfos, vouched>>
    BY <1>1 DEF CallAccount, Goto
  <2>2. data' \in Answer
    BY <2>1 DEF Inv, Types
  <2>3. QED  BY <2>1, <2>2, CallInValidation
<1>2. CASE Op(i).sender \notin w.code
  BY <1>2, AbortInv DEF CallAccount
<1>3. QED  BY <1>1, <1>2

LEMMA ValidateOpInv ==
  ASSUME Inv, ValidateOp \/ \E a \in Addr \cup {NoOne} : FactoryReturns(a)
  PROVE  Inv'
<1>1. Validating /\ i <= Last
  BY DEF ValidateOp, FactoryReturns, CalleeIs, Validating, Inv, ValidatedSoFar
<1>2. \/ Abort \/ (\E index : FailedOp(index)) \/ CallAccount(world)
      \/ Goto("factory") /\ UNCHANGED <<i, data, opInfos, vouched>>
  BY DEF ValidateOp, FactoryReturns
<1>3. CASE Abort \/ \E index : FailedOp(index)
  BY <1>3, AbortInv
<1>4. CASE CallAccount(world)
  BY <1>1, <1>4, CallAccountInv
<1>5. CASE Goto("factory") /\ UNCHANGED <<i, data, opInfos, vouched>>
  <2>1. pc' = "factory" /\ UNCHANGED <<now, bundle, i, data, opInfos, vouched>> /\ data' \in Answer
    BY <1>5 DEF Goto, Inv, Types
  <2>2. QED  BY <1>1, <2>1, CallInValidation
<1>6. QED  BY <1>2, <1>3, <1>4, <1>5

LEMMA AccountReturnsInv ==
  ASSUME Inv, NEW d \in ValidationData, AccountReturns(d)
  PROVE  Inv'
<1> DEFINE paid == IF Op(i).paymaster = NoOne THEN Prefunded(world, Op(i).sender, Op(i).prefund) ELSE world
           used == NonceUsed(paid, Op(i))
<1>1. Validating /\ i <= Last /\ d \in Answer
  BY AnswersAssumption
     DEF AccountReturns, CalleeIs, Validating, Inv, ValidatedSoFar, AnswersAssumption, Answer
<1>2. \/ Abort \/ (\E index : FailedOp(index))
      \/ Op(i).paymaster = NoOne /\ Accepted(d, NoData) /\ NextOp(used, d, NoData, FALSE)
      \/ Goto("paymaster") /\ data' = d /\ UNCHANGED <<i, opInfos, vouched>>
  BY DEF AccountReturns
<1>3. CASE Abort \/ \E index : FailedOp(index)
  BY <1>3, AbortInv
<1>4. CASE Op(i).paymaster = NoOne /\ Accepted(d, NoData) /\ NextOp(used, d, NoData, FALSE)
  <2> HIDE DEF used
  <2>1. d.aggregator = Aggregator(i) /\ ~OutOfTimeRange(d)
    BY <1>4 DEF Accepted
  <2>2. QED  BY <1>1, <1>4, <2>1, NoDataType, NextOpInv
<1>5. CASE Goto("paymaster") /\ data' = d /\ UNCHANGED <<i, opInfos, vouched>>
  <2>1. pc' = "paymaster" /\ UNCHANGED <<now, bundle, i, opInfos, vouched>> /\ data' \in Answer
    BY <1>1, <1>5 DEF Goto
  <2>2. QED  BY <1>1, <2>1, CallInValidation
<1>6. QED  BY <1>2, <1>3, <1>4, <1>5

LEMMA PaymasterReturnsInv ==
  ASSUME Inv, NEW asked \in BOOLEAN, NEW d \in ValidationData, PaymasterReturns(asked, d)
  PROVE  Inv'
<1>1. Validating /\ i <= Last /\ data \in Answer
  BY DEF PaymasterReturns, CalleeIs, Validating, Inv, ValidatedSoFar, Types
<1>2. d \in Answer
  BY AnswersAssumption DEF AnswersAssumption, Answer
<1>3. CASE \E index : FailedOp(index)
  BY <1>3, AbortInv
<1>4. CASE Accepted(data, d) /\ NextOp(world, data, d, asked)
  <2>1. /\ data.aggregator = Aggregator(i) /\ ~OutOfTimeRange(data)
        /\ d.aggregator = NoOne /\ ~OutOfTimeRange(d)
    BY <1>4 DEF Accepted
  <2>2. QED  BY <1>1, <1>2, <1>4, <2>1, NextOpInv
<1>5. QED  BY <1>3, <1>4 DEF PaymasterReturns

(* The operations are executed only when the last of them was accepted. *)
LEMMA AllValidatedInv ==
  ASSUME Inv, AllValidated
  PROVE  Inv'
<1>1. /\ pc = "validate" /\ pc' = "execute" /\ i > Last
      /\ UNCHANGED <<now, bundle, data, opInfos, vouched>>
  BY DEF AllValidated, Goto
<1>2. /\ \A g \in 1..Len(bundle.aggregators) : Settled(g)
      /\ opInfos \in Seq(Info) /\ i = Len(opInfos) + 1 /\ i <= Last + 1
      /\ \A j \in 1..Len(opInfos) : AuthorizedBy(opInfos[j], j)
  BY <1>1 DEF Inv, ValidatedSoFar, Validating
<1>3. Len(opInfos) = Last
  <2>1. Last \in Nat /\ Len(opInfos) \in Nat
    BY <1>1, <1>2, BundleType, LenProperties DEF Inv, Types, Last
  <2>2. QED  BY <1>1, <1>2, <2>1
<1>4. ValidatedAll'
  BY <1>1, <1>2, <1>3 DEF ValidatedAll, Settled, AuthorizedBy, InTime, Aggregator, Op, Last
<1>5. ~Asking' /\ ~Validating'
  BY <1>1 DEF Asking, Validating
<1>6. Types'
  BY <1>1 DEF Inv, Types, Stages
<1>7. QED  BY <1>4, <1>5, <1>6 DEF Inv, GroupsOf, ValidatedSoFar

LEMMA ExecutionStepsInv ==
  ASSUME Inv,
         \/ ExecuteOp \/ CallReturns \/ CallReverts \/ PostOpReturns \/ InnerReverts
         \/ \E cost \in Costs : Settle(cost)
         \/ \E a \in Addr \cup {NoOne} : Compensate(a)
  PROVE  Inv'
<1>1. Executing
  BY DEF ExecuteOp, CallReturns, CallReverts, PostOpReturns, InnerReverts, Settle, Compensate,
         CalleeIs, Executing
<1>2. \/ Abort \/ (\E index : FailedOp(index)) \/ (\E r : End(r))
      \/ /\ pc' \in {"execute", "call", "postOp", "settle", "beneficiary"}
         /\ UNCHANGED <<now, bundle, data, opInfos, vouched>>
  <2>1. CASE ExecuteOp
    BY <2>1 DEF ExecuteOp, AfterCall, chain
  <2>2. CASE CallReturns \/ CallReverts \/ PostOpReturns \/ InnerReverts
    BY <2>2 DEF CallReturns, CallReverts, PostOpReturns, InnerReverts, CalldataDone, AfterCall, Goto
  <2>3. ASSUME NEW cost \in Costs, Settle(cost)
        PROVE  pc' = "execute" /\ UNCHANGED <<now, bundle, data, opInfos, vouched>>
    BY <2>3 DEF Settle, OpDone, Goto
  <2>4. CASE \E a \in Addr \cup {NoOne} : Compensate(a)
    BY <2>4 DEF Compensate, Goto
  <2>5. QED  BY <2>1, <2>2, <2>3, <2>4
<1>3. CASE Abort \/ \E index : FailedOp(index)
  BY <1>3, AbortInv
<1>4. CASE \E r : End(r)
  BY <1>4, EndInv
<1>5. CASE /\ pc' \in {"execute", "call", "postOp", "settle", "beneficiary"}
           /\ UNCHANGED <<now, bundle, data, opInfos, vouched>>
  <2>1. pc' \in Stages \ {"idle"} /\ ~Asking' /\ ~Validating'
    BY <1>5 DEF Stages, Callees, Asking, Validating
  <2>2. QED  BY <1>1, <1>5, <2>1, ExecutionInv
<1>6. QED  BY <1>2, <1>3, <1>4, <1>5

(* A bundle arrives. *)
LEMMA HandleBundleInv ==
  ASSUME Inv, NEW b \in Bundles, HandleBundle(b)
  PROVE  Inv'
<1>1. /\ pc = "idle" /\ pc' = "groups" /\ bundle' = b /\ i' = 1
      /\ UNCHANGED <<now, data, opInfos, vouched>>
  BY DEF HandleBundle, Stakes!Called
<1>2. Len(b.aggregators) \in Nat
  BY BundleType
<1>3. Types'
  BY <1>1 DEF Inv, Types, Stages
<1>4. ~Validating' /\ ~Executing' /\ pc' # "aggregator"
  BY <1>1 DEF Validating, Executing
<1>5. GroupsOf'
  BY <1>1, <1>2, <1>4 DEF Inv, Types, GroupsOf
<1>6. QED  BY <1>3, <1>4, <1>5 DEF Inv, ValidatedSoFar, ValidatedAll

(* What called code, and other transactions, do changes only the chain. *)
LEMMA OutsideInv ==
  ASSUME Inv,
         \/ \E a \in Addr, key \in Keys : IncrementNonce(a, key)
         \/ \E a \in Addr : Deploy(a)
         \/ StakeOperation \/ RecipientEnds \/ NextTransaction
  PROVE  Inv'
<1>1. UNCHANGED control
  BY DEF IncrementNonce, Deploy, StakeOperation, RecipientEnds, NextTransaction
<1>2. now' \in Nat /\ (pc # "idle" => now' = now)
  <2>1. now \in Nat
    BY DEF Inv, Types
  <2>2. CASE NextTransaction
    BY <2>1, <2>2, AnswersAssumption DEF NextTransaction, Stakes!NextTransaction, AnswersAssumption
  <2>3. CASE ~NextTransaction
    BY <2>1, <2>3
       DEF IncrementNonce, Deploy, StakeOperation, RecipientEnds, Stakes!Operation, Stakes!Called,
           Stakes!DepositTo, Stakes!AddStake, Stakes!UnlockStake, Stakes!WithdrawStake,
           Stakes!WithdrawTo, Stakes!RecipientReturns, Stakes!RecipientReverts
  <2>4. QED  BY <2>2, <2>3
<1>3. QED  BY <1>1, <1>2, SameStage DEF control

LEMMA NextInv ==
  ASSUME Inv, [Next]_vars
  PROVE  Inv'
<1>1. CASE UNCHANGED vars
  <2>1. now' \in Nat
    BY <1>1 DEF vars, chain, Inv, Types
  <2>2. QED  BY <1>1, <2>1, SameStage DEF vars, chain, control
<1>2. CASE \E b \in Bundles : HandleBundle(b)
  BY <1>2, HandleBundleInv
<1>3. CASE EntryPointSteps
  BY <1>3, GroupsInv, GroupsCheckedInv, ValidateOpInv, AllValidatedInv, ExecutionStepsInv
     DEF EntryPointSteps
<1>4. CASE CalleeEnds
  <2>1. CASE AggregatorReverts \/ AccountReverts \/ PaymasterReverts \/ BeneficiaryReverts
    BY <2>1, AbortInv DEF AggregatorReverts, AccountReverts, PaymasterReverts, BeneficiaryReverts
  <2>2. CASE BeneficiaryReturns
    BY <2>2, EndInv DEF BeneficiaryReturns
  <2>3. CASE \E d \in ValidationData : AccountReturns(d)
    BY <2>3, AccountReturnsInv
  <2>4. CASE \E asked \in BOOLEAN, d \in ValidationData : PaymasterReturns(asked, d)
    BY <2>4, PaymasterReturnsInv
  <2>5. QED  BY <1>4, <2>1, <2>2, <2>3, <2>4, GroupsInv, ValidateOpInv, ExecutionStepsInv
             DEF CalleeEnds
<1>5. CASE BundleFails
  BY <1>5, AbortInv DEF BundleFails
<1>6. CASE \/ \E a \in Addr, key \in Keys : IncrementNonce(a, key)
           \/ \E a \in Addr : Deploy(a)
           \/ StakeOperation \/ RecipientEnds \/ NextTransaction
  BY <1>6, OutsideInv
<1>7. QED  BY <1>1, <1>2, <1>3, <1>4, <1>5, <1>6 DEF Next

LEMMA InvAuthorizes ==
  ASSUME Inv
  PROVE  AllAuthorized
<1> SUFFICES ASSUME Executing, NEW j \in 1..Last
             PROVE  LET info == opInfos[j]
                    IN  /\ info.account.aggregator # SigFailed
                        /\ info.account.aggregator # NoOne =>
                             /\ info.account.aggregator = Aggregator(j)
                             /\ bundle.ops[j].group \in vouched
                        /\ InTime(info.account)
                        /\ Op(j).paymaster # NoOne =>
                             /\ info.paymaster.aggregator = NoOne
                             /\ InTime(info.paymaster)
  BY DEF AllAuthorized
<1>1. AuthorizedBy(opInfos[j], j)
  BY DEF Inv, ValidatedAll
<1>2. Settled(bundle.ops[j].group)
  <2>1. bundle \in Bundles
    BY DEF Inv, Types, Executing
  <2>2. bundle.ops[j].group \in 1..Len(bundle.aggregators)
    BY <2>1, BundleType DEF Last
  <2>3. QED  BY <2>2 DEF Inv, ValidatedAll
<1>3. QED  BY <1>1, <1>2 DEF AuthorizedBy, InTime, Settled, Aggregator

(* The operations of a bundle run only after every one of them was accepted *)
(* by its account and its paymaster for this time, and the signatures of    *)
(* every group by its aggregator, whatever the code they call does between. *)
THEOREM OnlyAcceptedRun == Spec => []AllAuthorized
<1>1. Spec => []Inv
  BY InitInv, NextInv, PTL DEF Spec
<1>2. QED  BY <1>1, InvAuthorizes, PTL

---------------------------------------------------------------------------
(***************************************************************************)
(* The money of a bundle, for all bundles, costs and calls back.           *)
(*                                                                         *)
(* A world is in order when its balance and its events account for its     *)
(* deposits and stakes, and for what the bundle holds besides: the sum of  *)
(* the prefunds and fees, and of each address the prefunds taken from it.  *)
(* A revert brings an older world back, so what holds of the world holds   *)
(* of every saved one: with what is held now when the revert stays within  *)
(* the bundle, with nothing held when it ends it.                          *)
(***************************************************************************)
Fields == {"deposits", "balance", "logged", "lockedUntil", "nonceSequenceNumber", "code", "ran", "events"}

DepositFields == {"deposit", "staked", "stake", "unstakeDelaySec", "withdrawTime"}

IsRecord(d) ==
  /\ d = [x \in DepositFields |-> d[x]]
  /\ d.deposit \in Nat /\ d.stake \in Nat

Charge == [success : BOOLEAN, cost : Nat]

(* The costs that the events report. *)
ChargesWithin(w) ==
  /\ w.events \in [Ops -> Seq(Charge)]
  /\ \A o \in Ops : w.events[o] # <<>> => w.events[o][1].cost \in 0..o.prefund

IsWorld(w) ==
  /\ w = [x \in Fields |-> w[x]]
  /\ w.deposits = [a \in Addr |-> w.deposits[a]]
  /\ \A a \in Addr : IsRecord(w.deposits[a])
  /\ w.logged = [a \in Addr |-> w.logged[a]]
  /\ ChargesWithin(w)

Books(w, sum, from) ==
  /\ IsWorld(w)
  /\ w.balance = Total(Stakes!Owed(w)) + sum
  /\ \A a \in Addr : w.logged[a] = w.deposits[a].deposit + from[a]

NoneFrom == [a \in Addr |-> 0]

LEMMA OwedNat ==
  ASSUME NEW w, IsWorld(w)
  PROVE  Stakes!Owed(w) \in [Addr -> Nat] /\ Total(Stakes!Owed(w)) \in Nat
<1>1. ASSUME NEW a \in Addr PROVE w.deposits[a].deposit + w.deposits[a].stake \in Nat
  <2>1. IsRecord(w.deposits[a])
    BY DEF IsWorld
  <2>2. w.deposits[a].deposit \in Nat /\ w.deposits[a].stake \in Nat
    BY <2>1 DEF IsRecord
  <2>3. QED  BY <2>2
<1>2. Stakes!Owed(w) \in [Addr -> Nat]
  BY <1>1 DEF Stakes!Owed
<1>3. QED  BY <1>2, MoneyAssumption, TotalType DEF MoneyAssumption

(* One record changes, and the balance and the account's events follow it. *)
Follows(w, sum, from, a, n, sum2, from2) ==
  /\ Books(w, sum, from) /\ sum \in Nat /\ from \in [Addr -> Nat]
  /\ a \in Addr /\ sum2 \in Nat /\ from2 \in [Addr -> Nat]
  /\ n = [x \in Fields |-> n[x]] /\ n.events = w.events
  /\ IsRecord(n.deposits[a])
  /\ n.deposits = [w.deposits EXCEPT ![a] = n.deposits[a]]
  /\ n.logged = [w.logged EXCEPT ![a] = n.logged[a]]
  /\ n.balance = w.balance - (w.deposits[a].deposit + w.deposits[a].stake)
                   + (n.deposits[a].deposit + n.deposits[a].stake) + (sum2 - sum)
  /\ n.logged[a] = n.deposits[a].deposit + from2[a]
  /\ \A b \in Addr : b # a => from2[b] = from[b]

LEMMA BooksUpdate ==
  ASSUME NEW w, NEW sum, NEW from, NEW a, NEW n, NEW sum2, NEW from2,
         Follows(w, sum, from, a, n, sum2, from2)
  PROVE  Books(n, sum2, from2)
<1> USE DEF Follows
<1> DEFINE d == n.deposits[a]
<1>1. IsWorld(w) /\ w.deposits[a].deposit \in Nat /\ w.deposits[a].stake \in Nat
      /\ d.deposit \in Nat /\ d.stake \in Nat
  BY DEF Books, IsWorld, IsRecord
<1>2. /\ \A b \in Addr : b # a => n.deposits[b] = w.deposits[b] /\ n.logged[b] = w.logged[b]
      /\ n.deposits = [b \in Addr |-> n.deposits[b]] /\ n.logged = [b \in Addr |-> n.logged[b]]
  BY <1>1 DEF IsWorld
<1>3. IsWorld(n)
  BY <1>1, <1>2 DEF IsWorld, ChargesWithin
<1>4. /\ Stakes!Owed(w)[a] = w.deposits[a].deposit + w.deposits[a].stake
      /\ Stakes!Owed(n)[a] = d.deposit + d.stake
      /\ \A b \in Addr : b # a => Stakes!Owed(n)[b] = Stakes!Owed(w)[b]
  BY <1>2 DEF Stakes!Owed
<1>5. Total(Stakes!Owed(n)) = Total(Stakes!Owed(w)) - Stakes!Owed(w)[a] + Stakes!Owed(n)[a]
  <2>1. Stakes!Owed(w) \in [Addr -> Nat] /\ Stakes!Owed(n) \in [Addr -> Nat] /\ IsFiniteSet(Addr)
    BY <1>1, <1>3, OwedNat, MoneyAssumption DEF MoneyAssumption
  <2>2. QED  BY <2>1, <1>4, TotalUpdate
<1>6. n.balance = Total(Stakes!Owed(n)) + sum2
  <2>1. Total(Stakes!Owed(w)) \in Nat /\ w.balance = Total(Stakes!Owed(w)) + sum
    BY <1>1, OwedNat DEF Books
  <2>2. QED  BY <2>1, <1>1, <1>4, <1>5
<1>7. \A b \in Addr : n.logged[b] = n.deposits[b].deposit + from2[b]
  BY <1>2 DEF Books
<1>8. QED  BY <1>3, <1>6, <1>7 DEF Books

(* What is not money does not matter. *)
LEMMA SameBooks ==
  ASSUME NEW sum, NEW from, NEW w, Books(w, sum, from),
         NEW n, n = [x \in Fields |-> n[x]],
         n.deposits = w.deposits, n.logged = w.logged, n.balance = w.balance, n.events = w.events
  PROVE  Books(n, sum, from)
BY DEF Books, IsWorld, ChargesWithin, Stakes!Owed

(* No account is owed more than there is. *)
LEMMA Covered ==
  ASSUME NEW sum \in Nat, NEW from, NEW w, Books(w, sum, from), NEW a \in Addr
  PROVE  w.balance \in Nat /\ w.deposits[a].deposit + w.deposits[a].stake <= w.balance
<1>1. Stakes!Owed(w) \in [Addr -> Nat] /\ Total(Stakes!Owed(w)) \in Nat /\ IsFiniteSet(Addr)
  BY OwedNat, MoneyAssumption DEF Books, MoneyAssumption
<1>2. Stakes!Owed(w)[a] <= Total(Stakes!Owed(w))
  BY <1>1, TotalAtLeast
<1>3. Stakes!Owed(w)[a] = w.deposits[a].deposit + w.deposits[a].stake
  BY DEF Stakes!Owed
<1>4. QED  BY <1>1, <1>2, <1>3 DEF Books

---------------------------------------------------------------------------
(* What the operations do to a world that is in order: depositTo, ... *)
LEMMA ReceiveBooks ==
  ASSUME NEW sum \in Nat, NEW from \in [Addr -> Nat], NEW w, Books(w, sum, from),
         NEW a \in Addr, NEW v \in Nat
  PROVE  Books(Stakes!Receive(w, a, v), sum, from)
<1> DEFINE o == w.deposits[a]
           d == [o EXCEPT !.deposit = o.deposit + v]
           n == Stakes!Receive(w, a, v)
<1>1. IsWorld(w) /\ IsRecord(o) /\ w.logged[a] = o.deposit + from[a]
  BY DEF Books, IsWorld
<1>2. IsRecord(d) /\ d.deposit = o.deposit + v /\ d.stake = o.stake
  BY <1>1 DEF IsRecord, DepositFields
<1>3. n = [x \in Fields |-> n[x]] /\ n.events = w.events
  BY <1>1 DEF IsWorld, Fields, Stakes!Receive, Stakes!_incrementDeposit
<1>4. n.deposits = [w.deposits EXCEPT ![a] = d]
  BY <1>1 DEF IsWorld, Fields, Stakes!Receive, Stakes!_incrementDeposit
<1>5. n.logged = [w.logged EXCEPT ![a] = w.logged[a] + v]
  BY <1>1 DEF IsWorld, Fields, Stakes!Receive, Stakes!_incrementDeposit
<1>6. n.balance = w.balance + v
  BY <1>1 DEF IsWorld, Fields, Stakes!Receive, Stakes!_incrementDeposit
<1> HIDE DEF n, d
<1>7. o.deposit \in Nat /\ o.stake \in Nat /\ w.balance \in Nat
  BY <1>1, Covered DEF IsRecord
<1>8. n.balance = w.balance - (o.deposit + o.stake) + (d.deposit + d.stake) + (sum - sum)
  BY <1>2, <1>6, <1>7
<1>9. n.deposits[a] = d /\ n.logged[a] = w.logged[a] + v /\ w.logged[a] + v = d.deposit + from[a]
  BY <1>1, <1>2, <1>4, <1>5, <1>7 DEF IsWorld
<1>10. /\ n.deposits = [w.deposits EXCEPT ![a] = n.deposits[a]]
       /\ n.logged = [w.logged EXCEPT ![a] = n.logged[a]]
  BY <1>4, <1>5, <1>9
<1>11. Follows(w, sum, from, a, n, sum, from)
  BY <1>2, <1>3, <1>8, <1>9, <1>10 DEF Follows
<1>12. Books(n, sum, from)
  BY <1>11, BooksUpdate
<1>13. QED  BY <1>12 DEF n

(* ... addStake, ... *)
LEMMA LockedStakeBooks ==
  ASSUME NEW sum \in Nat, NEW from \in [Addr -> Nat], NEW w, Books(w, sum, from),
         NEW a \in Addr, NEW v \in Nat, NEW delay, Stakes!CanAddStake(w.deposits[a], v, delay)
  PROVE  Books(Stakes!LockedStake(w, a, v, delay), sum, from)
<1> DEFINE o == w.deposits[a]
           d == Stakes!Staked(o, v, delay)
           n == Stakes!LockedStake(w, a, v, delay)
<1>1. IsWorld(w) /\ IsRecord(o) /\ w.logged[a] = o.deposit + from[a]
  BY DEF Books, IsWorld
<1>2. d.deposit = o.deposit /\ d.stake = o.stake + v /\ d = [x \in DepositFields |-> d[x]]
  BY DEF Stakes!CanAddStake, Stakes!Staked, Stakes!Truncate, DepositFields
<1>3. n = [x \in Fields |-> n[x]] /\ n.events = w.events
  BY <1>1 DEF IsWorld, Fields, Stakes!LockedStake
<1>4. n.deposits = [w.deposits EXCEPT ![a] = d]
  BY <1>1 DEF IsWorld, Fields, Stakes!LockedStake
<1>5. n.logged = w.logged /\ w.logged = [w.logged EXCEPT ![a] = w.logged[a]]
  BY <1>1 DEF IsWorld, Fields, Stakes!LockedStake
<1>6. n.balance = w.balance + v
  BY <1>1 DEF IsWorld, Fields, Stakes!LockedStake
<1> HIDE DEF n, d
<1>7. o.deposit \in Nat /\ o.stake \in Nat /\ w.balance \in Nat
  BY <1>1, Covered DEF IsRecord
<1>8. n.balance = w.balance - (o.deposit + o.stake) + (d.deposit + d.stake) + (sum - sum)
  BY <1>2, <1>6, <1>7
<1>9. IsRecord(d) /\ n.deposits[a] = d /\ n.logged[a] = d.deposit + from[a]
  BY <1>1, <1>2, <1>4, <1>5, <1>7 DEF IsRecord, IsWorld
<1>10. /\ n.deposits = [w.deposits EXCEPT ![a] = n.deposits[a]]
       /\ n.logged = [w.logged EXCEPT ![a] = n.logged[a]]
  BY <1>4, <1>5, <1>9
<1>11. Follows(w, sum, from, a, n, sum, from)
  BY <1>3, <1>8, <1>9, <1>10 DEF Follows
<1>12. Books(n, sum, from)
  BY <1>11, BooksUpdate
<1>13. QED  BY <1>12 DEF n

(* ... unlockStake, ... *)
LEMMA UnlockedBooks ==
  ASSUME NEW sum \in Nat, NEW from \in [Addr -> Nat], NEW w, Books(w, sum, from), NEW a \in Addr
  PROVE  Books([w EXCEPT !.deposits[a] = Stakes!Unlocked(@)], sum, from)
<1> DEFINE o == w.deposits[a]
           d == Stakes!Unlocked(o)
           n == [w EXCEPT !.deposits[a] = d]
<1>1. IsWorld(w) /\ IsRecord(o) /\ w.logged[a] = o.deposit + from[a]
  BY DEF Books, IsWorld
<1>2. d.deposit = o.deposit /\ d.stake = o.stake /\ IsRecord(d)
  BY <1>1 DEF Stakes!Unlocked, IsRecord, DepositFields
<1> HIDE DEF d
<1>3. n = [x \in Fields |-> n[x]] /\ n.events = w.events
  BY <1>1 DEF IsWorld, Fields
<1>4. n.deposits = [w.deposits EXCEPT ![a] = d]
  BY <1>1 DEF IsWorld, Fields
<1>5. n.logged = w.logged /\ w.logged = [w.logged EXCEPT ![a] = w.logged[a]] /\ n.balance = w.balance
  BY <1>1 DEF IsWorld, Fields
<1> HIDE DEF n
<1>6. o.deposit \in Nat /\ o.stake \in Nat /\ w.balance \in Nat
  BY <1>1, Covered DEF IsRecord
<1>7. n.balance = w.balance - (o.deposit + o.stake) + (d.deposit + d.stake) + (sum - sum)
  BY <1>2, <1>5, <1>6
<1>8. n.deposits[a] = d /\ n.logged[a] = d.deposit + from[a]
  BY <1>1, <1>2, <1>4, <1>5 DEF IsWorld
<1>9. Follows(w, sum, from, a, n, sum, from)
  BY <1>2, <1>3, <1>4, <1>5, <1>7, <1>8 DEF Follows
<1>10. Books(n, sum, from)
  BY <1>9, BooksUpdate
<1>11. QED  BY <1>10 DEF n, d

(* ... the value of a withdrawal leaving, or of the fees, ... *)
LEMMA PaidBooks ==
  ASSUME NEW sum \in Nat, NEW from, NEW w, NEW v \in Nat, Books(w, sum + v, from)
  PROVE  Books([w EXCEPT !.balance = @ - v], sum, from)
<1> DEFINE n == [w EXCEPT !.balance = @ - v]
<1>1. IsWorld(w) /\ Total(Stakes!Owed(w)) \in Nat /\ w.balance = Total(Stakes!Owed(w)) + (sum + v)
  BY OwedNat DEF Books
<1>2. /\ n = [x \in Fields |-> n[x]] /\ n.deposits = w.deposits
      /\ n.logged = w.logged /\ n.events = w.events
  BY <1>1 DEF IsWorld, Fields
<1>3. n.balance = w.balance - v
  BY SMTT(30), <1>1 DEF IsWorld, Fields
<1> HIDE DEF n
<1>4. IsWorld(n) /\ Stakes!Owed(n) = Stakes!Owed(w)
  BY <1>1, <1>2 DEF IsWorld, ChargesWithin, Stakes!Owed
<1>5. n.balance = Total(Stakes!Owed(n)) + sum
  BY <1>1, <1>3, <1>4
<1>6. \A a \in Addr : n.logged[a] = n.deposits[a].deposit + from[a]
  BY <1>2 DEF Books
<1>7. Books(n, sum, from)
  BY <1>4, <1>5, <1>6 DEF Books
<1>8. QED  BY <1>7 DEF n

(* ... withdrawStake, up to the value leaving, ... *)
LEMMA WithoutStakeBooks ==
  ASSUME NEW sum \in Nat, NEW from \in [Addr -> Nat], NEW w, Books(w, sum, from), NEW a \in Addr
  PROVE  Books(Stakes!WithoutStake(w, a), sum + w.deposits[a].stake, from)
<1> DEFINE o == w.deposits[a]
           d == [o EXCEPT !.unstakeDelaySec = 0, !.withdrawTime = 0, !.stake = 0]
           n == Stakes!WithoutStake(w, a)
           sum2 == sum + o.stake
<1>1. IsWorld(w) /\ IsRecord(o) /\ w.logged[a] = o.deposit + from[a]
  BY DEF Books, IsWorld
<1>2. IsRecord(d) /\ d.deposit = o.deposit /\ d.stake = 0
  BY <1>1 DEF IsRecord, DepositFields
<1>3. n = [x \in Fields |-> n[x]] /\ n.events = w.events
  BY <1>1 DEF IsWorld, Fields, Stakes!WithoutStake
<1>4. n.deposits = [w.deposits EXCEPT ![a] = d]
  BY <1>1 DEF IsWorld, Fields, Stakes!WithoutStake
<1>5. n.logged = w.logged /\ n.balance = w.balance
  BY <1>1 DEF IsWorld, Fields, Stakes!WithoutStake
<1> HIDE DEF n, d
<1>6. o.deposit \in Nat /\ o.stake \in Nat /\ w.balance \in Nat
  BY <1>1, Covered DEF IsRecord
<1>7. sum2 \in Nat
      /\ n.balance = w.balance - (o.deposit + o.stake) + (d.deposit + d.stake) + (sum2 - sum)
  BY <1>2, <1>5, <1>6
<1> HIDE DEF sum2
<1>8. n.deposits[a] = d /\ n.logged[a] = d.deposit + from[a]
  BY <1>1, <1>2, <1>4, <1>5 DEF IsWorld
<1>9. /\ n.deposits = [w.deposits EXCEPT ![a] = n.deposits[a]]
      /\ n.logged = [w.logged EXCEPT ![a] = n.logged[a]]
  BY <1>1, <1>4, <1>5, <1>8 DEF IsWorld
<1>10. Follows(w, sum, from, a, n, sum2, from)
  BY <1>2, <1>3, <1>7, <1>8, <1>9 DEF Follows
<1>11. Books(n, sum2, from)
  BY <1>10, BooksUpdate
<1>12. QED  BY <1>11 DEF n, sum2

(* ... withdrawTo, up to the value leaving, ... *)
LEMMA WithoutDepositBooks ==
  ASSUME NEW sum \in Nat, NEW from \in [Addr -> Nat], NEW w, Books(w, sum, from), NEW a \in Addr,
         NEW v \in Nat, Stakes!CanWithdraw(w.deposits[a], v)
  PROVE  Books(Stakes!WithoutDeposit(w, a, v), sum + v, from)
<1> DEFINE o == w.deposits[a]
           d == [o EXCEPT !.deposit = o.deposit - v]
           n == Stakes!WithoutDeposit(w, a, v)
           sum2 == sum + v
<1>1. IsWorld(w) /\ IsRecord(o) /\ w.logged[a] = o.deposit + from[a] /\ v <= o.deposit
  BY DEF Books, IsWorld, Stakes!CanWithdraw
<1>2. IsRecord(d) /\ d.deposit = o.deposit - v /\ d.stake = o.stake
  BY <1>1 DEF IsRecord, DepositFields
<1>3. n = [x \in Fields |-> n[x]] /\ n.events = w.events
  BY <1>1 DEF IsWorld, Fields, Stakes!WithoutDeposit
<1>4. n.deposits = [w.deposits EXCEPT ![a] = d]
  BY <1>1 DEF IsWorld, Fields, Stakes!WithoutDeposit
<1>5. n.logged = [w.logged EXCEPT ![a] = w.logged[a] - v] /\ n.balance = w.balance
  BY <1>1 DEF IsWorld, Fields, Stakes!WithoutDeposit
<1> HIDE DEF n, d
<1>6. o.deposit \in Nat /\ o.stake \in Nat /\ w.balance \in Nat
  BY <1>1, Covered DEF IsRecord
<1>7. sum2 \in Nat
      /\ n.balance = w.balance - (o.deposit + o.stake) + (d.deposit + d.stake) + (sum2 - sum)
  BY <1>2, <1>5, <1>6
<1> HIDE DEF sum2
<1>8. n.deposits[a] = d /\ n.logged[a] = w.logged[a] - v /\ n.logged[a] = d.deposit + from[a]
  BY <1>1, <1>2, <1>4, <1>5, <1>6 DEF IsWorld
<1>9. /\ n.deposits = [w.deposits EXCEPT ![a] = n.deposits[a]]
      /\ n.logged = [w.logged EXCEPT ![a] = n.logged[a]]
  BY <1>4, <1>5, <1>8
<1>10. Follows(w, sum, from, a, n, sum2, from)
  BY <1>2, <1>3, <1>7, <1>8, <1>9 DEF Follows
<1>11. Books(n, sum2, from)
  BY <1>10, BooksUpdate
<1>12. QED  BY <1>11 DEF n, sum2

(* ... taking a prefund, ... *)
LEMMA PrefundedBooks ==
  ASSUME NEW sum \in Nat, NEW from \in [Addr -> Nat], NEW w, Books(w, sum, from), NEW a \in Addr,
         NEW p \in Nat, CanPrefund(w, a, p)
  PROVE  Books(Prefunded(w, a, p), sum + p, [from EXCEPT ![a] = @ + p])
<1> DEFINE o == w.deposits[a]
           d == [o EXCEPT !.deposit = o.deposit - p]
           n == Prefunded(w, a, p)
           from2 == [from EXCEPT ![a] = from[a] + p]
           sum2 == sum + p
<1>1. IsWorld(w) /\ IsRecord(o) /\ w.logged[a] = o.deposit + from[a] /\ p <= o.deposit
  BY DEF Books, IsWorld, CanPrefund
<1>2. IsRecord(d) /\ d.deposit = o.deposit - p /\ d.stake = o.stake
  BY <1>1 DEF IsRecord, DepositFields
<1>3. n = [x \in Fields |-> n[x]] /\ n.events = w.events
  BY <1>1 DEF IsWorld, Fields, Prefunded
<1>4. n.deposits = [w.deposits EXCEPT ![a] = d]
  BY <1>1 DEF IsWorld, Fields, Prefunded
<1>5. n.logged = w.logged /\ n.balance = w.balance
  BY <1>1 DEF IsWorld, Fields, Prefunded
<1> HIDE DEF n, d
<1>6. o.deposit \in Nat /\ o.stake \in Nat /\ w.balance \in Nat
  BY <1>1, Covered DEF IsRecord
<1>7. sum2 \in Nat
      /\ n.balance = w.balance - (o.deposit + o.stake) + (d.deposit + d.stake) + (sum2 - sum)
  BY <1>2, <1>5, <1>6
<1> HIDE DEF sum2
<1>8. from2 \in [Addr -> Nat] /\ from2[a] = from[a] + p /\ \A b \in Addr : b # a => from2[b] = from[b]
  OBVIOUS
<1> HIDE DEF from2
<1>9. n.deposits[a] = d /\ n.logged[a] = d.deposit + from2[a]
  BY <1>1, <1>2, <1>4, <1>5, <1>6, <1>8 DEF IsWorld
<1>10. /\ n.deposits = [w.deposits EXCEPT ![a] = n.deposits[a]]
       /\ n.logged = [w.logged EXCEPT ![a] = n.logged[a]]
  BY <1>1, <1>4, <1>5, <1>9 DEF IsWorld
<1>11. Follows(w, sum, from, a, n, sum2, from2)
  BY <1>2, <1>3, <1>7, <1>8, <1>9, <1>10 DEF Follows
<1>12. Books(n, sum2, from2)
  BY <1>11, BooksUpdate
<1>13. QED  BY <1>12 DEF n, from2, sum2

(* ... returning a part of one, ... *)
LEMMA RefundBooks ==
  ASSUME NEW sum \in Nat, NEW from \in [Addr -> Nat], NEW w, Books(w, sum, from), NEW a \in Addr,
         NEW r \in Nat, r <= sum, r <= from[a]
  PROVE  Books(Stakes!_incrementDeposit(w, a, r), sum - r, [from EXCEPT ![a] = @ - r])
<1> DEFINE o == w.deposits[a]
           d == [o EXCEPT !.deposit = o.deposit + r]
           n == Stakes!_incrementDeposit(w, a, r)
           from2 == [from EXCEPT ![a] = from[a] - r]
           sum2 == sum - r
<1>1. IsWorld(w) /\ IsRecord(o) /\ w.logged[a] = o.deposit + from[a]
  BY DEF Books, IsWorld
<1>2. IsRecord(d) /\ d.deposit = o.deposit + r /\ d.stake = o.stake
  BY <1>1 DEF IsRecord, DepositFields
<1>3. n = [x \in Fields |-> n[x]] /\ n.events = w.events
  BY <1>1 DEF IsWorld, Fields, Stakes!_incrementDeposit
<1>4. n.deposits = [w.deposits EXCEPT ![a] = d]
  BY <1>1 DEF IsWorld, Fields, Stakes!_incrementDeposit
<1>5. n.logged = w.logged /\ n.balance = w.balance
  BY <1>1 DEF IsWorld, Fields, Stakes!_incrementDeposit
<1> HIDE DEF n, d
<1>6. o.deposit \in Nat /\ o.stake \in Nat /\ w.balance \in Nat
  BY <1>1, Covered DEF IsRecord
<1>7. sum2 \in Nat
      /\ n.balance = w.balance - (o.deposit + o.stake) + (d.deposit + d.stake) + (sum2 - sum)
  BY <1>2, <1>5, <1>6
<1>8. from2 \in [Addr -> Nat] /\ from2[a] = from[a] - r /\ \A b \in Addr : b # a => from2[b] = from[b]
  OBVIOUS
<1> HIDE DEF from2, sum2
<1>9. n.deposits[a] = d /\ n.logged[a] = d.deposit + from2[a]
  BY <1>1, <1>2, <1>4, <1>5, <1>6, <1>8 DEF IsWorld
<1>10. /\ n.deposits = [w.deposits EXCEPT ![a] = n.deposits[a]]
       /\ n.logged = [w.logged EXCEPT ![a] = n.logged[a]]
  BY <1>1, <1>4, <1>5, <1>9 DEF IsWorld
<1>11. Follows(w, sum, from, a, n, sum2, from2)
  BY <1>2, <1>3, <1>7, <1>8, <1>9, <1>10 DEF Follows
<1>12. Books(n, sum2, from2)
  BY <1>11, BooksUpdate
<1>13. QED  BY <1>12 DEF n, from2, sum2

(* ... and the event that says what an operation cost. *)
LEMMA EventBooks ==
  ASSUME NEW sum \in Nat, NEW from \in [Addr -> Nat], NEW w, Books(w, sum, from),
         NEW op \in Ops, Payer(op) \in Addr, NEW c \in 0..op.prefund, op.prefund \in Nat,
         NEW success \in BOOLEAN
  PROVE  Books(Event(w, op, success, c), sum, [from EXCEPT ![Payer(op)] = @ - c])
<1> DEFINE a == Payer(op)
           n == Event(w, op, success, c)
           from2 == [from EXCEPT ![a] = from[a] - c]
<1>1. IsWorld(w) /\ a \in Addr /\ \A b \in Addr : w.logged[b] = w.deposits[b].deposit + from[b]
  BY DEF Books
<1>2. n = [x \in Fields |-> n[x]] /\ n.deposits = w.deposits /\ n.balance = w.balance
  BY <1>1 DEF IsWorld, Fields, Event
<1>3. /\ n.logged = [w.logged EXCEPT ![a] = w.logged[a] - c]
      /\ n.events = [w.events EXCEPT ![op] = Append(w.events[op], [success |-> success, cost |-> c])]
  BY <1>1 DEF IsWorld, Fields, Event
<1> HIDE DEF n, a
<1>4. n.logged[a] = w.logged[a] - c /\ \A b \in Addr : b # a => n.logged[b] = w.logged[b]
  BY <1>1, <1>3 DEF IsWorld
<1>5. n.logged = [b \in Addr |-> n.logged[b]]
  BY <1>1, <1>3 DEF IsWorld
<1>6. ChargesWithin(n)
  <2> DEFINE charge == [success |-> success, cost |-> c]
  <2>1. charge \in Charge /\ charge.cost = c
    BY DEF Charge
  <2> HIDE DEF charge
  <2>2. /\ w.events \in [Ops -> Seq(Charge)] /\ w.events[op] \in Seq(Charge)
        /\ \A o \in Ops : w.events[o] # <<>> => w.events[o][1].cost \in 0..o.prefund
    BY <1>1 DEF IsWorld, ChargesWithin
  <2>3. n.events = [w.events EXCEPT ![op] = Append(w.events[op], charge)]
    BY <1>3 DEF charge
  <2>4. n.events \in [Ops -> Seq(Charge)]
    BY <2>1, <2>2, <2>3, AppendProperties
  <2>5. n.events[op][1].cost \in 0..op.prefund
    <3>1. n.events[op] = Append(w.events[op], charge)
      BY <2>2, <2>3
    <3>2. CASE w.events[op] = <<>>
      BY <2>1, <3>1, <3>2
    <3>3. CASE w.events[op] # <<>>
      <4>1. Append(w.events[op], charge)[1] = w.events[op][1]
        BY <2>1, <2>2, <3>3, AppendProperties, EmptySeq, LenProperties
      <4>2. QED  BY <2>2, <3>1, <3>3, <4>1
    <3>4. QED  BY <3>2, <3>3
  <2>6. ASSUME NEW o \in Ops, n.events[o] # <<>>
        PROVE  n.events[o][1].cost \in 0..o.prefund
    BY <2>2, <2>3, <2>5, <2>6
  <2>7. QED  BY <2>4, <2>6 DEF ChargesWithin
<1>7. IsWorld(n) /\ Stakes!Owed(n) = Stakes!Owed(w)
  BY <1>1, <1>2, <1>5, <1>6 DEF IsWorld, Stakes!Owed
<1>8. ASSUME NEW b \in Addr PROVE n.logged[b] = n.deposits[b].deposit + from2[b]
  <2>1. w.deposits[b].deposit \in Nat /\ from[b] \in Nat
    BY <1>1 DEF IsWorld, IsRecord
  <2>2. c \in Nat
    OBVIOUS
  <2>3. CASE b = a
    BY <1>1, <1>2, <1>4, <2>1, <2>2, <2>3
  <2>4. CASE b # a
    BY <1>1, <1>2, <1>4, <2>1, <2>4
  <2>5. QED  BY <2>3, <2>4
<1> HIDE DEF from2
<1>9. Books(n, sum, from2)
  BY <1>2, <1>7, <1>8 DEF Books
<1>10. QED  BY <1>9 DEF n, from2, a

(* Together: what an operation cost is settled against its prefund. *)
LEMMA SettledBooks ==
  ASSUME NEW sum \in Nat, NEW from \in [Addr -> Nat], NEW w, Books(w, sum, from),
         NEW op \in Ops, Payer(op) \in Addr, op.prefund \in Nat, NEW c \in 0..op.prefund,
         NEW success \in BOOLEAN,
         op.prefund <= sum, op.prefund <= from[Payer(op)]
  PROVE  Books(Refunded(Event(w, op, success, c), op, c), sum - op.prefund + c,
               [from EXCEPT ![Payer(op)] = @ - op.prefund])
<1> DEFINE a == Payer(op)
           r == op.prefund - c
           m == Event(w, op, success, c)
           fromEvent == [from EXCEPT ![a] = from[a] - c]
<1>1. Books(m, sum, fromEvent)
  BY EventBooks
<1>2. a \in Addr /\ r \in Nat /\ r <= sum /\ fromEvent \in [Addr -> Nat] /\ r <= fromEvent[a]
  OBVIOUS
<1>3. [fromEvent EXCEPT ![a] = fromEvent[a] - r] = [from EXCEPT ![a] = from[a] - op.prefund]
  <2>1. fromEvent[a] - r = from[a] - op.prefund
    BY <1>2
  <2>2. QED  BY <1>2, <2>1
<1>4. Refunded(m, op, c) = Stakes!_incrementDeposit(m, a, r)
  BY DEF Refunded, RefundAddress, Payer
<1> HIDE DEF m, fromEvent, a, r
<1>5. Books(Stakes!_incrementDeposit(m, a, r), sum - r, [fromEvent EXCEPT ![a] = fromEvent[a] - r])
  BY <1>1, <1>2, RefundBooks
<1>6. sum - r = sum - op.prefund + c
  BY DEF r
<1>7. QED  BY <1>3, <1>4, <1>5, <1>6 DEF m, a

---------------------------------------------------------------------------
(* What a bundle holds: the prefunds of a set H of its operations. *)
HeldOf(b, H) == [j \in 1..Len(b.ops) |-> IF j \in H THEN b.ops[j].op.prefund ELSE 0]

HeldOfFrom(b, H, a) ==
  [j \in 1..Len(b.ops) |-> IF j \in H /\ Payer(b.ops[j].op) = a THEN b.ops[j].op.prefund ELSE 0]

Sum(b, H, fees) == Total(HeldOf(b, H)) + fees

From(b, H) == [a \in Addr |-> Total(HeldOfFrom(b, H, a))]

(* Every operation of a bundle has a payer and a prefund. *)
LEMMA OpType ==
  ASSUME NEW b \in Bundles, NEW j \in 1..Len(b.ops)
  PROVE  /\ b.ops[j].op \in Ops /\ b.ops[j].op.prefund \in Nat
         /\ Payer(b.ops[j].op) \in Addr
<1>1. b.ops \in Seq([op : Ops, group : 1..Len(b.aggregators)])
  BY BundleType
<1>2. b.ops[j] \in [op : Ops, group : 1..Len(b.aggregators)]
  BY <1>1, ElementOfSeq
<1>3. b.ops[j].op \in Ops
  BY <1>2
<1>4. QED  BY <1>3, MoneyAssumption DEF MoneyAssumption, Payer

LEMMA HeldType ==
  ASSUME NEW b \in Bundles, NEW H
  PROVE  /\ HeldOf(b, H) \in [1..Len(b.ops) -> Nat]
         /\ \A a \in Addr : HeldOfFrom(b, H, a) \in [1..Len(b.ops) -> Nat]
         /\ Total(HeldOf(b, H)) \in Nat
         /\ From(b, H) \in [Addr -> Nat]
         /\ IsFiniteSet(1..Len(b.ops))
<1>1. \A j \in 1..Len(b.ops) : b.ops[j].op.prefund \in Nat
  BY OpType
<1>2. IsFiniteSet(1..Len(b.ops))
  BY BundleType, FS_Interval
<1>3. HeldOf(b, H) \in [1..Len(b.ops) -> Nat]
  BY <1>1 DEF HeldOf
<1>4. \A a \in Addr : HeldOfFrom(b, H, a) \in [1..Len(b.ops) -> Nat]
  BY <1>1 DEF HeldOfFrom
<1>5. Total(HeldOf(b, H)) \in Nat
  BY <1>2, <1>3, TotalType
<1>6. \A a \in Addr : Total(HeldOfFrom(b, H, a)) \in Nat
  BY <1>2, <1>4, TotalType
<1>7. QED  BY <1>2, <1>3, <1>4, <1>5, <1>6 DEF From

(* Sums that differ in one summand. *)
DifferAt(S, f, g, k) ==
  /\ IsFiniteSet(S) /\ f \in [S -> Nat] /\ g \in [S -> Nat] /\ k \in S
  /\ \A j \in S : j # k => g[j] = f[j]

LEMMA TotalChange ==
  ASSUME NEW S, NEW f, NEW g, NEW k, DifferAt(S, f, g, k)
  PROVE  Total(g) = Total(f) - f[k] + g[k]
BY TotalUpdate DEF DifferAt

(* One prefund more is held, of whoever pays for the operation. *)
LEMMA HoldOne ==
  ASSUME NEW b \in Bundles, NEW H, NEW k \in 1..Len(b.ops), k \notin H
  PROVE  LET op == b.ops[k].op
         IN  /\ Total(HeldOf(b, H \cup {k})) = Total(HeldOf(b, H)) + op.prefund
             /\ From(b, H \cup {k}) = [From(b, H) EXCEPT ![Payer(op)] = @ + op.prefund]
<1> DEFINE op == b.ops[k].op
           G == H \cup {k}
           S == 1..Len(b.ops)
<1>1. op.prefund \in Nat /\ Payer(op) \in Addr
  BY OpType
<1>2. /\ HeldOf(b, H) \in [S -> Nat] /\ HeldOf(b, G) \in [S -> Nat] /\ IsFiniteSet(S)
      /\ Total(HeldOf(b, H)) \in Nat /\ k \in S
  BY HeldType
<1>3. /\ HeldOf(b, H)[k] = 0 /\ HeldOf(b, G)[k] = op.prefund
      /\ \A j \in S : j # k => HeldOf(b, G)[j] = HeldOf(b, H)[j]
  BY DEF HeldOf
<1>4. Total(HeldOf(b, G)) = Total(HeldOf(b, H)) - HeldOf(b, H)[k] + HeldOf(b, G)[k]
  <2>1. DifferAt(S, HeldOf(b, H), HeldOf(b, G), k)
    BY <1>2, <1>3 DEF DifferAt
  <2> HIDE DEF S, G
  <2>2. QED  BY <2>1, TotalChange
<1>5. Total(HeldOf(b, G)) = Total(HeldOf(b, H)) + op.prefund
  BY <1>1, <1>2, <1>3, <1>4
<1>6. ASSUME NEW a \in Addr
      PROVE  From(b, G)[a] = IF a = Payer(op) THEN From(b, H)[a] + op.prefund ELSE From(b, H)[a]
  <2> DEFINE f == HeldOfFrom(b, H, a)
             g == HeldOfFrom(b, G, a)
  <2>1. f \in [S -> Nat] /\ g \in [S -> Nat] /\ Total(f) \in Nat /\ IsFiniteSet(S)
    <3>1. f \in [S -> Nat] /\ g \in [S -> Nat] /\ IsFiniteSet(S)
      BY HeldType
    <3>2. QED  BY <3>1, TotalType
  <2>2. /\ f[k] = 0 /\ g[k] = IF a = Payer(op) THEN op.prefund ELSE 0
        /\ \A j \in S : j # k => g[j] = f[j]
    BY DEF HeldOfFrom
  <2> HIDE DEF f, g
  <2>3. Total(g) = Total(f) - f[k] + g[k]
    <3>1. DifferAt(S, f, g, k)
      BY <1>2, <2>1, <2>2 DEF DifferAt
    <3>2. QED  BY <3>1, TotalChange
  <2>4. Total(g) = IF a = Payer(op) THEN Total(f) + op.prefund ELSE Total(f)
    BY <1>1, <2>1, <2>2, <2>3
  <2>5. QED  BY <2>4 DEF From, f, g
<1>7. From(b, G) = [From(b, H) EXCEPT ![Payer(op)] = From(b, H)[Payer(op)] + op.prefund]
  <2>1. DOMAIN From(b, G) = Addr /\ DOMAIN From(b, H) = Addr /\ From(b, G) = [a \in Addr |-> From(b, G)[a]]
    BY DEF From
  <2>2. QED  BY <1>6, <2>1
<1>8. QED  BY <1>5, <1>7

(* One prefund less: what is left is what there was without it. *)
LEMMA ReleaseOne ==
  ASSUME NEW b \in Bundles, NEW H, NEW k \in 1..Len(b.ops), k \in H
  PROVE  LET op == b.ops[k].op
         IN  /\ op.prefund <= Total(HeldOf(b, H)) /\ op.prefund <= From(b, H)[Payer(op)]
             /\ Total(HeldOf(b, H \ {k})) = Total(HeldOf(b, H)) - op.prefund
             /\ From(b, H \ {k}) = [From(b, H) EXCEPT ![Payer(op)] = @ - op.prefund]
<1> DEFINE op == b.ops[k].op
           G == H \ {k}
<1>1. op.prefund \in Nat /\ Payer(op) \in Addr
  BY OpType
<1>2. /\ Total(HeldOf(b, G)) \in Nat /\ From(b, G) \in [Addr -> Nat]
      /\ From(b, H) \in [Addr -> Nat]
  BY HeldType
<1>3. G \cup {k} = H /\ k \notin G
  OBVIOUS
<1>4. /\ Total(HeldOf(b, H)) = Total(HeldOf(b, G)) + op.prefund
      /\ From(b, H) = [From(b, G) EXCEPT ![Payer(op)] = From(b, G)[Payer(op)] + op.prefund]
  <2> HIDE DEF G
  <2>1. /\ Total(HeldOf(b, G \cup {k})) = Total(HeldOf(b, G)) + op.prefund
        /\ From(b, G \cup {k}) = [From(b, G) EXCEPT ![Payer(op)] = From(b, G)[Payer(op)] + op.prefund]
    BY <1>3, HoldOne
  <2>2. QED  BY <1>3, <2>1
<1> HIDE DEF G, op
<1>5. /\ From(b, H)[Payer(op)] = From(b, G)[Payer(op)] + op.prefund
      /\ \A a \in Addr : a # Payer(op) => From(b, H)[a] = From(b, G)[a]
  BY <1>1, <1>2, <1>4
<1>6. From(b, G) = [From(b, H) EXCEPT ![Payer(op)] = From(b, H)[Payer(op)] - op.prefund]
  BY <1>1, <1>2, <1>5
<1>7. op.prefund <= Total(HeldOf(b, H)) /\ op.prefund <= From(b, H)[Payer(op)]
  BY <1>1, <1>2, <1>4, <1>5
<1>8. Total(HeldOf(b, G)) = Total(HeldOf(b, H)) - op.prefund
  BY <1>1, <1>2, <1>4
<1>9. QED  BY <1>6, <1>7, <1>8 DEF G, op

(* Before the validation and after the execution nothing is held. *)
LEMMA NoneHeld ==
  ASSUME NEW b
  PROVE  Sum(b, {}, 0) = 0 /\ From(b, {}) = NoneFrom
<1>1. HeldOf(b, {}) = [j \in 1..Len(b.ops) |-> 0]
  BY DEF HeldOf
<1>2. \A a \in Addr : HeldOfFrom(b, {}, a) = [j \in 1..Len(b.ops) |-> 0]
  BY DEF HeldOfFrom
<1>3. Total([j \in 1..Len(b.ops) |-> 0]) = 0
  <2> DEFINE z == [j \in 1..Len(b.ops) |-> 0]
  <2>1. z \in [1..Len(b.ops) -> Nat] /\ \A j \in 1..Len(b.ops) : z[j] = 0
    OBVIOUS
  <2> HIDE DEF z
  <2>2. Total(z) = 0
    BY <2>1, TotalZero
  <2>3. QED  BY <2>2 DEF z
<1>4. Sum(b, {}, 0) = 0
  BY <1>1, <1>3 DEF Sum
<1>5. From(b, {}) = NoneFrom
  BY <1>2, <1>3 DEF From, NoneFrom
<1>6. QED  BY <1>4, <1>5

---------------------------------------------------------------------------
(* The operations whose prefunds the bundle holds now. *)
HeldNow == {j \in 1..Last : PrefundHeld(j)}

(* A world the bundle may go on in, and one it may end in. *)
InOrder(w) == Books(w, Sum(bundle, HeldNow, collected), From(bundle, HeldNow))

AtRest(w) == Books(w, 0, NoneFrom)

FeesInv ==
  /\ collected \in Nat /\ (~Executing => collected = 0)
  /\ Executing => i \in 1..(Last + 1) /\ (pc # "execute" => i <= Last)

SavedInv ==
  /\ saved = [bundle |-> saved.bundle, inner |-> saved.inner, call |-> saved.call]
  /\ pc # "idle" => AtRest(saved.bundle)
  /\ pc \in {"call", "postOp", "settle"} => InOrder(saved.inner)
  /\ pc = "call" => InOrder(saved.call)

(* The withdrawals that were in progress when the bundle came are outside of it. *)
FramesInv ==
  /\ \E S : frames \in Seq(S)
  /\ base \in 0..Len(frames)
  /\ pc = "idle" => base = 0
  /\ pc \notin Callees \cup {"idle"} => Len(frames) = base
  /\ \A k \in 1..base : AtRest(frames[k])
  /\ \A k \in (base + 1)..Len(frames) : InOrder(frames[k])

MoneyInv == FeesInv /\ InOrder(world) /\ SavedInv /\ FramesInv

LEMMA NothingHeld ==
  /\ ~Validating /\ ~Executing => HeldNow = {}
  /\ ~Validating' /\ ~Executing' => HeldNow' = {}
BY DEF HeldNow, PrefundHeld

(* When nothing is held, going on and ending ask the same of a world. *)
LEMMA OrderAtRest ==
  ASSUME NEW w
  PROVE  /\ HeldNow = {} /\ collected = 0 => (InOrder(w) <=> AtRest(w))
         /\ HeldNow' = {} /\ collected' = 0 => (InOrder(w)' <=> AtRest(w))
<1>1. HeldNow = {} /\ collected = 0 => (InOrder(w) <=> AtRest(w))
  BY NoneHeld DEF InOrder, AtRest
<1>2. HeldNow' = {} /\ collected' = 0 => (InOrder(w)' <=> AtRest(w))
  <2>1. Sum(bundle', {}, 0) = 0 /\ From(bundle', {}) = NoneFrom
    BY NoneHeld
  <2>2. QED  BY <2>1 DEF InOrder, AtRest
<1>3. QED  BY <1>1, <1>2

(* The first n frames of a sequence of frames. *)
LEMMA Prefix ==
  ASSUME FramesInv, NEW n \in 0..Len(frames)
  PROVE  /\ \E S : SubSeq(frames, 1, n) \in Seq(S)
         /\ Len(SubSeq(frames, 1, n)) = n
         /\ \A k \in 1..n : SubSeq(frames, 1, n)[k] = frames[k]
<1>1. PICK S : frames \in Seq(S)
  BY DEF FramesInv
<1>2. Len(frames) \in Nat /\ \A k \in 1..Len(frames) : frames[k] \in S
  BY <1>1, LenProperties, ElementOfSeq
<1>3. \A k \in 1..n : frames[k] \in S
  BY <1>2
<1>4. /\ SubSeq(frames, 1, n) \in Seq(S)
      /\ Len(SubSeq(frames, 1, n)) = IF 1 <= n THEN n - 1 + 1 ELSE 0
      /\ \A k \in 1..(n - 1 + 1) : SubSeq(frames, 1, n)[k] = frames[1 + k - 1]
  BY <1>2, <1>3, SubSeqProperties
<1>5. Len(SubSeq(frames, 1, n)) = n /\ \A k \in 1..n : SubSeq(frames, 1, n)[k] = frames[k]
  BY <1>2, <1>4
<1>6. QED  BY <1>4, <1>5

---------------------------------------------------------------------------
(* A bundle ends in a world at rest. *)
LEMMA EndMoney ==
  ASSUME MoneyInv, NEW r, End(r), AtRest(world'),
         \E S : frames' \in Seq(S), \A k \in 1..Len(frames') : AtRest(frames'[k])
  PROVE  MoneyInv'
<1>1. pc' = "idle" /\ collected' = 0 /\ base' = 0 /\ saved' = NoWorlds
  BY DEF End
<1>2. ~Validating' /\ ~Executing'
  BY <1>1 DEF Validating, Executing
<1>3. HeldNow' = {}
  BY <1>2, NothingHeld
<1>4. FeesInv'
  BY <1>1, <1>2 DEF FeesInv
<1>5. InOrder(world)'
  BY <1>1, <1>3, NoneHeld DEF InOrder, AtRest
<1>6. SavedInv'
  BY <1>1 DEF SavedInv, NoWorlds
<1>7. FramesInv'
  <2>1. Len(frames') \in Nat
    BY LenProperties
  <2>2. \A k \in 1..Len(frames') : InOrder(frames[k])'
    BY <1>1, <1>3, NoneHeld DEF InOrder, AtRest
  <2>3. QED  BY <1>1, <2>1, <2>2 DEF FramesInv
<1>8. QED  BY <1>4, <1>5, <1>6, <1>7 DEF MoneyInv

(* A revert brings back the world and the withdrawals of before the bundle. *)
LEMMA RevertMoney ==
  ASSUME MoneyInv, pc # "idle", NEW r, Revert(r)
  PROVE  MoneyInv'
<1>1. End(r) /\ world' = saved.bundle /\ frames' = SubSeq(frames, 1, base)
  BY DEF Revert
<1>2. AtRest(world')
  BY <1>1 DEF MoneyInv, SavedInv
<1>3. /\ \E S : frames' \in Seq(S)
      /\ Len(frames') = base
      /\ \A k \in 1..base : frames'[k] = frames[k]
  BY <1>1, Prefix DEF MoneyInv, FramesInv
<1>4. \A k \in 1..Len(frames') : AtRest(frames'[k])
  BY <1>3 DEF MoneyInv, FramesInv
<1>5. QED  BY <1>1, <1>2, <1>3, <1>4, EndMoney

LEMMA AbortMoney ==
  ASSUME MoneyInv, pc # "idle", Abort \/ \E index : FailedOp(index)
  PROVE  MoneyInv'
BY RevertMoney DEF Abort, FailedOp

(* A step of the bundle from one stage to another. *)
LEMMA StepMoney ==
  ASSUME MoneyInv, pc # "idle", pc' # "idle", Len(frames) = base, UNCHANGED <<frames, base>>,
         saved' = [bundle |-> saved.bundle, inner |-> saved'.inner, call |-> saved'.call],
         FeesInv', InOrder(world)',
         pc' \in {"call", "postOp", "settle"} => InOrder(saved.inner)',
         pc' = "call" => InOrder(saved.call)'
  PROVE  MoneyInv'
<1>1. SavedInv'
  BY DEF MoneyInv, SavedInv, AtRest
<1>2. FramesInv'
  <2>1. Len(frames) \in Nat
    BY LenProperties DEF MoneyInv, FramesInv
  <2>2. QED  BY <2>1 DEF MoneyInv, FramesInv, AtRest
<1>3. QED  BY <1>1, <1>2 DEF MoneyInv

(* A step that takes and settles nothing. *)
LEMMA KeepMoney ==
  ASSUME MoneyInv, pc # "idle", pc' # "idle", Len(frames) = base,
         UNCHANGED <<frames, base, bundle, collected>>, HeldNow' = HeldNow,
         Books(world', Sum(bundle, HeldNow, collected), From(bundle, HeldNow)),
         FeesInv',
         \/ saved' = [saved EXCEPT !.inner = world, !.call = world]
         \/ saved' = saved /\ (pc' \in {"call", "postOp", "settle"} => pc \in {"call", "postOp", "settle"})
                            /\ pc' # "call"
  PROVE  MoneyInv'
<1>1. saved = [bundle |-> saved.bundle, inner |-> saved.inner, call |-> saved.call]
  BY DEF MoneyInv, SavedInv
<1>2. InOrder(world)'
  BY DEF MoneyInv, InOrder
<1>3. saved' = [bundle |-> saved.bundle, inner |-> saved'.inner, call |-> saved'.call]
  BY <1>1
<1>4. pc' \in {"call", "postOp", "settle"} => InOrder(saved.inner)'
  BY <1>1 DEF MoneyInv, SavedInv, InOrder
<1>5. pc' = "call" => InOrder(saved.call)'
  BY <1>1 DEF MoneyInv, SavedInv, InOrder
<1>6. QED  BY <1>2, <1>3, <1>4, <1>5, StepMoney

(* In the called code of the bundle, and in the EntryPoint's own, its frames are the last. *)
LEMMA OwnFrames ==
  ASSUME MoneyInv, (\E p : CalleeIs(p)) \/ pc \notin Callees \cup {"idle"}
  PROVE  Len(frames) = base
BY DEF MoneyInv, FramesInv, CalleeIs

(* The loop over the groups, and the start of the validation. *)
LEMMA GroupsMoney ==
  ASSUME MoneyInv, CheckGroup \/ AggregatorReturns \/ GroupsChecked
  PROVE  MoneyInv'
<1>1. pc \in {"groups", "aggregator"} /\ Len(frames) = base
  BY OwnFrames DEF CheckGroup, AggregatorReturns, GroupsChecked, CalleeIs, Callees
<1>2. CASE Abort
  BY <1>1, <1>2, AbortMoney
<1>3. CASE ~Abort
  <2>1. /\ pc' \in {"groups", "aggregator", "validate"} /\ (pc' = "validate" => i' = 1)
        /\ UNCHANGED <<frames, base, bundle, collected, saved, world>>
    BY <1>3 DEF CheckGroup, AggregatorReturns, GroupsChecked, Goto
  <2>2. HeldNow = {} /\ ~Executing /\ ~Executing'
    BY <1>1, <2>1, NothingHeld DEF Validating, Executing
  <2>3. HeldNow' = {}
    BY <2>1 DEF HeldNow, PrefundHeld, Validating, Executing
  <2>4. FeesInv'
    BY <2>1, <2>2 DEF MoneyInv, FeesInv
  <2>5. Books(world', Sum(bundle, HeldNow, collected), From(bundle, HeldNow))
    BY <2>1 DEF MoneyInv, InOrder
  <2>6. QED  BY <1>1, <2>1, <2>2, <2>3, <2>4, <2>5, KeepMoney
<1>4. QED  BY <1>2, <1>3

(* The validation of operation i begins: its prefund is still to be taken. *)
LEMMA CallMoney ==
  ASSUME MoneyInv, pc \in {"validate", "factory"}, Len(frames) = base,
         pc' \in {"factory", "account"}, UNCHANGED <<frames, base, bundle, collected, saved, world, i>>
  PROVE  MoneyInv'
<1>1. HeldNow' = HeldNow /\ ~Executing /\ ~Executing'
  BY DEF HeldNow, PrefundHeld, Validating, Executing, Last, Op
<1>2. FeesInv'
  BY <1>1 DEF MoneyInv, FeesInv
<1>3. Books(world', Sum(bundle, HeldNow, collected), From(bundle, HeldNow))
  BY DEF MoneyInv, InOrder
<1>4. QED  BY <1>1, <1>2, <1>3, KeepMoney

LEMMA ValidateOpMoney ==
  ASSUME MoneyInv, ValidateOp \/ \E a \in Addr \cup {NoOne} : FactoryReturns(a)
  PROVE  MoneyInv'
<1>1. pc \in {"validate", "factory"} /\ Len(frames) = base
  BY OwnFrames DEF ValidateOp, FactoryReturns, CalleeIs, Callees
<1>2. CASE Abort \/ \E index : FailedOp(index)
  BY <1>1, <1>2, AbortMoney
<1>3. CASE ~(Abort \/ \E index : FailedOp(index))
  <2>1. /\ pc' \in {"factory", "account"}
        /\ UNCHANGED <<frames, base, bundle, collected, saved, world, i>>
    BY <1>3 DEF ValidateOp, FactoryReturns, CallAccount, Goto
  <2>2. QED  BY <1>1, <2>1, CallMoney
<1>4. QED  BY <1>2, <1>3

(* Taking the prefund of operation i. *)
LEMMA HoldMoney ==
  ASSUME bundle \in Bundles, collected \in Nat, i \in 1..Last, i \notin HeldNow,
         NEW w, InOrder(w), CanPrefund(w, Payer(Op(i)), Op(i).prefund)
  PROVE  Books(Prefunded(w, Payer(Op(i)), Op(i).prefund),
               Sum(bundle, HeldNow \cup {i}, collected), From(bundle, HeldNow \cup {i}))
<1> DEFINE op == Op(i)
           sum == Sum(bundle, HeldNow, collected)
           from == From(bundle, HeldNow)
<1>1. op.prefund \in Nat /\ Payer(op) \in Addr
  BY OpType DEF Op, Last
<1>2. Total(HeldOf(bundle, HeldNow)) \in Nat /\ from \in [Addr -> Nat]
  BY HeldType
<1>3. /\ Total(HeldOf(bundle, HeldNow \cup {i})) = Total(HeldOf(bundle, HeldNow)) + op.prefund
      /\ From(bundle, HeldNow \cup {i}) = [from EXCEPT ![Payer(op)] = from[Payer(op)] + op.prefund]
  BY HoldOne DEF Op, Last
<1>4. sum \in Nat /\ Sum(bundle, HeldNow \cup {i}, collected) = sum + op.prefund
  BY <1>1, <1>2, <1>3 DEF Sum
<1>5. Books(w, sum, from) /\ CanPrefund(w, Payer(op), op.prefund)
  BY DEF InOrder
<1> HIDE DEF sum, from, op
<1>6. Books(Prefunded(w, Payer(op), op.prefund), sum + op.prefund,
            [from EXCEPT ![Payer(op)] = from[Payer(op)] + op.prefund])
  BY <1>1, <1>2, <1>4, <1>5, PrefundedBooks
<1>7. QED  BY <1>3, <1>4, <1>6 DEF op

(* Settling operation i at a cost of c. *)
LEMMA ReleaseMoney ==
  ASSUME bundle \in Bundles, collected \in Nat, i \in 1..Last, i \in HeldNow,
         NEW w, InOrder(w), NEW c \in 0..Op(i).prefund, NEW success \in BOOLEAN
  PROVE  Books(Refunded(Event(w, Op(i), success, c), Op(i), c),
               Sum(bundle, HeldNow \ {i}, collected + c), From(bundle, HeldNow \ {i}))
<1> DEFINE op == Op(i)
           sum == Sum(bundle, HeldNow, collected)
           from == From(bundle, HeldNow)
<1>1. op \in Ops /\ op.prefund \in Nat /\ Payer(op) \in Addr
  BY OpType DEF Op, Last
<1>2. Total(HeldOf(bundle, HeldNow)) \in Nat /\ from \in [Addr -> Nat]
  BY HeldType
<1>3. /\ op.prefund <= Total(HeldOf(bundle, HeldNow)) /\ op.prefund <= from[Payer(op)]
      /\ Total(HeldOf(bundle, HeldNow \ {i})) = Total(HeldOf(bundle, HeldNow)) - op.prefund
      /\ From(bundle, HeldNow \ {i}) = [from EXCEPT ![Payer(op)] = from[Payer(op)] - op.prefund]
  BY ReleaseOne DEF Op, Last
<1>4. /\ sum \in Nat /\ op.prefund <= sum
      /\ Sum(bundle, HeldNow \ {i}, collected + c) = sum - op.prefund + c
  BY <1>1, <1>2, <1>3 DEF Sum
<1>5. Books(w, sum, from) /\ c \in 0..op.prefund
  BY DEF InOrder
<1> HIDE DEF sum, from, op
<1>6. Books(Refunded(Event(w, op, success, c), op, c), sum - op.prefund + c,
            [from EXCEPT ![Payer(op)] = from[Payer(op)] - op.prefund])
  BY <1>1, <1>2, <1>3, <1>4, <1>5, SettledBooks
<1>7. QED  BY <1>3, <1>4, <1>6 DEF op

(* Where the validation and the execution are in the bundle. *)
LEMMA Position ==
  ASSUME Inv, FeesInv, Validating \/ Executing
  PROVE  /\ bundle \in Bundles /\ Last \in Nat /\ i \in 1..(Last + 1)
         /\ pc \notin {"validate", "execute"} => i <= Last
<1>1. bundle \in Bundles
  BY DEF Inv, Types, Validating, Executing
<1>2. Last \in Nat
  BY <1>1, BundleType DEF Last
<1>3. CASE Validating
  <2>1. opInfos \in Seq(Info) /\ i = Len(opInfos) + 1 /\ i <= Last + 1 /\ (pc # "validate" => i <= Last)
    BY <1>3 DEF Inv, ValidatedSoFar
  <2>2. Len(opInfos) \in Nat
    BY <2>1, LenProperties
  <2>3. pc # "execute"
    BY <1>3 DEF Validating
  <2>4. QED  BY <1>1, <1>2, <2>1, <2>2, <2>3
<1>4. CASE Executing
  <2>1. pc # "validate"
    BY <1>4 DEF Executing
  <2>2. QED  BY <1>1, <1>2, <1>4, <2>1 DEF FeesInv
<1>5. QED  BY <1>3, <1>4

(* The account answers: its own prefund, or its paymaster's, has been taken. *)
LEMMA AccountReturnsMoney ==
  ASSUME Inv, MoneyInv, NEW d \in ValidationData, AccountReturns(d)
  PROVE  MoneyInv'
<1> DEFINE op == Op(i)
           after == HeldNow \cup {i}
<1>1. pc = "account" /\ Len(frames) = base /\ Validating /\ ~Executing
  BY OwnFrames DEF AccountReturns, CalleeIs, Validating, Executing
<1>2. CASE Abort \/ \E index : FailedOp(index)
  BY <1>1, <1>2, AbortMoney
<1>3. CASE ~(Abort \/ \E index : FailedOp(index))
  <2>1. bundle \in Bundles /\ collected = 0 /\ Last \in Nat /\ i \in 1..Last
    BY <1>1, Position DEF MoneyInv, FeesInv
  <2>2. i \notin HeldNow
    BY <1>1, <2>1 DEF HeldNow, PrefundHeld, Validating, Executing
  <2>3. /\ UNCHANGED <<frames, base, bundle, collected, saved>>
        /\ \/ pc' = "validate" /\ i' = i + 1
           \/ pc' = "paymaster" /\ i' = i
    BY <1>3 DEF AccountReturns, NextOp, Goto
  <2>4. ~Executing' /\ HeldNow' = after
    BY <1>1, <2>1, <2>3 DEF HeldNow, PrefundHeld, Validating, Executing, Last
  <2>5. Books(world', Sum(bundle, after, collected), From(bundle, after))
    <3>1. CASE op.paymaster = NoOne
      <4> DEFINE paid == Prefunded(world, op.sender, op.prefund)
      <4>1. world' = NonceUsed(paid, op) /\ CanPrefund(world, op.sender, op.prefund)
        BY <1>3, <3>1 DEF AccountReturns, NextOp
      <4>2. Payer(op) = op.sender
        BY <3>1 DEF Payer
      <4>3. Books(paid, Sum(bundle, after, collected), From(bundle, after))
        BY <2>1, <2>2, <4>1, <4>2, HoldMoney DEF MoneyInv
      <4> HIDE DEF paid
      <4>4. paid = [x \in Fields |-> paid[x]]
        BY <4>3 DEF Books, IsWorld
      <4>5. /\ world' = [x \in Fields |-> world'[x]] /\ world'.deposits = paid.deposits
            /\ world'.logged = paid.logged /\ world'.balance = paid.balance /\ world'.events = paid.events
        BY <4>1, <4>4 DEF NonceUsed, Fields
      <4>6. QED  BY <4>3, <4>5, SameBooks
    <3>2. CASE op.paymaster # NoOne
      <4> DEFINE used == NonceUsed(world, op)
      <4>1. world' = Prefunded(used, op.paymaster, op.prefund) /\ CanPrefund(used, op.paymaster, op.prefund)
        BY <1>3, <3>2 DEF AccountReturns
      <4>2. Payer(op) = op.paymaster
        BY <3>2 DEF Payer
      <4>3. InOrder(world) /\ world = [x \in Fields |-> world[x]]
        BY DEF MoneyInv, InOrder, Books, IsWorld
      <4>4. /\ used = [x \in Fields |-> used[x]] /\ used.deposits = world.deposits
            /\ used.logged = world.logged /\ used.balance = world.balance /\ used.events = world.events
        BY <4>3 DEF NonceUsed, Fields
      <4> HIDE DEF used
      <4>5. InOrder(used)
        BY <4>3, <4>4, SameBooks DEF InOrder
      <4>6. QED  BY <2>1, <2>2, <4>1, <4>2, <4>5, HoldMoney
    <3>3. QED  BY <3>1, <3>2
  <2>6. InOrder(world)'
    BY <2>3, <2>4, <2>5 DEF InOrder
  <2>7. FeesInv'
    BY <2>1, <2>3, <2>4 DEF FeesInv
  <2>8. saved' = [bundle |-> saved.bundle, inner |-> saved'.inner, call |-> saved'.call]
    BY <2>3 DEF MoneyInv, SavedInv
  <2>9. QED  BY <1>1, <2>3, <2>6, <2>7, <2>8, StepMoney
<1>4. QED  BY <1>2, <1>3

(* The paymaster answers: nothing more is taken. *)
LEMMA PaymasterReturnsMoney ==
  ASSUME Inv, MoneyInv, NEW asked \in BOOLEAN, NEW d \in ValidationData, PaymasterReturns(asked, d)
  PROVE  MoneyInv'
<1>1. pc = "paymaster" /\ Len(frames) = base /\ Validating /\ ~Executing
  BY OwnFrames DEF PaymasterReturns, CalleeIs, Validating, Executing
<1>2. CASE \E index : FailedOp(index)
  BY <1>1, <1>2, AbortMoney
<1>3. CASE ~ \E index : FailedOp(index)
  <2>1. /\ pc' = "validate" /\ i' = i + 1
        /\ UNCHANGED <<frames, base, bundle, collected, saved, world>>
    BY <1>3 DEF PaymasterReturns, NextOp, Goto
  <2>2. Last \in Nat /\ i \in 1..Last
    BY <1>1, Position DEF MoneyInv
  <2>3. ~Executing' /\ HeldNow' = HeldNow
    BY <1>1, <2>1, <2>2 DEF HeldNow, PrefundHeld, Validating, Executing, Last
  <2>4. FeesInv'
    BY <1>1, <2>1, <2>3 DEF MoneyInv, FeesInv
  <2>5. Books(world', Sum(bundle, HeldNow, collected), From(bundle, HeldNow))
    BY <2>1 DEF MoneyInv, InOrder
  <2>6. QED  BY <1>1, <2>1, <2>3, <2>4, <2>5, KeepMoney
<1>4. QED  BY <1>2, <1>3

(* The last operation is valid: all the prefunds are held when the first runs. *)
LEMMA AllValidatedMoney ==
  ASSUME Inv, MoneyInv, AllValidated
  PROVE  MoneyInv'
<1>1. /\ pc = "validate" /\ i > Last /\ pc' = "execute" /\ i' = 1
      /\ UNCHANGED <<frames, base, bundle, collected, saved, world>>
  BY DEF AllValidated, Goto
<1>2. Len(frames) = base /\ Validating /\ ~Executing /\ Executing'
  BY <1>1, OwnFrames DEF Validating, Executing, Callees
<1>3. Last \in Nat /\ i \in 1..(Last + 1) /\ Last' = Last
  BY <1>1, <1>2, Position DEF MoneyInv, Last
<1>4. HeldNow' = HeldNow
  BY <1>1, <1>2, <1>3 DEF HeldNow, PrefundHeld, Validating, Executing
<1>5. FeesInv'
  BY <1>1, <1>2, <1>3 DEF MoneyInv, FeesInv
<1>6. Books(world', Sum(bundle, HeldNow, collected), From(bundle, HeldNow))
  BY <1>1 DEF MoneyInv, InOrder
<1>7. QED  BY <1>1, <1>2, <1>4, <1>5, <1>6, KeepMoney

---------------------------------------------------------------------------
(* The execution of operation i, up to its settlement. *)
LEMMA ExecutionMoney ==
  ASSUME Inv, MoneyInv, ExecuteOp \/ CallReturns \/ CallReverts \/ PostOpReturns \/ InnerReverts
  PROVE  MoneyInv'
<1>1. pc \in {"execute", "call", "postOp", "settle"} /\ Len(frames) = base /\ Executing /\ i <= Last
  <2>1. pc \in {"execute", "call", "postOp", "settle"} /\ Executing
    BY DEF ExecuteOp, CallReturns, CallReverts, PostOpReturns, InnerReverts, CalleeIs, Executing
  <2>2. Len(frames) = base
    BY <2>1, OwnFrames DEF ExecuteOp, CallReturns, CallReverts, PostOpReturns, InnerReverts, Callees
  <2>3. i <= Last
    <3>1. CASE ExecuteOp
      BY <3>1 DEF ExecuteOp
    <3>2. CASE ~ExecuteOp
      BY <2>1, <3>2 DEF CallReturns, CallReverts, PostOpReturns, InnerReverts, CalleeIs, MoneyInv, FeesInv
    <3>3. QED  BY <3>1, <3>2
  <2>4. QED  BY <2>1, <2>2, <2>3
<1>2. CASE \E index : FailedOp(index)
  BY <1>1, <1>2, AbortMoney
<1>3. CASE ~ \E index : FailedOp(index)
  <2>1. /\ pc' \in {"call", "postOp", "settle"} /\ UNCHANGED <<frames, base, bundle, collected, i>>
        /\ \/ world' \in {world, [world EXCEPT !.ran = @ \cup {Op(i)}]}
           \/ pc = "call" /\ world' = saved.call
           \/ pc \in {"postOp", "settle"} /\ world' = saved.inner
        /\ \/ saved' = [saved EXCEPT !.inner = world, !.call = world]
           \/ saved' = saved /\ pc \in {"call", "postOp", "settle"} /\ pc' # "call"
    <3>1. CASE ExecuteOp
      BY <1>3, <3>1 DEF ExecuteOp, AfterCall, chain
    <3>2. CASE CallReturns \/ CallReverts
      BY <3>2 DEF CallReturns, CallReverts, CalldataDone, AfterCall, CalleeIs, Goto
    <3>3. CASE PostOpReturns \/ InnerReverts
      BY <3>3 DEF PostOpReturns, InnerReverts, CalleeIs, Goto
    <3>4. QED  BY <3>1, <3>2, <3>3
  <2>2. Executing' /\ HeldNow' = HeldNow
    BY <1>1, <2>1 DEF HeldNow, PrefundHeld, Validating, Executing, Last, Op
  <2>3. FeesInv'
    BY <1>1, <2>1, <2>2 DEF MoneyInv, FeesInv, Last
  <2>4. InOrder(world) /\ (pc = "call" => InOrder(saved.call))
        /\ (pc \in {"postOp", "settle"} => InOrder(saved.inner))
    BY DEF MoneyInv, SavedInv
  <2>5. InOrder([world EXCEPT !.ran = @ \cup {Op(i)}])
    <3> DEFINE n == [world EXCEPT !.ran = @ \cup {Op(i)}]
    <3>1. world = [x \in Fields |-> world[x]]
      BY <2>4 DEF InOrder, Books, IsWorld
    <3>2. /\ n = [x \in Fields |-> n[x]] /\ n.deposits = world.deposits
          /\ n.logged = world.logged /\ n.balance = world.balance /\ n.events = world.events
      BY <3>1 DEF Fields
    <3> HIDE DEF n
    <3>3. InOrder(n)
      BY <2>4, <3>2, SameBooks DEF InOrder
    <3>4. QED  BY <3>3 DEF n
  <2>6. Books(world', Sum(bundle, HeldNow, collected), From(bundle, HeldNow))
    BY <2>1, <2>4, <2>5 DEF InOrder
  <2>7. QED  BY <1>1, <2>1, <2>2, <2>3, <2>6, KeepMoney
<1>4. QED  BY <1>2, <1>3

(* The settlement: the cost becomes a fee, the rest of the prefund a deposit. *)
LEMMA SettleMoney ==
  ASSUME Inv, MoneyInv, NEW cost \in Costs, Settle(cost)
  PROVE  MoneyInv'
<1> DEFINE op == Op(i)
           charged == Charged(op, cost)
           success == cost <= op.prefund /\ mode = "opSucceeded"
           low == op.prefund < cost /\ mode # "postOpReverted"
           w == IF low THEN saved.inner ELSE world
           after == HeldNow \ {i}
<1>1. /\ pc = "settle" /\ pc' = "execute" /\ i' = i + 1
      /\ UNCHANGED <<frames, base, bundle, saved>>
      /\ collected' = collected + charged
      /\ world' = Refunded(Event(w, op, success, charged), op, charged)
  BY DEF Settle, OpDone, Goto
<1>2. Len(frames) = base /\ Executing /\ Executing'
  BY <1>1, OwnFrames DEF Executing, Callees
<1>3. bundle \in Bundles /\ Last \in Nat /\ i \in 1..Last /\ collected \in Nat /\ Last' = Last
  BY <1>1, <1>2, Position DEF MoneyInv, FeesInv, Last
<1>4. charged \in 0..op.prefund
  <2>1. op.prefund \in Nat
    BY <1>3, OpType DEF Op, Last
  <2>2. QED  BY <2>1, MoneyAssumption DEF Charged, MoneyAssumption
<1>5. InOrder(w)
  BY <1>1 DEF MoneyInv, SavedInv
<1>6. i \in HeldNow /\ HeldNow' = after
  BY <1>1, <1>3 DEF HeldNow, PrefundHeld, Validating, Executing
<1>7. success \in BOOLEAN
  OBVIOUS
<1> HIDE DEF charged, success, w
<1>8. Books(world', Sum(bundle, after, collected + charged), From(bundle, after))
  BY <1>1, <1>3, <1>4, <1>5, <1>6, <1>7, ReleaseMoney
<1>9. InOrder(world)'
  BY <1>1, <1>6, <1>8 DEF InOrder
<1>10. FeesInv'
  <2>1. charged \in Nat
    <3>1. op.prefund \in Nat
      BY <1>3, OpType DEF Op, Last
    <3>2. QED  BY <1>4, <3>1
  <2>2. QED  BY <1>1, <1>2, <1>3, <2>1 DEF FeesInv
<1>11. saved' = [bundle |-> saved.bundle, inner |-> saved'.inner, call |-> saved'.call]
  BY <1>1 DEF MoneyInv, SavedInv
<1>12. QED  BY <1>1, <1>2, <1>9, <1>10, <1>11, StepMoney

(* The fees leave: no prefund is held any more. *)
LEMMA CompensateMoney ==
  ASSUME Inv, MoneyInv, NEW a \in Addr \cup {NoOne}, Compensate(a)
  PROVE  MoneyInv'
<1> DEFINE paid == [world EXCEPT !.balance = @ - collected]
<1>1. pc = "execute" /\ i > Last /\ Len(frames) = base /\ Executing
  BY OwnFrames DEF Compensate, Executing, Callees
<1>2. CASE Abort
  BY <1>1, <1>2, AbortMoney
<1>3. CASE ~Abort
  <2>1. bundle \in Bundles /\ Last \in Nat /\ i \in 1..(Last + 1) /\ collected \in Nat
    BY <1>1, Position DEF MoneyInv, FeesInv
  <2>2. HeldNow = {}
    BY <1>1, <2>1 DEF HeldNow, PrefundHeld, Validating, Executing
  <2>3. Sum(bundle, {}, collected) = 0 + collected /\ From(bundle, {}) = NoneFrom
    <3>1. Sum(bundle, {}, 0) = 0 /\ From(bundle, {}) = NoneFrom
      BY NoneHeld
    <3>2. Total(HeldOf(bundle, {})) \in Nat
      BY <2>1, HeldType
    <3>3. QED  BY <2>1, <3>1, <3>2 DEF Sum
  <2>4. Books(world, 0 + collected, NoneFrom)
    BY <2>2, <2>3 DEF MoneyInv, InOrder
  <2>5. AtRest(paid)
    BY <2>1, <2>4, PaidBooks DEF AtRest
  <2>6. CASE a = EntryPoint
    <3>1. End([kind |-> "done", at |-> 0, index |-> 0]) /\ frames' = frames
          /\ world' = Stakes!Receive(paid, EntryPoint, collected)
      BY <1>3, <2>6 DEF Compensate
    <3>2. NoneFrom \in [Addr -> Nat] /\ EntryPoint \in Addr
      BY MoneyAssumption DEF NoneFrom, MoneyAssumption
    <3> HIDE DEF paid
    <3>3. AtRest(world')
      BY <2>1, <2>5, <3>1, <3>2, ReceiveBooks DEF AtRest
    <3>4. (\E S : frames' \in Seq(S)) /\ \A k \in 1..Len(frames') : AtRest(frames'[k])
      BY <1>1, <3>1 DEF MoneyInv, FramesInv
    <3>5. QED  BY <3>1, <3>3, <3>4, EndMoney
  <2>7. CASE a # EntryPoint
    <3>1. /\ pc' = "beneficiary" /\ collected' = 0 /\ world' = paid
          /\ UNCHANGED <<frames, base, bundle, saved>>
      BY <1>3, <2>7 DEF Compensate, Goto
    <3>2. ~Executing' /\ ~Validating'
      BY <3>1 DEF Executing, Validating
    <3>3. HeldNow' = {}
      BY <3>2, NothingHeld
    <3>4. InOrder(world)'
      BY <2>5, <3>1, <3>3, NoneHeld DEF InOrder, AtRest
    <3>5. FeesInv'
      BY <3>1, <3>2 DEF FeesInv
    <3>6. saved' = [bundle |-> saved.bundle, inner |-> saved'.inner, call |-> saved'.call]
      BY <3>1 DEF MoneyInv, SavedInv
    <3>7. QED  BY <1>1, <3>1, <3>4, <3>5, <3>6, StepMoney
  <2>8. QED  BY <2>6, <2>7
<1>4. QED  BY <1>2, <1>3

(* The bundle is done. *)
LEMMA BeneficiaryReturnsMoney ==
  ASSUME MoneyInv, BeneficiaryReturns
  PROVE  MoneyInv'
<1>1. /\ pc = "beneficiary" /\ Len(frames) = base /\ UNCHANGED <<world, frames>>
      /\ End([kind |-> "done", at |-> 0, index |-> 0])
  BY DEF BeneficiaryReturns, CalleeIs
<1>2. HeldNow = {} /\ collected = 0
  BY <1>1, NothingHeld DEF MoneyInv, FeesInv, Validating, Executing
<1>3. AtRest(world')
  BY <1>1, <1>2, OrderAtRest DEF MoneyInv
<1>4. (\E S : frames' \in Seq(S)) /\ \A k \in 1..Len(frames') : AtRest(frames'[k])
  BY <1>1 DEF MoneyInv, FramesInv
<1>5. QED  BY <1>1, <1>3, <1>4, EndMoney

(* A bundle comes, in a transaction of its own or from the recipient of a withdrawal. *)
LEMMA HandleBundleMoney ==
  ASSUME MoneyInv, NEW b \in Bundles, HandleBundle(b)
  PROVE  MoneyInv'
<1>1. /\ pc = "idle" /\ pc' = "groups" /\ base' = Len(frames) /\ UNCHANGED <<world, frames, collected>>
      /\ saved' = [saved EXCEPT !.bundle = world]
  BY DEF HandleBundle
<1>2. ~Validating /\ ~Executing /\ ~Validating' /\ ~Executing'
  BY <1>1 DEF Validating, Executing
<1>3. HeldNow = {} /\ HeldNow' = {} /\ collected = 0 /\ collected' = 0 /\ base = 0
  BY <1>1, <1>2, NothingHeld DEF MoneyInv, FeesInv, FramesInv
<1>4. AtRest(world)
  BY <1>3, OrderAtRest DEF MoneyInv
<1>5. InOrder(world)'
  BY <1>1, <1>3, <1>4, NoneHeld DEF InOrder, AtRest
<1>6. FeesInv'
  BY <1>2, <1>3 DEF FeesInv
<1>7. SavedInv'
  BY <1>1, <1>4 DEF MoneyInv, SavedInv
<1>8. FramesInv'
  <2>1. Len(frames) \in Nat
    BY LenProperties DEF MoneyInv, FramesInv
  <2>2. ASSUME NEW k \in 1..Len(frames) PROVE AtRest(frames[k])
    BY <1>3, <2>1, OrderAtRest DEF MoneyInv, FramesInv
  <2>3. QED  BY <1>1, <2>1, <2>2 DEF MoneyInv, FramesInv, AtRest
<1>9. QED  BY <1>5, <1>6, <1>7, <1>8 DEF MoneyInv

---------------------------------------------------------------------------
(* What called code does to the EntryPoint, and what other transactions do. *)
LEMMA ChainMoney ==
  ASSUME MoneyInv, UNCHANGED control, pc \in Callees \cup {"idle"}, InOrder(world'),
         \/ frames' = frames
         \/ frames' = Append(frames, world)
         \/ frames' = SubSeq(frames, 1, Len(frames) - 1) /\ Len(frames) > base
  PROVE  MoneyInv'
<1>1. UNCHANGED <<pc, bundle, i, collected, saved, base>>
  BY DEF control
<1>2. HeldNow' = HeldNow
  BY <1>1 DEF HeldNow, PrefundHeld, Validating, Executing, Last, Op
<1>3. FeesInv'
  BY <1>1 DEF MoneyInv, FeesInv, Executing, Last
<1>4. InOrder(world)'
  BY <1>1, <1>2 DEF InOrder
<1>5. SavedInv'
  BY <1>1, <1>2 DEF MoneyInv, SavedInv, InOrder
<1>6. PICK S : frames \in Seq(S)
  BY DEF MoneyInv, FramesInv
<1>7. Len(frames) \in Nat /\ base \in 0..Len(frames)
  BY <1>6, LenProperties DEF MoneyInv, FramesInv
<1>8. /\ \E T : frames' \in Seq(T)
      /\ base' \in 0..Len(frames')
      /\ \A k \in 1..base' : AtRest(frames'[k])
      /\ \A k \in (base' + 1)..Len(frames') : InOrder(frames'[k])
  <2>1. CASE frames' = frames
    BY <1>1, <2>1 DEF MoneyInv, FramesInv
  <2>2. CASE frames' = Append(frames, world)
    <3> DEFINE T == S \cup {world}
    <3>1. frames \in Seq(T) /\ world \in T
      BY <1>6
    <3> HIDE DEF T
    <3>2. /\ frames' \in Seq(T) /\ Len(frames') = Len(frames) + 1 /\ frames'[Len(frames) + 1] = world
          /\ \A k \in 1..Len(frames) : frames'[k] = frames[k]
      BY <2>2, <3>1, AppendProperties
    <3>3. InOrder(world) /\ (\A k \in 1..base : AtRest(frames[k]))
          /\ \A k \in (base + 1)..Len(frames) : InOrder(frames[k])
      BY DEF MoneyInv, FramesInv
    <3>4. \A k \in 1..base : AtRest(frames'[k])
      BY <1>7, <3>2, <3>3
    <3>5. \A k \in (base + 1)..Len(frames') : InOrder(frames'[k])
      BY <1>7, <3>2, <3>3
    <3>6. base' \in 0..Len(frames')
      BY <1>1, <1>7, <3>2
    <3>7. QED  BY <1>1, <3>2, <3>4, <3>5, <3>6
  <2>3. CASE frames' = SubSeq(frames, 1, Len(frames) - 1) /\ Len(frames) > base
    <3> DEFINE n == Len(frames) - 1
    <3>1. n \in 0..Len(frames) /\ base <= n
      BY <1>7, <2>3
    <3> HIDE DEF n
    <3>2. /\ \E T : SubSeq(frames, 1, n) \in Seq(T)
          /\ Len(SubSeq(frames, 1, n)) = n
          /\ \A k \in 1..n : SubSeq(frames, 1, n)[k] = frames[k]
      BY <3>1, Prefix DEF MoneyInv
    <3>3. frames' = SubSeq(frames, 1, n)
      BY <2>3 DEF n
    <3>4. (\A k \in 1..base : AtRest(frames[k])) /\ \A k \in (base + 1)..Len(frames) : InOrder(frames[k])
      BY DEF MoneyInv, FramesInv
    <3>5. \A k \in 1..base : AtRest(frames'[k])
      BY <1>7, <3>1, <3>2, <3>3, <3>4
    <3>6. \A k \in (base + 1)..n : InOrder(frames'[k])
      BY <1>7, <3>1, <3>2, <3>3, <3>4
    <3>7. (\E T : frames' \in Seq(T)) /\ Len(frames') = n /\ base' = base /\ base' \in 0..n
      BY SMTT(30), <1>1, <1>7, <3>1, <3>2, <3>3
    <3>8. QED  BY <3>5, <3>6, <3>7
  <2>4. QED  BY <2>1, <2>2, <2>3
<1>9. FramesInv'
  <2>1. \A k \in (base' + 1)..Len(frames') : InOrder(frames[k])'
    BY <1>1, <1>2, <1>8 DEF InOrder
  <2>2. pc' = "idle" => base' = 0
    BY <1>1 DEF MoneyInv, FramesInv
  <2>3. QED  BY <1>1, <1>8, <2>1, <2>2 DEF FramesInv
<1>10. QED  BY <1>3, <1>4, <1>5, <1>9 DEF MoneyInv

(* What is held now, in the form that the lemmas about worlds take it. *)
LEMMA HeldNowType ==
  ASSUME Inv, MoneyInv
  PROVE  Sum(bundle, HeldNow, collected) \in Nat /\ From(bundle, HeldNow) \in [Addr -> Nat]
<1>1. CASE pc = "idle"
  <2>1. ~Validating /\ ~Executing
    BY <1>1 DEF Validating, Executing
  <2>2. HeldNow = {} /\ collected = 0
    BY <2>1, NothingHeld DEF MoneyInv, FeesInv
  <2>3. QED  BY <2>2, NoneHeld DEF NoneFrom
<1>2. CASE pc # "idle"
  <2>1. bundle \in Bundles /\ collected \in Nat
    BY <1>2 DEF Inv, Types, MoneyInv, FeesInv
  <2>2. Total(HeldOf(bundle, HeldNow)) \in Nat /\ From(bundle, HeldNow) \in [Addr -> Nat]
    BY <2>1, HeldType
  <2>3. QED  BY <2>1, <2>2 DEF Sum
<1>3. QED  BY <1>1, <1>2

(* The value of a withdrawal arrives. *)
LEMMA SendMoney ==
  ASSUME NEW sum \in Nat, NEW from \in [Addr -> Nat], NEW w, NEW to, NEW v \in Nat,
         Books(w, sum + v, from), Stakes!SendValue(w, to, v)
  PROVE  Books(world', sum, from) /\ (frames' = frames \/ frames' = Append(frames, world))
<1> DEFINE paid == [w EXCEPT !.balance = @ - v]
<1>1. Books(paid, sum, from)
  BY PaidBooks
<1> HIDE DEF paid
<1>2. Books(Stakes!Receive(paid, EntryPoint, v), sum, from)
  BY <1>1, MoneyAssumption, ReceiveBooks DEF MoneyAssumption
<1>3. QED  BY <1>1, <1>2 DEF Stakes!SendValue, paid

LEMMA StakeOperationMoney ==
  ASSUME Inv, MoneyInv, StakeOperation
  PROVE  MoneyInv'
<1> DEFINE sum == Sum(bundle, HeldNow, collected)
           from == From(bundle, HeldNow)
<1>1. sum \in Nat /\ from \in [Addr -> Nat]
  BY HeldNowType
<1>2. Books(world, sum, from) /\ UNCHANGED control /\ pc \in Callees \cup {"idle"}
  BY DEF MoneyInv, InOrder, StakeOperation, OutsideCode
<1> HIDE DEF sum, from
<1>3. Books(world', sum, from) /\ (frames' = frames \/ frames' = Append(frames, world))
  <2>1. ASSUME NEW a \in Addr, NEW v \in Amounts, Stakes!DepositTo(a, v)
        PROVE  Books(world', sum, from) /\ frames' = frames
    <3>1. v \in Nat
      BY MoneyAssumption DEF MoneyAssumption
    <3>2. Books(Stakes!Receive(world, a, v), sum, from)
      BY <1>1, <1>2, <3>1, ReceiveBooks
    <3>3. QED  BY <2>1, <3>2 DEF Stakes!DepositTo
  <2>2. ASSUME NEW a \in Addr, NEW v \in Amounts, NEW delay \in Delays, Stakes!AddStake(a, v, delay)
        PROVE  Books(world', sum, from) /\ frames' = frames
    <3>1. v \in Nat
      BY MoneyAssumption DEF MoneyAssumption
    <3>2. Stakes!CanAddStake(world.deposits[a], v, delay)
      BY <2>2 DEF Stakes!AddStake
    <3>3. Books(Stakes!LockedStake(world, a, v, delay), sum, from)
      BY <1>1, <1>2, <3>1, <3>2, LockedStakeBooks
    <3>4. QED  BY <2>2, <3>3 DEF Stakes!AddStake
  <2>3. ASSUME NEW a \in Addr, Stakes!UnlockStake(a)
        PROVE  Books(world', sum, from) /\ frames' = frames
    <3>1. Books([world EXCEPT !.deposits[a] = Stakes!Unlocked(@)], sum, from)
      BY <1>1, <1>2, UnlockedBooks
    <3>2. QED  BY <2>3, <3>1 DEF Stakes!UnlockStake
  <2>4. ASSUME NEW a \in Addr, NEW to \in Addr, Stakes!WithdrawStake(a, to)
        PROVE  Books(world', sum, from) /\ (frames' = frames \/ frames' = Append(frames, world))
    <3> DEFINE v == world.deposits[a].stake
               w == Stakes!WithoutStake(world, a)
    <3>1. v \in Nat
      BY <1>2 DEF Books, IsWorld, IsRecord
    <3>2. Books(w, sum + v, from)
      BY <1>1, <1>2, WithoutStakeBooks
    <3>3. Stakes!SendValue(w, to, v)
      BY <2>4 DEF Stakes!WithdrawStake
    <3> HIDE DEF v, w
    <3>4. QED  BY <1>1, <3>1, <3>2, <3>3, SendMoney
  <2>5. ASSUME NEW a \in Addr, NEW to \in Addr, NEW v \in Amounts, Stakes!WithdrawTo(a, to, v)
        PROVE  Books(world', sum, from) /\ (frames' = frames \/ frames' = Append(frames, world))
    <3> DEFINE w == Stakes!WithoutDeposit(world, a, v)
    <3>1. v \in Nat
      BY MoneyAssumption DEF MoneyAssumption
    <3>2. Stakes!CanWithdraw(world.deposits[a], v) /\ Stakes!SendValue(w, to, v)
      BY <2>5 DEF Stakes!WithdrawTo
    <3>3. Books(w, sum + v, from)
      BY <1>1, <1>2, <3>1, <3>2, WithoutDepositBooks
    <3> HIDE DEF w
    <3>4. QED  BY <1>1, <3>1, <3>2, <3>3, SendMoney
  <2>6. Stakes!Callers \subseteq Addr
    BY DEF Stakes!Callers
  <2>7. QED  BY <2>1, <2>2, <2>3, <2>4, <2>5, <2>6 DEF StakeOperation, Stakes!Operation
<1>4. InOrder(world')
  BY <1>3 DEF InOrder, sum, from
<1>5. QED  BY <1>2, <1>3, <1>4, ChainMoney

LEMMA OutsideMoney ==
  ASSUME Inv, MoneyInv,
         \/ \E a \in Addr, key \in Keys : IncrementNonce(a, key)
         \/ \E a \in Addr : Deploy(a)
         \/ RecipientEnds \/ NextTransaction
  PROVE  MoneyInv'
<1>1. InOrder(world) /\ world = [x \in Fields |-> world[x]]
  BY DEF MoneyInv, InOrder, Books, IsWorld
<1>2. CASE (\E a \in Addr, key \in Keys : IncrementNonce(a, key)) \/ \E a \in Addr : Deploy(a)
  <2>1. UNCHANGED <<frames, control>> /\ pc \in Callees \cup {"idle"}
    BY <1>2 DEF IncrementNonce, Deploy, OutsideCode
  <2>2. /\ world' = [x \in Fields |-> world'[x]] /\ world'.deposits = world.deposits
        /\ world'.logged = world.logged /\ world'.balance = world.balance /\ world'.events = world.events
    BY <1>1, <1>2 DEF IncrementNonce, Deploy, Fields
  <2>3. InOrder(world')
    BY <1>1, <2>2, SameBooks DEF InOrder
  <2>4. QED  BY <2>1, <2>3, ChainMoney
<1>3. CASE RecipientEnds
  <2>1. /\ UNCHANGED control /\ Len(frames) > base /\ frames' = SubSeq(frames, 1, Len(frames) - 1)
        /\ world' \in {world, frames[Len(frames)]}
    BY <1>3 DEF RecipientEnds, Stakes!RecipientReturns, Stakes!RecipientReverts
  <2>2. Len(frames) \in Nat /\ base \in 0..Len(frames)
    BY LenProperties DEF MoneyInv, FramesInv
  <2>3. pc \in Callees \cup {"idle"}
    BY <2>1, <2>2 DEF MoneyInv, FramesInv
  <2>4. InOrder(frames[Len(frames)])
    <3>1. Len(frames) \in (base + 1)..Len(frames)
      BY <2>1, <2>2
    <3>2. QED  BY <3>1 DEF MoneyInv, FramesInv
  <2>5. QED  BY <1>1, <2>1, <2>3, <2>4, ChainMoney
<1>4. CASE NextTransaction
  <2>1. UNCHANGED <<control, world, frames>> /\ pc = "idle"
    BY <1>4 DEF NextTransaction, Stakes!NextTransaction
  <2>2. QED  BY <1>1, <2>1, ChainMoney
<1>5. QED  BY <1>2, <1>3, <1>4

---------------------------------------------------------------------------
LEMMA InitMoney == Init => MoneyInv
<1> SUFFICES ASSUME Init PROVE MoneyInv
  OBVIOUS
<1>1. /\ world = InitialWorld /\ frames = <<>> /\ pc = "idle" /\ collected = 0
      /\ saved = NoWorlds /\ base = 0
  BY DEF Init
<1>2. ~Validating /\ ~Executing
  BY <1>1 DEF Validating, Executing
<1>3. AtRest(InitialWorld)
  <2>1. IsWorld(InitialWorld)
    <3>1. InitialWorld = [x \in Fields |-> InitialWorld[x]]
      BY DEF InitialWorld, Fields
    <3>2. IsRecord(Stakes!NoDeposit)
      BY DEF IsRecord, Stakes!NoDeposit, DepositFields
    <3>3. ChargesWithin(InitialWorld)
      BY EmptySeq DEF ChargesWithin, InitialWorld
    <3>4. QED  BY <3>1, <3>2, <3>3 DEF IsWorld, InitialWorld
  <2>2. Total(Stakes!Owed(InitialWorld)) = 0
    <3>1. Stakes!Owed(InitialWorld) \in [Addr -> Nat]
      BY <2>1, OwedNat
    <3>2. \A a \in Addr : Stakes!Owed(InitialWorld)[a] = 0
      BY DEF Stakes!Owed, InitialWorld, Stakes!NoDeposit
    <3>3. QED  BY <3>1, <3>2, TotalZero
  <2>3. InitialWorld.balance = 0
    BY DEF InitialWorld
  <2>4. \A a \in Addr : InitialWorld.logged[a] = InitialWorld.deposits[a].deposit + NoneFrom[a]
    BY DEF InitialWorld, Stakes!NoDeposit, NoneFrom
  <2>5. QED  BY <2>1, <2>2, <2>3, <2>4 DEF AtRest, Books
<1>4. FeesInv
  BY <1>1, <1>2 DEF FeesInv
<1>5. InOrder(world)
  BY <1>1, <1>2, <1>3, NothingHeld, OrderAtRest
<1>6. SavedInv
  BY <1>1 DEF SavedInv, NoWorlds
<1>7. FramesInv
  <2>1. frames \in Seq({}) /\ Len(frames) = 0
    BY <1>1, EmptySeq
  <2>2. QED  BY <1>1, <2>1 DEF FramesInv
<1>8. QED  BY <1>4, <1>5, <1>6, <1>7 DEF MoneyInv

LEMMA NextMoney ==
  ASSUME Inv, MoneyInv, [Next]_vars
  PROVE  MoneyInv'
<1>1. CASE UNCHANGED vars
  BY <1>1 DEF vars, chain, control, MoneyInv, FeesInv, SavedInv, FramesInv, InOrder, AtRest, HeldNow,
              PrefundHeld, Validating, Executing, Last, Op
<1>2. CASE \E b \in Bundles : HandleBundle(b)
  BY <1>2, HandleBundleMoney
<1>3. CASE EntryPointSteps
  BY <1>3, GroupsMoney, ValidateOpMoney, AllValidatedMoney, ExecutionMoney, SettleMoney, CompensateMoney
     DEF EntryPointSteps
<1>4. CASE CalleeEnds
  <2>1. CASE AggregatorReverts \/ AccountReverts \/ PaymasterReverts \/ BeneficiaryReverts
    BY <2>1, AbortMoney
       DEF AggregatorReverts, AccountReverts, PaymasterReverts, BeneficiaryReverts, CalleeIs
  <2>2. CASE \E d \in ValidationData : AccountReturns(d)
    BY <2>2, AccountReturnsMoney
  <2>3. CASE \E asked \in BOOLEAN, d \in ValidationData : PaymasterReturns(asked, d)
    BY <2>3, PaymasterReturnsMoney
  <2>4. QED  BY <1>4, <2>1, <2>2, <2>3, GroupsMoney, ValidateOpMoney, ExecutionMoney, BeneficiaryReturnsMoney
             DEF CalleeEnds
<1>5. CASE BundleFails
  BY <1>5, AbortMoney DEF BundleFails
<1>6. CASE StakeOperation
  BY <1>6, StakeOperationMoney
<1>7. CASE \/ \E a \in Addr, key \in Keys : IncrementNonce(a, key)
           \/ \E a \in Addr : Deploy(a)
           \/ RecipientEnds \/ NextTransaction
  BY <1>7, OutsideMoney
<1>8. QED  BY <1>1, <1>2, <1>3, <1>4, <1>5, <1>6, <1>7 DEF Next

LEMMA MoneyInvariance == Spec => [](Inv /\ MoneyInv)
<1>1. Init => Inv /\ MoneyInv
  BY InitInv, InitMoney
<1>2. Inv /\ MoneyInv /\ [Next]_vars => (Inv /\ MoneyInv)'
  BY NextInv, NextMoney
<1>3. QED  BY <1>1, <1>2, PTL DEF Spec

(* The wei that handleOps holds are those it owes, the prefunds it has taken *)
(* and the fees it has collected, for all bundles, all costs, and all calls  *)
(* that the code it runs makes back into the EntryPoint.                     *)
THEOREM BundleIsSolvent == Spec => []BundleSolvency
<1>1. ASSUME Inv, MoneyInv PROVE BundleSolvency
  <2>1. Held = HeldOf(bundle, HeldNow)
    BY DEF Held, HeldOf, HeldNow, Last, Op
  <2>2. world.balance = Total(Stakes!Owed(world)) + (Total(HeldOf(bundle, HeldNow)) + collected)
    BY <1>1 DEF MoneyInv, InOrder, Books, Sum
  <2>3. Total(Stakes!Owed(world)) \in Nat /\ collected \in Nat
    BY <1>1, OwedNat DEF MoneyInv, InOrder, Books, FeesInv
  <2>4. Total(HeldOf(bundle, HeldNow)) \in Nat
    <3>1. CASE pc = "idle"
      <4>1. ~Validating /\ ~Executing
        BY <3>1 DEF Validating, Executing
      <4>2. HeldNow = {}
        BY <4>1, NothingHeld
      <4>3. \A j \in 1..Last : Held[j] = 0
        BY <4>2 DEF Held, HeldNow
      <4>4. Held \in [1..Last -> Nat]
        BY <4>2 DEF Held, HeldNow
      <4>5. Total(Held) = 0
        BY <4>3, <4>4, TotalZero
      <4>6. QED  BY <2>1, <4>5
    <3>2. CASE pc # "idle"
      BY <1>1, <3>2, HeldType DEF Inv, Types
    <3>3. QED  BY <3>1, <3>2
  <2>5. QED  BY <2>1, <2>2, <2>3, <2>4 DEF BundleSolvency
<1>2. QED  BY <1>1, MoneyInvariance, PTL

(* Replaying the Deposited, Withdrawn and UserOperationEvent events gives  *)
(* every deposit, less the prefunds that are held: whoever was charged an  *)
(* operation got its refund, whatever was reverted on the way.             *)
THEOREM EventsMatchDeposits == Spec => []EventsReplayDeposits
<1>1. ASSUME Inv, MoneyInv PROVE EventsReplayDeposits
  <2>1. ASSUME NEW a \in Addr PROVE HeldFrom(a) = HeldOfFrom(bundle, HeldNow, a)
    BY DEF HeldFrom, HeldOfFrom, HeldNow, Last, Op
  <2>2. QED  BY <1>1, <2>1 DEF EventsReplayDeposits, MoneyInv, InOrder, Books, From
<1>2. QED  BY <1>1, MoneyInvariance, PTL

---------------------------------------------------------------------------
(***************************************************************************)
(* What bundles leave behind, for all bundles and calls back: nonces that  *)
(* are used once, effects of callData and the events that report them.     *)
(*                                                                         *)
(* An operation goes through three stages: its nonce is unused; its nonce  *)
(* is used and its prefund held; its event is there.  A world is told when *)
(* its nonces, its effects and its events agree on that, and with the      *)
(* bundle's place.  As with the money, what holds of the world must hold   *)
(* of every world that a revert brings back.                               *)
(***************************************************************************)
(* What getNonce promises to whoever signs an operation. *)

(* A nonce is its key and its sequence number. *)
LEMMA NonceParts ==
  ASSUME NEW nonce \in Nat
  PROVE  /\ NonceKey(nonce) \in Nat
         /\ NonceSeq(nonce) \in 0..(SeqModulus - 1)
         /\ nonce = NonceKey(nonce) * SeqModulus + NonceSeq(nonce)
BY SeqModulusAssumption, Z3 DEF NonceKey, NonceSeq, SeqModulusAssumption

(***************************************************************************)
(* As long as a sequence number fits in its 64 bits, the nonce that        *)
(* getNonce returns is the one nonce of its key that validation accepts.   *)
(***************************************************************************)
THEOREM NextNonce ==
  ASSUME NEW seqOf, NEW nonce \in Nat,
         seqOf[NonceKey(nonce)] \in 0..(SeqModulus - 1)
  PROVE  NonceMatches(seqOf, nonce) <=> nonce = getNonce(seqOf, NonceKey(nonce))
<1> DEFINE k == NonceKey(nonce)
           s == NonceSeq(nonce)
<1>1. k \in Nat /\ s \in 0..(SeqModulus - 1) /\ nonce = k * SeqModulus + s
  BY NonceParts
<1>2. getNonce(seqOf, k) = k * SeqModulus + seqOf[k]
  <2>1. seqOf[k] < SeqModulus
    BY SeqModulusAssumption DEF SeqModulusAssumption
  <2>2. QED  BY <2>1 DEF getNonce
<1>3. k * SeqModulus \in Nat
  BY <1>1, SeqModulusAssumption DEF SeqModulusAssumption
<1> HIDE DEF k, s
<1>4. nonce = k * SeqModulus + seqOf[k] <=> seqOf[k] = s
  <2> DEFINE high == k * SeqModulus
  <2>1. high \in Nat /\ nonce = high + s  BY <1>1, <1>3
  <2> HIDE DEF high
  <2>2. nonce = high + seqOf[k] <=> seqOf[k] = s
    BY <2>1, <1>1, SeqModulusAssumption DEF SeqModulusAssumption, k
  <2>3. QED  BY <2>2 DEF high
<1>5. QED
  BY <1>2, <1>4 DEF NonceMatches, k, s

---------------------------------------------------------------------------
(* The types of what the chain stores. *)
RecordTyped(d) ==
  /\ d = [x \in DepositFields |-> d[x]]
  /\ d.staked \in BOOLEAN /\ d.unstakeDelaySec \in Nat /\ d.withdrawTime \in Nat

Typed(w) ==
  /\ w = [x \in Fields |-> w[x]]
  /\ w.deposits = [a \in Addr |-> w.deposits[a]] /\ \A a \in Addr : RecordTyped(w.deposits[a])
  /\ w.balance \in Int /\ w.balance <= Supply
  /\ w.nonceSequenceNumber \in [Addr -> [Keys -> 0..MaxSeq]]
  /\ w.code \subseteq Addr /\ w.ran \subseteq Ops

Modes == {"opSucceeded", "opReverted", "postOpReverted"}

TypedInv ==
  /\ Typed(world) /\ Typed(saved.bundle) /\ Typed(saved.inner) /\ Typed(saved.call)
  /\ \A k \in 1..Len(frames) : Typed(frames[k])
  /\ mode \in Modes

(* n differs from w in money only. *)
Untouched(w, n) ==
  /\ n = [x \in Fields |-> n[x]]
  /\ n.nonceSequenceNumber = w.nonceSequenceNumber /\ n.code = w.code
  /\ n.ran = w.ran /\ n.events = w.events

LEMMA MoneyTyped ==
  ASSUME NEW w, Typed(w), NEW n, Untouched(w, n), n.balance \in Int, n.balance <= Supply,
         n.deposits = [a \in Addr |-> n.deposits[a]], \A a \in Addr : RecordTyped(n.deposits[a])
  PROVE  Typed(n)
BY DEF Typed, Untouched

(* One record changes. *)
LEMMA RecordsTyped ==
  ASSUME NEW w, Typed(w), NEW n, Untouched(w, n), n.balance \in Int, n.balance <= Supply,
         NEW a \in Addr, NEW d, RecordTyped(d), n.deposits = [w.deposits EXCEPT ![a] = d]
  PROVE  Typed(n)
<1>1. n.deposits = [b \in Addr |-> n.deposits[b]] /\ \A b \in Addr : RecordTyped(n.deposits[b])
  BY DEF Typed
<1>2. QED  BY <1>1, MoneyTyped

LEMMA DepositTyped ==
  ASSUME NEW d, RecordTyped(d), NEW v
  PROVE  RecordTyped([d EXCEPT !.deposit = v])
BY DEF RecordTyped, DepositFields

LEMMA IncrementTyped ==
  ASSUME NEW w, Typed(w), NEW a \in Addr, NEW v
  PROVE  LET n == Stakes!_incrementDeposit(w, a, v) IN Typed(n) /\ Untouched(w, n)
<1> DEFINE n == Stakes!_incrementDeposit(w, a, v)
           d == [w.deposits[a] EXCEPT !.deposit = w.deposits[a].deposit + v]
<1>1. w = [x \in Fields |-> w[x]] /\ w.deposits = [b \in Addr |-> w.deposits[b]] /\ RecordTyped(w.deposits[a])
  BY DEF Typed
<1>2. RecordTyped(d)
  BY <1>1, DepositTyped
<1>3. Untouched(w, n) /\ n.balance \in Int /\ n.balance <= Supply
  BY <1>1 DEF Typed, Untouched, Fields, Stakes!_incrementDeposit
<1>4. n.deposits = [w.deposits EXCEPT ![a] = d]
  BY <1>1 DEF Fields, Stakes!_incrementDeposit
<1> HIDE DEF n, d
<1>5. Typed(n)
  BY <1>2, <1>3, <1>4, RecordsTyped
<1>6. QED  BY <1>3, <1>5 DEF n

LEMMA ReceiveTyped ==
  ASSUME NEW w, Typed(w), NEW a \in Addr, NEW v \in Int, w.balance + v <= Supply
  PROVE  LET n == Stakes!Receive(w, a, v) IN Typed(n) /\ Untouched(w, n)
<1> DEFINE m == Stakes!_incrementDeposit(w, a, v)
           n == Stakes!Receive(w, a, v)
<1>1. Typed(m) /\ Untouched(w, m)
  BY IncrementTyped
<1>2. m.balance = w.balance /\ m.balance \in Int
  BY DEF Stakes!_incrementDeposit, Typed, Fields
<1>3. n = [m EXCEPT !.balance = m.balance + v, !.logged[a] = m.logged[a] + v]
  BY DEF Stakes!Receive
<1> HIDE DEF m, n
<1>4. m = [x \in Fields |-> m[x]]
  BY <1>1 DEF Typed
<1>5. Untouched(m, n) /\ n.balance = m.balance + v /\ n.deposits = m.deposits
  BY <1>3, <1>4 DEF Untouched, Fields
<1>6. n.balance \in Int /\ n.balance <= Supply
  BY <1>2, <1>5
<1>7. n.deposits = [b \in Addr |-> n.deposits[b]] /\ \A b \in Addr : RecordTyped(n.deposits[b])
  BY <1>1, <1>5 DEF Typed
<1>8. Typed(n)
  BY <1>1, <1>5, <1>6, <1>7, MoneyTyped
<1>9. QED  BY <1>1, <1>5, <1>8 DEF Untouched, n

(* What the operations of StakeManager do to records and to the balance. *)
LEMMA LockedStakeTyped ==
  ASSUME NEW w, Typed(w), NEW a \in Addr, NEW v \in Int, NEW delay \in Nat, w.balance + v <= Supply
  PROVE  LET n == Stakes!LockedStake(w, a, v, delay) IN Typed(n) /\ Untouched(w, n)
<1> DEFINE n == Stakes!LockedStake(w, a, v, delay)
           d == Stakes!Staked(w.deposits[a], v, delay)
<1>1. w = [x \in Fields |-> w[x]] /\ w.deposits = [b \in Addr |-> w.deposits[b]] /\ w.balance \in Int
  BY DEF Typed
<1>2. RecordTyped(d)
  BY DEF RecordTyped, Stakes!Staked, DepositFields
<1>3. Untouched(w, n) /\ n.balance \in Int /\ n.balance <= Supply
  <2>1. Untouched(w, n)
    BY <1>1 DEF Untouched, Fields, Stakes!LockedStake
  <2>2. n.balance = w.balance + v
    BY <1>1 DEF Fields, Stakes!LockedStake
  <2>3. QED  BY <1>1, <2>1, <2>2
<1>4. n.deposits = [w.deposits EXCEPT ![a] = d]
  BY <1>1 DEF Fields, Stakes!LockedStake
<1> HIDE DEF n, d
<1>5. Typed(n)
  BY <1>2, <1>3, <1>4, RecordsTyped
<1>6. QED  BY <1>3, <1>5 DEF n

LEMMA UnlockedTyped ==
  ASSUME NEW w, Typed(w), NEW a \in Addr, now \in Nat
  PROVE  LET n == [w EXCEPT !.deposits[a] = Stakes!Unlocked(@)] IN Typed(n) /\ Untouched(w, n)
<1> DEFINE n == [w EXCEPT !.deposits[a] = Stakes!Unlocked(@)]
           d == Stakes!Unlocked(w.deposits[a])
<1>1. /\ w = [x \in Fields |-> w[x]] /\ w.deposits = [b \in Addr |-> w.deposits[b]]
      /\ w.balance \in Int /\ w.balance <= Supply /\ RecordTyped(w.deposits[a])
  BY DEF Typed
<1>2. RecordTyped(d)
  <2>1. Stakes!Truncate(now, MaxUint48) \in Nat
    BY AnswersAssumption DEF AnswersAssumption, Stakes!Truncate
  <2>2. /\ d = [x \in DepositFields |-> d[x]] /\ d.staked = FALSE
        /\ d.unstakeDelaySec = w.deposits[a].unstakeDelaySec
        /\ d.withdrawTime = Stakes!Truncate(now, MaxUint48) + w.deposits[a].unstakeDelaySec
    BY <1>1 DEF RecordTyped, DepositFields, Stakes!Unlocked
  <2> HIDE DEF d
  <2>3. w.deposits[a].unstakeDelaySec \in Nat
    BY <1>1 DEF RecordTyped
  <2>4. d.withdrawTime \in Nat /\ d.unstakeDelaySec \in Nat
    BY <2>1, <2>2, <2>3
  <2>5. d.staked \in BOOLEAN
    BY <2>2, Zenon
  <2>6. QED  BY <2>2, <2>4, <2>5 DEF RecordTyped
<1>3. Untouched(w, n) /\ n.balance \in Int /\ n.balance <= Supply
  BY <1>1 DEF Untouched, Fields
<1>4. n.deposits = [w.deposits EXCEPT ![a] = d]
  BY <1>1 DEF Fields
<1> HIDE DEF n, d
<1>5. Typed(n)
  BY <1>2, <1>3, <1>4, RecordsTyped
<1>6. QED  BY <1>3, <1>5 DEF n

LEMMA WithoutStakeTyped ==
  ASSUME NEW w, Typed(w), NEW a \in Addr
  PROVE  LET n == Stakes!WithoutStake(w, a) IN Typed(n) /\ Untouched(w, n)
<1> DEFINE n == Stakes!WithoutStake(w, a)
           d == [w.deposits[a] EXCEPT !.unstakeDelaySec = 0, !.withdrawTime = 0, !.stake = 0]
<1>1. /\ w = [x \in Fields |-> w[x]] /\ w.deposits = [b \in Addr |-> w.deposits[b]]
      /\ w.balance \in Int /\ w.balance <= Supply /\ RecordTyped(w.deposits[a])
  BY DEF Typed
<1>2. RecordTyped(d)
  BY <1>1 DEF RecordTyped, DepositFields
<1>3. Untouched(w, n) /\ n.balance \in Int /\ n.balance <= Supply
  BY <1>1 DEF Untouched, Fields, Stakes!WithoutStake
<1>4. n.deposits = [w.deposits EXCEPT ![a] = d]
  BY <1>1 DEF Fields, Stakes!WithoutStake
<1> HIDE DEF n, d
<1>5. Typed(n)
  BY <1>2, <1>3, <1>4, RecordsTyped
<1>6. QED  BY <1>3, <1>5 DEF n

LEMMA WithoutDepositTyped ==
  ASSUME NEW w, Typed(w), NEW a \in Addr, NEW v
  PROVE  LET n == Stakes!WithoutDeposit(w, a, v) IN Typed(n) /\ Untouched(w, n)
<1> DEFINE n == Stakes!WithoutDeposit(w, a, v)
           d == [w.deposits[a] EXCEPT !.deposit = w.deposits[a].deposit - v]
<1>1. /\ w = [x \in Fields |-> w[x]] /\ w.deposits = [b \in Addr |-> w.deposits[b]]
      /\ w.balance \in Int /\ w.balance <= Supply /\ RecordTyped(w.deposits[a])
  BY DEF Typed
<1>2. RecordTyped(d)
  BY <1>1, DepositTyped
<1>3. Untouched(w, n) /\ n.balance \in Int /\ n.balance <= Supply
  BY <1>1 DEF Untouched, Fields, Stakes!WithoutDeposit
<1>4. n.deposits = [w.deposits EXCEPT ![a] = d]
  BY <1>1 DEF Fields, Stakes!WithoutDeposit
<1> HIDE DEF n, d
<1>5. Typed(n)
  BY <1>2, <1>3, <1>4, RecordsTyped
<1>6. QED  BY <1>3, <1>5 DEF n

(* The value leaves, and comes back when the contract sends it to itself. *)
LEMMA PaidTyped ==
  ASSUME NEW w, Typed(w), NEW v \in Nat
  PROVE  LET n == [w EXCEPT !.balance = @ - v]
         IN  /\ Typed(n) /\ Untouched(w, n)
             /\ Typed(Stakes!Receive(n, EntryPoint, v)) /\ Untouched(w, Stakes!Receive(n, EntryPoint, v))
<1> DEFINE n == [w EXCEPT !.balance = @ - v]
<1>1. w = [x \in Fields |-> w[x]] /\ w.balance \in Int /\ w.balance <= Supply
  BY DEF Typed
<1>2. /\ Untouched(w, n) /\ n.deposits = w.deposits /\ n.balance = w.balance - v
      /\ n.balance \in Int /\ n.balance <= Supply
  BY <1>1, MoneyAssumption DEF Untouched, Fields, MoneyAssumption
<1> HIDE DEF n
<1>3. n.deposits = [b \in Addr |-> n.deposits[b]] /\ \A b \in Addr : RecordTyped(n.deposits[b])
  BY <1>2 DEF Typed
<1>4. Typed(n)
  BY <1>2, <1>3, MoneyTyped
<1>5. n.balance + v <= Supply
  BY <1>1, <1>2
<1>6. LET m == Stakes!Receive(n, EntryPoint, v) IN Typed(m) /\ Untouched(n, m)
  BY <1>4, <1>5, MoneyAssumption, ReceiveTyped DEF MoneyAssumption
<1>7. QED  BY <1>2, <1>4, <1>6 DEF Untouched, n

LEMMA SendTyped ==
  ASSUME NEW w, Typed(w), NEW to, NEW v \in Nat, Stakes!SendValue(w, to, v)
  PROVE  Typed(world') /\ Untouched(w, world') /\ (frames' = frames \/ frames' = Append(frames, world))
<1> DEFINE n == [w EXCEPT !.balance = @ - v]
<1>1. /\ Typed(n) /\ Untouched(w, n)
      /\ Typed(Stakes!Receive(n, EntryPoint, v)) /\ Untouched(w, Stakes!Receive(n, EntryPoint, v))
  BY PaidTyped
<1> HIDE DEF n
<1>2. QED  BY <1>1 DEF Stakes!SendValue, n

LEMMA StakesTyped ==
  ASSUME Inv, MoneyInv, Typed(world), StakeOperation
  PROVE  Typed(world') /\ Untouched(world, world') /\ (frames' = frames \/ frames' = Append(frames, world))
<1>1. /\ world.balance \in Int /\ now \in Nat /\ Amounts \subseteq Nat /\ Delays \subseteq Nat
      /\ Supply \in Nat /\ Stakes!Callers \subseteq Addr
  BY MoneyAssumption DEF Typed, Inv, Types, MoneyAssumption, Stakes!Callers
<1>2. ASSUME NEW a \in Addr, NEW v \in Amounts, Stakes!DepositTo(a, v)
      PROVE  Typed(world') /\ Untouched(world, world') /\ frames' = frames
  <2>1. v \in Int /\ world.balance + v <= Supply
    BY <1>1, <1>2 DEF Stakes!DepositTo, Stakes!Payable
  <2>2. LET n == Stakes!Receive(world, a, v) IN Typed(n) /\ Untouched(world, n)
    BY <2>1, ReceiveTyped
  <2>3. QED  BY <1>2, <2>2 DEF Stakes!DepositTo
<1>3. ASSUME NEW a \in Addr, NEW v \in Amounts, NEW delay \in Delays, Stakes!AddStake(a, v, delay)
      PROVE  Typed(world') /\ Untouched(world, world') /\ frames' = frames
  <2>1. v \in Int /\ delay \in Nat /\ world.balance + v <= Supply
    BY <1>1, <1>3 DEF Stakes!AddStake, Stakes!Payable
  <2>2. LET n == Stakes!LockedStake(world, a, v, delay) IN Typed(n) /\ Untouched(world, n)
    BY <2>1, LockedStakeTyped
  <2>3. QED  BY <1>3, <2>2 DEF Stakes!AddStake
<1>4. ASSUME NEW a \in Addr, Stakes!UnlockStake(a)
      PROVE  Typed(world') /\ Untouched(world, world') /\ frames' = frames
  BY <1>1, <1>4, UnlockedTyped DEF Stakes!UnlockStake
<1>5. ASSUME NEW a \in Addr, NEW to, Stakes!WithdrawStake(a, to)
      PROVE  /\ Typed(world') /\ Untouched(world, world')
             /\ frames' = frames \/ frames' = Append(frames, world)
  <2> DEFINE n == Stakes!WithoutStake(world, a)
             v == world.deposits[a].stake
  <2>1. v \in Nat
    BY DEF MoneyInv, InOrder, Books, IsWorld, IsRecord
  <2>2. Typed(n) /\ Untouched(world, n)
    BY WithoutStakeTyped
  <2>3. Stakes!SendValue(n, to, v)
    BY <1>5 DEF Stakes!WithdrawStake
  <2> HIDE DEF n, v
  <2>4. /\ Typed(world') /\ Untouched(n, world')
        /\ frames' = frames \/ frames' = Append(frames, world)
    BY <2>1, <2>2, <2>3, SendTyped
  <2>5. QED  BY <2>2, <2>4 DEF Untouched
<1>6. ASSUME NEW a \in Addr, NEW to, NEW v \in Amounts, Stakes!WithdrawTo(a, to, v)
      PROVE  /\ Typed(world') /\ Untouched(world, world')
             /\ frames' = frames \/ frames' = Append(frames, world)
  <2> DEFINE n == Stakes!WithoutDeposit(world, a, v)
  <2>1. Typed(n) /\ Untouched(world, n) /\ v \in Nat
    BY <1>1, WithoutDepositTyped
  <2>2. Stakes!SendValue(n, to, v)
    BY <1>6 DEF Stakes!WithdrawTo
  <2> HIDE DEF n
  <2>3. /\ Typed(world') /\ Untouched(n, world')
        /\ frames' = frames \/ frames' = Append(frames, world)
    BY <2>1, <2>2, SendTyped
  <2>4. QED  BY <2>1, <2>3 DEF Untouched
<1>7. QED  BY <1>1, <1>2, <1>3, <1>4, <1>5, <1>6 DEF StakeOperation, Stakes!Operation

(* Which worlds are kept, and which are let go. *)
Kept ==
  /\ saved' \in {saved, NoWorlds, [saved EXCEPT !.bundle = world], [saved EXCEPT !.inner = world, !.call = world]}
  /\ \/ frames' = frames \/ frames' = Append(frames, world)
     \/ \E n \in 0..Len(frames) : frames' = SubSeq(frames, 1, n)
  /\ mode' \in Modes

LEMMA InitialTyped == Typed(InitialWorld)
<1>1. RecordTyped(Stakes!NoDeposit)
  BY DEF RecordTyped, Stakes!NoDeposit, DepositFields
<1>2. /\ InitialWorld = [x \in Fields |-> InitialWorld[x]]
      /\ InitialWorld.deposits = [a \in Addr |-> InitialWorld.deposits[a]]
      /\ \A a \in Addr : RecordTyped(InitialWorld.deposits[a])
  BY <1>1 DEF InitialWorld, Fields
<1>3. InitialWorld.balance \in Int /\ InitialWorld.balance <= Supply
  BY MoneyAssumption DEF InitialWorld, MoneyAssumption
<1>4. InitialWorld.nonceSequenceNumber \in [Addr -> [Keys -> 0..MaxSeq]]
  BY NonceAssumption DEF InitialWorld, NonceAssumption
<1>5. InitialWorld.code \subseteq Addr /\ InitialWorld.ran \subseteq Ops
  BY MoneyAssumption DEF InitialWorld, MoneyAssumption
<1>6. QED  BY <1>2, <1>3, <1>4, <1>5 DEF Typed

LEMMA KeptTyped ==
  ASSUME MoneyInv, TypedInv, Typed(world'), Kept
  PROVE  TypedInv'
<1>1. saved = [bundle |-> saved.bundle, inner |-> saved.inner, call |-> saved.call]
  BY DEF MoneyInv, SavedInv
<1>2. Typed(saved'.bundle) /\ Typed(saved'.inner) /\ Typed(saved'.call)
  <2>1. /\ Typed(world) /\ Typed(saved.bundle) /\ Typed(saved.inner) /\ Typed(saved.call)
        /\ saved' \in {saved, NoWorlds, [saved EXCEPT !.bundle = world],
                      [saved EXCEPT !.inner = world, !.call = world]}
    BY DEF TypedInv, Kept
  <2>2. CASE saved' = saved
    BY <2>1, <2>2
  <2>3. CASE saved' = NoWorlds
    BY <2>3, InitialTyped DEF NoWorlds
  <2>4. CASE saved' = [saved EXCEPT !.bundle = world]
    <3>1. saved'.bundle = world /\ saved'.inner = saved.inner /\ saved'.call = saved.call
      BY <1>1, <2>4
    <3>2. QED  BY <2>1, <3>1
  <2>5. CASE saved' = [saved EXCEPT !.inner = world, !.call = world]
    <3>1. saved'.bundle = saved.bundle /\ saved'.inner = world /\ saved'.call = world
      BY <1>1, <2>5
    <3>2. QED  BY <2>1, <3>1
  <2>6. QED  BY <2>1, <2>2, <2>3, <2>4, <2>5
<1>3. PICK S : frames \in Seq(S)
  BY DEF MoneyInv, FramesInv
<1>4. Len(frames) \in Nat
  BY <1>3, LenProperties
<1>5. \A k \in 1..Len(frames') : Typed(frames'[k])
  <2>1. CASE frames' = frames
    BY <2>1 DEF TypedInv
  <2>2. CASE frames' = Append(frames, world)
    <3> DEFINE T == S \cup {world}
    <3>1. frames \in Seq(T) /\ world \in T
      BY <1>3
    <3> HIDE DEF T
    <3>2. /\ Len(frames') = Len(frames) + 1 /\ frames'[Len(frames) + 1] = world
          /\ \A k \in 1..Len(frames) : frames'[k] = frames[k]
      BY <2>2, <3>1, AppendProperties
    <3>3. QED  BY <1>4, <3>2 DEF TypedInv
  <2>3. ASSUME NEW n \in 0..Len(frames), frames' = SubSeq(frames, 1, n)
        PROVE  \A k \in 1..Len(frames') : Typed(frames'[k])
    <3>1. Len(frames') = n /\ \A k \in 1..n : frames'[k] = frames[k]
      BY <2>3, Prefix DEF MoneyInv
    <3>2. QED  BY <1>4, <3>1 DEF TypedInv
  <2>4. QED  BY <2>1, <2>2, <2>3 DEF Kept
<1>6. QED  BY <1>2, <1>5 DEF TypedInv, Kept

---------------------------------------------------------------------------
(* What the stages of a bundle make of a world. *)
LEMMA PrefundedTyped ==
  ASSUME NEW w, Typed(w), NEW a \in Addr, NEW p
  PROVE  Typed(Prefunded(w, a, p)) /\ Untouched(w, Prefunded(w, a, p))
<1> DEFINE n == Prefunded(w, a, p)
           d == [w.deposits[a] EXCEPT !.deposit = w.deposits[a].deposit - p]
<1>1. /\ w = [x \in Fields |-> w[x]] /\ w.deposits = [b \in Addr |-> w.deposits[b]]
      /\ w.balance \in Int /\ w.balance <= Supply /\ RecordTyped(w.deposits[a])
  BY DEF Typed
<1>2. RecordTyped(d)
  BY <1>1, DepositTyped
<1>3. Untouched(w, n) /\ n.balance \in Int /\ n.balance <= Supply
  BY <1>1 DEF Untouched, Fields, Prefunded
<1>4. n.deposits = [w.deposits EXCEPT ![a] = d]
  BY <1>1 DEF Fields, Prefunded
<1> HIDE DEF n, d
<1>5. Typed(n)
  BY <1>2, <1>3, <1>4, RecordsTyped
<1>6. QED  BY <1>3, <1>5 DEF n

(* One sequence number of one account goes up by one. *)
NonceTaken(w, n, a, key) ==
  /\ n = [x \in Fields |-> n[x]]
  /\ n.deposits = w.deposits /\ n.balance = w.balance /\ n.code = w.code
  /\ n.ran = w.ran /\ n.events = w.events
  /\ n.nonceSequenceNumber = [w.nonceSequenceNumber EXCEPT ![a] = Incremented(@, key)]

LEMMA NonceTakenTyped ==
  ASSUME NEW w, Typed(w), NEW n, NEW a \in Addr, NEW key \in Keys, NonceTaken(w, n, a, key),
         w.nonceSequenceNumber[a][key] < MaxSeq
  PROVE  Typed(n)
<1> DEFINE seq == w.nonceSequenceNumber[a]
<1>1. w.nonceSequenceNumber \in [Addr -> [Keys -> 0..MaxSeq]] /\ seq \in [Keys -> 0..MaxSeq] /\ MaxSeq \in Int
  BY NonceAssumption DEF Typed, NonceAssumption
<1>2. n.nonceSequenceNumber = [w.nonceSequenceNumber EXCEPT ![a] = [seq EXCEPT ![key] = seq[key] + 1]]
  BY DEF NonceTaken, Incremented
<1> HIDE DEF seq
<1>3. seq[key] \in 0..MaxSeq /\ seq[key] < MaxSeq
  BY <1>1 DEF seq
<1>4. [seq EXCEPT ![key] = seq[key] + 1] \in [Keys -> 0..MaxSeq]
  BY <1>1, <1>3
<1>5. n.nonceSequenceNumber \in [Addr -> [Keys -> 0..MaxSeq]]
  BY <1>1, <1>2, <1>4
<1>6. QED  BY <1>5 DEF Typed, NonceTaken

LEMMA OpNonce ==
  ASSUME NEW op \in Ops
  PROVE  /\ op.sender \in Addr /\ op.nonce \in Nat
         /\ NonceKey(op.nonce) \in Keys /\ NonceSeq(op.nonce) # MaxSeq
BY MoneyAssumption, NonceAssumption DEF MoneyAssumption, NonceAssumption

LEMMA NonceUsedTyped ==
  ASSUME NEW w, Typed(w), NEW op \in Ops,
         NonceMatches(w.nonceSequenceNumber[op.sender], op.nonce)
  PROVE  LET n == NonceUsed(w, op)
         IN  Typed(n) /\ NonceTaken(w, n, op.sender, NonceKey(op.nonce))
<1> DEFINE n == NonceUsed(w, op)
           a == op.sender
           key == NonceKey(op.nonce)
<1>1. a \in Addr /\ key \in Keys /\ NonceSeq(op.nonce) # MaxSeq
  BY OpNonce
<1>2. w = [x \in Fields |-> w[x]]
  BY DEF Typed
<1>3. NonceTaken(w, n, a, key)
  BY <1>2 DEF NonceTaken, NonceUsed, Fields
<1> HIDE DEF n
<1>4. w.nonceSequenceNumber[a][key] \in 0..MaxSeq /\ w.nonceSequenceNumber[a][key] = NonceSeq(op.nonce)
  BY <1>1 DEF Typed, NonceMatches
<1>5. w.nonceSequenceNumber[a][key] < MaxSeq
  BY <1>1, <1>4, NonceAssumption DEF NonceAssumption
<1> HIDE DEF a, key
<1>6. Typed(n)
  BY <1>1, <1>3, <1>5, NonceTakenTyped
<1>7. QED  BY <1>3, <1>6 DEF n, a, key

(* What the event and the refund change. *)
Settlement(w, n, op, success, c) ==
  /\ n = [x \in Fields |-> n[x]]
  /\ n.nonceSequenceNumber = w.nonceSequenceNumber /\ n.code = w.code /\ n.ran = w.ran
  /\ n.events = [w.events EXCEPT ![op] = Append(@, [success |-> success, cost |-> c])]

LEMMA SettledTyped ==
  ASSUME NEW w, Typed(w), NEW op \in Ops, Payer(op) \in Addr, NEW success, NEW c
  PROVE  LET n == Refunded(Event(w, op, success, c), op, c)
         IN  Typed(n) /\ Settlement(w, n, op, success, c)
<1> DEFINE m == Event(w, op, success, c)
           n == Refunded(m, op, c)
<1>1. w = [x \in Fields |-> w[x]]
  BY DEF Typed
<1>2. Settlement(w, m, op, success, c) /\ m.deposits = w.deposits /\ m.balance = w.balance
  BY <1>1 DEF Settlement, Event, Fields
<1>3. n = Stakes!_incrementDeposit(m, Payer(op), op.prefund - c)
  BY DEF Refunded, RefundAddress, Payer
<1> HIDE DEF m, n
<1>4. Typed(m)
  BY <1>2 DEF Typed, Settlement
<1>5. LET x == Stakes!_incrementDeposit(m, Payer(op), op.prefund - c) IN Typed(x) /\ Untouched(m, x)
  BY <1>4, IncrementTyped
<1>6. Typed(n) /\ Untouched(m, n)
  BY <1>3, <1>5
<1>7. Settlement(w, n, op, success, c)
  BY <1>2, <1>6 DEF Settlement, Untouched
<1>8. QED  BY <1>6, <1>7 DEF m, n

---------------------------------------------------------------------------
(* Every step keeps the types. *)
LEMMA RevertTyped ==
  ASSUME MoneyInv, TypedInv, Abort \/ \E index : FailedOp(index)
  PROVE  TypedInv'
<1>1. /\ world' = saved.bundle /\ saved' = NoWorlds /\ mode' = "opSucceeded"
      /\ frames' = SubSeq(frames, 1, base)
  BY DEF Abort, FailedOp, Revert, End
<1>2. base \in 0..Len(frames)
  BY DEF MoneyInv, FramesInv
<1>3. Kept /\ Typed(world')
  BY <1>1, <1>2 DEF Kept, Modes, TypedInv
<1>4. QED  BY <1>3, KeptTyped

LEMMA AccountReturnsTyped ==
  ASSUME Inv, MoneyInv, TypedInv, NEW d \in ValidationData, AccountReturns(d)
  PROVE  TypedInv'
<1> DEFINE op == Op(i)
<1>1. CASE Abort \/ \E index : FailedOp(index)
  BY <1>1, RevertTyped
<1>2. CASE ~(Abort \/ \E index : FailedOp(index))
  <2>1. Kept
    BY <1>2 DEF AccountReturns, NextOp, Goto, Kept, TypedInv
  <2>2. op \in Ops /\ Payer(op) \in Addr
    <3>1. Validating /\ pc \notin {"validate", "execute"}
      BY DEF AccountReturns, CalleeIs, Validating
    <3>2. bundle \in Bundles /\ Last \in Nat /\ i \in 1..Last
      BY <3>1, Position DEF MoneyInv
    <3>3. QED  BY <3>2, OpType DEF Op, Last
  <2>3. op.sender \in Addr /\ Typed(world)
    BY <2>2, OpNonce DEF TypedInv
  <2>4. NonceMatches(world.nonceSequenceNumber[op.sender], op.nonce)
    BY <1>2 DEF AccountReturns
  <2>5. CASE op.paymaster = NoOne
    <3> DEFINE paid == Prefunded(world, op.sender, op.prefund)
    <3>1. world' = NonceUsed(paid, op)
      BY <1>2, <2>5 DEF AccountReturns, NextOp
    <3>2. Typed(paid) /\ Untouched(world, paid)
      BY <2>3, PrefundedTyped
    <3> HIDE DEF paid, op
    <3>3. NonceMatches(paid.nonceSequenceNumber[op.sender], op.nonce)
      BY <2>4, <3>2 DEF Untouched
    <3>4. Typed(world')
      BY <2>2, <3>1, <3>2, <3>3, NonceUsedTyped
    <3>5. QED  BY <2>1, <3>4, KeptTyped
  <2>6. CASE op.paymaster # NoOne
    <3> DEFINE used == NonceUsed(world, op)
    <3>1. world' = Prefunded(used, op.paymaster, op.prefund) /\ Payer(op) = op.paymaster
      BY <1>2, <2>6 DEF AccountReturns, Payer
    <3> HIDE DEF op
    <3>2. Typed(used)
      BY <2>2, <2>3, <2>4, NonceUsedTyped
    <3> HIDE DEF used
    <3>3. Typed(world')
      BY <2>2, <3>1, <3>2, PrefundedTyped
    <3>4. QED  BY <2>1, <3>3, KeptTyped
  <2>7. QED  BY <2>5, <2>6
<1>3. QED  BY <1>1, <1>2

LEMMA SettleTyped ==
  ASSUME Inv, MoneyInv, TypedInv, NEW cost \in Costs, Settle(cost)
  PROVE  TypedInv'
<1> DEFINE op == Op(i)
           charged == Charged(op, cost)
           success == cost <= op.prefund /\ mode = "opSucceeded"
           low == op.prefund < cost /\ mode # "postOpReverted"
           w == IF low THEN saved.inner ELSE world
<1>1. pc = "settle" /\ Kept /\ world' = Refunded(Event(w, op, success, charged), op, charged)
  BY DEF Settle, OpDone, Goto, Kept, Modes
<1>2. op \in Ops /\ Payer(op) \in Addr
  <2>1. Executing /\ pc \notin {"validate", "execute"}
    BY <1>1 DEF Executing
  <2>2. bundle \in Bundles /\ Last \in Nat /\ i \in 1..Last
    BY <2>1, Position DEF MoneyInv
  <2>3. QED  BY <2>2, OpType DEF Op, Last
<1>3. Typed(w)
  BY DEF TypedInv
<1> HIDE DEF op, charged, success, w
<1>4. Typed(world')
  BY <1>1, <1>2, <1>3, SettledTyped
<1>5. QED  BY <1>1, <1>4, KeptTyped

LEMMA RanTyped ==
  ASSUME NEW w, Typed(w), NEW op \in Ops
  PROVE  LET n == [w EXCEPT !.ran = @ \cup {op}]
         IN  /\ Typed(n) /\ n.nonceSequenceNumber = w.nonceSequenceNumber
             /\ n.events = w.events /\ n.ran = w.ran \cup {op}
<1> DEFINE n == [w EXCEPT !.ran = @ \cup {op}]
<1>1. w = [x \in Fields |-> w[x]]
  BY DEF Typed
<1>2. /\ n = [x \in Fields |-> n[x]] /\ n.ran = w.ran \cup {op} /\ n.events = w.events
      /\ n.deposits = w.deposits /\ n.balance = w.balance /\ n.code = w.code
      /\ n.nonceSequenceNumber = w.nonceSequenceNumber
  BY <1>1 DEF Fields
<1> HIDE DEF n
<1>3. Typed(n)
  BY <1>2 DEF Typed
<1>4. QED  BY <1>2, <1>3 DEF n

LEMMA ExecutionTyped ==
  ASSUME Inv, MoneyInv, TypedInv, ExecuteOp \/ CallReturns \/ CallReverts \/ PostOpReturns \/ InnerReverts
  PROVE  TypedInv'
<1>1. CASE \E index : FailedOp(index)
  BY <1>1, RevertTyped
<1>2. CASE ~ \E index : FailedOp(index)
  <2>1. Kept
    <3>1. CASE ExecuteOp
      BY <1>2, <3>1 DEF ExecuteOp, AfterCall, chain, Kept, Modes
    <3>2. CASE CallReturns \/ CallReverts
      BY <3>2 DEF CallReturns, CallReverts, CalldataDone, AfterCall, Goto, Kept, Modes
    <3>3. CASE PostOpReturns \/ InnerReverts
      BY <3>3 DEF PostOpReturns, InnerReverts, Goto, Kept, Modes, TypedInv
    <3>4. QED  BY <3>1, <3>2, <3>3
  <2>2. world' \in {world, saved.call, saved.inner} \/ CallReturns
    BY <1>2 DEF ExecuteOp, CallReverts, PostOpReturns, InnerReverts, Goto, chain
  <2>3. CASE CallReturns
    <3>1. world' = [world EXCEPT !.ran = @ \cup {Op(i)}] /\ Executing /\ pc \notin {"validate", "execute"}
      BY <2>3 DEF CallReturns, CalleeIs, Executing
    <3>2. bundle \in Bundles /\ Last \in Nat /\ i \in 1..Last
      BY <3>1, Position DEF MoneyInv
    <3>3. Op(i) \in Ops
      BY <3>2, OpType DEF Op, Last
    <3>4. Typed(world')
      BY <3>1, <3>3, RanTyped DEF TypedInv
    <3>5. QED  BY <2>1, <3>4, KeptTyped
  <2>4. CASE world' \in {world, saved.call, saved.inner}
    <3>1. Typed(world')
      BY <2>4 DEF TypedInv
    <3>2. QED  BY <2>1, <3>1, KeptTyped
  <2>5. QED  BY <2>2, <2>3, <2>4
<1>3. QED  BY <1>1, <1>2

(* The steps that leave the world as it is. *)
LEMMA StagesTyped ==
  ASSUME Inv, MoneyInv, TypedInv,
         \/ \E b \in Bundles : HandleBundle(b)
         \/ CheckGroup \/ GroupsChecked \/ ValidateOp \/ AllValidated \/ AggregatorReturns
         \/ \E a \in Addr \cup {NoOne} : FactoryReturns(a)
         \/ \E asked \in BOOLEAN, d \in ValidationData : PaymasterReturns(asked, d)
         \/ BeneficiaryReturns \/ NextTransaction
  PROVE  TypedInv'
<1>1. CASE Abort \/ \E index : FailedOp(index)
  BY <1>1, RevertTyped
<1>2. CASE ~(Abort \/ \E index : FailedOp(index))
  <2>1. Kept /\ world' = world
    <3>1. CASE \E b \in Bundles : HandleBundle(b)
      BY <3>1 DEF HandleBundle, Kept, TypedInv
    <3>2. CASE CheckGroup \/ GroupsChecked \/ AllValidated \/ AggregatorReturns
      BY <1>2, <3>2 DEF CheckGroup, GroupsChecked, AllValidated, AggregatorReturns, Goto, Kept, TypedInv
    <3>3. CASE ValidateOp \/ \E a \in Addr \cup {NoOne} : FactoryReturns(a)
      BY <1>2, <3>3 DEF ValidateOp, FactoryReturns, CallAccount, Goto, Kept, TypedInv
    <3>4. CASE \E asked \in BOOLEAN, d \in ValidationData : PaymasterReturns(asked, d)
      BY <1>2, <3>4 DEF PaymasterReturns, NextOp, Goto, Kept, TypedInv
    <3>5. CASE BeneficiaryReturns
      BY <3>5 DEF BeneficiaryReturns, End, Kept, Modes
    <3>6. CASE NextTransaction
      BY <3>6 DEF NextTransaction, Stakes!NextTransaction, control, Kept, TypedInv
    <3>7. QED  BY <3>1, <3>2, <3>3, <3>4, <3>5, <3>6
  <2>2. QED  BY <2>1, KeptTyped DEF TypedInv
<1>3. QED  BY <1>1, <1>2

LEMMA CompensateTyped ==
  ASSUME Inv, MoneyInv, TypedInv, NEW a \in Addr \cup {NoOne}, Compensate(a)
  PROVE  TypedInv'
<1>1. CASE Abort
  BY <1>1, RevertTyped
<1>2. CASE ~Abort
  <2> DEFINE paid == [world EXCEPT !.balance = @ - collected]
  <2>1. Kept
    BY <1>2 DEF Compensate, End, Goto, Kept, Modes, TypedInv
  <2>2. world' = paid \/ world' = Stakes!Receive(paid, EntryPoint, collected)
    BY <1>2 DEF Compensate
  <2>3. collected \in Nat /\ Typed(world)
    BY DEF MoneyInv, FeesInv, TypedInv
  <2>4. Typed(paid) /\ Typed(Stakes!Receive(paid, EntryPoint, collected))
    BY <2>3, PaidTyped
  <2>5. QED  BY <2>1, <2>2, <2>4, KeptTyped
<1>3. QED  BY <1>1, <1>2

LEMMA OutsideTyped ==
  ASSUME Inv, MoneyInv, TypedInv,
         \/ \E a \in Addr, key \in Keys : IncrementNonce(a, key)
         \/ \E a \in Addr : Deploy(a)
         \/ StakeOperation \/ RecipientEnds
  PROVE  TypedInv'
<1>1. Typed(world) /\ world = [x \in Fields |-> world[x]]
  BY DEF TypedInv, Typed
<1>2. ASSUME NEW a \in Addr, NEW key \in Keys, IncrementNonce(a, key) PROVE TypedInv'
  <2>1. Kept
    BY <1>2 DEF IncrementNonce, control, Kept, TypedInv
  <2>2. NonceTaken(world, world', a, key) /\ world.nonceSequenceNumber[a][key] < MaxSeq
    BY <1>1, <1>2 DEF IncrementNonce, NonceTaken, Fields
  <2>3. Typed(world')
    BY <1>1, <2>2, NonceTakenTyped
  <2>4. QED  BY <2>1, <2>3, KeptTyped
<1>3. ASSUME NEW a \in Addr, Deploy(a) PROVE TypedInv'
  <2>1. Kept
    BY <1>3 DEF Deploy, control, Kept, TypedInv
  <2>2. /\ world' = [x \in Fields |-> world'[x]] /\ world'.code = world.code \cup {a}
        /\ world'.deposits = world.deposits /\ world'.balance = world.balance /\ world'.ran = world.ran
        /\ world'.nonceSequenceNumber = world.nonceSequenceNumber
    BY <1>1, <1>3 DEF Deploy, Fields
  <2>3. Typed(world')
    BY <1>1, <2>2 DEF Typed
  <2>4. QED  BY <2>1, <2>3, KeptTyped
<1>4. CASE StakeOperation
  <2>1. Typed(world') /\ (frames' = frames \/ frames' = Append(frames, world))
    BY <1>1, <1>4, StakesTyped
  <2>2. Kept
    BY <1>4, <2>1 DEF StakeOperation, control, Kept, TypedInv
  <2>3. QED  BY <2>1, <2>2, KeptTyped
<1>5. CASE RecipientEnds
  <2>1. /\ UNCHANGED control /\ Len(frames) > base /\ frames' = SubSeq(frames, 1, Len(frames) - 1)
        /\ world' \in {world, frames[Len(frames)]}
    BY <1>5 DEF RecipientEnds, Stakes!RecipientReturns, Stakes!RecipientReverts
  <2>2. Len(frames) \in Nat /\ base \in 0..Len(frames)
    BY LenProperties DEF MoneyInv, FramesInv
  <2>3. Kept
    <3>1. Len(frames) - 1 \in 0..Len(frames)
      BY <2>1, <2>2
    <3>2. QED  BY <2>1, <3>1 DEF control, Kept, TypedInv
  <2>4. Typed(world')
    BY <2>1, <2>2 DEF TypedInv
  <2>5. QED  BY <2>3, <2>4, KeptTyped
<1>6. QED  BY <1>2, <1>3, <1>4, <1>5

LEMMA InitTyped == Init => TypedInv
<1> SUFFICES ASSUME Init PROVE TypedInv
  OBVIOUS
<1>1. world = InitialWorld /\ frames = <<>> /\ saved = NoWorlds /\ mode = "opSucceeded"
  BY DEF Init
<1>2. QED  BY <1>1, InitialTyped DEF TypedInv, NoWorlds, Modes

LEMMA NextTyped ==
  ASSUME Inv, MoneyInv, TypedInv, [Next]_vars
  PROVE  TypedInv'
<1>1. CASE UNCHANGED vars
  BY <1>1 DEF vars, chain, control, TypedInv
<1>2. CASE (\E b \in Bundles : HandleBundle(b)) \/ NextTransaction
  BY <1>2, StagesTyped
<1>3. CASE EntryPointSteps
  BY <1>3, StagesTyped, ExecutionTyped, SettleTyped, CompensateTyped DEF EntryPointSteps
<1>4. CASE CalleeEnds
  <2>1. CASE AggregatorReverts \/ AccountReverts \/ PaymasterReverts \/ BeneficiaryReverts
    BY <2>1, RevertTyped DEF AggregatorReverts, AccountReverts, PaymasterReverts, BeneficiaryReverts
  <2>2. CASE \E d \in ValidationData : AccountReturns(d)
    BY <2>2, AccountReturnsTyped
  <2>3. QED  BY <1>4, <2>1, <2>2, StagesTyped, ExecutionTyped DEF CalleeEnds
<1>5. CASE BundleFails
  BY <1>5, RevertTyped DEF BundleFails
<1>6. CASE \/ \E a \in Addr, key \in Keys : IncrementNonce(a, key)
           \/ \E a \in Addr : Deploy(a)
           \/ StakeOperation \/ RecipientEnds
  BY <1>6, OutsideTyped
<1>7. QED  BY <1>1, <1>2, <1>3, <1>4, <1>5, <1>6 DEF Next

LEMMA TypesInvariance == Spec => [](Inv /\ MoneyInv /\ TypedInv)
<1>1. Init => Inv /\ MoneyInv /\ TypedInv
  BY InitInv, InitMoney, InitTyped
<1>2. Inv /\ MoneyInv /\ TypedInv /\ [Next]_vars => (Inv /\ MoneyInv /\ TypedInv)'
  BY NextInv, NextMoney, NextTyped
<1>3. QED  BY <1>1, <1>2, PTL DEF Spec

(* Every field of the EntryPoint's storage keeps its Solidity type for all *)
(* bundles: no unchecked subtraction wraps a deposit or the balance below  *)
(* zero, and no sequence number passes what its 64 bits hold.              *)
THEOREM StorageTyped == Spec => []TypeOK
<1>1. ASSUME Inv, MoneyInv, TypedInv PROVE TypeOK
  <2>1. ASSUME NEW a \in Addr PROVE world.deposits[a] \in Stakes!DepositInfo
    <3> DEFINE d == world.deposits[a]
    <3>1. IsRecord(d) /\ RecordTyped(d)
      BY <1>1 DEF MoneyInv, InOrder, Books, IsWorld, TypedInv, Typed
    <3> HIDE DEF d
    <3>2. d = [deposit |-> d.deposit, staked |-> d.staked, stake |-> d.stake,
               unstakeDelaySec |-> d.unstakeDelaySec, withdrawTime |-> d.withdrawTime]
      BY <3>1 DEF IsRecord, DepositFields
    <3>3. /\ d.deposit \in Nat /\ d.stake \in Nat /\ d.unstakeDelaySec \in Nat /\ d.withdrawTime \in Nat
          /\ d.staked \in BOOLEAN
      BY <3>1 DEF IsRecord, RecordTyped
    <3>4. d \in Stakes!DepositInfo
      BY <3>2, <3>3, Zenon DEF Stakes!DepositInfo
    <3>5. QED  BY <3>4 DEF d
  <2>2. ASSUME NEW a \in Addr, NEW k \in Keys PROVE world.nonceSequenceNumber[a][k] \in Nat
    <3>1. world.nonceSequenceNumber[a][k] \in 0..MaxSeq
      BY <1>1 DEF TypedInv, Typed
    <3>2. QED  BY <3>1, NonceAssumption DEF NonceAssumption
  <2>3. world.balance \in 0..Supply
    <3>1. Sum(bundle, HeldNow, collected) \in Nat
      BY <1>1, HeldNowType
    <3>2. Total(Stakes!Owed(world)) \in Nat
      BY <1>1, OwedNat DEF MoneyInv, InOrder, Books
    <3>3. world.balance = Total(Stakes!Owed(world)) + Sum(bundle, HeldNow, collected)
      BY <1>1 DEF MoneyInv, InOrder, Books
    <3>4. world.balance <= Supply /\ Supply \in Nat
      BY <1>1, MoneyAssumption DEF TypedInv, Typed, MoneyAssumption
    <3>5. QED  BY <3>1, <3>2, <3>3, <3>4
  <2>4. world.code \subseteq Addr /\ world.ran \subseteq Ops
    BY <1>1 DEF TypedInv, Typed
  <2>5. pc \in Callees \cup {"idle", "groups", "validate", "execute", "settle"}
    BY <1>1 DEF Inv, Types, Stages
  <2>6. mode \in {"opSucceeded", "opReverted", "postOpReverted"}
    BY <1>1 DEF TypedInv, Modes
  <2>7. base <= Len(frames)
    BY <1>1, LenProperties DEF MoneyInv, FramesInv
  <2>8. Executing => Len(opInfos) = Last
    BY <1>1 DEF Inv, ValidatedAll
  <2>9. QED  BY <2>1, <2>2, <2>3, <2>4, <2>5, <2>6, <2>7, <2>8 DEF TypeOK
<1>2. QED  BY <1>1, TypesInvariance, PTL

---------------------------------------------------------------------------
SameNonce(o, p) == o.sender = p.sender /\ o.nonce = p.nonce

(* The nonce of o is below its sequence number. *)
Used(w, o) == NonceSeq(o.nonce) < w.nonceSequenceNumber[o.sender][NonceKey(o.nonce)]

Reported(w, o) == w.events[o] # <<>>

(* Of two operations that share a nonce at most one is reported, and once. *)
ReportedOnce(w) ==
  /\ \A o \in Ops : Len(w.events[o]) <= 1 /\ (Reported(w, o) => Used(w, o))
  /\ \A o, p \in Ops : SameNonce(o, p) /\ Reported(w, o) /\ Reported(w, p) => o = p

(* The operations H of bundle b are to be reported: their nonces are used. *)
Pending(w, b, H) ==
  /\ \A j \in H : /\ Used(w, b.ops[j].op)
                  /\ \A o \in Ops : SameNonce(o, b.ops[j].op) => ~Reported(w, o)
  /\ \A j, k \in H : SameNonce(b.ops[j].op, b.ops[k].op) => j = k

(* Of the operations without an event, only those in R have left effects. *)
RanAsReported(w, R) ==
  \A o \in Ops : o \in w.ran <=> IF Reported(w, o) THEN o.callData /\ w.events[o][1].success ELSE o \in R

Told(w, b, H, D, R) ==
  /\ ReportedOnce(w) /\ Pending(w, b, H) /\ RanAsReported(w, R)
  /\ \A j \in D : Reported(w, b.ops[j].op)

(* The operations whose events are there, and those whose effects are and  *)
(* whose events are not.                                                   *)
DoneNow == {j \in 1..Last : (Executing /\ j < i) \/ pc = "beneficiary"}

RunNow == IF pc \in {"postOp", "settle"} /\ mode = "opSucceeded" /\ Op(i).callData THEN {Op(i)} ELSE {}

ToldNow(w) == Told(w, bundle, HeldNow, DoneNow, RunNow)

ToldBefore(w) == Told(w, bundle, HeldNow, DoneNow, {})

ToldAtRest(w) == ReportedOnce(w) /\ RanAsReported(w, {})

ToldInv ==
  /\ ToldNow(world)
  /\ pc # "idle" => ToldAtRest(saved.bundle)
  /\ pc \in {"call", "postOp", "settle"} => ToldBefore(saved.inner)
  /\ pc = "call" => ToldBefore(saved.call) /\ Op(i).callData
  /\ \A k \in 1..base : ToldAtRest(frames[k])
  /\ \A k \in (base + 1)..Len(frames) : ToldNow(frames[k])

(* What a bundle has reported, it need not have: a world is at rest. *)
LEMMA ToldRest ==
  ASSUME NEW w, NEW b
  PROVE  /\ ToldAtRest(w) => Told(w, b, {}, {}, {})
         /\ \A D : Told(w, b, {}, D, {}) => ToldAtRest(w)
BY DEF Told, ToldAtRest, Pending

(* Events and effects are as they were, and nonces are only used up. *)
Aside(w, n) == n.events = w.events /\ n.ran = w.ran /\ \A o \in Ops : Used(w, o) => Used(n, o)

LEMMA ToldAside ==
  ASSUME NEW w, NEW n, Aside(w, n), NEW b, NEW H, \A j \in H : b.ops[j].op \in Ops,
         NEW D, NEW R, Told(w, b, H, D, R)
  PROVE  Told(n, b, H, D, R)
<1>1. ReportedOnce(n)
  BY DEF Aside, Told, ReportedOnce, Reported
<1>2. Pending(n, b, H)
  BY DEF Aside, Told, Pending, Reported
<1>3. RanAsReported(n, R) /\ \A j \in D : Reported(n, b.ops[j].op)
  BY DEF Aside, Told, RanAsReported, Reported
<1>4. QED  BY <1>1, <1>2, <1>3 DEF Told

LEMMA UntouchedAside ==
  ASSUME NEW w, NEW n, Untouched(w, n)
  PROVE  Aside(w, n)
BY DEF Untouched, Aside, Used

LEMMA NonceTakenAside ==
  ASSUME NEW w, Typed(w), NEW n, NEW a \in Addr, NEW key \in Keys, NonceTaken(w, n, a, key)
  PROVE  /\ Aside(w, n)
         /\ n.nonceSequenceNumber[a][key] = w.nonceSequenceNumber[a][key] + 1
<1> DEFINE seq == w.nonceSequenceNumber
<1>1. seq \in [Addr -> [Keys -> 0..MaxSeq]] /\ MaxSeq \in Int
  BY NonceAssumption DEF Typed, NonceAssumption
<1>2. n.nonceSequenceNumber = [seq EXCEPT ![a] = [seq[a] EXCEPT ![key] = seq[a][key] + 1]]
  BY DEF NonceTaken, Incremented
<1> HIDE DEF seq
<1>3. seq[a] \in [Keys -> 0..MaxSeq]
  BY <1>1
<1>4. n.nonceSequenceNumber[a][key] = seq[a][key] + 1
  BY <1>1, <1>2, <1>3
<1>5. ASSUME NEW c \in Addr, NEW k \in Keys PROVE seq[c][k] <= n.nonceSequenceNumber[c][k]
  <2>1. seq[c][k] \in Int
    BY <1>1
  <2>2. CASE c = a /\ k = key
    BY <1>4, <2>1, <2>2
  <2>3. CASE c # a \/ k # key
    <3>1. n.nonceSequenceNumber[c][k] = seq[c][k]
      BY <1>1, <1>2, <1>3, <2>3
    <3>2. QED  BY <2>1, <3>1
  <2>4. QED  BY <2>2, <2>3
<1>6. ASSUME NEW o \in Ops, Used(w, o) PROVE Used(n, o)
  <2> DEFINE k == NonceKey(o.nonce)
             s == NonceSeq(o.nonce)
  <2>1. o.sender \in Addr /\ k \in Keys /\ s \in Int
    BY OpNonce, NonceParts
  <2>2. s < seq[o.sender][k]
    BY <1>6 DEF Used, seq
  <2>3. seq[o.sender][k] \in Int /\ n.nonceSequenceNumber[o.sender][k] \in Int
    BY <1>1, <1>2, <1>3, <2>1
  <2> HIDE DEF k, s
  <2>4. s < n.nonceSequenceNumber[o.sender][k]
    BY <1>5, <2>1, <2>2, <2>3
  <2>5. QED  BY <2>4 DEF Used, k, s
<1>7. n.events = w.events /\ n.ran = w.ran
  BY DEF NonceTaken
<1>8. QED  BY <1>4, <1>6, <1>7 DEF Aside, seq

(* An operation whose nonce is accepted becomes pending. *)
LEMMA HoldTold ==
  ASSUME NEW w, Typed(w), NEW b, NEW H, NEW D, NEW R, Told(w, b, H, D, R),
         \A j \in H : b.ops[j].op \in Ops,
         NEW k, b.ops[k].op \in Ops,
         NonceMatches(w.nonceSequenceNumber[b.ops[k].op.sender], b.ops[k].op.nonce),
         NEW n, NonceTaken(w, n, b.ops[k].op.sender, NonceKey(b.ops[k].op.nonce))
  PROVE  Told(n, b, H \cup {k}, D, R)
<1> DEFINE op == b.ops[k].op
           s == NonceSeq(op.nonce)
           seq == w.nonceSequenceNumber[op.sender][NonceKey(op.nonce)]
<1>1. op.sender \in Addr /\ NonceKey(op.nonce) \in Keys /\ s \in Int
  BY OpNonce, NonceParts
<1>2. Aside(w, n) /\ n.nonceSequenceNumber[op.sender][NonceKey(op.nonce)] = seq + 1
  <2> DEFINE a == op.sender
             key == NonceKey(op.nonce)
  <2>1. a \in Addr /\ key \in Keys /\ NonceTaken(w, n, a, key)
    BY SMTT(30), <1>1
  <2>2. (/\ Aside(w, n)
         /\ n.nonceSequenceNumber[a][key] = w.nonceSequenceNumber[a][key] + 1)
        => n.nonceSequenceNumber[op.sender][NonceKey(op.nonce)] = seq + 1
    OBVIOUS
  <2> HIDE DEF a, key, op, seq, s
  <2>3. /\ Aside(w, n)
        /\ n.nonceSequenceNumber[a][key] = w.nonceSequenceNumber[a][key] + 1
    BY <2>1, NonceTakenAside
  <2>4. QED  BY <2>2, <2>3
<1>3. seq = s
  BY DEF NonceMatches
<1>4. Used(n, op) /\ ~Used(w, op)
  <2>1. (Used(n, op) <=> s < seq + 1) /\ (Used(w, op) <=> s < seq)
    <3>1. Used(w, op) <=> s < seq
      BY ZenonT(60) DEF Used
    <3>2. Used(n, op) <=> s < n.nonceSequenceNumber[op.sender][NonceKey(op.nonce)]
      BY ZenonT(60) DEF Used
    <3>3. Used(n, op) <=> s < seq + 1
      BY <1>2, <3>2, ZenonT(60)
    <3>4. QED  BY <3>1, <3>3, ZenonT(60)
  <2> HIDE DEF s, seq
  <2>2. QED  BY SMTT(30), <1>1, <1>3, <2>1
<1>5. Told(n, b, H, D, R)
  BY <1>2, ToldAside
<1> HIDE DEF op
<1>6. ASSUME NEW o \in Ops, SameNonce(o, op) PROVE ~Used(w, o) /\ ~Reported(w, o)
  <2>1. ~Used(w, o)
    BY <1>4, <1>6 DEF SameNonce, Used
  <2>2. QED  BY <2>1 DEF Told, ReportedOnce
<1>7. \A j \in H : ~SameNonce(b.ops[j].op, op) /\ ~SameNonce(op, b.ops[j].op)
  BY <1>6 DEF Told, Pending, SameNonce
<1>8. Pending(n, b, H \cup {k})
  <2>1. \A j \in H \cup {k} : /\ Used(n, b.ops[j].op)
                              /\ \A o \in Ops : SameNonce(o, b.ops[j].op) => ~Reported(n, o)
    BY <1>2, <1>4, <1>5, <1>6 DEF Told, Pending, op, Aside, Reported
  <2>2. \A j, l \in H \cup {k} : SameNonce(b.ops[j].op, b.ops[l].op) => j = l
    BY <1>5, <1>7 DEF Told, Pending, op
  <2>3. QED  BY SMTT(30), <2>1, <2>2 DEF Pending
<1>9. QED  BY <1>5, <1>8 DEF Told

(* Its effects come before its event ... *)
LEMMA RunTold ==
  ASSUME NEW w, NEW b, NEW H, NEW D, Told(w, b, H, D, {}), NEW k \in H, b.ops[k].op \in Ops,
         NEW n, n.nonceSequenceNumber = w.nonceSequenceNumber, n.events = w.events,
         n.ran = w.ran \cup {b.ops[k].op}
  PROVE  Told(n, b, H, D, {b.ops[k].op})
<1> DEFINE op == b.ops[k].op
<1>1. ~Reported(w, op)
  BY DEF Told, Pending, SameNonce
<1>2. RanAsReported(n, {op})
  BY <1>1 DEF Told, RanAsReported, Reported
<1>3. ReportedOnce(n) /\ Pending(n, b, H) /\ \A j \in D : Reported(n, b.ops[j].op)
  BY DEF Told, ReportedOnce, Pending, Reported, Used
<1>4. QED  BY <1>2, <1>3 DEF Told

(* ... and its event says whether they are there. *)
LEMMA SettleTold ==
  ASSUME NEW w, IsWorld(w), NEW b, NEW H, NEW D, NEW R, Told(w, b, H, D, R),
         NEW k \in H, \A j \in H \cup D : b.ops[j].op \in Ops,
         NEW success, NEW c, R = IF success /\ b.ops[k].op.callData THEN {b.ops[k].op} ELSE {},
         NEW n, Settlement(w, n, b.ops[k].op, success, c)
  PROVE  Told(n, b, H \ {k}, D \cup {k}, {})
<1> DEFINE op == b.ops[k].op
           charge == [success |-> success, cost |-> c]
<1>1. op \in Ops /\ ~Reported(w, op) /\ Used(w, op) /\ \A o \in Ops : SameNonce(o, op) => ~Reported(w, o)
  BY DEF Told, Pending, SameNonce
<1>2. /\ n.nonceSequenceNumber = w.nonceSequenceNumber /\ n.ran = w.ran
      /\ n.events = [w.events EXCEPT ![op] = Append(w.events[op], charge)]
      /\ w.events \in [Ops -> Seq(Charge)]
  BY DEF Settlement, IsWorld, ChargesWithin
<1>3. n.events[op][1] = charge /\ Len(n.events[op]) = 1 /\ n.events[op] # <<>>
  <2>1. n.events[op] = Append(<<>>, charge)
    BY <1>1, <1>2 DEF Reported
  <2> HIDE DEF charge
  <2>2. <<>> \in Seq({charge}) /\ Len(<<>>) = 0
    BY EmptySeq
  <2>3. Len(Append(<<>>, charge)) = 1 /\ Append(<<>>, charge)[1] = charge
    BY <2>2, AppendProperties
  <2>4. QED  BY <2>1, <2>2, <2>3
<1>4. \A o \in Ops : o # op => n.events[o] = w.events[o]
  BY <1>2
<1>5. n.events[op][1].success = success
  BY <1>3
<1> HIDE DEF op, charge
<1>6. Reported(n, op) /\ \A o \in Ops : (Used(n, o) <=> Used(w, o)) /\ (o # op => (Reported(n, o) <=> Reported(w, o)))
  BY <1>2, <1>3, <1>4 DEF Reported, Used
<1>7. ReportedOnce(n)
  <2>1. ASSUME NEW o \in Ops PROVE Len(n.events[o]) <= 1 /\ (Reported(n, o) => Used(n, o))
    <3>1. CASE o = op
      <4>1. Len(n.events[o]) = 1
        BY <1>3, <3>1
      <4>2. Used(n, op) <=> Used(w, op)
        BY <1>1, <1>6
      <4>3. Used(n, o)
        BY <1>1, <3>1, <4>2
      <4>4. QED  BY <4>1, <4>3
    <3>2. CASE o # op
      <4>1. Len(w.events[o]) <= 1 /\ (Reported(w, o) => Used(w, o))
        BY DEF Told, ReportedOnce
      <4>2. QED  BY <1>4, <1>6, <3>2, <4>1
    <3>3. QED  BY <3>1, <3>2
  <2>2. ASSUME NEW o \in Ops, NEW p \in Ops, SameNonce(o, p), Reported(n, o), Reported(n, p) PROVE o = p
    <3>1. SameNonce(p, o)
      BY <2>2 DEF SameNonce
    <3>2. QED  BY <1>1, <1>6, <2>2, <3>1 DEF Told, ReportedOnce
  <2>3. QED  BY <2>1, <2>2 DEF ReportedOnce
<1>8. Pending(n, b, H \ {k})
  <2>1. ASSUME NEW j \in H \ {k}
        PROVE  Used(n, b.ops[j].op) /\ \A o \in Ops : SameNonce(o, b.ops[j].op) => ~Reported(n, o)
    <3>1. ~SameNonce(op, b.ops[j].op) /\ b.ops[j].op \in Ops
      BY DEF Told, Pending, op
    <3>2. QED  BY <1>6, <3>1 DEF Told, Pending
  <2>2. QED  BY <2>1 DEF Told, Pending
<1>9. RanAsReported(n, {})
  <2>1. ASSUME NEW o \in Ops
        PROVE  o \in n.ran <=> IF Reported(n, o) THEN o.callData /\ n.events[o][1].success ELSE o \in {}
    <3>1. CASE o = op
      <4>1. o \in w.ran <=> o \in R
        BY <1>1, <3>1 DEF Told, RanAsReported
      <4>2. o \in R <=> success /\ op.callData
        BY <3>1 DEF op
      <4>3. QED  BY <1>2, <1>5, <1>6, <3>1, <4>1, <4>2
    <3>2. CASE o # op
      <4>1. o \notin R
        BY <3>2 DEF op
      <4>2. QED  BY <1>2, <1>4, <1>6, <3>2, <4>1 DEF Told, RanAsReported
    <3>3. QED  BY <3>1, <3>2
  <2>2. QED  BY <2>1 DEF RanAsReported
<1>10. \A j \in D \cup {k} : Reported(n, b.ops[j].op)
  BY <1>6 DEF Told, op
<1>11. QED  BY <1>7, <1>8, <1>9, <1>10 DEF Told

---------------------------------------------------------------------------
(* A bundle ends, goes on, and is left alone, as with the money. *)
LEMMA NothingRun ==
  /\ pc = "idle" => HeldNow = {} /\ DoneNow = {} /\ RunNow = {}
  /\ pc' = "idle" => HeldNow' = {} /\ DoneNow' = {} /\ RunNow' = {}
BY DEF HeldNow, PrefundHeld, DoneNow, RunNow, Validating, Executing

(* Before the validation and after the execution a world is at rest. *)
LEMMA RestNow ==
  ASSUME NEW w, HeldNow = {}, RunNow = {}, ToldNow(w)
  PROVE  ToldAtRest(w)
BY ToldRest DEF ToldNow

LEMMA HeldOps ==
  ASSUME Inv
  PROVE  \A j \in HeldNow \cup DoneNow : bundle.ops[j].op \in Ops
<1>1. HeldNow \cup DoneNow \subseteq 1..Last
  BY DEF HeldNow, DoneNow
<1>2. CASE pc = "idle"
  BY <1>2, NothingRun
<1>3. CASE pc # "idle"
  BY <1>1, <1>3, OpType DEF Inv, Types, Last
<1>4. QED  BY <1>2, <1>3

LEMMA EndTold ==
  ASSUME NEW r, End(r), ToldAtRest(world'),
         NEW S, frames' \in Seq(S), \A k \in 1..Len(frames') : ToldAtRest(frames'[k])
  PROVE  ToldInv'
<1>1. pc' = "idle" /\ base' = 0
  BY DEF End
<1>2. HeldNow' = {} /\ DoneNow' = {} /\ RunNow' = {}
  BY <1>1, NothingRun
<1>3. ASSUME NEW w, ToldAtRest(w) PROVE Told(w, bundle', HeldNow', DoneNow', RunNow')
  BY <1>2, <1>3, ToldRest
<1>4. ToldNow(world)'
  BY <1>3 DEF ToldNow
<1>5. \A k \in 1..Len(frames') : ToldNow(frames[k])'
  BY <1>3 DEF ToldNow
<1>6. Len(frames') \in Nat
  BY LenProperties
<1>7. QED  BY <1>1, <1>4, <1>5, <1>6 DEF ToldInv

LEMMA RevertTold ==
  ASSUME MoneyInv, ToldInv, pc # "idle", Abort \/ \E index : FailedOp(index)
  PROVE  ToldInv'
<1>1. PICK r : End(r) /\ world' = saved.bundle /\ frames' = SubSeq(frames, 1, base)
  BY DEF Abort, FailedOp, Revert
<1>2. PICK S : frames' \in Seq(S)
  BY <1>1, Prefix DEF MoneyInv, FramesInv
<1>3. Len(frames') = base /\ \A k \in 1..base : frames'[k] = frames[k]
  BY <1>1, Prefix DEF MoneyInv, FramesInv
<1>4. ToldAtRest(world') /\ \A k \in 1..Len(frames') : ToldAtRest(frames'[k])
  BY <1>1, <1>3 DEF ToldInv
<1>5. QED  BY <1>1, <1>2, <1>4, EndTold

LEMMA StepTold ==
  ASSUME MoneyInv, ToldInv, pc # "idle", pc' # "idle", Len(frames) = base, UNCHANGED <<frames, base>>,
         saved'.bundle = saved.bundle, ToldNow(world)',
         pc' \in {"call", "postOp", "settle"} => ToldBefore(saved.inner)',
         pc' = "call" => ToldBefore(saved.call)' /\ Op(i)'.callData
  PROVE  ToldInv'
<1>1. Len(frames) \in Nat
  BY LenProperties DEF MoneyInv, FramesInv
<1>2. QED  BY <1>1 DEF ToldInv

(* A stage begins in which nothing is taken, run or reported. *)
LEMMA KeepTold ==
  ASSUME MoneyInv, ToldInv, pc # "idle", pc' # "idle", Len(frames) = base,
         UNCHANGED <<frames, base, bundle, world, saved>>, HeldNow' = HeldNow, DoneNow' = DoneNow,
         RunNow' = RunNow, pc' # "call", pc' \in {"postOp", "settle"} => pc \in {"call", "postOp", "settle"}
  PROVE  ToldInv'
<1>1. ToldNow(world)'
  BY DEF ToldInv, ToldNow
<1>2. pc' \in {"call", "postOp", "settle"} => ToldBefore(saved.inner)'
  BY DEF ToldInv, ToldBefore
<1>3. QED  BY <1>1, <1>2, StepTold

LEMMA ChainTold ==
  ASSUME MoneyInv, ToldInv, UNCHANGED control, pc \in Callees \cup {"idle"}, ToldNow(world'),
         \/ frames' = frames
         \/ frames' = Append(frames, world)
         \/ frames' = SubSeq(frames, 1, Len(frames) - 1) /\ Len(frames) > base
  PROVE  ToldInv'
<1>1. UNCHANGED <<pc, bundle, i, saved, base, mode>>
  BY DEF control
<1>2. HeldNow' = HeldNow /\ DoneNow' = DoneNow /\ RunNow' = RunNow
  BY <1>1 DEF HeldNow, PrefundHeld, DoneNow, RunNow, Validating, Executing, Last, Op
<1>3. ToldNow(world)' /\ \A k : ToldNow(frames[k])' <=> ToldNow(frames'[k])
  BY <1>1, <1>2 DEF ToldNow
<1>4. /\ pc' # "idle" => ToldAtRest(saved.bundle)'
      /\ pc' \in {"call", "postOp", "settle"} => ToldBefore(saved.inner)'
      /\ pc' = "call" => ToldBefore(saved.call)' /\ Op(i)'.callData
  BY <1>1, <1>2 DEF ToldInv, ToldAtRest, ToldBefore, Op
<1>5. PICK S : frames \in Seq(S)
  BY DEF MoneyInv, FramesInv
<1>6. Len(frames) \in Nat /\ base \in 0..Len(frames)
  BY <1>5, LenProperties DEF MoneyInv, FramesInv
<1>7. ToldNow(world) /\ (\A k \in 1..base : ToldAtRest(frames[k]))
      /\ \A k \in (base + 1)..Len(frames) : ToldNow(frames[k])
  BY DEF ToldInv
<1>8. (\A k \in 1..base : ToldAtRest(frames'[k])) /\ \A k \in (base + 1)..Len(frames') : ToldNow(frames'[k])
  <2>1. CASE frames' = frames
    BY <1>7, <2>1
  <2>2. CASE frames' = Append(frames, world)
    <3> DEFINE T == S \cup {world}
    <3>1. frames \in Seq(T) /\ world \in T
      BY <1>5
    <3> HIDE DEF T
    <3>2. /\ Len(frames') = Len(frames) + 1 /\ frames'[Len(frames) + 1] = world
          /\ \A k \in 1..Len(frames) : frames'[k] = frames[k]
      BY <2>2, <3>1, AppendProperties
    <3>3. QED  BY <1>6, <1>7, <3>2
  <2>3. CASE frames' = SubSeq(frames, 1, Len(frames) - 1) /\ Len(frames) > base
    <3>1. Len(frames) - 1 \in 0..Len(frames) /\ base <= Len(frames) - 1
      BY <1>6, <2>3
    <3>2. /\ Len(frames') = Len(frames) - 1
          /\ \A k \in 1..(Len(frames) - 1) : frames'[k] = frames[k]
      BY <2>3, <3>1, Prefix DEF MoneyInv
    <3>3. QED  BY <1>6, <1>7, <3>1, <3>2
  <2>4. QED  BY <2>1, <2>2, <2>3
<1>9. (\A k \in 1..base' : ToldAtRest(frames[k])') /\ \A k \in (base' + 1)..Len(frames') : ToldNow(frames[k])'
  BY <1>1, <1>3, <1>8 DEF ToldAtRest
<1>10. QED  BY <1>3, <1>4, <1>9 DEF ToldInv

---------------------------------------------------------------------------
(* What each step does to nonces, effects and events. *)
LEMMA HandleBundleTold ==
  ASSUME MoneyInv, ToldInv, NEW b \in Bundles, HandleBundle(b)
  PROVE  ToldInv'
<1>1. /\ pc = "idle" /\ pc' = "groups" /\ base' = Len(frames) /\ UNCHANGED <<world, frames>>
      /\ saved' = [saved EXCEPT !.bundle = world]
  BY DEF HandleBundle
<1>2. HeldNow = {} /\ RunNow = {} /\ base = 0
  BY <1>1, NothingRun DEF MoneyInv, FramesInv
<1>3. HeldNow' = {} /\ DoneNow' = {} /\ RunNow' = {}
  BY <1>1 DEF HeldNow, PrefundHeld, DoneNow, RunNow, Validating, Executing
<1>4. Len(frames) \in Nat
  BY LenProperties DEF MoneyInv, FramesInv
<1>5. ToldAtRest(world) /\ \A k \in 1..Len(frames) : ToldAtRest(frames[k])
  BY <1>2, RestNow DEF ToldInv
<1>6. ToldNow(world)'
  BY <1>1, <1>3, <1>5, ToldRest DEF ToldNow
<1>7. saved'.bundle = world
  BY <1>1 DEF MoneyInv, SavedInv
<1>8. QED  BY <1>1, <1>4, <1>5, <1>6, <1>7 DEF ToldInv

(* The steps of a bundle up to the execution that leave the chain alone. *)
LEMMA StagesTold ==
  ASSUME Inv, MoneyInv, ToldInv,
         \/ CheckGroup \/ AggregatorReturns \/ GroupsChecked \/ ValidateOp \/ AllValidated
         \/ \E a \in Addr \cup {NoOne} : FactoryReturns(a)
         \/ \E asked \in BOOLEAN, d \in ValidationData : PaymasterReturns(asked, d)
  PROVE  ToldInv'
<1>1. pc \in {"groups", "aggregator", "validate", "factory", "paymaster"} /\ Len(frames) = base
  <2>1. pc \in {"groups", "aggregator", "validate", "factory", "paymaster"}
    BY DEF CheckGroup, AggregatorReturns, GroupsChecked, ValidateOp, FactoryReturns, PaymasterReturns,
           AllValidated, CalleeIs
  <2>2. QED  BY <2>1, OwnFrames
        DEF CheckGroup, AggregatorReturns, GroupsChecked, ValidateOp, FactoryReturns, PaymasterReturns,
            AllValidated, Callees
<1>2. CASE Abort \/ \E index : FailedOp(index)
  BY <1>1, <1>2, RevertTold
<1>3. CASE ~(Abort \/ \E index : FailedOp(index))
  <2>1. UNCHANGED <<frames, base, bundle, world, saved>>
    <3>1. CASE CheckGroup \/ GroupsChecked \/ AllValidated \/ AggregatorReturns
      BY <1>3, <3>1 DEF CheckGroup, GroupsChecked, AllValidated, AggregatorReturns, Goto
    <3>2. CASE ValidateOp \/ \E a \in Addr \cup {NoOne} : FactoryReturns(a)
      BY <1>3, <3>2 DEF ValidateOp, FactoryReturns, CallAccount, Goto
    <3>3. CASE \E asked \in BOOLEAN, d \in ValidationData : PaymasterReturns(asked, d)
      BY <1>3, <3>3 DEF PaymasterReturns, NextOp, Goto
    <3>4. QED  BY <3>1, <3>2, <3>3
  <2>2. pc' \in {"groups", "aggregator", "validate", "factory", "account", "execute"}
        /\ (pc' = "execute" => pc = "validate" /\ i > Last /\ i' = 1)
        /\ (pc \in {"groups", "aggregator"} => pc' \in {"groups", "aggregator"} \/ (pc' = "validate" /\ i' = 1))
        /\ (pc \in {"validate", "factory"} /\ pc' # "execute" => pc' \in {"factory", "account"} /\ i' = i)
        /\ (pc = "paymaster" => pc' = "validate" /\ i' = i + 1)
    <3>1. CASE CheckGroup \/ GroupsChecked \/ AllValidated \/ AggregatorReturns
      BY <1>3, <3>1 DEF CheckGroup, GroupsChecked, AllValidated, AggregatorReturns, Goto, CalleeIs
    <3>2. CASE ValidateOp \/ \E a \in Addr \cup {NoOne} : FactoryReturns(a)
      BY <1>3, <3>2 DEF ValidateOp, FactoryReturns, CallAccount, Goto, CalleeIs
    <3>3. CASE \E asked \in BOOLEAN, d \in ValidationData : PaymasterReturns(asked, d)
      BY <1>3, <3>3 DEF PaymasterReturns, NextOp, Goto, CalleeIs
    <3>4. QED  BY <3>1, <3>2, <3>3
  <2>3. Last' = Last /\ Op(1)' = Op(1)
    BY <2>1 DEF Last, Op
  <2>4. RunNow' = RunNow
    BY <1>1, <2>2 DEF RunNow
  <2>5. HeldNow' = HeldNow /\ DoneNow' = DoneNow
    <3>1. CASE pc \in {"groups", "aggregator"}
      BY <2>2, <2>3, <3>1 DEF HeldNow, PrefundHeld, DoneNow, Validating, Executing
    <3>2. CASE pc \in {"validate", "factory", "paymaster"}
      <4>1. Last \in Nat /\ i \in 1..(Last + 1) /\ (pc # "validate" => i <= Last)
        <5>1. Validating
          BY <3>2 DEF Validating
        <5>2. QED  BY <3>2, <5>1, Position DEF MoneyInv
      <4>2. QED  BY <2>2, <2>3, <3>2, <4>1 DEF HeldNow, PrefundHeld, DoneNow, Validating, Executing
    <3>3. QED  BY <1>1, <3>1, <3>2
  <2>6. QED  BY <1>1, <2>1, <2>2, <2>4, <2>5, KeepTold
<1>4. QED  BY <1>2, <1>3

LEMMA AccountReturnsTold ==
  ASSUME Inv, MoneyInv, TypedInv, ToldInv, NEW d \in ValidationData, AccountReturns(d)
  PROVE  ToldInv'
<1> DEFINE op == Op(i)
<1>1. pc = "account" /\ Len(frames) = base /\ Validating
  BY OwnFrames DEF AccountReturns, CalleeIs, Validating
<1>2. CASE Abort \/ \E index : FailedOp(index)
  BY <1>1, <1>2, RevertTold
<1>3. CASE ~(Abort \/ \E index : FailedOp(index))
  <2>1. bundle \in Bundles /\ Last \in Nat /\ i \in 1..Last
    BY <1>1, Position DEF MoneyInv
  <2>2. /\ UNCHANGED <<frames, base, bundle, saved>>
        /\ \/ pc' = "validate" /\ i' = i + 1
           \/ pc' = "paymaster" /\ i' = i
    BY <1>3 DEF AccountReturns, NextOp, Goto
  <2>3. /\ HeldNow' = HeldNow \cup {i}
        /\ DoneNow = {} /\ DoneNow' = {} /\ RunNow = {} /\ RunNow' = {}
    BY <1>1, <2>1, <2>2 DEF HeldNow, PrefundHeld, DoneNow, RunNow, Validating, Executing, Last
  <2>4. op \in Ops /\ Payer(op) \in Addr /\ op = bundle.ops[i].op
    BY <2>1, OpType DEF Op, Last
  <2>5. op.sender \in Addr /\ NonceKey(op.nonce) \in Keys /\ Typed(world)
    BY <2>4, OpNonce DEF TypedInv
  <2>6. NonceMatches(world.nonceSequenceNumber[op.sender], op.nonce)
    BY <1>3 DEF AccountReturns
  <2>7. Told(world, bundle, HeldNow, {}, {}) /\ \A j \in HeldNow : bundle.ops[j].op \in Ops
    BY <2>3, HeldOps DEF ToldInv, ToldNow
  <2>8. Told(world', bundle, HeldNow \cup {i}, {}, {})
    <3>1. CASE op.paymaster = NoOne
      <4> DEFINE paid == Prefunded(world, op.sender, op.prefund)
      <4>1. world' = NonceUsed(paid, op)
        BY <1>3, <3>1 DEF AccountReturns, NextOp
      <4>2. Typed(paid) /\ Untouched(world, paid)
        BY <2>5, PrefundedTyped
      <4> HIDE DEF paid, op
      <4>3. NonceMatches(paid.nonceSequenceNumber[op.sender], op.nonce)
        BY <2>6, <4>2 DEF Untouched
      <4>4. NonceTaken(paid, world', op.sender, NonceKey(op.nonce))
        BY <2>4, <4>1, <4>2, <4>3, NonceUsedTyped
      <4>5. Told(paid, bundle, HeldNow, {}, {})
        BY <2>7, <4>2, UntouchedAside, ToldAside
      <4>6. QED  BY <2>4, <2>7, <4>2, <4>3, <4>4, <4>5, HoldTold
    <3>2. CASE op.paymaster # NoOne
      <4> DEFINE used == NonceUsed(world, op)
                 both == HeldNow \cup {i}
      <4>1. world' = Prefunded(used, op.paymaster, op.prefund) /\ Payer(op) = op.paymaster
        BY <1>3, <3>2 DEF AccountReturns, Payer
      <4> HIDE DEF op
      <4>2. Typed(used) /\ NonceTaken(world, used, op.sender, NonceKey(op.nonce))
        BY SMTT(30), <2>4, <2>5, <2>6, NonceUsedTyped
      <4> HIDE DEF used
      <4>3. Told(used, bundle, both, {}, {})
        BY <2>4, <2>5, <2>6, <2>7, <4>2, HoldTold
      <4>4. Untouched(used, world')
        BY <2>4, <4>1, <4>2, PrefundedTyped
      <4>5. \A j \in both : bundle.ops[j].op \in Ops
        BY <2>4, <2>7
      <4> HIDE DEF both
      <4>6. Told(world', bundle, both, {}, {})
        BY <4>3, <4>4, <4>5, UntouchedAside, ToldAside
      <4>7. QED  BY <4>6 DEF both
    <3>3. QED  BY <3>1, <3>2
  <2>9. ToldNow(world)'
    BY <2>2, <2>3, <2>8 DEF ToldNow
  <2>10. QED  BY <1>1, <2>2, <2>9, StepTold
<1>4. QED  BY <1>2, <1>3

LEMMA ExecutionTold ==
  ASSUME Inv, MoneyInv, ToldInv, ExecuteOp \/ CallReturns \/ CallReverts \/ PostOpReturns \/ InnerReverts
  PROVE  ToldInv'
<1>1. /\ pc \in {"execute", "call", "postOp", "settle"} /\ Len(frames) = base /\ Executing
      /\ (~ExecuteOp => pc # "execute")
  <2>1. pc \in {"execute", "call", "postOp", "settle"} /\ Executing
    BY DEF ExecuteOp, CallReturns, CallReverts, PostOpReturns, InnerReverts, CalleeIs, Executing
  <2>2. Len(frames) = base
    BY <2>1, OwnFrames DEF ExecuteOp, CallReturns, CallReverts, PostOpReturns, InnerReverts, Callees
  <2>3. QED  BY <2>1, <2>2 DEF CallReturns, CallReverts, PostOpReturns, InnerReverts, CalleeIs
<1>2. CASE \E index : FailedOp(index)
  BY <1>1, <1>2, RevertTold
<1>3. CASE ~ \E index : FailedOp(index)
  <2>1. /\ pc' \in {"call", "postOp", "settle"} /\ UNCHANGED <<frames, base, bundle, i>>
        /\ (ExecuteOp => saved' = [saved EXCEPT !.inner = world, !.call = world])
        /\ (~ExecuteOp => saved' = saved /\ pc' # "call")
    <3>1. CASE ExecuteOp
      BY <1>3, <3>1 DEF ExecuteOp, AfterCall, chain
    <3>2. CASE CallReturns \/ CallReverts
      BY <3>2, <1>1 DEF CallReturns, CallReverts, CalldataDone, AfterCall, CalleeIs, Goto, ExecuteOp
    <3>3. CASE PostOpReturns \/ InnerReverts
      BY <3>3, <1>1 DEF PostOpReturns, InnerReverts, CalleeIs, Goto, ExecuteOp
    <3>4. QED  BY <3>1, <3>2, <3>3
  <2>2. HeldNow' = HeldNow /\ DoneNow' = DoneNow /\ Op(i)' = Op(i)
    BY <1>1, <2>1 DEF HeldNow, PrefundHeld, DoneNow, Validating, Executing, Last, Op
  <2>3. CASE ExecuteOp
    <3>1. /\ pc = "execute" /\ world' = world /\ mode' = "opSucceeded"
          /\ pc' = IF Op(i).callData THEN "call" ELSE AfterCall
      BY <1>3, <2>3 DEF ExecuteOp, AfterCall, chain
    <3>2. RunNow = {} /\ RunNow' = {}
      BY <2>2, <3>1 DEF RunNow
    <3>3. /\ saved'.bundle = saved.bundle /\ saved'.inner = world /\ saved'.call = world
      BY <2>1, <2>3 DEF MoneyInv, SavedInv
    <3>4. Told(world, bundle, HeldNow, DoneNow, {})
      BY <3>2 DEF ToldInv, ToldNow
    <3>5. ToldNow(world)' /\ ToldBefore(saved.inner)' /\ ToldBefore(saved.call)'
      BY <2>1, <2>2, <3>1, <3>2, <3>3, <3>4 DEF ToldNow, ToldBefore
    <3>6. pc' = "call" => Op(i)'.callData
      BY <2>2, <3>1 DEF AfterCall
    <3>7. QED  BY <1>1, <2>1, <3>3, <3>5, <3>6, StepTold
  <2>4. CASE ~ExecuteOp
    <3>1. pc \in {"call", "postOp", "settle"} /\ saved' = saved /\ pc' # "call"
      BY <1>1, <2>1, <2>4
    <3>2. ToldBefore(saved.inner)'
      BY <2>1, <2>2, <3>1 DEF ToldInv, ToldBefore
    <3>3. Told(world', bundle, HeldNow, DoneNow, RunNow')
      <4>1. CASE CallReturns
        <5>1. /\ pc = "call" /\ world' = [world EXCEPT !.ran = @ \cup {Op(i)}]
              /\ mode' = "opSucceeded" /\ pc' \in {"postOp", "settle"}
          BY <4>1 DEF CallReturns, CalldataDone, AfterCall, CalleeIs, Goto
        <5>2. RunNow = {} /\ RunNow' = {Op(i)}
          BY <2>2, <5>1 DEF RunNow, ToldInv
        <5>3. bundle \in Bundles /\ Last \in Nat /\ i \in 1..Last
          BY <1>1, <5>1, Position DEF MoneyInv
        <5>4. Op(i) \in Ops /\ i \in HeldNow /\ Op(i) = bundle.ops[i].op
          BY <1>1, <5>1, <5>3, OpType DEF HeldNow, PrefundHeld, Op, Last
        <5>5. Told(world, bundle, HeldNow, DoneNow, {})
          BY <5>2 DEF ToldInv, ToldNow
        <5>6. world = [x \in Fields |-> world[x]]
          BY DEF MoneyInv, InOrder, Books, IsWorld
        <5>7. /\ world'.nonceSequenceNumber = world.nonceSequenceNumber /\ world'.events = world.events
              /\ world'.ran = world.ran \cup {Op(i)}
          BY <5>1, <5>6 DEF Fields
        <5>8. Told(world', bundle, HeldNow, DoneNow, {Op(i)})
          BY <5>4, <5>5, <5>7, RunTold
        <5>9. QED  BY <5>2, <5>8
      <4>2. CASE CallReverts \/ InnerReverts
        <5>1. /\ world' \in {saved.call, saved.inner} /\ (world' = saved.call => pc = "call" \/ world' = saved.inner)
              /\ mode' \in {"opReverted", "postOpReverted"}
          BY <4>2 DEF CallReverts, InnerReverts, CalldataDone, AfterCall, CalleeIs
        <5>2. RunNow' = {}
          BY <5>1 DEF RunNow
        <5>3. ToldBefore(world')
          BY <3>1, <5>1 DEF ToldInv
        <5>4. QED  BY <5>2, <5>3 DEF ToldBefore
      <4>3. CASE PostOpReturns
        <5>1. pc = "postOp" /\ pc' = "settle" /\ world' = world /\ mode' = mode
          BY <4>3 DEF PostOpReturns, CalleeIs, Goto
        <5>2. RunNow' = RunNow
          BY <2>2, <5>1 DEF RunNow
        <5>3. QED  BY <5>1, <5>2 DEF ToldInv, ToldNow
      <4>4. QED  BY <2>4, <4>1, <4>2, <4>3
    <3>4. ToldNow(world)'
      BY <2>1, <2>2, <3>3 DEF ToldNow
    <3>5. QED  BY <1>1, <2>1, <3>1, <3>2, <3>4, StepTold
  <2>5. QED  BY <2>3, <2>4
<1>4. QED  BY <1>2, <1>3

LEMMA SettleActionTold ==
  ASSUME Inv, MoneyInv, TypedInv, ToldInv, NEW cost \in Costs, Settle(cost)
  PROVE  ToldInv'
<1> DEFINE op == Op(i)
           charged == Charged(op, cost)
           success == cost <= op.prefund /\ mode = "opSucceeded"
           low == op.prefund < cost /\ mode # "postOpReverted"
           w == IF low THEN saved.inner ELSE world
           R == IF low THEN {} ELSE RunNow
<1>1. /\ pc = "settle" /\ pc' = "execute" /\ i' = i + 1
      /\ UNCHANGED <<frames, base, bundle, saved>>
      /\ world' = Refunded(Event(w, op, success, charged), op, charged)
  BY DEF Settle, OpDone, Goto
<1>2. Len(frames) = base /\ Executing
  BY <1>1, OwnFrames DEF Executing, Callees
<1>3. bundle \in Bundles /\ Last \in Nat /\ i \in 1..Last /\ Last' = Last
  BY <1>1, <1>2, Position DEF MoneyInv, Last
<1>4. op \in Ops /\ Payer(op) \in Addr /\ op.prefund \in Nat /\ op = bundle.ops[i].op
  BY <1>3, OpType DEF Op, Last
<1>5. /\ i \in HeldNow /\ HeldNow' = HeldNow \ {i} /\ DoneNow' = DoneNow \cup {i} /\ RunNow' = {}
  BY <1>1, <1>3 DEF HeldNow, PrefundHeld, DoneNow, RunNow, Validating, Executing
<1>6. Told(w, bundle, HeldNow, DoneNow, R) /\ IsWorld(w) /\ Typed(w)
  BY <1>1 DEF ToldInv, ToldNow, ToldBefore, MoneyInv, SavedInv, InOrder, Books, TypedInv
<1>7. R = IF success /\ op.callData THEN {op} ELSE {}
  <2>1. cost \in Int
    BY MoneyAssumption DEF MoneyAssumption
  <2>2. cost <= op.prefund <=> ~(op.prefund < cost)
    BY <1>4, <2>1
  <2>3. QED  BY <1>1, <2>2 DEF RunNow
<1>8. \A j \in HeldNow \cup DoneNow : bundle.ops[j].op \in Ops
  BY HeldOps
<1> HIDE DEF op, charged, success, w, R
<1>9. Settlement(w, world', op, success, charged)
  BY <1>1, <1>4, <1>6, SettledTyped
<1>10. Told(world', bundle, HeldNow \ {i}, DoneNow \cup {i}, {})
  BY <1>4, <1>5, <1>6, <1>7, <1>8, <1>9, SettleTold
<1>11. ToldNow(world)'
  BY <1>1, <1>5, <1>10 DEF ToldNow
<1>12. QED  BY <1>1, <1>2, <1>11, StepTold

(* When the beneficiary is paid, every operation of the bundle is reported. *)
LEMMA AllReportedNow ==
  ASSUME Inv, MoneyInv, ToldInv, (pc = "execute" /\ i > Last) \/ pc = "beneficiary"
  PROVE  /\ HeldNow = {} /\ RunNow = {} /\ DoneNow = 1..Last /\ ToldAtRest(world)
         /\ \A j \in 1..Last : Op(j) \in Ops /\ Len(world.events[Op(j)]) = 1
<1>1. bundle \in Bundles /\ Last \in Nat
  BY BundleType DEF Inv, Types, Last
<1>2. pc = "execute" => i \in 1..(Last + 1)
  BY DEF MoneyInv, FeesInv, Executing
<1>3. HeldNow = {} /\ RunNow = {} /\ DoneNow = 1..Last
  BY <1>1, <1>2 DEF HeldNow, PrefundHeld, RunNow, DoneNow, Validating, Executing
<1>4. ToldAtRest(world)
  BY <1>3, RestNow DEF ToldInv
<1>5. ASSUME NEW j \in 1..Last PROVE Op(j) \in Ops /\ Len(world.events[Op(j)]) = 1
  <2>1. Op(j) \in Ops
    BY <1>1, OpType DEF Op, Last
  <2>2. Reported(world, Op(j))
    BY <1>3 DEF ToldInv, ToldNow, Told, Op
  <2>3. world.events[Op(j)] \in Seq(Charge)
    BY <2>1 DEF MoneyInv, InOrder, Books, IsWorld, ChargesWithin
  <2> DEFINE n == Len(world.events[Op(j)])
  <2>4. n \in Nat /\ n # 0 /\ n <= 1
    <3>1. n \in Nat /\ n # 0
      BY <2>2, <2>3, LenProperties, EmptySeq DEF Reported
    <3>2. n <= 1
      BY <1>4, <2>1 DEF ToldAtRest, ReportedOnce
    <3>3. QED  BY <3>1, <3>2
  <2> HIDE DEF n
  <2>5. n = 1
    BY <2>4
  <2>6. QED  BY <2>1, <2>5 DEF n
<1>6. QED  BY <1>3, <1>4, <1>5

(* The fees are money only. *)
LEMMA PaidAside ==
  ASSUME Inv, MoneyInv, TypedInv
  PROVE  LET paid == [world EXCEPT !.balance = @ - collected]
         IN  Untouched(world, paid) /\ Untouched(world, Stakes!Receive(paid, EntryPoint, collected))
<1>1. collected \in Nat /\ Typed(world)
  BY DEF MoneyInv, FeesInv, TypedInv
<1>2. QED  BY <1>1, PaidTyped

LEMMA RestAside ==
  ASSUME NEW w, NEW n, Untouched(w, n), ToldAtRest(w)
  PROVE  ToldAtRest(n)
<1>1. Told(w, NoBundle, {}, {}, {}) /\ Aside(w, n)
  BY ToldRest, UntouchedAside
<1>2. Told(n, NoBundle, {}, {}, {})
  BY <1>1, ToldAside
<1>3. QED  BY <1>2, ToldRest

(* A bundle that is done leaves the events of its operations, each once. *)
LEMMA DoneTold ==
  ASSUME Inv, MoneyInv, TypedInv, ToldInv,
         BeneficiaryReturns \/ \E a \in Addr \cup {NoOne} : Compensate(a), pc' = "idle", ~Abort
  PROVE  ToldInv' /\ \A j \in 1..Last : Len(world'.events[Op(j)]) = 1
<1>1. (pc = "execute" /\ i > Last) \/ pc = "beneficiary"
  BY DEF BeneficiaryReturns, Compensate, CalleeIs
<1>2. ToldAtRest(world) /\ \A j \in 1..Last : Len(world.events[Op(j)]) = 1
  BY <1>1, AllReportedNow
<1>3. \E r : End(r) /\ frames' = frames
  BY DEF BeneficiaryReturns, Compensate, Goto
<1>4. ToldAtRest(world') /\ world'.events = world.events
  <2>1. CASE BeneficiaryReturns
    BY <1>2, <2>1 DEF BeneficiaryReturns
  <2>2. CASE \E a \in Addr \cup {NoOne} : Compensate(a)
    <3> DEFINE paid == [world EXCEPT !.balance = @ - collected]
    <3>1. world' = Stakes!Receive(paid, EntryPoint, collected)
      BY <2>2 DEF Compensate, Goto
    <3>2. Untouched(world, Stakes!Receive(paid, EntryPoint, collected))
      BY PaidAside
    <3>3. Untouched(world, world')
      BY <3>1, <3>2
    <3>4. QED  BY <1>2, <3>3, RestAside DEF Untouched
  <2>3. QED  BY <2>1, <2>2
<1>5. PICK S : frames' \in Seq(S)
  BY <1>3 DEF MoneyInv, FramesInv
<1>6. \A k \in 1..Len(frames') : ToldAtRest(frames'[k])
  <2>1. Len(frames) = base
    BY <1>1, OwnFrames DEF BeneficiaryReturns, Compensate, Callees
  <2>2. QED  BY <1>3, <2>1 DEF ToldInv
<1>7. ToldInv'
  BY <1>3, <1>4, <1>5, <1>6, EndTold
<1>8. QED  BY <1>2, <1>4, <1>7

LEMMA CompensateTold ==
  ASSUME Inv, MoneyInv, TypedInv, ToldInv, NEW a \in Addr \cup {NoOne}, Compensate(a)
  PROVE  ToldInv'
<1>1. pc = "execute" /\ i > Last /\ Len(frames) = base
  BY OwnFrames DEF Compensate, Callees
<1>2. CASE Abort
  BY <1>1, <1>2, RevertTold
<1>3. CASE pc' = "idle" /\ ~Abort
  BY <1>3, DoneTold
<1>4. CASE pc' # "idle"
  <2>1. /\ pc' = "beneficiary" /\ world' = [world EXCEPT !.balance = @ - collected]
        /\ UNCHANGED <<frames, base, bundle, saved>>
    BY <1>4 DEF Compensate, Abort, Revert, End, Goto
  <2>2. HeldNow = {} /\ RunNow = {} /\ DoneNow = 1..Last
    BY <1>1, AllReportedNow
  <2>3. HeldNow' = {} /\ RunNow' = {} /\ DoneNow' = 1..Last
    BY <2>1 DEF HeldNow, PrefundHeld, RunNow, DoneNow, Validating, Executing, Last
  <2>4. Untouched(world, world')
    BY <2>1, PaidAside
  <2>5. Told(world, bundle, {}, 1..Last, {})
    BY <2>2 DEF ToldInv, ToldNow
  <2>6. Told(world', bundle, {}, 1..Last, {})
    BY <2>4, <2>5, UntouchedAside, ToldAside
  <2>7. ToldNow(world)'
    BY <2>1, <2>3, <2>6 DEF ToldNow
  <2>8. saved'.bundle = saved.bundle
    BY <2>1
  <2>9. QED  BY <1>1, <2>1, <2>7, <2>8, StepTold
<1>5. QED  BY <1>2, <1>3, <1>4

LEMMA OutsideTold ==
  ASSUME Inv, MoneyInv, TypedInv, ToldInv,
         \/ \E a \in Addr, key \in Keys : IncrementNonce(a, key)
         \/ \E a \in Addr : Deploy(a)
         \/ StakeOperation \/ RecipientEnds \/ NextTransaction
  PROVE  ToldInv'
<1>1. Typed(world) /\ world = [x \in Fields |-> world[x]] /\ ToldNow(world)
  BY DEF TypedInv, Typed, ToldInv
<1>2. ASSUME Aside(world, world') PROVE ToldNow(world')
  BY <1>1, <1>2, HeldOps, ToldAside DEF ToldNow
<1>3. ASSUME NEW a \in Addr, NEW key \in Keys, IncrementNonce(a, key) PROVE ToldInv'
  <2>1. NonceTaken(world, world', a, key)
    BY <1>1, <1>3 DEF IncrementNonce, NonceTaken, Fields
  <2>2. ToldNow(world')
    BY <1>1, <1>2, <2>1, NonceTakenAside
  <2>3. UNCHANGED <<frames, control>> /\ pc \in Callees \cup {"idle"}
    BY <1>3 DEF IncrementNonce, OutsideCode
  <2>4. QED  BY <2>2, <2>3, ChainTold
<1>4. ASSUME NEW a \in Addr, Deploy(a) PROVE ToldInv'
  <2>1. /\ world'.nonceSequenceNumber = world.nonceSequenceNumber
        /\ world'.events = world.events /\ world'.ran = world.ran
    BY <1>1, <1>4 DEF Deploy, Fields
  <2>2. ToldNow(world')
    BY <1>2, <2>1 DEF Aside, Used
  <2>3. UNCHANGED <<frames, control>> /\ pc \in Callees \cup {"idle"}
    BY <1>4 DEF Deploy, OutsideCode
  <2>4. QED  BY <2>2, <2>3, ChainTold
<1>5. CASE StakeOperation
  <2>1. Untouched(world, world') /\ (frames' = frames \/ frames' = Append(frames, world))
    BY <1>1, <1>5, StakesTyped
  <2>2. ToldNow(world')
    BY <1>2, <2>1, UntouchedAside
  <2>3. UNCHANGED control /\ pc \in Callees \cup {"idle"}
    BY <1>5 DEF StakeOperation, OutsideCode
  <2>4. QED  BY <2>1, <2>2, <2>3, ChainTold
<1>6. CASE RecipientEnds
  <2>1. /\ UNCHANGED control /\ Len(frames) > base /\ frames' = SubSeq(frames, 1, Len(frames) - 1)
        /\ world' \in {world, frames[Len(frames)]}
    BY <1>6 DEF RecipientEnds, Stakes!RecipientReturns, Stakes!RecipientReverts
  <2>2. Len(frames) \in Nat /\ base \in 0..Len(frames)
    BY LenProperties DEF MoneyInv, FramesInv
  <2>3. pc \in Callees \cup {"idle"}
    BY <2>1, <2>2 DEF MoneyInv, FramesInv
  <2>4. ToldNow(frames[Len(frames)])
    <3>1. Len(frames) \in (base + 1)..Len(frames)
      BY <2>1, <2>2
    <3>2. QED  BY <3>1 DEF ToldInv
  <2>5. ToldNow(world')
    BY <1>1, <2>1, <2>4
  <2>6. QED  BY <2>1, <2>3, <2>5, ChainTold
<1>7. CASE NextTransaction
  <2>1. UNCHANGED <<control, world, frames>> /\ pc = "idle"
    BY <1>7 DEF NextTransaction, Stakes!NextTransaction
  <2>2. QED  BY <1>1, <2>1, ChainTold
<1>8. QED  BY <1>3, <1>4, <1>5, <1>6, <1>7

LEMMA InitTold == Init => ToldInv
<1> SUFFICES ASSUME Init PROVE ToldInv
  OBVIOUS
<1>1. world = InitialWorld /\ frames = <<>> /\ pc = "idle" /\ base = 0
  BY DEF Init
<1>2. ToldAtRest(InitialWorld)
  <2>1. \A o \in Ops : InitialWorld.events[o] = <<>> /\ o \notin InitialWorld.ran
    BY DEF InitialWorld
  <2>2. Len(<<>>) = 0
    BY EmptySeq
  <2>3. QED  BY <2>1, <2>2 DEF ToldAtRest, ReportedOnce, RanAsReported, Reported
<1>3. Told(world, bundle, {}, {}, {})
  BY <1>1, <1>2, ToldRest
<1>4. ToldNow(world)
  BY <1>1, <1>3, NothingRun DEF ToldNow
<1>5. Len(frames) = 0
  BY <1>1, EmptySeq
<1>6. QED  BY <1>1, <1>4, <1>5 DEF ToldInv

LEMMA NextTold ==
  ASSUME Inv, MoneyInv, TypedInv, ToldInv, [Next]_vars
  PROVE  ToldInv'
<1>1. CASE UNCHANGED vars
  BY <1>1 DEF vars, chain, control, ToldInv, ToldNow, ToldBefore, ToldAtRest, HeldNow, DoneNow, RunNow,
              PrefundHeld, Validating, Executing, Last, Op
<1>2. CASE \E b \in Bundles : HandleBundle(b)
  BY <1>2, HandleBundleTold
<1>3. CASE EntryPointSteps
  BY <1>3, StagesTold, ExecutionTold, SettleActionTold, CompensateTold DEF EntryPointSteps
<1>4. CASE CalleeEnds
  <2>1. CASE AggregatorReverts \/ AccountReverts \/ PaymasterReverts \/ BeneficiaryReverts
    BY <2>1, RevertTold
       DEF AggregatorReverts, AccountReverts, PaymasterReverts, BeneficiaryReverts, CalleeIs
  <2>2. CASE \E d \in ValidationData : AccountReturns(d)
    BY <2>2, AccountReturnsTold
  <2>3. CASE BeneficiaryReturns
    <3>1. pc' = "idle"
      BY <2>3 DEF BeneficiaryReturns, End
    <3>2. pc = "beneficiary"
      BY <2>3 DEF BeneficiaryReturns, CalleeIs
    <3>3. CASE Abort
      BY <3>2, <3>3, RevertTold
    <3>4. CASE ~Abort
      BY <2>3, <3>1, <3>4, DoneTold
    <3>5. QED  BY <3>3, <3>4
  <2>4. QED  BY <1>4, <2>1, <2>2, <2>3, StagesTold, ExecutionTold DEF CalleeEnds
<1>5. CASE BundleFails
  BY <1>5, RevertTold DEF BundleFails
<1>6. CASE \/ \E a \in Addr, key \in Keys : IncrementNonce(a, key)
           \/ \E a \in Addr : Deploy(a)
           \/ StakeOperation \/ RecipientEnds \/ NextTransaction
  BY <1>6, OutsideTold
<1>7. QED  BY <1>1, <1>2, <1>3, <1>4, <1>5, <1>6 DEF Next

Invariants == Inv /\ MoneyInv /\ TypedInv /\ ToldInv

LEMMA ToldInvariance == Spec => []Invariants
<1>1. Init => Invariants
  BY InitInv, InitMoney, InitTyped, InitTold DEF Invariants
<1>2. Invariants /\ [Next]_vars => Invariants'
  BY NextInv, NextMoney, NextTyped, NextTold DEF Invariants
<1>3. QED  BY <1>1, <1>2, PTL DEF Spec

(* A UserOperationEvent reports success exactly when callData's effects   *)
(* are on the chain, for all bundles: through the undoing of callData, of  *)
(* innerHandleOp when postOp or the prefund fails, and of whole bundles    *)
(* and withdrawals around them; and no effects stay without an event.      *)
THEOREM EventsTellTruth == Spec => []EventTellsTruth
<1>1. ASSUME Invariants PROVE EventTellsTruth
  <2>1. ToldNow(world)
    BY <1>1 DEF Invariants, ToldInv
  <2>2. pc \in {"idle", "groups"} => RunNow = {}
    BY DEF RunNow
  <2>3. ASSUME NEW o \in Ops PROVE Reported(world, o) => (o \in world.ran <=> o.callData /\ world.events[o][1].success)
    BY <2>1 DEF ToldNow, Told, RanAsReported
  <2>4. ASSUME NEW o \in Ops, pc \in {"idle", "groups"}, o \in world.ran PROVE Reported(world, o)
    BY <2>1, <2>2, <2>4 DEF ToldNow, Told, RanAsReported
  <2>5. QED  BY <2>3, <2>4 DEF EventTellsTruth, Reported
<1>2. QED  BY <1>1, ToldInvariance, PTL

(* Each operation, and each nonce of a sender, is charged and reported at  *)
(* most once, in whatever bundles and through whatever reverts; and the    *)
(* nonce that getNonce gives is the one that validation accepts.           *)
THEOREM NoNonceTwice == Spec => []NonceUsedOnce
<1>1. ASSUME Invariants PROVE NonceUsedOnce
  <2>1. ReportedOnce(world)
    BY <1>1 DEF Invariants, ToldInv, ToldNow, Told
  <2>2. ASSUME NEW o \in Ops
        PROVE  LET seqOf == world.nonceSequenceNumber[o.sender]
               IN  NonceMatches(seqOf, o.nonce) <=> o.nonce = getNonce(seqOf, NonceKey(o.nonce))
    <3> DEFINE seqOf == world.nonceSequenceNumber[o.sender]
    <3>1. o.sender \in Addr /\ o.nonce \in Nat /\ NonceKey(o.nonce) \in Keys
      BY OpNonce
    <3>2. seqOf[NonceKey(o.nonce)] \in 0..MaxSeq
      BY <1>1, <3>1 DEF Invariants, TypedInv, Typed
    <3> HIDE DEF seqOf
    <3>3. seqOf[NonceKey(o.nonce)] \in 0..(SeqModulus - 1)
      BY <3>2, NonceAssumption, SeqModulusAssumption DEF NonceAssumption, SeqModulusAssumption
    <3>4. NonceMatches(seqOf, o.nonce) <=> o.nonce = getNonce(seqOf, NonceKey(o.nonce))
      BY <3>1, <3>3, NextNonce
    <3>5. QED  BY <3>4 DEF seqOf
  <2>3. QED  BY <2>1, <2>2 DEF NonceUsedOnce, ReportedOnce, SameNonce, Reported
<1>2. QED  BY <1>1, ToldInvariance, PTL

(* Only the payment of the fees ends a bundle as done. *)
LEMMA DoneBy ==
  ASSUME [Next]_vars, pc # "idle", pc' = "idle", result'.kind = "done"
  PROVE  ~Abort /\ (BeneficiaryReturns \/ \E a \in Addr \cup {NoOne} : Compensate(a))
<1>1. ~Abort /\ ~ \E index : FailedOp(index)
  BY DEF Abort, FailedOp, Revert, End
<1>2. ~UNCHANGED pc
  OBVIOUS
<1>3. ~ \E b \in Bundles : HandleBundle(b)
  BY DEF HandleBundle
<1>4. ~(CheckGroup \/ GroupsChecked \/ AllValidated \/ ExecuteOp) /\ ~ \E cost \in Costs : Settle(cost)
  BY <1>1 DEF CheckGroup, GroupsChecked, AllValidated, ExecuteOp, AfterCall, Settle, OpDone, Goto
<1>5. ~ValidateOp /\ ~ \E a \in Addr \cup {NoOne} : FactoryReturns(a)
  BY <1>1 DEF ValidateOp, FactoryReturns, CallAccount, Goto
<1>6. ~ \E d \in ValidationData : AccountReturns(d)
  BY <1>1 DEF AccountReturns, NextOp, Goto
<1>7. ~ \E asked \in BOOLEAN, d \in ValidationData : PaymasterReturns(asked, d)
  BY <1>1 DEF PaymasterReturns, NextOp, Goto
<1>8. ~(CallReturns \/ CallReverts \/ PostOpReturns \/ InnerReverts \/ AggregatorReturns)
  BY DEF CallReturns, CallReverts, PostOpReturns, InnerReverts, AggregatorReturns, CalldataDone, AfterCall, Goto
<1>9. ~(AggregatorReverts \/ AccountReverts \/ PaymasterReverts \/ BeneficiaryReverts \/ BundleFails)
  BY <1>1 DEF AggregatorReverts, AccountReverts, PaymasterReverts, BeneficiaryReverts, BundleFails
<1>10. /\ ~ \E a \in Addr, key \in Keys : IncrementNonce(a, key)
       /\ ~ \E a \in Addr : Deploy(a)
       /\ ~(StakeOperation \/ RecipientEnds \/ NextTransaction)
  BY <1>2 DEF IncrementNonce, Deploy, StakeOperation, RecipientEnds, NextTransaction, control
<1>11. ~UNCHANGED vars
  BY <1>2 DEF vars, control
<1>12. QED
  BY <1>1, <1>3, <1>4, <1>5, <1>6, <1>7, <1>8, <1>9, <1>10, <1>11 DEF Next, EntryPointSteps, CalleeEnds

(* A bundle that is done has charged each of its operations exactly once, *)
(* however many it has and whatever was undone while they ran.             *)
THEOREM BundlesComplete == Spec => BundleComplete
<1>1. ASSUME Invariants, [Next]_vars, pc # "idle", pc' = "idle", result'.kind = "done"
      PROVE  \A j \in 1..Last : Len(world'.events[Op(j)]) = 1
  BY <1>1, DoneBy, DoneTold DEF Invariants
<1>2. QED  BY <1>1, ToldInvariance, PTL DEF Spec, BundleComplete

===========================================================================

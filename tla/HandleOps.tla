----------------------------- MODULE HandleOps -----------------------------
(***************************************************************************)
(* contracts/core/EntryPoint.sol: handleOps and handleAggregatedOps.       *)
(*                                                                         *)
(* A bundle is one call of either.  Between two calls of code that is not  *)
(* the EntryPoint's own (an aggregator, a factory, an account, a           *)
(* paymaster, the beneficiary) the EntryPoint runs alone, and that is one  *)
(* step here.  At each such call, pc says whose code is running, and that  *)
(* code may call every function of the EntryPoint that is not nonReentrant *)
(* before it returns or reverts.                                           *)
(*                                                                         *)
(* handleOps(ops) takes the same path as handleAggregatedOps with the      *)
(* single group (address(0), ops); the events that tell them apart carry   *)
(* no state.                                                               *)
(***************************************************************************)
EXTENDS Wei, Sequences, NonceManager

CONSTANTS
  Addr, EntryPoint, Amounts, Delays, Supply, MaxUint112, MaxUint48, MaxNow, MaxGas,
  NoOne,           \* address(0): no paymaster, no aggregator, no sender created
  SigFailed,       \* address(1), the marker of a signature that failed
  Keys,            \* the nonce keys
  MaxSeq,          \* bound: the largest sequence number explored
  Ops,             \* the user operations that may be submitted
  Bundles,         \* the bundles that may be submitted
  Deployed,        \* the addresses that have code from the start
  ValidationData,  \* what an account or a paymaster may return from validation
  Costs            \* what the gas an operation used may come to, in wei

(* A group's aggregator is one of the addresses, and an operation in a group. *)
ASSUME BundlesAssumption ==
  \A b \in Bundles :
    /\ b.aggregators \in Seq(Addr \cup {NoOne, SigFailed})
    /\ b.ops \in Seq([op : Ops, group : 1..Len(b.aggregators)])

ASSUME AnswersAssumption ==
  /\ ValidationData \subseteq [aggregator : Addr \cup {NoOne, SigFailed}, validAfter : Nat, validUntil : Nat]
  /\ MaxUint48 \in Nat /\ MaxNow \in Nat
  /\ NoOne # SigFailed

ASSUME MoneyAssumption ==
  /\ IsFiniteSet(Addr) /\ EntryPoint \in Addr
  /\ Amounts \subseteq Nat /\ Costs \subseteq Nat
  /\ \A op \in Ops : op.sender \in Addr /\ op.paymaster \in Addr \cup {NoOne} /\ op.prefund \in Nat
  /\ Delays \subseteq Nat /\ Supply \in Nat /\ MaxUint112 \in Nat /\ Deployed \subseteq Addr

(* Nobody increments a sequence number 2^64 times: what is explored stays   *)
(* within 64 bits, and no operation takes a sequence number past the bound. *)
ASSUME NonceAssumption ==
  /\ MaxSeq \in 0..(SeqModulus - 1)
  /\ \A op \in Ops : op.nonce \in Nat /\ NonceKey(op.nonce) \in Keys /\ NonceSeq(op.nonce) # MaxSeq

VARIABLES
  world, frames, now, gas,  \* as in StakeManager; world has more fields, see below
  pc,       \* where the bundle is: the EntryPoint's own code, or a call it made
  bundle,   \* the bundle being handled
  i,        \* the group, later the operation, it is at
  data,     \* the validationData the account of operation i returned
  opInfos,  \* of the operations validated: was a postOp context returned, and on what data
  vouched,  \* the groups whose aggregator has validated their signatures
  mode,     \* PostOpMode of operation i
  collected,\* the fees of the operations executed so far
  saved,    \* the worlds that a revert of the bundle, innerHandleOp or callData restores
  base,     \* the withdrawals that were in progress when the bundle came
  result    \* how the last bundle ended

chain == <<world, frames, now, gas>>
control == <<pc, bundle, i, data, opInfos, vouched, mode, collected, saved, base, result>>
vars == <<chain, control>>

Stakes == INSTANCE StakeManager

(***************************************************************************)
(* A user operation: [hash, sender, nonce, paymaster, prefund, initCode,   *)
(* callData, wellFormed].  prefund is _getRequiredPrefund, the product of  *)
(* its gas limits and its fee; initCode and callData say whether they are  *)
(* non-empty; wellFormed, whether its fields pass AA93 and AA94.           *)
(* A bundle: [aggregators, ops], a sequence of aggregators and a sequence  *)
(* of [op, group], the operations of one group after those of another.     *)
(***************************************************************************)
NoBundle == [aggregators |-> <<>>, ops |-> <<>>]
NoData == [aggregator |-> NoOne, validAfter |-> 0, validUntil |-> 0]
NoResult == [kind |-> "none", at |-> 0, index |-> 0]

(***************************************************************************)
(* world also has nonceSequenceNumber, the addresses that have code, ran,  *)
(* the operations whose callData left its effects on the chain, and        *)
(* events, the UserOperationEvents of each operation: success and cost.    *)
(***************************************************************************)
InitialWorld ==
  [deposits |-> [a \in Addr |-> Stakes!NoDeposit], balance |-> 0,
   logged |-> [a \in Addr |-> 0], lockedUntil |-> [a \in Addr |-> 0],
   nonceSequenceNumber |-> [a \in Addr |-> [k \in Keys |-> 0]],
   code |-> Deployed, ran |-> {}, events |-> [op \in Ops |-> <<>>]]

NoWorlds == [bundle |-> InitialWorld, inner |-> InitialWorld, call |-> InitialWorld]

Init ==
  /\ world = InitialWorld /\ frames = <<>> /\ now = 1 /\ gas = MaxGas
  /\ pc = "idle" /\ bundle = NoBundle /\ i = 0 /\ data = NoData /\ opInfos = <<>> /\ vouched = {}
  /\ mode = "opSucceeded" /\ collected = 0 /\ saved = NoWorlds /\ base = 0
  /\ result = NoResult

Op(j) == bundle.ops[j].op
Payer(op) == IF op.paymaster = NoOne THEN op.sender ELSE op.paymaster
Aggregator(j) == bundle.aggregators[bundle.ops[j].group]
Last == Len(bundle.ops)

(* The index of operation j in its own group, from zero as in the code. *)
LocalIndex(j) == Cardinality({k \in 1..(j - 1) : bundle.ops[k].group = bundle.ops[j].group})

---------------------------------------------------------------------------
(* How a bundle ends, and how it goes on. *)

End(r) ==
  /\ pc' = "idle" /\ bundle' = NoBundle /\ i' = 0 /\ data' = NoData /\ opInfos' = <<>> /\ vouched' = {}
  /\ mode' = "opSucceeded" /\ collected' = 0 /\ saved' = NoWorlds /\ base' = 0
  /\ result' = r
  /\ UNCHANGED <<now, gas>>

(* A revert undoes the whole bundle. *)
Revert(r) ==
  /\ End(r)
  /\ world' = saved.bundle
  /\ frames' = SubSeq(frames, 1, base)

Abort == Revert([kind |-> "revert", at |-> 0, index |-> 0])

(* revert FailedOp(index, ...), while operation i is handled. *)
FailedOp(index) == Revert([kind |-> "FailedOp", at |-> i - 1, index |-> index])

(* The index the code passes to _validateAccountAndPaymasterValidationData. *)
ValidationDataIndex == LocalIndex(i)

Goto(p) ==
  /\ pc' = p
  /\ UNCHANGED <<frames, now, gas, bundle, saved, base, result>>

(* The called code of the bundle is on top: no withdrawal it started is open. *)
CalleeIs(p) == pc = p /\ Len(frames) = base

HasCode(a) == a \in world.code

---------------------------------------------------------------------------
(* The call arrives: nonReentrant, so no bundle is being handled. *)

HandleBundle(b) ==
  /\ pc = "idle"
  /\ Stakes!Called
  /\ pc' = "groups" /\ bundle' = b /\ i' = 1 /\ base' = Len(frames) /\ result' = NoResult
  /\ saved' = [saved EXCEPT !.bundle = world]
  /\ UNCHANGED <<world, frames, data, opInfos, vouched, mode, collected>>

(* The first loop asks each group's aggregator to validate its signatures. *)
CheckGroup ==
  /\ pc = "groups" /\ i <= Len(bundle.aggregators)
  /\ LET aggregator == bundle.aggregators[i]
     IN  \/ aggregator = SigFailed /\ Abort
         \/ aggregator = NoOne /\ Goto("groups") /\ i' = i + 1
              /\ UNCHANGED <<world, data, opInfos, vouched, mode, collected>>
         \/ aggregator \notin {SigFailed, NoOne} /\ ~HasCode(aggregator) /\ Abort
         \/ aggregator \notin {SigFailed, NoOne} /\ HasCode(aggregator) /\ Goto("aggregator")
              /\ UNCHANGED <<world, i, data, opInfos, vouched, mode, collected>>

(* Mutant: the loop over the groups does not advance. *)
AggregatorAskedAgain ==
  /\ CalleeIs("aggregator")
  /\ Goto("groups") /\ vouched' = vouched \cup {i}
  /\ UNCHANGED <<world, i, data, opInfos, mode, collected>>

AggregatorReturns ==
  /\ CalleeIs("aggregator")
  /\ Goto("groups") /\ i' = i + 1 /\ vouched' = vouched \cup {i}
  /\ UNCHANGED <<world, data, opInfos, mode, collected>>

(* SignatureValidationFailed *)
AggregatorReverts == CalleeIs("aggregator") /\ Abort

GroupsChecked ==
  /\ pc = "groups" /\ i > Len(bundle.aggregators)
  /\ Goto("validate") /\ i' = 1
  /\ UNCHANGED <<world, data, opInfos, vouched, mode, collected>>

---------------------------------------------------------------------------
(* _validatePrepayment of operation i. *)

(* validateUserOp is called, or the call reverts for want of code to call. *)
CallAccount(w) ==
  IF Op(i).sender \in w.code
  THEN Goto("account") /\ world' = w /\ UNCHANGED <<i, data, opInfos, vouched, mode, collected>>
  ELSE Abort

(* From the top to the first call: _copyUserOpToMemory, _createSenderIfNeeded. *)
ValidateOp ==
  /\ pc = "validate" /\ i <= Last
  /\ \/ ~Op(i).wellFormed /\ Abort
     \/ Op(i).wellFormed /\ Op(i).initCode /\ HasCode(Op(i).sender) /\ FailedOp(i - 1)
     \/ /\ Op(i).wellFormed /\ Op(i).initCode /\ ~HasCode(Op(i).sender)
        /\ Goto("factory")
        /\ UNCHANGED <<world, i, data, opInfos, vouched, mode, collected>>
     \/ Op(i).wellFormed /\ ~Op(i).initCode /\ CallAccount(world)

(* What createSender returned: no address if the factory failed. *)
FactoryReturns(sender1) ==
  /\ CalleeIs("factory")
  /\ IF sender1 = Op(i).sender /\ HasCode(sender1)
     THEN CallAccount(world)
     ELSE FailedOp(i - 1)

AccountReverts == CalleeIs("account") /\ FailedOp(i - 1)

(* _parseValidationData: a validUntil of zero is no end. *)
ValidUntil(d) == IF d.validUntil = 0 THEN MaxUint48 ELSE d.validUntil

OutOfTimeRange(d) == now > ValidUntil(d) \/ now < d.validAfter

(* Mutant: the paymaster's time range is not looked at. *)
AcceptedPaymasterAnyTime(d, pmData) ==
  /\ d.aggregator = Aggregator(i)
  /\ ~OutOfTimeRange(d)
  /\ pmData.aggregator = NoOne

(* _validateAccountAndPaymasterValidationData *)
Accepted(d, pmData) ==
  /\ d.aggregator = Aggregator(i)
  /\ ~OutOfTimeRange(d)
  /\ pmData.aggregator = NoOne
  /\ ~OutOfTimeRange(pmData)

NextOp(w, d, pmData, asked) ==
  /\ Goto("validate") /\ i' = i + 1 /\ world' = w
  /\ data' = NoData
  /\ opInfos' = Append(opInfos, [context |-> asked, account |-> d, paymaster |-> pmData])
  /\ UNCHANGED <<mode, collected, vouched>>

(* Mutant: the deposit is compared with the balance of the whole contract. *)
PrefundInBalance(w, a, prefund) == prefund <= w.balance

(* Mutant: the deposit was read before the code that was called changed it. *)
PrefundedFromStale(w, a, prefund) ==
  [w EXCEPT !.deposits[a].deposit = saved.bundle.deposits[a].deposit - prefund]

(* Taking the prefund: deposit - requiredPrefund, an unchecked subtraction. *)
CanPrefund(w, a, prefund) == prefund <= w.deposits[a].deposit

Prefunded(w, a, prefund) == [w EXCEPT !.deposits[a].deposit = @ - prefund]

NonceUsed(w, op) ==
  [w EXCEPT !.nonceSequenceNumber[op.sender] = Incremented(@, NonceKey(op.nonce))]

(***************************************************************************)
(* validateUserOp returned d.  What it asked of the account is checked     *)
(* against the deposit as it is now, then the nonce, then the gas used;    *)
(* the paymaster's deposit is taken before the paymaster is called.        *)
(***************************************************************************)
AccountReturns(d) ==
  /\ CalleeIs("account")
  /\ LET op == Op(i)
         paid == IF op.paymaster = NoOne THEN Prefunded(world, op.sender, op.prefund) ELSE world
         used == NonceUsed(paid, op)
     IN  \/ op.paymaster = NoOne /\ ~CanPrefund(world, op.sender, op.prefund) /\ FailedOp(i - 1)
         \/ ~NonceMatches(world.nonceSequenceNumber[op.sender], op.nonce) /\ FailedOp(i - 1)
         \/ FailedOp(i - 1)  \* AA26: more gas than verificationGasLimit
         \/ /\ op.paymaster = NoOne
            /\ CanPrefund(world, op.sender, op.prefund)
            /\ NonceMatches(world.nonceSequenceNumber[op.sender], op.nonce)
            /\ IF Accepted(d, NoData) THEN NextOp(used, d, NoData, FALSE) ELSE FailedOp(ValidationDataIndex)
         \/ /\ op.paymaster # NoOne
            /\ NonceMatches(world.nonceSequenceNumber[op.sender], op.nonce)
            /\ IF ~CanPrefund(used, op.paymaster, op.prefund) THEN FailedOp(i - 1)
               ELSE IF ~HasCode(op.paymaster) THEN Abort
               ELSE /\ Goto("paymaster") /\ data' = d
                    /\ world' = Prefunded(used, op.paymaster, op.prefund)
                    /\ UNCHANGED <<i, opInfos, vouched, mode, collected>>

(* validatePaymasterUserOp returned a context, empty or not, and pmData. *)
PaymasterReturns(asked, pmData) ==
  /\ CalleeIs("paymaster")
  /\ \/ FailedOp(i - 1)  \* AA36: more gas than paymasterVerificationGasLimit
     \/ IF Accepted(data, pmData) THEN NextOp(world, data, pmData, asked) ELSE FailedOp(ValidationDataIndex)

PaymasterReverts == CalleeIs("paymaster") /\ FailedOp(i - 1)

(* Every operation is valid: BeforeExecution. *)
AllValidated ==
  /\ pc = "validate" /\ i > Last
  /\ Goto("execute") /\ i' = 1
  /\ UNCHANGED <<world, data, opInfos, vouched, mode, collected>>

---------------------------------------------------------------------------
(* _executeUserOp of operation i; innerHandleOp is a call frame of its own. *)

(* postOp is called for a paymaster that returned a context. *)
AfterCall == IF Op(i).paymaster # NoOne /\ opInfos[i].context THEN "postOp" ELSE "settle"

(* innerHandleOp starts, or finds too little gas left: AA95 ends the bundle. *)
(* An operation without callData goes on as after a call that succeeded.     *)
ExecuteOp ==
  /\ pc = "execute" /\ i <= Last
  /\ \/ FailedOp(i - 1)
     \/ /\ pc' = IF Op(i).callData THEN "call" ELSE AfterCall
        /\ mode' = "opSucceeded"
        /\ saved' = [saved EXCEPT !.inner = world, !.call = world]
        /\ UNCHANGED <<chain, bundle, i, data, opInfos, vouched, collected, base, result>>

CalldataDone(m) ==
  /\ Goto(AfterCall)
  /\ mode' = m
  /\ UNCHANGED <<i, data, opInfos, vouched, collected>>

(* Exec.call of the sender succeeded: its effects are on the chain. *)
CallReturns ==
  /\ CalleeIs("call")
  /\ world' = [world EXCEPT !.ran = @ \cup {Op(i)}]
  /\ CalldataDone("opSucceeded")

CallReverts ==
  /\ CalleeIs("call")
  /\ world' = saved.call
  /\ CalldataDone("opReverted")

PostOpReturns ==
  /\ CalleeIs("postOp") /\ Goto("settle")
  /\ UNCHANGED <<world, i, data, opInfos, vouched, mode, collected>>

(* Mutant: the mode of the call that was undone is kept. *)
InnerRevertsUnnoticed ==
  /\ CalleeIs("postOp")
  /\ Goto("settle")
  /\ world' = saved.inner
  /\ UNCHANGED <<i, data, opInfos, vouched, mode, collected>>

(* innerHandleOp reverts, callData's effects with it, and the cost is settled *)
(* again outside of it: PostOpReverted, or whatever else ended innerHandleOp. *)
InnerReverts ==
  /\ CalleeIs("postOp") \/ (pc = "settle" /\ mode # "postOpReverted")
  /\ Goto("settle") /\ mode' = "postOpReverted"
  /\ world' = saved.inner
  /\ UNCHANGED <<i, data, opInfos, vouched, collected>>

(* UserOperationEvent *)
Event(w, op, success, cost) ==
  [w EXCEPT !.events[op] = Append(@, [success |-> success, cost |-> cost]),
            !.logged[Payer(op)] = @ - cost]

(* Mutant: the refund goes to the sender, whoever paid. *)
SenderRefunded(op) == op.sender

(* The rest of a prefund goes back to whoever's deposit it was taken from. *)
RefundAddress(op) == IF op.paymaster = NoOne THEN op.sender ELSE op.paymaster

Refunded(w, op, cost) == Stakes!_incrementDeposit(w, RefundAddress(op), op.prefund - cost)

(* Mutant: the index advances in both of the nested loops. *)
OpDoneTwice(w, cost) ==
  /\ Goto("execute") /\ i' = i + 2 /\ world' = w
  /\ mode' = "opSucceeded" /\ collected' = collected + cost
  /\ UNCHANGED <<data, opInfos, vouched>>

OpDone(w, cost) ==
  /\ Goto("execute") /\ i' = i + 1 /\ world' = w
  /\ mode' = "opSucceeded" /\ collected' = collected + cost
  /\ UNCHANGED <<data, opInfos, vouched>>

(***************************************************************************)
(* The end of _postExecution, for the cost that the gas used comes to.  A  *)
(* cost above the prefund makes innerHandleOp revert; outside of it, the   *)
(* prefund is all that is charged.                                         *)
(***************************************************************************)
Charged(op, cost) == IF op.prefund < cost THEN op.prefund ELSE cost

Settle(cost) ==
  /\ pc = "settle"
  /\ LET op == Op(i)
         charged == Charged(op, cost)
         success == cost <= op.prefund /\ mode = "opSucceeded"
         low == op.prefund < cost /\ mode # "postOpReverted"
         w == IF low THEN saved.inner ELSE world
     IN  OpDone(Refunded(Event(w, op, success, charged), op, charged), charged)

(* _compensate: the beneficiary is sent the fees of the whole bundle. *)
Compensate(beneficiary) ==
  /\ pc = "execute" /\ i > Last
  /\ LET paid == [world EXCEPT !.balance = @ - collected]
     IN  \/ beneficiary = NoOne /\ Abort
         \/ /\ beneficiary = EntryPoint
            /\ End([kind |-> "done", at |-> 0, index |-> 0])
            /\ world' = Stakes!Receive(paid, EntryPoint, collected)
            /\ UNCHANGED frames
         \/ /\ beneficiary \in Addr \ {EntryPoint}
            /\ Goto("beneficiary") /\ world' = paid /\ collected' = 0
            /\ UNCHANGED <<i, data, opInfos, vouched, mode>>

BeneficiaryReturns ==
  /\ CalleeIs("beneficiary")
  /\ End([kind |-> "done", at |-> 0, index |-> 0])
  /\ UNCHANGED <<world, frames>>

(* AA91 *)
BeneficiaryReverts == CalleeIs("beneficiary") /\ Abort

(* The transaction runs out of gas, or a call returns data that cannot be decoded. *)
BundleFails == pc # "idle" /\ Abort

---------------------------------------------------------------------------
(* The code the bundle calls, and the code of other transactions. *)

Callees == {"aggregator", "factory", "account", "paymaster", "call", "postOp", "beneficiary"}

OutsideCode == pc \in Callees \cup {"idle"}

IncrementNonce(a, key) ==
  /\ OutsideCode /\ Stakes!Called
  /\ world.nonceSequenceNumber[a][key] < MaxSeq
  /\ world' = [world EXCEPT !.nonceSequenceNumber[a] = Incremented(@, key)]
  /\ UNCHANGED <<frames, control>>

(* A factory, or anyone else, puts an account's code at its address. *)
Deploy(a) ==
  /\ OutsideCode /\ Stakes!Called
  /\ ~HasCode(a)
  /\ world' = [world EXCEPT !.code = @ \cup {a}]
  /\ UNCHANGED <<frames, control>>

StakeOperation == OutsideCode /\ Stakes!Operation /\ UNCHANGED control

RecipientEnds ==
  /\ Len(frames) > base
  /\ Stakes!RecipientReturns \/ Stakes!RecipientReverts
  /\ UNCHANGED control

NextTransaction == pc = "idle" /\ Stakes!NextTransaction /\ UNCHANGED control

---------------------------------------------------------------------------
CalleeEnds ==
  \/ AggregatorReturns \/ AggregatorReverts
  \/ \E a \in Addr \cup {NoOne} : FactoryReturns(a)
  \/ \E d \in ValidationData : AccountReturns(d)
  \/ AccountReverts
  \/ \E asked \in BOOLEAN, d \in ValidationData : PaymasterReturns(asked, d)
  \/ PaymasterReverts
  \/ CallReturns \/ CallReverts
  \/ PostOpReturns \/ InnerReverts
  \/ BeneficiaryReturns \/ BeneficiaryReverts

EntryPointSteps ==
  \/ CheckGroup \/ GroupsChecked \/ ValidateOp \/ AllValidated \/ ExecuteOp
  \/ \E cost \in Costs : Settle(cost)
  \/ \E a \in Addr \cup {NoOne} : Compensate(a)

Next ==
  \/ \E b \in Bundles : HandleBundle(b)
  \/ EntryPointSteps \/ CalleeEnds \/ BundleFails
  \/ \E a \in Addr, key \in Keys : IncrementNonce(a, key)
  \/ \E a \in Addr : Deploy(a)
  \/ StakeOperation \/ RecipientEnds \/ NextTransaction

Spec == Init /\ [][Next]_vars

(* The EVM runs a transaction to its end, and called code runs out of gas. *)
FairSpec == Spec /\ WF_vars(EntryPointSteps \/ CalleeEnds \/ RecipientEnds)

---------------------------------------------------------------------------
Validating == pc \in {"validate", "factory", "account", "paymaster"}
Executing == pc \in {"execute", "call", "postOp", "settle"}

(* Operation j's prefund has been taken and not yet been settled. *)
PrefundHeld(j) ==
  \/ Validating /\ (j < i \/ (j = i /\ pc = "paymaster"))
  \/ Executing /\ j >= i

Held == [j \in 1..Last |-> IF PrefundHeld(j) THEN Op(j).prefund ELSE 0]

HeldFrom(a) == [j \in 1..Last |-> IF PrefundHeld(j) /\ Payer(Op(j)) = a THEN Op(j).prefund ELSE 0]

(***************************************************************************)
(* The EntryPoint's state is of the declared types.                        *)
(***************************************************************************)
TypeOK ==
  /\ \A a \in Addr :
       /\ world.deposits[a] \in Stakes!DepositInfo
       /\ \A k \in Keys : world.nonceSequenceNumber[a][k] \in Nat
  /\ world.balance \in 0..Supply
  /\ world.code \subseteq Addr /\ world.ran \subseteq Ops
  /\ pc \in Callees \cup {"idle", "groups", "validate", "execute", "settle"}
  /\ mode \in {"opSucceeded", "opReverted", "postOpReverted"}
  /\ base <= Len(frames)
  /\ Executing => Len(opInfos) = Last

(***************************************************************************)
(* At every step of a bundle, inside every call it makes, the balance is   *)
(* what deposits and stakes are owed, the prefunds taken and not settled,  *)
(* and the fees collected and not paid out: no code that a bundle runs can *)
(* have the same wei counted twice, or withdraw a prefund.                 *)
(***************************************************************************)
BundleSolvency == world.balance = Total(Stakes!Owed(world)) + Total(Held) + collected

(***************************************************************************)
(* The events replay the deposits: what was deposited for a, less what a   *)
(* withdrew and the cost in the UserOperationEvents that a pays for, is    *)
(* a's deposit and a's prefunds still held.  Every charge and every refund *)
(* went to the right payer.                                                *)
(***************************************************************************)
EventsReplayDeposits ==
  \A a \in Addr : world.logged[a] = world.deposits[a].deposit + Total(HeldFrom(a))

(***************************************************************************)
(* No two operations of a sender with the same nonce are ever both charged *)
(* and executed, and none is twice, in whatever bundles they come; and the *)
(* one nonce of a key that is acceptable next is the one getNonce gives,   *)
(* so that what was signed before an increment is not charged after it.    *)
(***************************************************************************)
NonceUsedOnce ==
  /\ \A o, p \in Ops :
       /\ Len(world.events[o]) <= 1
       /\ (o.sender = p.sender /\ o.nonce = p.nonce /\ world.events[o] # <<>> /\ world.events[p] # <<>>)
            => o = p
  /\ \A o \in Ops :
       LET seqOf == world.nonceSequenceNumber[o.sender]
       IN  NonceMatches(seqOf, o.nonce) <=> o.nonce = getNonce(seqOf, NonceKey(o.nonce))

(***************************************************************************)
(* A UserOperationEvent tells the truth: it reports success exactly when   *)
(* the effects of the operation's callData are on the chain, also when     *)
(* postOp reverts or the prefund turns out too low; and callData leaves no *)
(* effects without its event.                                              *)
(***************************************************************************)
EventTellsTruth ==
  \A o \in Ops :
    /\ world.events[o] # <<>> =>
         (o \in world.ran <=> (o.callData /\ world.events[o][1].success))
    /\ pc \in {"idle", "groups"} /\ o \in world.ran => world.events[o] # <<>>

(***************************************************************************)
(* A bundle that is done has charged each of its operations exactly once.  *)
(***************************************************************************)
BundleComplete ==
  [][pc # "idle" /\ pc' = "idle" /\ result'.kind = "done" =>
       \A j \in 1..Last : Len(world'.events[Op(j)]) = 1]_vars

(* The answer holds now; one without an end holds from its start on. *)
InTime(d) == d.validAfter <= now /\ (d.validUntil # 0 => now <= d.validUntil)

(***************************************************************************)
(* When operations run, each was accepted on the answers its own account   *)
(* and paymaster gave, for this time, and an account that left its         *)
(* signature to an aggregator had that aggregator validate the group.      *)
(***************************************************************************)
AllAuthorized ==
  Executing =>
    \A j \in 1..Last :
      LET info == opInfos[j]
      IN  /\ info.account.aggregator # SigFailed
          /\ info.account.aggregator # NoOne =>
               /\ info.account.aggregator = Aggregator(j)
               /\ bundle.ops[j].group \in vouched
          /\ InTime(info.account)
          /\ Op(j).paymaster # NoOne =>
               /\ info.paymaster.aggregator = NoOne
               /\ InTime(info.paymaster)

(***************************************************************************)
(* FailedOp names the operation that failed (IEntryPoint.sol: "Index into  *)
(* the array of ops to the failed one").                                   *)
(***************************************************************************)
FailedOpIndex == result.kind = "FailedOp" => result.index = result.at

(***************************************************************************)
(* Every bundle ends: it is done or reverts.                               *)
(***************************************************************************)
BundleEnds == pc # "idle" ~> pc = "idle"
===========================================================================

------------------------------ MODULE Accounts ------------------------------
(***************************************************************************)
(* contracts/samples/FalconSimpleAccount.sol and SimpleAccount.sol, their  *)
(* base contracts/core/BaseAccount.sol, SimpleAccountFactory.sol and       *)
(* SenderCreator.sol: how accounts come to be, and who makes them act.     *)
(*                                                                         *)
(* A transaction is a stack of calls, frames.  A step is a call that the   *)
(* code on top makes, or its end.  A call that reverts takes back what it  *)
(* did to the world; its caller then reverts too or goes on.               *)
(*                                                                         *)
(* The two kinds of account differ in how they are made and whose          *)
(* signatures they accept: a SimpleAccount its owner's, a                  *)
(* FalconSimpleAccount those of the key it was given.  Here every account  *)
(* has an owner and a key, which are one for a SimpleAccount.              *)
(***************************************************************************)
EXTENDS Wei, BagsExt, SequencesExt

CONSTANTS
  People,     \* owners of keys: addresses without code
  Unknown,    \* contracts that run unknown code
  Simple,     \* addresses of SimpleAccounts, which the factory makes
  Falcon,     \* addresses of FalconSimpleAccounts: proxies, initialized later
  EntryPoint, \* its address
  NoOne,      \* the zero address
  MadeFor,    \* MadeFor[a]: the owner from which the address a in Simple is computed
  Calls,      \* the calls explored
  AllCalls,   \* these, those that the operations ask for, and what all of them lead to
  Operations, \* the user operations explored
  Wealth,     \* what everybody has at the beginning, in wei
  MaxCalls    \* bound: calls in a transaction

(***************************************************************************)
(* A call is a record [dest, value, fn] with the arguments of the function *)
(* fn, if it has some: calls (execute, executeBatch), matching             *)
(* (executeBatch: the lengths of its arrays match), owner and key          *)
(* (initialize), to and amount (withdrawDepositTo, withdrawTo), impl       *)
(* (upgradeToAndCall).  A user operation is a record [sender, initCode,    *)
(* signer, prefund, callData]: initCode is NoOne or the address that the   *)
(* factory computes from it, callData a sequence of at most one call.      *)
(***************************************************************************)
Accounts == Simple \cup Falcon
Addr == People \cup Unknown \cup Accounts \cup {EntryPoint}

(* The calls that the call c asks an account for. *)
SubCalls(c) == IF c.fn \in {"execute", "executeBatch"} THEN c.calls ELSE <<>>

Call(dest, fn) == [dest |-> dest, fn |-> fn, value |-> 0]

(* What an account asks the EntryPoint for, and what that pays. *)
Withdrawal(c) == [c EXCEPT !.dest = EntryPoint, !.fn = "withdrawTo"]
Payment(c) == [Call(c.to, "receive") EXCEPT !.value = c.amount]

(* No address is of two kinds.  innerHandleOp calls the account, with no    *)
(* value, and the factory makes SimpleAccounts.                             *)
ASSUME AccountsAssumption ==
  /\ IsFiniteSet(People) /\ IsFiniteSet(Unknown) /\ IsFiniteSet(Simple \cup Falcon)
  /\ People \cap (Unknown \cup Accounts) = {} /\ Unknown \cap Accounts = {} /\ Simple \cap Falcon = {}
  /\ EntryPoint \notin People \cup Unknown \cup Simple \cup Falcon
  /\ NoOne \notin People \cup Unknown \cup Simple \cup Falcon \cup {EntryPoint}
  /\ MadeFor \in [Simple -> People \cup Unknown]
  /\ Wealth \in Nat /\ MaxCalls \in Nat
  /\ Calls \subseteq AllCalls
  /\ \A c \in AllCalls :
       /\ {"dest", "fn", "value"} \subseteq DOMAIN c /\ c.dest \in Addr /\ c.value \in Nat
       /\ SubCalls(c) \in Seq(AllCalls)
       /\ c.fn = "initialize" => c.owner \in Addr \cup {NoOne} /\ c.key \in Addr \cup {NoOne}
       /\ c.fn = "withdrawDepositTo" => Withdrawal(c) \in AllCalls
       /\ c.fn = "withdrawTo" => c.amount \in Nat /\ Payment(c) \in AllCalls
  /\ \A op \in Operations :
       /\ op.sender \in Accounts /\ op.signer \in People /\ op.prefund \in Nat
       /\ op.initCode \in Simple \cup {NoOne}
       /\ op.callData \in Seq(AllCalls)
       /\ \A i \in DOMAIN op.callData : op.callData[i].dest = op.sender /\ op.callData[i].value = 0

VARIABLES
  world,     \* what the chain stores
  frames,    \* the calls in progress, from the transaction to the innermost
  reverting, \* the innermost call has failed
  made,      \* calls made in this transaction
  tx,        \* history: who asked for what in this transaction
  start      \* history: the world before it

vars == <<world, frames, reverting, made, tx, start>>

Request(by, asked) == [by |-> by, asked |-> asked, sender |-> NoOne, prefund |-> 0]

(* world.used: operations whose nonce is used.  world.done, history: the    *)
(* calls of this transaction that returned, each with the one it is part of. *)
Init ==
  /\ world = [code |-> {}, initialized |-> {},
              owner |-> [a \in Accounts |-> NoOne], key |-> [a \in Accounts |-> NoOne],
              impl |-> [a \in Accounts |-> 1],
              balance |-> [a \in Addr |-> IF a = EntryPoint THEN 0 ELSE Wealth],
              deposit |-> [a \in Addr |-> 0],
              used |-> {}, done |-> EmptyBag]
  /\ frames = <<>> /\ reverting = FALSE /\ made = 0
  /\ tx = Request(NoOne, <<>>)
  /\ start = world

Depth == Len(frames)
Top == frames[Depth]
Running == Depth > 0 /\ ~reverting

(* The code at self runs; it is to make the calls rest.  at is "called", or *)
(* how far the EntryPoint is with the operation op.                         *)
Frame(self, call, rest, op, at) ==
  [self |-> self, call |-> call, rest |-> rest, saved |-> world, op |-> op, at |-> at]

---------------------------------------------------------------------------
(* Transactions. *)

Begin(request, self, op, at) ==
  /\ Depth = 0
  /\ frames' = <<Frame(self, Call(self, "transaction"), request.asked, op, at)>>
  /\ tx' = request
  /\ world' = [world EXCEPT !.done = EmptyBag]
  /\ start' = world' /\ made' = 0 /\ reverting' = FALSE

SendTransaction(p, c) == Begin(Request(p, <<c>>), p, NoOne, "called")

(* A bundle of one operation, which somebody signed. *)
HandleOp(op) ==
  Begin([Request(op.signer, op.callData) EXCEPT !.sender = op.sender, !.prefund = op.prefund],
        EntryPoint, op, "create")

TransactionEnds ==
  /\ Running /\ Depth = 1 /\ Top.self \in People /\ Top.rest = <<>>
  /\ frames' = <<>>
  /\ UNCHANGED <<world, reverting, made, tx, start>>

(* new ERC1967Proxy(implementation, '0x'), in a transaction of its own. *)
DeployProxy(a) ==
  /\ Depth = 0 /\ a \in Falcon \ world.code
  /\ world' = [world EXCEPT !.code = @ \cup {a}, !.done = EmptyBag]
  /\ start' = world'
  /\ UNCHANGED <<frames, reverting, made, tx>>

---------------------------------------------------------------------------
(* Calls. *)

(* The code on top makes the call c: unknown code any, other code the next  *)
(* it is to make.                                                           *)
Makes(c) ==
  /\ Running /\ made < MaxCalls
  /\ Top.at \in {"called", "executed"}
  /\ IF Top.self \in Unknown THEN c \in Calls ELSE Top.rest # <<>> /\ c = Head(Top.rest)

Moved(w, from, to, v) ==
  IF from = to THEN w ELSE [w EXCEPT !.balance[from] = @ - v, !.balance[to] = @ + v]

Deposited(w, from, a, v) == [Moved(w, from, EntryPoint, v) EXCEPT !.deposit[a] = @ + v]

(* The callee runs if the caller has the value and the callee's conditions  *)
(* hold: it leaves the world w and is to make the calls next.  Else it      *)
(* reverts.                                                                 *)
Runs(c, conditions, w, next) ==
  LET runs == c.value <= world.balance[Top.self] /\ conditions
      caller == [Top EXCEPT !.rest = IF @ = <<>> THEN @ ELSE Tail(@)]
  IN /\ frames' = Append([frames EXCEPT ![Depth] = caller], Frame(c.dest, c, next, NoOne, "called"))
     /\ world' = IF runs THEN w ELSE world
     /\ reverting' = ~runs
     /\ made' = made + 1
     /\ UNCHANGED <<tx, start>>

Paid(c) == Moved(world, Top.self, c.dest, c.value)

Return ==
  /\ Running /\ Depth > 1 /\ Top.rest = <<>>
  /\ frames' = Front(frames)
  /\ world' = [world EXCEPT !.done = BagAdd(@, [call |-> Top.call, of |-> frames[Depth - 1].call])]
  /\ UNCHANGED <<reverting, made, tx, start>>

(* Unknown code reverts, and any code may run out of gas. *)
Fails ==
  /\ Running /\ Depth > 1
  /\ reverting' = TRUE
  /\ UNCHANGED <<world, frames, made, tx, start>>

(* Mutant: an account does not look at the result of a call. *)
GoesOn(f) == f.self \in Unknown \cup Accounts \/ f.at # "called"

(* Whether a caller may go on when a call it made reverted: unknown code    *)
(* may, and innerHandleOp does; _call reverts with the callee's data.       *)
Catches(f) == f.self \in Unknown \/ f.at # "called"

(* The world from before the call is back. *)
Unwind ==
  /\ reverting
  /\ frames' = Front(frames)
  /\ IF Depth = 1
     THEN world' = start /\ reverting' = FALSE
     ELSE world' = Top.saved /\ reverting' = ~Catches(frames[Depth - 1])
  /\ UNCHANGED <<made, tx, start>>

---------------------------------------------------------------------------
(* The functions of an account.  Where there is no code nothing answers: a *)
(* call to it passes, as CallOther.                                        *)

Calling(c, fn) == Makes(c) /\ c.fn = fn /\ c.dest \in Accounts \cap world.code

_requireFromEntryPointOrOwner(a) == Top.self = EntryPoint \/ Top.self = world.owner[a]

Execute(c) ==
  /\ Calling(c, "execute")
  /\ Runs(c, _requireFromEntryPointOrOwner(c.dest) /\ c.value = 0, world, c.calls)

ExecuteBatch(c) ==
  /\ Calling(c, "executeBatch")
  /\ Runs(c, _requireFromEntryPointOrOwner(c.dest) /\ c.value = 0 /\ c.matching, world, c.calls)

(* Mutant: initialize has no modifier. *)
InitializableAgain(a) == TRUE

(* OpenZeppelin's initializer. *)
Initializable(a) == a \notin world.initialized

Initialized(w, a, owner, key) ==
  [w EXCEPT !.initialized = @ \cup {a}, !.owner[a] = owner, !.key[a] = key]

Initialize(c) ==
  /\ Calling(c, "initialize")
  /\ Runs(c, Initializable(c.dest) /\ c.value = 0, Initialized(world, c.dest, c.owner, c.key), <<>>)

AddDeposit(c) ==
  /\ Calling(c, "addDeposit")
  /\ Runs(c, TRUE, Deposited(world, Top.self, c.dest, c.value), <<>>)

(* Mutant: code that the account has called may call back. *)
_onlyOwnerOrCallee(a) ==
  Top.self = world.owner[a] \/ \E d \in 1..Depth : frames[d].self = a

_onlyOwner(a) == Top.self = world.owner[a] \/ Top.self = a

WithdrawDepositTo(c) ==
  /\ Calling(c, "withdrawDepositTo")
  /\ Runs(c, _onlyOwner(c.dest) /\ c.value = 0, world,
          <<Withdrawal(c)>>)

(* upgradeToAndCall, without a call; the implementations that exist have    *)
(* the same code.                                                           *)
UpgradeToAndCall(c) ==
  /\ Calling(c, "upgradeToAndCall")
  /\ Runs(c, _onlyOwner(c.dest) /\ c.value = 0, [world EXCEPT !.impl[c.dest] = c.impl], <<>>)

Receive(c) == Calling(c, "receive") /\ Runs(c, TRUE, Paid(c), <<>>)

---------------------------------------------------------------------------
(* Calls of others. *)

(* StakeManager's, which then pays. *)
WithdrawTo(c) ==
  /\ Makes(c) /\ c.dest = EntryPoint /\ c.fn = "withdrawTo"
  /\ Runs(c, c.value = 0 /\ c.amount <= world.deposit[Top.self],
          [world EXCEPT !.deposit[Top.self] = @ - c.amount],
          <<Payment(c)>>)

CallOther(c) == Makes(c) /\ c.dest \in Addr \ (world.code \cup {EntryPoint}) /\ Runs(c, TRUE, Paid(c), <<>>)

---------------------------------------------------------------------------
(* What the EntryPoint does with an operation. *)

At(stage) == Running /\ Top.at = stage

Goes(stage, w) ==
  /\ frames' = [frames EXCEPT ![Depth].at = stage]
  /\ world' = w
  /\ UNCHANGED <<reverting, made, tx, start>>

FailedOp == reverting' = TRUE /\ UNCHANGED <<world, frames, made, tx, start>>

(* The proxy's constructor calls initialize. *)
createAccount(a) ==
  Initialized([world EXCEPT !.code = @ \cup {a}], a, MadeFor[a], MadeFor[a])

(* _createSenderIfNeeded by SenderCreator and factory: the factory returns  *)
(* the address, which it makes an account unless there is one.              *)
CreateSender ==
  /\ At("create")
  /\ LET op == Top.op
     IN IF op.initCode = NoOne THEN Goes("validate", world)
        ELSE IF op.sender \in world.code \/ op.initCode # op.sender THEN FailedOp
        ELSE Goes("validate", createAccount(op.initCode))

(* A proxy that is not initialized has no key yet: verify reverts. *)
_validateSignature(op) == op.signer = world.key[op.sender]

(* validateUserOp: the signature, and _payPrefund, whose failure is         *)
(* ignored; then the EntryPoint's checks of the prefund, the nonce and the  *)
(* signature.                                                               *)
Missing(op) == IF world.deposit[op.sender] > op.prefund THEN 0 ELSE op.prefund - world.deposit[op.sender]

(* Mutant: what the account could not pay counts as paid. *)
PrefundOnTrust(op) == [world EXCEPT !.deposit[op.sender] = @ + Missing(op)]

_payPrefund(op) ==
  IF Missing(op) <= world.balance[op.sender]
  THEN Deposited(world, op.sender, op.sender, Missing(op)) ELSE world

ValidateUserOp ==
  /\ At("validate")
  /\ LET op == Top.op
         paid == _payPrefund(op)
     IN IF /\ op.sender \in world.code
           /\ op.prefund <= paid.deposit[op.sender]
           /\ op \notin world.used
           /\ _validateSignature(op)
        THEN Goes("executed", [paid EXCEPT !.deposit[op.sender] = @ - op.prefund, !.used = @ \cup {op}])
        ELSE FailedOp

(* The call of the account has ended, with success or not: it pays the cost *)
(* and gets the rest back.                                                  *)
Settle(beneficiary) ==
  /\ At("executed") /\ Top.rest = <<>>
  /\ frames' = <<>>
  /\ \E cost \in 0..Top.op.prefund :
       world' = [Moved(world, EntryPoint, beneficiary, cost) EXCEPT
                   !.deposit[Top.op.sender] = @ + (Top.op.prefund - cost)]
  /\ UNCHANGED <<reverting, made, tx, start>>

---------------------------------------------------------------------------
MakesCall(c) ==
  \/ Execute(c) \/ ExecuteBatch(c) \/ Initialize(c) \/ AddDeposit(c) \/ WithdrawDepositTo(c)
  \/ UpgradeToAndCall(c) \/ Receive(c) \/ WithdrawTo(c) \/ CallOther(c)

(* The calls that can be next. *)
NextCalls ==
  IF ~Running THEN {}
  ELSE IF Top.self \in Unknown THEN Calls
  ELSE IF Top.rest = <<>> THEN {} ELSE {Head(Top.rest)}

Next ==
  \/ \E p \in People, c \in Calls : SendTransaction(p, c)
  \/ \E op \in Operations : HandleOp(op)
  \/ \E a \in Falcon : DeployProxy(a)
  \/ \E c \in NextCalls : MakesCall(c)
  \/ TransactionEnds \/ Return \/ Fails \/ Unwind
  \/ CreateSender \/ ValidateUserOp
  \/ \E p \in People : Settle(p)

Spec == Init /\ [][Next]_vars

---------------------------------------------------------------------------
(* Properties. *)

(* The type invariant: nobody spends what it has not, and only accounts with *)
(* code are initialized.                                                     *)
TypeOK ==
  /\ world.initialized \subseteq world.code /\ world.code \subseteq Accounts
  /\ world.owner \in [Accounts -> Addr \cup {NoOne}] /\ world.key \in [Accounts -> Addr \cup {NoOne}]
  /\ world.balance \in [Addr -> Nat] /\ world.deposit \in [Addr -> Nat]
  /\ world.used \subseteq Operations
  /\ \A d \in 1..Depth : frames[d].self \in Addr

(* Who may speak for a: its key, its owner, and if that is an account, who  *)
(* may speak for that one, which may have been created just now.            *)
Principals(w, a) ==
  LET Holders == Addr \cup {NoOne}
      Closed(S) == \A b \in S \cap Accounts : w.owner[b] \in S /\ w.key[b] \in S
  IN  {p \in Holders : \A S \in SUBSET Holders : a \in S /\ Closed(S) => p \in S}

Agreed(w, a) == tx.by \in Principals(w, a) \/ Principals(w, a) \cap Unknown # {}

(* What an account that is called to do c calls then. *)
Leads(c) == IF c.fn = "withdrawDepositTo" THEN <<Withdrawal(c)>> ELSE SubCalls(c)

(* What the call c takes from the account that makes it. *)
Takes(c) == IF c.dest = EntryPoint /\ c.fn = "withdrawTo" THEN c.amount ELSE c.value

(* What the call c and those it leads to, k calls deep, take from a. *)
Spending(a) ==
  LET spent[k \in 0..MaxCalls] ==
        IF k = 0 THEN [c \in AllCalls |-> 0]
        ELSE [c \in AllCalls |->
                Total([i \in DOMAIN Leads(c) |->
                  spent[k - 1][Leads(c)[i]] + (IF c.dest = a THEN Takes(Leads(c)[i]) ELSE 0)])]
  IN  spent

(* The calls that tx asks for, and those that they lead to in turn. *)
Asked(a) ==
  (IF a = tx.sender THEN tx.prefund ELSE 0)
    + Total([i \in DOMAIN tx.asked |-> Spending(a)[MaxCalls][tx.asked[i]]])

Owns(w, a) == w.balance[a] + w.deposit[a]

(* A transaction takes from an initialized account no more than was asked   *)
(* of it by someone who may speak for it: what the calls they signed spend, *)
(* and the prefund.  Code that is called on the way gets nothing besides.   *)
SpendsAsAsked ==
  frames = <<>> =>
    \A a \in start.initialized :
      \/ Principals(world, a) \cap Unknown # {}
      \/ Owns(start, a) <= Owns(world, a) + (IF Agreed(world, a) THEN Asked(a) ELSE 0)

(* Who speaks for an account never changes once it is initialized, and its  *)
(* implementation only when one of them asks.  An account of the factory is *)
(* its owner's from the moment it has code.                                 *)
ConfigurationKept ==
  /\ \A a \in start.initialized :
       /\ world.owner[a] = start.owner[a] /\ world.key[a] = start.key[a]
       /\ frames = <<>> /\ world.impl[a] # start.impl[a] => Agreed(world, a)
  /\ \A a \in Simple \cap world.code : world.owner[a] = MadeFor[a]

HowOften(e) == IF e \in DOMAIN world.done THEN world.done[e] ELSE 0

Times(s, c) == Cardinality({i \in DOMAIN s : s[i] = c})

Batches == {p \in {e.call : e \in DOMAIN world.done} \cup {e.of : e \in DOMAIN world.done} :
             p.fn \in {"execute", "executeBatch"} /\ p.dest \in world.code}

Returned(p) == Total([e \in {e \in DOMAIN world.done : e.call = p} |-> world.done[e]])

(* The calls of execute and executeBatch take effect all or not at all:     *)
(* what remains of a transaction has each of them as often as it has its    *)
(* batch, whoever caught a revert on the way, and wherever it came from.    *)
BatchWhole ==
  frames = <<>> =>
    \A p \in Batches : \A c \in Range(p.calls) :
      HowOften([call |-> c, of |-> p]) = Returned(p) * Times(p.calls, c)
=============================================================================

--------------------------- MODULE StakeManager ---------------------------
(***************************************************************************)
(* contracts/core/StakeManager.sol: deposits, stakes and their withdrawal. *)
(*                                                                         *)
(* One step is one external call of the contract, or the end of the call   *)
(* the contract makes to the recipient of a withdrawal.  That call runs    *)
(* code nobody knows: while it runs, any operation may be called again,    *)
(* and it ends by returning or by reverting, which undoes the withdrawal   *)
(* and everything done since.  So what the chain stores is one record,     *)
(* world, and frames holds the worlds the open withdrawals go back to.     *)
(***************************************************************************)
EXTENDS Wei, Sequences

CONSTANTS
  Addr,        \* the addresses
  EntryPoint,  \* the address of the contract itself
  Amounts,     \* the amounts of wei a caller names or sends
  Delays,      \* the unstake delays a caller names
  Supply,      \* all the wei there are: no sum of amounts can overflow a uint256
  MaxUint112,  \* type(uint112).max
  MaxUint48,   \* type(uint48).max
  MaxNow,      \* bound: the latest block.timestamp explored
  MaxGas       \* bound: calls into the contract that one transaction can pay for

ASSUME AddrAssumption == IsFiniteSet(Addr) /\ EntryPoint \in Addr
ASSUME AmountsAssumption == Amounts \subseteq Nat /\ Delays \subseteq Nat
ASSUME WidthAssumption == MaxUint112 \in Nat /\ MaxUint48 \in Nat
ASSUME BoundAssumption == Supply \in Nat /\ MaxNow \in 1..MaxUint48 /\ MaxGas \in Nat

VARIABLES
  world,   \* what the chain stores, rolled back by a revert
  frames,  \* the worlds the withdrawals in progress go back to, innermost last
  now,     \* block.timestamp
  gas      \* calls the current transaction can still pay for

vars == <<world, frames, now, gas>>

DepositInfo == [deposit : Nat, staked : BOOLEAN, stake : Nat,
                unstakeDelaySec : Nat, withdrawTime : Nat]

(***************************************************************************)
(* world.deposits is the contract's mapping and world.balance the wei it   *)
(* holds.  Two more fields record history: logged[a] is what replaying the *)
(* Deposited and Withdrawn events of a gives, lockedUntil[a] the time      *)
(* until which the delays that a's stake was added under lock it.          *)
(***************************************************************************)
World == [deposits : [Addr -> DepositInfo], balance : Nat,
          logged : [Addr -> Int], lockedUntil : [Addr -> Nat]]

NoDeposit == [deposit |-> 0, staked |-> FALSE, stake |-> 0,
              unstakeDelaySec |-> 0, withdrawTime |-> 0]

EmptyWorld == [deposits |-> [a \in Addr |-> NoDeposit], balance |-> 0,
               logged |-> [a \in Addr |-> 0], lockedUntil |-> [a \in Addr |-> 0]]

Callers == Addr \ {EntryPoint}

(* A conversion to an unsigned type whose largest value is max. *)
Truncate(x, max) == IF x <= max THEN x ELSE x % (max + 1)

Later(s, t) == IF s < t THEN t ELSE s

---------------------------------------------------------------------------
(* What the operations do to a world. *)

_incrementDeposit(w, account, amount) ==
  [w EXCEPT !.deposits[account].deposit = @ + amount]

(* depositTo with value v, and receive(), which calls it for its sender. *)
Receive(w, account, v) ==
  [_incrementDeposit(w, account, v) EXCEPT !.balance = @ + v, !.logged[account] = @ + v]

(* Mutant: nothing keeps a stake within its uint112. *)
CanAddAnyStake(d, v, delay) == delay > 0 /\ delay >= d.unstakeDelaySec /\ d.stake + v > 0

CanAddStake(d, v, delay) ==
  /\ delay > 0
  /\ delay >= d.unstakeDelaySec
  /\ d.stake + v > 0
  /\ d.stake + v <= MaxUint112

(* Mutant: a pending unstake is not cancelled. *)
StakedWhileUnstaking(d, v, delay) ==
  [deposit |-> d.deposit, staked |-> TRUE, stake |-> Truncate(d.stake + v, MaxUint112),
   unstakeDelaySec |-> delay, withdrawTime |-> d.withdrawTime]

Staked(d, v, delay) ==
  [deposit |-> d.deposit, staked |-> TRUE, stake |-> Truncate(d.stake + v, MaxUint112),
   unstakeDelaySec |-> delay, withdrawTime |-> 0]

LockedStake(w, a, v, delay) ==
  [w EXCEPT !.deposits[a] = Staked(@, v, delay), !.balance = @ + v,
            !.lockedUntil[a] = Later(@, now + delay)]

(* The sum of two uint48 is checked: it reverts when it overflows. *)
CanUnlock(d) ==
  /\ d.unstakeDelaySec # 0
  /\ d.staked
  /\ Truncate(now, MaxUint48) + d.unstakeDelaySec <= MaxUint48

Unlocked(d) ==
  [d EXCEPT !.withdrawTime = Truncate(now, MaxUint48) + d.unstakeDelaySec, !.staked = FALSE]

CanWithdrawStake(d) ==
  /\ d.stake > 0
  /\ d.withdrawTime > 0
  /\ d.withdrawTime <= now

(* Mutant: the delay of a withdrawn stake is kept. *)
WithoutStakeButDelay(w, a) ==
  [w EXCEPT !.deposits[a] = [@ EXCEPT !.withdrawTime = 0, !.stake = 0], !.lockedUntil[a] = 0]

WithoutStake(w, a) ==
  [w EXCEPT !.deposits[a] = [@ EXCEPT !.unstakeDelaySec = 0, !.withdrawTime = 0, !.stake = 0],
            !.lockedUntil[a] = 0]

(* Mutant: the stake counts as deposit. *)
CanWithdrawAll(d, amount) == amount <= d.deposit + d.stake

CanWithdraw(d, amount) == amount <= d.deposit

WithoutDeposit(w, a, amount) ==
  [w EXCEPT !.deposits[a].deposit = @ - amount, !.logged[a] = @ - amount]

(* Mutant: success is not required, so a failed call leaves the debit in force. *)
SendValueUnchecked(w, to, v) ==
  LET paid == [w EXCEPT !.balance = @ - v]
  IN  \/ /\ to = EntryPoint
         /\ world' = Receive(paid, EntryPoint, v)
         /\ UNCHANGED frames
      \/ /\ to # EntryPoint
         /\ world' = paid
         /\ frames' = Append(frames, w)

(***************************************************************************)
(* to.call{value: v}(""), the last statement of both withdrawals, made in  *)
(* the world w that their assignments leave.  The contract itself takes    *)
(* the value in receive(), everybody else in code of their own.            *)
(***************************************************************************)
SendValue(w, to, v) ==
  LET paid == [w EXCEPT !.balance = @ - v]
  IN  \/ /\ to = EntryPoint
         /\ world' = Receive(paid, EntryPoint, v)
         /\ UNCHANGED frames
      \/ /\ to # EntryPoint
         /\ world' = paid
         /\ frames' = Append(frames, world)

---------------------------------------------------------------------------
(* The calls.  Each costs gas; a caller can send only wei it has. *)

Called == gas > 0 /\ gas' = gas - 1 /\ UNCHANGED now

Payable(v) == v <= Supply - world.balance

DepositTo(account, v) ==
  /\ Called
  /\ Payable(v)
  /\ world' = Receive(world, account, v)
  /\ UNCHANGED frames

AddStake(a, v, delay) ==
  /\ Called
  /\ Payable(v)
  /\ CanAddStake(world.deposits[a], v, delay)
  /\ world' = LockedStake(world, a, v, delay)
  /\ UNCHANGED frames

UnlockStake(a) ==
  /\ Called
  /\ CanUnlock(world.deposits[a])
  /\ world' = [world EXCEPT !.deposits[a] = Unlocked(@)]
  /\ UNCHANGED frames

WithdrawStake(a, to) ==
  /\ Called
  /\ CanWithdrawStake(world.deposits[a])
  /\ SendValue(WithoutStake(world, a), to, world.deposits[a].stake)

WithdrawTo(a, to, amount) ==
  /\ Called
  /\ CanWithdraw(world.deposits[a], amount)
  /\ SendValue(WithoutDeposit(world, a, amount), to, amount)

Operation ==
  \/ \E account \in Addr, v \in Amounts : DepositTo(account, v)
  \/ \E a \in Callers, v \in Amounts, delay \in Delays : AddStake(a, v, delay)
  \/ \E a \in Callers : UnlockStake(a)
  \/ \E a \in Callers, to \in Addr : WithdrawStake(a, to)
  \/ \E a \in Callers, to \in Addr, amount \in Amounts : WithdrawTo(a, to, amount)

(* The recipient's code ends: require(success) passes, or reverts the call. *)
RecipientReturns ==
  /\ frames # <<>>
  /\ frames' = SubSeq(frames, 1, Len(frames) - 1)
  /\ UNCHANGED <<world, now, gas>>

RecipientReverts ==
  /\ frames # <<>>
  /\ world' = frames[Len(frames)]
  /\ frames' = SubSeq(frames, 1, Len(frames) - 1)
  /\ UNCHANGED <<now, gas>>

(* Another transaction, in this block or in a later one. *)
NextTransaction ==
  /\ frames = <<>>
  /\ gas' = MaxGas
  /\ now' \in now..MaxNow
  /\ UNCHANGED <<world, frames>>

Init ==
  /\ world = EmptyWorld
  /\ frames = <<>>
  /\ now = 1
  /\ gas = MaxGas

Next == Operation \/ RecipientReturns \/ RecipientReverts \/ NextTransaction

Spec == Init /\ [][Next]_vars

---------------------------------------------------------------------------
(***************************************************************************)
(* Every stored value keeps the type of its Solidity declaration.          *)
(***************************************************************************)
TypeOK ==
  /\ world \in World
  /\ \A a \in Addr : world.deposits[a].stake <= MaxUint112
  /\ frames \in Seq(World)
  /\ now \in 1..MaxNow
  /\ gas \in 0..MaxGas

Owed(w) == [a \in Addr |-> w.deposits[a].deposit + w.deposits[a].stake]

Solvent(w) == w.balance = Total(Owed(w))

(***************************************************************************)
(* The wei the contract holds are exactly the wei it owes, deposits and    *)
(* stakes together, at every step: also while a recipient's code runs      *)
(* inside a withdrawal and calls the contract again.                       *)
(***************************************************************************)
Solvency == Solvent(world)

(***************************************************************************)
(* No stake is stranded: a stake always has a delay, and either it can be  *)
(* unlocked, or it is unlocked and the time left to wait is at most that   *)
(* delay.  Without a stake, nothing of a former one is left.               *)
(***************************************************************************)
RecoverableAt(d, t) ==
  IF d.stake = 0
  THEN d.unstakeDelaySec = 0 /\ ~d.staked /\ d.withdrawTime = 0
  ELSE /\ d.unstakeDelaySec > 0
       /\ IF d.staked THEN d.withdrawTime = 0
          ELSE d.withdrawTime \in 1..(t + d.unstakeDelaySec)

StakeRecoverable == \A a \in Addr : RecoverableAt(world.deposits[a], now)

(***************************************************************************)
(* "Stake is value locked for at least unstakeDelay" (the contract's       *)
(* header): a stake leaves only when every delay it was added under has    *)
(* passed, whatever calls came in between.  A recipient's revert is not a  *)
(* stake leaving: it undoes an addStake made since.                        *)
(***************************************************************************)
StakeLeaves(a) ==
  /\ world'.deposits[a].stake < world.deposits[a].stake
  /\ Len(frames') >= Len(frames)

LockRespected ==
  [][\A a \in Addr : StakeLeaves(a) => now >= world.lockedUntil[a]]_vars
===========================================================================

------------------------ MODULE StakeManager_proofs ------------------------
(***************************************************************************)
(* The invariants of StakeManager for every set of addresses, amounts and  *)
(* delays.  None of them is inductive alone: a recipient's revert brings   *)
(* back an older world, so what holds of the world must hold of every      *)
(* world that the frames keep.                                             *)
(***************************************************************************)
EXTENDS StakeLedger, Wei_proofs, SequenceTheorems

(* What the records say of the delays a stake was added under. *)
LockedAt(d, u, t) ==
  u <= IF d.staked THEN t + d.unstakeDelaySec ELSE d.withdrawTime

GoodRecord(d, u, t) ==
  /\ d.stake <= MaxUint112
  /\ RecoverableAt(d, t)
  /\ LockedAt(d, u, t)

Good(w, t) ==
  /\ w \in World
  /\ Solvent(w)
  /\ \A a \in Addr : GoodRecord(w.deposits[a], w.lockedUntil[a], t)

Inv ==
  /\ now \in 1..MaxNow /\ gas \in 0..MaxGas
  /\ Good(world, now)
  /\ frames \in Seq(World)
  /\ \A i \in 1..Len(frames) : Good(frames[i], now)

(* What is owed is a sum of natural numbers. *)
LEMMA OwedType ==
  ASSUME NEW w \in World
  PROVE  Owed(w) \in [Addr -> Nat]
BY DEF Owed, World, DepositInfo

(* Replacing one account's record keeps the ledger solvent when the balance follows it. *)
LEMMA GoodUpdate ==
  ASSUME NEW t, NEW w, Good(w, t), NEW a \in Addr,
         NEW d \in DepositInfo, NEW u \in Nat, GoodRecord(d, u, t),
         NEW n \in World,
         n.deposits = [w.deposits EXCEPT ![a] = d],
         n.lockedUntil = [w.lockedUntil EXCEPT ![a] = u],
         n.balance = w.balance - (w.deposits[a].deposit + w.deposits[a].stake)
                       + (d.deposit + d.stake)
  PROVE  Good(n, t)
<1>1. w \in World /\ Owed(w) \in [Addr -> Nat]
  BY OwedType DEF Good
<1>2. d.deposit + d.stake \in Nat
  BY DEF DepositInfo
<1>3. Owed(n) = [Owed(w) EXCEPT ![a] = d.deposit + d.stake]
  BY <1>1 DEF Owed, World
<1>4. Owed(w)[a] = w.deposits[a].deposit + w.deposits[a].stake
  BY DEF Owed
<1>5. Total(Owed(n)) = Total(Owed(w)) - Owed(w)[a] + Owed(n)[a]
  <2>1. Owed(n) \in [Addr -> Nat] /\ \A b \in Addr : b # a => Owed(n)[b] = Owed(w)[b]
    BY <1>1, <1>2, <1>3
  <2>2. QED  BY <2>1, <1>1, AddrAssumption, TotalUpdate DEF AddrAssumption
<1>6. Solvent(n)
  <2>1. Owed(n)[a] = d.deposit + d.stake
    BY <1>1, <1>3
  <2>2. QED  BY <2>1, <1>1, <1>2, <1>4, <1>5 DEF Solvent, Good
<1>7. \A b \in Addr : GoodRecord(n.deposits[b], n.lockedUntil[b], t)
  BY <1>1 DEF Good, World
<1>8. QED  BY <1>6, <1>7 DEF Good

(* depositTo and receive(). *)
LEMMA ReceiveGood ==
  ASSUME NEW t, NEW w, Good(w, t), NEW a \in Addr, NEW v \in Nat
  PROVE  Good(Receive(w, a, v), t)
<1> DEFINE o == w.deposits[a]
           u == w.lockedUntil[a]
           d == [o EXCEPT !.deposit = o.deposit + v]
           D == [w.deposits EXCEPT ![a] = d]
           L == [w.logged EXCEPT ![a] = w.logged[a] + v]
           b == w.balance + v
           n == Receive(w, a, v)
<1>1. w \in World /\ o \in DepositInfo /\ u \in Nat
  BY DEF Good, World
<1>2. d \in DepositInfo /\ d.deposit = o.deposit + v /\ d.stake = o.stake
  BY <1>1 DEF DepositInfo
<1>3. GoodRecord(o, u, t)
  BY DEF Good
<1>4. GoodRecord(d, u, t)
  BY <1>1, <1>3 DEF DepositInfo, GoodRecord, RecoverableAt, LockedAt
<1>5. n = [w EXCEPT !.deposits = D, !.balance = b, !.logged = L]
  BY <1>1 DEF World, Receive, _incrementDeposit
<1> HIDE DEF d, n
<1>6. D \in [Addr -> DepositInfo] /\ L \in [Addr -> Int] /\ b \in Nat
  BY <1>1, <1>2 DEF World
<1> HIDE DEF D, L, b
<1>7. n \in World /\ n.deposits = D /\ n.lockedUntil = w.lockedUntil /\ n.balance = b
  <2>1. n \in World
    <3>1. [w EXCEPT !.deposits = D, !.balance = b, !.logged = L] \in World
      BY <1>1, <1>6 DEF World
    <3>2. QED  BY <3>1, <1>5
  <2>2. n.deposits = D
    BY <1>1, <1>5, <1>6 DEF World
  <2>3. n.lockedUntil = w.lockedUntil
    BY <1>1, <1>5, <1>6 DEF World
  <2>4. n.balance = b
    BY <1>1, <1>5, <1>6 DEF World
  <2>5. QED  BY <2>1, <2>2, <2>3, <2>4
<1>8. n.deposits = [w.deposits EXCEPT ![a] = d]
        /\ n.lockedUntil = [w.lockedUntil EXCEPT ![a] = u]
        /\ n.balance = w.balance - (o.deposit + o.stake) + (d.deposit + d.stake)
  BY <1>1, <1>2, <1>7 DEF World, DepositInfo, D, b
<1>9. Good(n, t)
  BY <1>1, <1>2, <1>4, <1>7, <1>8, GoodUpdate
<1>10. QED  BY <1>9 DEF n

(* addStake. *)
LEMMA AddStakeGood ==
  ASSUME now \in 1..MaxNow, NEW w, Good(w, now), NEW a \in Addr,
         NEW v \in Nat, NEW delay \in Nat, CanAddStake(w.deposits[a], v, delay)
  PROVE  Good(LockedStake(w, a, v, delay), now)
<1> DEFINE o == w.deposits[a]
           d == Staked(o, v, delay)
           u == Later(w.lockedUntil[a], now + delay)
           D == [w.deposits EXCEPT ![a] = d]
           U == [w.lockedUntil EXCEPT ![a] = u]
           b == w.balance + v
           n == LockedStake(w, a, v, delay)
<1>1. w \in World /\ o \in DepositInfo /\ w.lockedUntil[a] \in Nat
  BY DEF Good, World
<1>2. d = [deposit |-> o.deposit, staked |-> TRUE, stake |-> o.stake + v,
           unstakeDelaySec |-> delay, withdrawTime |-> 0]
  BY <1>1 DEF CanAddStake, Staked, Truncate, DepositInfo
<1>3. n = [w EXCEPT !.deposits = D, !.balance = b, !.lockedUntil = U]
  BY <1>1 DEF World, LockedStake
<1> HIDE DEF d, n
<1>4. d \in DepositInfo /\ u \in Nat
  BY <1>1, <1>2 DEF DepositInfo, Later
<1>5. GoodRecord(o, w.lockedUntil[a], now)
  BY DEF Good
<1>6. GoodRecord(d, u, now)
  <2>1. w.lockedUntil[a] <= now + delay
    BY <1>1, <1>5 DEF CanAddStake, GoodRecord, RecoverableAt, LockedAt, DepositInfo
  <2>2. QED
    BY <1>1, <1>2, <2>1
    DEF CanAddStake, GoodRecord, RecoverableAt, LockedAt, DepositInfo, Later
<1> HIDE DEF u
<1>7. D \in [Addr -> DepositInfo] /\ U \in [Addr -> Nat] /\ b \in Nat
  BY <1>1, <1>4 DEF World
<1> HIDE DEF D, U, b
<1>8. n \in World /\ n.deposits = D /\ n.lockedUntil = U /\ n.balance = b
  <2>1. n \in World
    <3>1. [w EXCEPT !.deposits = D, !.balance = b, !.lockedUntil = U] \in World
      BY <1>1, <1>7 DEF World
    <3>2. QED  BY <3>1, <1>3
  <2>2. n.deposits = D
    BY <1>1, <1>3, <1>7 DEF World
  <2>3. n.lockedUntil = U
    BY <1>1, <1>3, <1>7 DEF World
  <2>4. n.balance = b
    BY <1>1, <1>3, <1>7 DEF World
  <2>5. QED  BY <2>1, <2>2, <2>3, <2>4
<1>9. n.balance = w.balance - (o.deposit + o.stake) + (d.deposit + d.stake)
  BY <1>1, <1>2, <1>8 DEF DepositInfo, World, b
<1>10. Good(n, now)
  <2>1. n.deposits = [w.deposits EXCEPT ![a] = d] /\ n.lockedUntil = [w.lockedUntil EXCEPT ![a] = u]
    BY <1>8 DEF D, U
  <2>2. QED  BY <1>1, <1>4, <1>6, <1>8, <1>9, <2>1, GoodUpdate
<1>11. QED  BY <1>10 DEF n

(* unlockStake. *)
LEMMA UnlockGood ==
  ASSUME now \in 1..MaxNow, NEW w, Good(w, now), NEW a \in Addr, CanUnlock(w.deposits[a])
  PROVE  Good([w EXCEPT !.deposits[a] = Unlocked(@)], now)
<1> DEFINE o == w.deposits[a]
           d == Unlocked(o)
           u == w.lockedUntil[a]
           D == [w.deposits EXCEPT ![a] = d]
           n == [w EXCEPT !.deposits[a] = Unlocked(@)]
<1>1. w \in World /\ o \in DepositInfo /\ u \in Nat
  BY DEF Good, World
<1>2. d = [o EXCEPT !.withdrawTime = now + o.unstakeDelaySec, !.staked = FALSE]
  <2>1. Truncate(now, MaxUint48) = now
    BY BoundAssumption, WidthAssumption DEF BoundAssumption, WidthAssumption, Truncate
  <2>2. QED  BY <2>1 DEF Unlocked
<1>3. n = [w EXCEPT !.deposits = D]
  BY <1>1 DEF World
<1> HIDE DEF d, n
<1>4. d \in DepositInfo /\ d.deposit = o.deposit /\ d.stake = o.stake
  <2>1. d \in DepositInfo
    <3>1. now + o.unstakeDelaySec \in Nat
      BY <1>1 DEF DepositInfo
    <3>2. [o EXCEPT !.withdrawTime = now + o.unstakeDelaySec, !.staked = FALSE] \in DepositInfo
      BY <1>1, <3>1 DEF DepositInfo
    <3>3. QED  BY <3>2, <1>2
  <2>2. d.deposit = o.deposit /\ d.stake = o.stake
    BY <1>1, <1>2 DEF DepositInfo
  <2>3. QED  BY <2>1, <2>2
<1>5. GoodRecord(o, u, now)
  BY DEF Good
<1>6. GoodRecord(d, u, now)
  BY <1>1, <1>2, <1>5 DEF CanUnlock, GoodRecord, RecoverableAt, LockedAt, DepositInfo
<1>7. D \in [Addr -> DepositInfo]
  BY <1>1, <1>4 DEF World
<1> HIDE DEF D
<1>8. n \in World /\ n.deposits = D /\ n.lockedUntil = w.lockedUntil /\ n.balance = w.balance
  BY <1>1, <1>3, <1>7 DEF World
<1>9. n.deposits = [w.deposits EXCEPT ![a] = d]
        /\ n.lockedUntil = [w.lockedUntil EXCEPT ![a] = u]
        /\ n.balance = w.balance - (o.deposit + o.stake) + (d.deposit + d.stake)
  BY <1>1, <1>4, <1>8 DEF DepositInfo, World, D
<1>10. Good(n, now)
  BY <1>1, <1>4, <1>6, <1>8, <1>9, GoodUpdate
<1>11. QED  BY <1>10 DEF n

(* What one account is owed never exceeds what the contract holds. *)
LEMMA Covered ==
  ASSUME NEW t, NEW w, Good(w, t), NEW a \in Addr
  PROVE  w.deposits[a].deposit + w.deposits[a].stake <= w.balance
<1>1. Owed(w) \in [Addr -> Nat]
  BY OwedType DEF Good
<1>2. Owed(w)[a] <= Total(Owed(w))
  BY <1>1, AddrAssumption, TotalAtLeast DEF AddrAssumption
<1>3. QED  BY <1>2 DEF Good, Solvent, Owed

(* withdrawStake, up to the value leaving the contract. *)
LEMMA StakePaidGood ==
  ASSUME now \in 1..MaxNow, NEW w, Good(w, now), NEW a \in Addr, CanWithdrawStake(w.deposits[a])
  PROVE  Good([WithoutStake(w, a) EXCEPT !.balance = @ - w.deposits[a].stake], now)
<1> DEFINE o == w.deposits[a]
           d == [o EXCEPT !.unstakeDelaySec = 0, !.withdrawTime = 0, !.stake = 0]
           D == [w.deposits EXCEPT ![a] = d]
           U == [w.lockedUntil EXCEPT ![a] = 0]
           b == w.balance - o.stake
           n == [WithoutStake(w, a) EXCEPT !.balance = @ - w.deposits[a].stake]
<1>1. w \in World /\ o \in DepositInfo /\ w.lockedUntil[a] \in Nat
  BY DEF Good, World
<1>2. d \in DepositInfo
  BY <1>1 DEF DepositInfo
<1>3. d.deposit = o.deposit /\ d.stake = 0 /\ d.staked = o.staked
        /\ d.unstakeDelaySec = 0 /\ d.withdrawTime = 0
  BY <1>1 DEF DepositInfo
<1>4. n = [w EXCEPT !.deposits = D, !.lockedUntil = U, !.balance = b]
  BY <1>1 DEF World, WithoutStake
<1> HIDE DEF d, n
<1>5. ~o.staked
  BY <1>1 DEF Good, GoodRecord, RecoverableAt, CanWithdrawStake, DepositInfo
<1>6. GoodRecord(d, 0, now)
  <2>1. d.stake <= MaxUint112
    BY <1>3, WidthAssumption DEF WidthAssumption
  <2>2. QED  BY <1>3, <1>5, <2>1 DEF GoodRecord, RecoverableAt, LockedAt
<1>7. D \in [Addr -> DepositInfo] /\ U \in [Addr -> Nat] /\ b \in Nat
  <2>1. o.deposit + o.stake <= w.balance
    BY Covered
  <2>2. QED  BY <1>1, <1>2, <2>1 DEF World, DepositInfo
<1> HIDE DEF D, U, b
<1>8. n \in World /\ n.deposits = D /\ n.lockedUntil = U /\ n.balance = b
  <2>1. n \in World
    <3>1. [w EXCEPT !.deposits = D, !.lockedUntil = U, !.balance = b] \in World
      BY <1>1, <1>7 DEF World
    <3>2. QED  BY <3>1, <1>4
  <2>2. n.deposits = D
    BY <1>1, <1>4, <1>7 DEF World
  <2>3. n.lockedUntil = U
    BY <1>1, <1>4, <1>7 DEF World
  <2>4. n.balance = b
    BY <1>1, <1>4, <1>7 DEF World
  <2>5. QED  BY <2>1, <2>2, <2>3, <2>4
<1>9. n.deposits = [w.deposits EXCEPT ![a] = d] /\ n.lockedUntil = [w.lockedUntil EXCEPT ![a] = 0]
  BY <1>8 DEF D, U
<1>10. n.balance = w.balance - (o.deposit + o.stake) + (d.deposit + d.stake)
  BY <1>1, <1>3, <1>8 DEF DepositInfo, World, b
<1>11. Good(n, now)
  BY <1>1, <1>2, <1>6, <1>8, <1>9, <1>10, GoodUpdate
<1>12. QED  BY <1>11 DEF n

(* withdrawTo, up to the value leaving the contract. *)
LEMMA DepositPaidGood ==
  ASSUME NEW t, NEW w, Good(w, t), NEW a \in Addr,
         NEW amount \in Nat, CanWithdraw(w.deposits[a], amount)
  PROVE  Good([WithoutDeposit(w, a, amount) EXCEPT !.balance = @ - amount], t)
<1> DEFINE o == w.deposits[a]
           u == w.lockedUntil[a]
           d == [o EXCEPT !.deposit = o.deposit - amount]
           D == [w.deposits EXCEPT ![a] = d]
           L == [w.logged EXCEPT ![a] = w.logged[a] - amount]
           b == w.balance - amount
           n == [WithoutDeposit(w, a, amount) EXCEPT !.balance = @ - amount]
<1>1. w \in World /\ o \in DepositInfo /\ u \in Nat
  BY DEF Good, World
<1>2. d \in DepositInfo /\ d.deposit = o.deposit - amount /\ d.stake = o.stake
  BY <1>1 DEF DepositInfo, CanWithdraw
<1>3. GoodRecord(o, u, t)
  BY DEF Good
<1>4. GoodRecord(d, u, t)
  BY <1>1, <1>3 DEF DepositInfo, GoodRecord, RecoverableAt, LockedAt
<1>5. n = [w EXCEPT !.deposits = D, !.balance = b, !.logged = L]
  BY <1>1 DEF World, WithoutDeposit
<1> HIDE DEF d, n
<1>6. D \in [Addr -> DepositInfo] /\ L \in [Addr -> Int] /\ b \in Nat
  <2>1. o.deposit + o.stake <= w.balance
    BY Covered
  <2>2. QED  BY <1>1, <1>2, <2>1 DEF World, DepositInfo, CanWithdraw
<1> HIDE DEF D, L, b
<1>7. n \in World /\ n.deposits = D /\ n.lockedUntil = w.lockedUntil /\ n.balance = b
  <2>1. n \in World
    <3>1. [w EXCEPT !.deposits = D, !.balance = b, !.logged = L] \in World
      BY <1>1, <1>6 DEF World
    <3>2. QED  BY <3>1, <1>5
  <2>2. n.deposits = D
    BY <1>1, <1>5, <1>6 DEF World
  <2>3. n.lockedUntil = w.lockedUntil
    BY <1>1, <1>5, <1>6 DEF World
  <2>4. n.balance = b
    BY <1>1, <1>5, <1>6 DEF World
  <2>5. QED  BY <2>1, <2>2, <2>3, <2>4
<1>8. n.deposits = [w.deposits EXCEPT ![a] = d]
        /\ n.lockedUntil = [w.lockedUntil EXCEPT ![a] = u]
        /\ n.balance = w.balance - (o.deposit + o.stake) + (d.deposit + d.stake)
  BY <1>1, <1>2, <1>7 DEF World, DepositInfo, D, b
<1>9. Good(n, t)
  BY <1>1, <1>2, <1>4, <1>7, <1>8, GoodUpdate
<1>10. QED  BY <1>9 DEF n

(* The value arrives: in the contract itself, or in code that may call it again. *)
LEMMA SendGood ==
  ASSUME Inv, UNCHANGED now, gas' \in 0..MaxGas, NEW w, NEW to \in Addr, NEW v \in Nat,
         Good([w EXCEPT !.balance = @ - v], now), SendValue(w, to, v)
  PROVE  Inv'
<1> DEFINE paid == [w EXCEPT !.balance = @ - v]
<1>1. CASE to = EntryPoint
  <2>1. world' = Receive(paid, EntryPoint, v) /\ frames' = frames
    BY <1>1 DEF SendValue
  <2>2. Good(world', now)
    BY <2>1, AddrAssumption, ReceiveGood DEF AddrAssumption
  <2>3. QED  BY <2>1, <2>2 DEF Inv
<1>2. CASE to # EntryPoint
  <2>1. world' = paid /\ frames' = Append(frames, world)
    BY <1>2 DEF SendValue
  <2>2. world \in World
    BY DEF Inv, Good
  <2>3. /\ frames' \in Seq(World)
        /\ Len(frames') = Len(frames) + 1
        /\ \A i \in 1..Len(frames) : frames'[i] = frames[i]
        /\ frames'[Len(frames) + 1] = world
    BY <2>1, <2>2 DEF Inv
  <2>4. \A i \in 1..Len(frames') : Good(frames'[i], now)
    BY <2>3 DEF Inv
  <2>5. QED  BY <2>1, <2>3, <2>4 DEF Inv
<1>3. QED  BY <1>1, <1>2

(* Time passing only brings unlocked stakes closer. *)
LEMMA GoodLater ==
  ASSUME NEW s \in Nat, NEW t \in Nat, s <= t, NEW w, Good(w, s)
  PROVE  Good(w, t)
<1>1. ASSUME NEW a \in Addr PROVE GoodRecord(w.deposits[a], w.lockedUntil[a], t)
  <2>1. w.deposits[a] \in DepositInfo /\ w.lockedUntil[a] \in Nat
    BY DEF Good, World
  <2>2. GoodRecord(w.deposits[a], w.lockedUntil[a], s)
    BY DEF Good
  <2>3. QED  BY <2>1, <2>2 DEF GoodRecord, RecoverableAt, LockedAt, DepositInfo
<1>2. QED  BY <1>1 DEF Good

(* Closing a frame leaves the worlds of the others. *)
LEMMA PopFrame ==
  ASSUME frames \in Seq(World), frames # <<>>, frames' = SubSeq(frames, 1, Len(frames) - 1)
  PROVE  /\ frames' \in Seq(World)
         /\ Len(frames') = Len(frames) - 1
         /\ Len(frames) \in 1..Len(frames)
         /\ \A i \in 1..Len(frames') : i \in 1..Len(frames) /\ frames'[i] = frames[i]
<1> DEFINE n == Len(frames) - 1
<1>1. n \in Nat /\ Len(frames) = n + 1
  OBVIOUS
<1>2. \A i \in 1..n : i \in 1..Len(frames) /\ frames[i] \in World
  BY <1>1
<1> HIDE DEF n
<1>3. /\ SubSeq(frames, 1, n) \in Seq(World)
      /\ Len(SubSeq(frames, 1, n)) = IF 1 <= n THEN n - 1 + 1 ELSE 0
      /\ \A i \in 1..(n - 1 + 1) : SubSeq(frames, 1, n)[i] = frames[1 + i - 1]
  BY <1>1, <1>2, SubSeqProperties
<1>4. Len(SubSeq(frames, 1, n)) = n /\ \A i \in 1..n : SubSeq(frames, 1, n)[i] = frames[i]
  BY <1>1, <1>3
<1>5. frames' = SubSeq(frames, 1, n)
  BY DEF n
<1>6. QED  BY <1>1, <1>2, <1>3, <1>4, <1>5

(* Nothing is deposited at first. *)
LEMMA InitInv == Init => Inv
<1> SUFFICES ASSUME Init PROVE Inv
  OBVIOUS
<1>1. EmptyWorld \in World
  BY DEF EmptyWorld, World, NoDeposit, DepositInfo
<1>2. Total(Owed(EmptyWorld)) = 0
  <2>1. \A a \in Addr : Owed(EmptyWorld)[a] = 0
    BY DEF Owed, EmptyWorld, NoDeposit
  <2>2. QED  BY <1>1, <2>1, OwedType, TotalZero
<1>3. \A a \in Addr : GoodRecord(EmptyWorld.deposits[a], EmptyWorld.lockedUntil[a], 1)
  BY WidthAssumption
  DEF WidthAssumption, EmptyWorld, NoDeposit, GoodRecord, RecoverableAt, LockedAt
<1>4. EmptyWorld.balance = 0
  BY DEF EmptyWorld
<1>5. Good(EmptyWorld, 1)
  BY <1>1, <1>2, <1>3, <1>4 DEF Good, Solvent
<1>6. frames \in Seq(World) /\ Len(frames) = 0
  BY DEF Init
<1>7. now \in 1..MaxNow /\ gas \in 0..MaxGas
  BY BoundAssumption, WidthAssumption DEF BoundAssumption, WidthAssumption, Init
<1>8. QED  BY <1>5, <1>6, <1>7 DEF Init, Inv

(* Every step keeps the invariant. *)
LEMMA NextInv == Inv /\ [Next]_vars => Inv'
<1> SUFFICES ASSUME Inv, [Next]_vars PROVE Inv'
  OBVIOUS
<1>0. /\ Good(world, now)
      /\ now \in 1..MaxNow
      /\ Addr # {} /\ Callers \subseteq Addr
  BY AddrAssumption DEF Inv, AddrAssumption, Callers
<1>1. ASSUME Called PROVE UNCHANGED now /\ gas' \in 0..MaxGas
  BY <1>1, BoundAssumption DEF Called, Inv, BoundAssumption
<1>2. ASSUME NEW account \in Addr, NEW v \in Amounts, DepositTo(account, v)
      PROVE  Inv'
  <2>1. Good(world', now)
    BY <1>0, <1>2, AmountsAssumption, ReceiveGood DEF DepositTo, AmountsAssumption
  <2>2. QED  BY <2>1, <1>1, <1>2 DEF DepositTo, Inv
<1>3. ASSUME NEW a \in Callers, NEW v \in Amounts, NEW delay \in Delays, AddStake(a, v, delay)
      PROVE  Inv'
  <2>1. Good(world', now)
    BY <1>0, <1>3, AmountsAssumption, AddStakeGood DEF AddStake, AmountsAssumption
  <2>2. QED  BY <2>1, <1>1, <1>3 DEF AddStake, Inv
<1>4. ASSUME NEW a \in Callers, UnlockStake(a)
      PROVE  Inv'
  <2>1. Good(world', now)
    BY <1>0, <1>4, UnlockGood DEF UnlockStake
  <2>2. QED  BY <2>1, <1>1, <1>4 DEF UnlockStake, Inv
<1>5. ASSUME NEW a \in Callers, NEW to \in Addr, WithdrawStake(a, to)
      PROVE  Inv'
  <2> DEFINE v == world.deposits[a].stake
             w == WithoutStake(world, a)
  <2>1. v \in Nat
    BY <1>0 DEF Good, World, DepositInfo
  <2>2. Good([w EXCEPT !.balance = @ - v], now)
    BY <1>0, <1>5, StakePaidGood DEF WithdrawStake
  <2>3. SendValue(w, to, v)
    BY <1>5 DEF WithdrawStake
  <2>4. UNCHANGED now /\ gas' \in 0..MaxGas
    BY <1>1, <1>5 DEF WithdrawStake
  <2> HIDE DEF v, w
  <2>5. QED  BY <2>1, <2>2, <2>3, <2>4, SendGood
<1>6. ASSUME NEW a \in Callers, NEW to \in Addr, NEW amount \in Amounts,
             WithdrawTo(a, to, amount)
      PROVE  Inv'
  <2> DEFINE w == WithoutDeposit(world, a, amount)
  <2>1. amount \in Nat
    BY AmountsAssumption DEF AmountsAssumption
  <2>2. Good([w EXCEPT !.balance = @ - amount], now)
    BY <1>0, <1>6, <2>1, DepositPaidGood DEF WithdrawTo
  <2>3. SendValue(w, to, amount)
    BY <1>6 DEF WithdrawTo
  <2>4. UNCHANGED now /\ gas' \in 0..MaxGas
    BY <1>1, <1>6 DEF WithdrawTo
  <2> HIDE DEF w
  <2>5. QED  BY <2>1, <2>2, <2>3, <2>4, SendGood
<1>7. CASE RecipientReturns
  BY <1>7, PopFrame DEF RecipientReturns, Inv
<1>8. CASE RecipientReverts
  BY <1>8, PopFrame DEF RecipientReverts, Inv
<1>9. CASE NextTransaction
  <2>1. now' \in 1..MaxNow /\ now <= now' /\ gas' \in 0..MaxGas
    BY <1>0, <1>9, BoundAssumption, WidthAssumption
    DEF NextTransaction, BoundAssumption, WidthAssumption
  <2>2. Good(world', now')
    BY <1>0, <1>9, <2>1, GoodLater DEF NextTransaction
  <2>3. frames' \in Seq(World) /\ Len(frames') = 0
    BY <1>9 DEF NextTransaction
  <2>4. QED  BY <2>1, <2>2, <2>3 DEF Inv
<1>10. CASE UNCHANGED vars
  BY <1>10 DEF vars, Inv
<1>11. QED
  BY <1>2, <1>3, <1>4, <1>5, <1>6, <1>7, <1>8, <1>9, <1>10 DEF Next, Operation

(* The inductive invariant: every world the chain may have to go back to is good. *)
THEOREM Invariance == Spec => []Inv
BY InitInv, NextInv, PTL DEF Spec

(* The stored values keep their types; a stake always fits its uint112. *)
THEOREM TypeCorrect == Spec => []TypeOK
<1>1. Inv => TypeOK
  BY DEF Inv, Good, GoodRecord, TypeOK
<1>2. QED  BY <1>1, Invariance, PTL

(* The contract holds exactly what it owes, whatever a recipient's code does. *)
THEOREM AlwaysSolvent == Spec => []Solvency
<1>1. Inv => Solvency
  BY DEF Inv, Good, Solvency
<1>2. QED  BY <1>1, Invariance, PTL

(* Nobody's stake is ever stranded. *)
THEOREM StakeNeverStranded == Spec => []StakeRecoverable
<1>1. Inv => StakeRecoverable
  BY DEF Inv, Good, GoodRecord, StakeRecoverable
<1>2. QED  BY <1>1, Invariance, PTL

(* No operation but withdrawStake by a itself makes a's stake smaller: depositTo, ... *)
LEMMA ReceiveKeepsStake ==
  ASSUME NEW w \in World, NEW c \in Addr, NEW v \in Nat, NEW a \in Addr
  PROVE  Receive(w, c, v).deposits[a].stake = w.deposits[a].stake
BY DEF Receive, _incrementDeposit, World, DepositInfo

(* ... addStake, whoever calls it, ... *)
LEMMA AddStakeKeepsStake ==
  ASSUME NEW w \in World, NEW b \in Addr, NEW v \in Nat, NEW delay \in Nat,
         CanAddStake(w.deposits[b], v, delay), NEW a \in Addr
  PROVE  LockedStake(w, b, v, delay).deposits[a].stake >= w.deposits[a].stake
<1>1. Staked(w.deposits[b], v, delay).stake = w.deposits[b].stake + v
  BY DEF Staked, Truncate, CanAddStake
<1>2. LockedStake(w, b, v, delay).deposits
        = [w.deposits EXCEPT ![b] = Staked(w.deposits[b], v, delay)]
  BY DEF LockedStake, World
<1>3. w.deposits[a] \in DepositInfo
  BY DEF World
<1>4. QED  BY <1>1, <1>2, <1>3 DEF World, DepositInfo

(* ... unlockStake, ... *)
LEMMA UnlockKeepsStake ==
  ASSUME NEW w \in World, NEW b \in Addr, NEW a \in Addr
  PROVE  [w EXCEPT !.deposits[b] = Unlocked(@)].deposits[a].stake = w.deposits[a].stake
BY DEF Unlocked, World, DepositInfo

(* ... and the value of a withdrawal arriving. *)
LEMMA SendKeepsStake ==
  ASSUME NEW w, NEW v \in Nat, NEW to \in Addr, NEW a \in Addr,
         [w EXCEPT !.balance = @ - v] \in World, SendValue(w, to, v)
  PROVE  world'.deposits[a].stake = [w EXCEPT !.balance = @ - v].deposits[a].stake
<1> DEFINE paid == [w EXCEPT !.balance = @ - v]
<1> HIDE DEF paid
<1>1. world' = paid \/ world' = Receive(paid, EntryPoint, v)
  BY DEF SendValue, paid
<1>2. paid \in World
  BY DEF paid
<1>3. world'.deposits[a].stake = paid.deposits[a].stake
  BY <1>1, <1>2, AddrAssumption, ReceiveKeepsStake DEF AddrAssumption
<1>4. QED  BY <1>3 DEF paid

(* A stake leaves only after the delays it was added under. *)
THEOREM StakeIsLocked == Spec => LockRespected
<1>1. ASSUME Inv, Next, NEW a \in Addr, StakeLeaves(a)
      PROVE  now >= world.lockedUntil[a]
  <2> DEFINE o == world.deposits[a]
  <2>1. /\ world \in World /\ o \in DepositInfo /\ world.lockedUntil[a] \in Nat
        /\ GoodRecord(o, world.lockedUntil[a], now) /\ now \in Nat
        /\ Callers \subseteq Addr
    BY <1>1 DEF Inv, Good, World, Callers
  <2>2. CASE \E to \in Addr : a \in Callers /\ WithdrawStake(a, to)
    <3>1. CanWithdrawStake(o)
      BY <2>2 DEF WithdrawStake
    <3>2. QED
      BY <2>1, <3>1 DEF CanWithdrawStake, GoodRecord, RecoverableAt, LockedAt, DepositInfo
  <2>3. CASE ~ \E to \in Addr : a \in Callers /\ WithdrawStake(a, to)
    <3>1. world'.deposits[a].stake < o.stake /\ Len(frames') >= Len(frames)
      BY <1>1 DEF StakeLeaves
    <3>2. ASSUME NEW account \in Addr, NEW v \in Amounts, DepositTo(account, v) PROVE FALSE
      <4>1. v \in Nat /\ world' = Receive(world, account, v)
        BY <3>2, AmountsAssumption DEF DepositTo, AmountsAssumption
      <4>2. world'.deposits[a].stake = o.stake
        BY <2>1, <4>1, ReceiveKeepsStake
      <4>3. QED  BY <2>1, <3>1, <4>2 DEF DepositInfo
    <3>3. ASSUME NEW b \in Callers, NEW v \in Amounts, NEW delay \in Delays, AddStake(b, v, delay)
          PROVE  FALSE
      <4>1. /\ v \in Nat /\ delay \in Nat /\ b \in Addr
            /\ CanAddStake(world.deposits[b], v, delay)
            /\ world' = LockedStake(world, b, v, delay)
        BY <2>1, <3>3, AmountsAssumption DEF AddStake, AmountsAssumption
      <4>2. world'.deposits[a].stake >= o.stake /\ world'.deposits[a].stake \in Nat
        <5>1. Good(world', now)
          BY <1>1, <4>1, AddStakeGood DEF Inv
        <5>2. QED  BY <2>1, <4>1, <5>1, AddStakeKeepsStake DEF Good, World, DepositInfo
      <4>3. QED  BY <2>1, <3>1, <4>2 DEF DepositInfo
    <3>4. ASSUME NEW b \in Callers, UnlockStake(b) PROVE FALSE
      <4>1. b \in Addr /\ world' = [world EXCEPT !.deposits[b] = Unlocked(@)]
        BY <2>1, <3>4 DEF UnlockStake
      <4>2. world'.deposits[a].stake = o.stake
        BY <2>1, <4>1, UnlockKeepsStake
      <4>3. QED  BY <2>1, <3>1, <4>2 DEF DepositInfo
    <3>5. ASSUME NEW b \in Callers, NEW to \in Addr, WithdrawStake(b, to) PROVE FALSE
      <4> DEFINE v == world.deposits[b].stake
                 paid == [WithoutStake(world, b) EXCEPT !.balance = @ - v]
      <4>1. a # b /\ b \in Addr
        BY <2>1, <2>3, <3>5
      <4>2. paid \in World /\ v \in Nat
        <5>1. Good(paid, now)
          BY <1>1, <3>5, <4>1, StakePaidGood DEF WithdrawStake, Inv
        <5>2. QED  BY <2>1, <4>1, <5>1 DEF Good, World, DepositInfo
      <4>3. SendValue(WithoutStake(world, b), to, v)
        BY <3>5 DEF WithdrawStake
      <4>4. paid.deposits[a].stake = o.stake
        BY <2>1, <4>1 DEF WithoutStake, World
      <4> HIDE DEF v
      <4>5. world'.deposits[a].stake = paid.deposits[a].stake
        BY <4>2, <4>3, SendKeepsStake
      <4>6. QED  BY <2>1, <3>1, <4>4, <4>5 DEF DepositInfo
    <3>6. ASSUME NEW b \in Callers, NEW to \in Addr, NEW amount \in Amounts,
                 WithdrawTo(b, to, amount)
          PROVE  FALSE
      <4> DEFINE paid == [WithoutDeposit(world, b, amount) EXCEPT !.balance = @ - amount]
      <4>1. amount \in Nat /\ b \in Addr
        BY <2>1, AmountsAssumption DEF AmountsAssumption
      <4>2. paid \in World
        <5>1. Good(paid, now)
          BY <1>1, <3>6, <4>1, DepositPaidGood DEF WithdrawTo, Inv
        <5>2. QED  BY <5>1 DEF Good
      <4>3. SendValue(WithoutDeposit(world, b, amount), to, amount)
        BY <3>6 DEF WithdrawTo
      <4>4. paid.deposits[a].stake = o.stake
        BY <2>1, <4>1 DEF WithoutDeposit, World, DepositInfo
      <4>5. world'.deposits[a].stake = paid.deposits[a].stake
        BY <4>1, <4>2, <4>3, SendKeepsStake
      <4>6. QED  BY <2>1, <3>1, <4>4, <4>5 DEF DepositInfo
    <3>7. ~RecipientReturns /\ ~NextTransaction
      BY <2>1, <3>1 DEF RecipientReturns, NextTransaction, DepositInfo
    <3>8. ~RecipientReverts
      BY <1>1, <3>1, PopFrame DEF RecipientReverts, Inv
    <3>9. QED
      BY <1>1, <3>2, <3>3, <3>4, <3>5, <3>6, <3>7, <3>8 DEF Next, Operation
  <2>4. QED  BY <2>2, <2>3
<1>2. Inv /\ [Next]_vars => [\A a \in Addr : StakeLeaves(a) => now >= world.lockedUntil[a]]_vars
  BY <1>1
<1>3. QED  BY <1>2, Invariance, PTL DEF Spec, LockRespected

---------------------------------------------------------------------------
(***************************************************************************)
(* StakeManager implements Ledger, whatever the addresses, amounts and     *)
(* delays: what each operation does to the credits, one lemma each, then   *)
(* the initial states and the steps.                                       *)
(***************************************************************************)
(* Money that comes in is credited in full: depositTo and receive(), ... *)
LEMMA ReceiveCredits ==
  ASSUME NEW w \in World, NEW a \in Addr, NEW v \in Nat
  PROVE  /\ Owed(Receive(w, a, v)) = [Owed(w) EXCEPT ![a] = Owed(w)[a] + v]
         /\ Receive(w, a, v).balance = w.balance + v
<1> DEFINE o == w.deposits[a]
           d == [o EXCEPT !.deposit = o.deposit + v]
           n == Receive(w, a, v)
<1>1. o \in DepositInfo
  BY DEF World
<1>2. d.deposit + d.stake = o.deposit + o.stake + v
  BY <1>1 DEF DepositInfo
<1>3. n.deposits = [w.deposits EXCEPT ![a] = d] /\ n.balance = w.balance + v
  BY DEF Receive, _incrementDeposit, World
<1>4. Owed(w)[a] = o.deposit + o.stake
  BY DEF Owed
<1> HIDE DEF d, n
<1>5. Owed(n) = [Owed(w) EXCEPT ![a] = d.deposit + d.stake]
  BY <1>3 DEF Owed, World
<1>6. QED  BY <1>2, <1>3, <1>4, <1>5 DEF n

(* ... and addStake. *)
LEMMA AddStakeCredits ==
  ASSUME NEW w \in World, NEW a \in Addr, NEW v \in Nat, NEW delay \in Nat,
         CanAddStake(w.deposits[a], v, delay)
  PROVE  /\ Owed(LockedStake(w, a, v, delay)) = [Owed(w) EXCEPT ![a] = Owed(w)[a] + v]
         /\ LockedStake(w, a, v, delay).balance = w.balance + v
<1> DEFINE o == w.deposits[a]
           d == Staked(o, v, delay)
           n == LockedStake(w, a, v, delay)
<1>1. o \in DepositInfo
  BY DEF World
<1>2. d.deposit + d.stake = o.deposit + o.stake + v
  BY <1>1 DEF Staked, Truncate, CanAddStake, DepositInfo
<1>3. n.deposits = [w.deposits EXCEPT ![a] = d] /\ n.balance = w.balance + v
  BY DEF LockedStake, World
<1>4. Owed(w)[a] = o.deposit + o.stake
  BY DEF Owed
<1> HIDE DEF d, n
<1>5. Owed(n) = [Owed(w) EXCEPT ![a] = d.deposit + d.stake]
  BY <1>3 DEF Owed, World
<1>6. QED  BY <1>2, <1>3, <1>4, <1>5 DEF n

(* unlockStake moves nothing. *)
LEMMA UnlockCredits ==
  ASSUME NEW w \in World, NEW a \in Addr
  PROVE  LET n == [w EXCEPT !.deposits[a] = Unlocked(@)]
         IN  Owed(n) = Owed(w) /\ n.balance = w.balance
<1> DEFINE o == w.deposits[a]
           d == Unlocked(o)
           n == [w EXCEPT !.deposits[a] = Unlocked(@)]
<1>1. o \in DepositInfo
  BY DEF World
<1>2. d.deposit + d.stake = o.deposit + o.stake
  BY <1>1 DEF Unlocked, DepositInfo
<1>3. n.deposits = [w.deposits EXCEPT ![a] = d] /\ n.balance = w.balance
  BY DEF World
<1>4. Owed(w)[a] = o.deposit + o.stake
  BY DEF Owed
<1> HIDE DEF d, n
<1>5. Owed(n) = [Owed(w) EXCEPT ![a] = d.deposit + d.stake]
  BY <1>3 DEF Owed, World
<1>6. Owed(n) = Owed(w)
  BY <1>2, <1>4, <1>5 DEF Owed
<1>7. QED  BY <1>3, <1>6 DEF n

(* Money goes out of the caller's credit: withdrawStake ... *)
LEMMA StakeDebits ==
  ASSUME NEW w \in World, NEW a \in Addr
  PROVE  LET v == w.deposits[a].stake
             n == [WithoutStake(w, a) EXCEPT !.balance = @ - v]
         IN  Owed(n) = [Owed(w) EXCEPT ![a] = Owed(w)[a] - v] /\ n.balance = w.balance - v
<1> DEFINE o == w.deposits[a]
           v == w.deposits[a].stake
           d == [o EXCEPT !.unstakeDelaySec = 0, !.withdrawTime = 0, !.stake = 0]
           n == [WithoutStake(w, a) EXCEPT !.balance = @ - v]
<1>1. o \in DepositInfo
  BY DEF World
<1>2. d.deposit + d.stake = (o.deposit + o.stake) - v
  BY <1>1 DEF DepositInfo
<1>3. n.deposits = [w.deposits EXCEPT ![a] = d] /\ n.balance = w.balance - v
  BY DEF WithoutStake, World
<1>4. Owed(w)[a] = o.deposit + o.stake
  BY DEF Owed
<1> HIDE DEF d, n
<1>5. Owed(n) = [Owed(w) EXCEPT ![a] = d.deposit + d.stake]
  BY <1>3 DEF Owed, World
<1>6. QED  BY <1>2, <1>3, <1>4, <1>5 DEF n

(* ... and withdrawTo. *)
LEMMA DepositDebits ==
  ASSUME NEW w \in World, NEW a \in Addr, NEW v \in Nat
  PROVE  LET n == [WithoutDeposit(w, a, v) EXCEPT !.balance = @ - v]
         IN  Owed(n) = [Owed(w) EXCEPT ![a] = Owed(w)[a] - v] /\ n.balance = w.balance - v
<1> DEFINE o == w.deposits[a]
           d == [o EXCEPT !.deposit = o.deposit - v]
           n == [WithoutDeposit(w, a, v) EXCEPT !.balance = @ - v]
<1>1. o \in DepositInfo
  BY DEF World
<1>2. d.deposit + d.stake = (o.deposit + o.stake) - v
  BY <1>1 DEF DepositInfo
<1>3. n.deposits = [w.deposits EXCEPT ![a] = d] /\ n.balance = w.balance - v
  BY DEF WithoutDeposit, World
<1>4. Owed(w)[a] = o.deposit + o.stake
  BY DEF Owed
<1> HIDE DEF d, n
<1>5. Owed(n) = [Owed(w) EXCEPT ![a] = d.deposit + d.stake]
  BY <1>3 DEF Owed, World
<1>6. QED  BY <1>2, <1>3, <1>4, <1>5 DEF n

---------------------------------------------------------------------------
(* The ledgers that the worlds of the open withdrawals stand for. *)
Kept(s) == [i \in DOMAIN s |-> Entry(s[i])]

LEMMA KeptAppend ==
  ASSUME NEW s \in Seq(World), NEW w \in World
  PROVE  Kept(Append(s, w)) = Append(Kept(s), Entry(w))
<1> DEFINE r == Append(s, w)
           k == Kept(s)
           e == Entry(w)
<1>1. /\ Len(s) \in Nat /\ DOMAIN s = 1..Len(s)
      /\ DOMAIN r = 1..(Len(s) + 1)
      /\ \A i \in 1..Len(s) : r[i] = s[i]
      /\ r[Len(s) + 1] = w
  OBVIOUS
<1>2. k = [i \in 1..Len(s) |-> Entry(s[i])] /\ Kept(r) = [i \in 1..(Len(s) + 1) |-> Entry(r[i])]
  BY <1>1 DEF Kept
<1> DEFINE T == {e} \cup {Entry(s[i]) : i \in 1..Len(s)}
<1>3. k \in Seq(T) /\ Len(k) = Len(s) /\ e \in T
  BY <1>1, <1>2
<1>4. \A i \in 1..Len(s) : Entry(r[i]) = k[i]
  BY <1>1, <1>2
<1>5. Entry(r[Len(s) + 1]) = e
  BY <1>1
<1> HIDE DEF T, k, e, r
<1>6. /\ DOMAIN Append(k, e) = 1..(Len(s) + 1)
      /\ \A i \in 1..Len(s) : Append(k, e)[i] = k[i]
      /\ Append(k, e)[Len(s) + 1] = e
      /\ Append(k, e) = [i \in 1..(Len(s) + 1) |-> Append(k, e)[i]]
  <2>1. Append(k, e) \in Seq(T) /\ Len(Append(k, e)) = Len(s) + 1
    BY <1>1, <1>3, AppendProperties
  <2>2. DOMAIN Append(k, e) = 1..(Len(s) + 1)
    BY <2>1
  <2>3. \A i \in 1..Len(s) : Append(k, e)[i] = k[i]
    BY <1>1, <1>3, AppendProperties
  <2>4. Append(k, e)[Len(s) + 1] = e
    BY <1>1, <1>3, AppendProperties
  <2>5. Append(k, e) = [i \in 1..(Len(s) + 1) |-> Append(k, e)[i]]
    <3> DEFINE z == Append(k, e)
    <3>1. z \in Seq(T) /\ Len(z) = Len(s) + 1
      BY <2>1
    <3> HIDE DEF z
    <3>2. z = [i \in 1..(Len(s) + 1) |-> z[i]]
      BY <3>1
    <3>3. QED  BY <3>2 DEF z
  <2>6. QED  BY <2>2, <2>3, <2>4, <2>5
<1>7. \A i \in 1..(Len(s) + 1) : Entry(r[i]) = Append(k, e)[i]
  BY <1>1, <1>4, <1>5, <1>6
<1>8. Kept(r) = Append(k, e)
  BY <1>2, <1>6, <1>7
<1>9. QED  BY <1>8 DEF k, e, r

LEMMA KeptPop ==
  ASSUME NEW s \in Seq(World), s # <<>>
  PROVE  /\ Kept(s) # <<>> /\ Len(Kept(s)) = Len(s)
         /\ Kept(s)[Len(s)] = Entry(s[Len(s)])
         /\ Kept(SubSeq(s, 1, Len(s) - 1)) = SubSeq(Kept(s), 1, Len(Kept(s)) - 1)
<1> DEFINE m == Len(s) - 1
           r == SubSeq(s, 1, m)
           k == Kept(s)
           T == {Entry(s[i]) : i \in 1..Len(s)}
<1>1. m \in Nat /\ Len(s) = m + 1 /\ DOMAIN s = 1..(m + 1)
  BY EmptySeq
<1>2. k = [i \in 1..(m + 1) |-> Entry(s[i])]
  BY <1>1 DEF Kept
<1>3. k \in Seq(T) /\ Len(k) = m + 1 /\ k # <<>>
  BY <1>1, <1>2
<1>4. DOMAIN r = 1..m /\ \A i \in 1..m : r[i] = s[i]
  BY <1>1, SubSeqProperties
<1>5. Kept(r) = [i \in 1..m |-> Entry(s[i])]
  BY <1>4 DEF Kept
<1>6. SubSeq(k, 1, m) = [i \in 1..m |-> Entry(s[i])]
  <2>1. /\ SubSeq(k, 1, m) \in Seq(T) /\ Len(SubSeq(k, 1, m)) = m
        /\ \A i \in 1..m : SubSeq(k, 1, m)[i] = k[i]
    BY <1>1, <1>3, SubSeqProperties
  <2>2. \A i \in 1..m : k[i] = Entry(s[i])
    BY <1>1, <1>2
  <2> HIDE DEF k, T
  <2>3. SubSeq(k, 1, m) = [i \in 1..m |-> SubSeq(k, 1, m)[i]]
    BY <2>1
  <2>4. QED  BY <2>1, <2>2, <2>3
<1>7. k[m + 1] = Entry(s[m + 1])
  BY <1>1, <1>2
<1>8. QED
  BY <1>1, <1>3, <1>5, <1>6, <1>7

---------------------------------------------------------------------------
(* Both withdrawals: the debit, and the value arriving. *)
LEMMA SendPaysOut ==
  ASSUME Inv, NEW a \in Callers, NEW to \in Addr, NEW v \in 0..Owed(world)[a],
         NEW w, [w EXCEPT !.balance = @ - v] \in World,
         Owed([w EXCEPT !.balance = @ - v]) = [Owed(world) EXCEPT ![a] = Owed(world)[a] - v],
         [w EXCEPT !.balance = @ - v].balance = world.balance - v, SendValue(w, to, v)
  PROVE  Credits!Next
<1> DEFINE paid == [w EXCEPT !.balance = @ - v]
<1>1. /\ paid.balance = world.balance - v
      /\ Owed(paid) = [Owed(world) EXCEPT ![a] = Owed(world)[a] - v]
      /\ paid \in World
  OBVIOUS
<1>2. /\ world \in World /\ Owed(world) \in [Addr -> Nat] /\ world.balance \in Nat
      /\ a \in Addr /\ a # EntryPoint /\ EntryPoint \in Addr /\ v \in Nat
  <2>1. world \in World
    BY DEF Inv, Good
  <2>2. Owed(world) \in [Addr -> Nat] /\ world.balance \in Nat
    BY <2>1, OwedType DEF World
  <2>3. a \in Addr /\ a # EntryPoint /\ EntryPoint \in Addr
    BY AddrAssumption DEF Callers, AddrAssumption
  <2>4. v \in Nat
    BY <2>2, <2>3
  <2>5. QED  BY <2>1, <2>2, <2>3, <2>4
<1> HIDE DEF paid
<1>3. CASE to = EntryPoint
  <2>1. world' = Receive(paid, EntryPoint, v) /\ frames' = frames
    BY <1>3 DEF SendValue, paid
  <2>2. paid \in World
    BY <1>1
  <2>3. /\ Owed(world') = [Owed(paid) EXCEPT ![EntryPoint] = Owed(paid)[EntryPoint] + v]
        /\ world'.balance = paid.balance + v
    BY <1>2, <2>1, <2>2, ReceiveCredits
  <2>4. Credits!Transfer(a, EntryPoint, v)
    <3>1. world'.balance = world.balance
      BY <1>1, <1>2, <2>3
    <3>2. Owed(world') = [Owed(world) EXCEPT ![a] = @ - v, ![EntryPoint] = @ + v]
      BY <1>1, <1>2, <2>3
    <3>3. QED  BY <2>1, <3>1, <3>2 DEF Credits!Transfer, Owed
  <2>5. QED  BY <1>2, <2>4 DEF Credits!Next
<1>4. CASE to # EntryPoint
  <2>1. world' = paid /\ frames' = Append(frames, world)
    BY <1>4 DEF SendValue, paid
  <2>2. Kept(frames)' = Append(Kept(frames), Entry(world))
    BY <1>2, <2>1, KeptAppend DEF Inv
  <2>3. Credits!PayOut(a, v)
    BY <1>1, <1>2, <2>1, <2>2 DEF Credits!PayOut, Kept, Entry
  <2>4. QED  BY <1>2, <2>3 DEF Credits!Next
<1>5. QED  BY <1>3, <1>4

(* The contract starts with no credit at all. *)
LEMMA StartsEmpty == Init => Credits!Init
<1> SUFFICES ASSUME Init PROVE Credits!Init
  OBVIOUS
<1>1. Owed(world) = [a \in Addr |-> 0] /\ world.balance = 0
  BY DEF Init, EmptyWorld, NoDeposit, Owed
<1>2. [i \in DOMAIN frames |-> Entry(frames[i])] = <<>>
  BY DEF Init
<1>3. QED  BY <1>1, <1>2 DEF Credits!Init

(* Every step of the contract is one of the ledger's, or moves nothing. *)
LEMMA StepsImplement == Inv /\ [Next]_vars => [Credits!Next]_(Credits!ledger)
<1> SUFFICES ASSUME Inv, [Next]_vars PROVE [Credits!Next]_(Credits!ledger)
  OBVIOUS
<1>0. /\ world \in World /\ Owed(world) \in [Addr -> Nat] /\ world.balance \in Nat
      /\ Good(world, now) /\ frames \in Seq(World) /\ Callers \subseteq Addr
      /\ Amounts \subseteq Nat /\ Delays \subseteq Nat /\ Supply \in Nat
  BY OwedType, AmountsAssumption, BoundAssumption
  DEF Inv, Good, World, Callers, AmountsAssumption, BoundAssumption
<1>1. ASSUME NEW a \in Addr, NEW v \in Nat, v <= Supply - world.balance,
             Owed(world') = [Owed(world) EXCEPT ![a] = Owed(world)[a] + v],
             world'.balance = world.balance + v, frames' = frames
      PROVE  Credits!Next
  <2>1. Credits!PayIn(a, v)
    BY <1>1 DEF Credits!PayIn, Owed
  <2>2. v \in 0..(Supply - world.balance)
    BY <1>0, <1>1
  <2>3. QED  BY <2>1, <2>2 DEF Credits!Next
<1>2. ASSUME NEW account \in Addr, NEW v \in Amounts, DepositTo(account, v)
      PROVE  Credits!Next
  <2>1. /\ v \in Nat /\ v <= Supply - world.balance /\ frames' = frames
        /\ world' = Receive(world, account, v)
    BY <1>0, <1>2 DEF DepositTo, Payable
  <2>2. /\ Owed(world') = [Owed(world) EXCEPT ![account] = Owed(world)[account] + v]
        /\ world'.balance = world.balance + v
    <3>1. /\ Owed(Receive(world, account, v)) = [Owed(world) EXCEPT ![account] = Owed(world)[account] + v]
          /\ Receive(world, account, v).balance = world.balance + v
      <4>1. world \in World /\ v \in Nat
        BY <1>0, <2>1
      <4>2. QED  BY <4>1, ReceiveCredits
    <3>2. QED  BY <2>1, <3>1
  <2>3. QED  BY <1>1, <2>1, <2>2
<1>3. ASSUME NEW a \in Callers, NEW v \in Amounts, NEW delay \in Delays, AddStake(a, v, delay)
      PROVE  Credits!Next
  <2>1. /\ a \in Addr /\ v \in Nat /\ v <= Supply - world.balance /\ delay \in Nat
        /\ CanAddStake(world.deposits[a], v, delay)
        /\ world' = LockedStake(world, a, v, delay) /\ frames' = frames
    BY <1>0, <1>3 DEF AddStake, Payable
  <2>2. /\ Owed(world') = [Owed(world) EXCEPT ![a] = Owed(world)[a] + v]
        /\ world'.balance = world.balance + v
    BY <1>0, <2>1, AddStakeCredits
  <2>3. QED  BY <1>1, <2>1, <2>2
<1>4. ASSUME NEW a \in Callers, UnlockStake(a)
      PROVE  UNCHANGED Credits!ledger
  <2>1. Owed(world') = Owed(world) /\ world'.balance = world.balance /\ frames' = frames
    BY <1>0, <1>4, UnlockCredits DEF UnlockStake
  <2>2. QED  BY <2>1 DEF Credits!ledger, Owed
<1>5. ASSUME NEW a \in Callers, NEW to \in Addr, WithdrawStake(a, to)
      PROVE  Credits!Next
  <2> DEFINE v == world.deposits[a].stake
             w == WithoutStake(world, a)
             paid == [w EXCEPT !.balance = @ - v]
  <2>1. Owed(paid) = [Owed(world) EXCEPT ![a] = Owed(world)[a] - v] /\ paid.balance = world.balance - v
    BY <1>0, StakeDebits
  <2>2. v \in 0..Owed(world)[a]
    <3>1. world.deposits[a].deposit \in Nat /\ v \in Nat
      BY <1>0 DEF World, DepositInfo
    <3>2. Owed(world)[a] = world.deposits[a].deposit + v
      BY <1>0 DEF Owed
    <3>3. QED  BY <3>1, <3>2
  <2>3. paid \in World
    <3>1. Good(paid, now)
      BY <1>0, <1>5, StakePaidGood DEF WithdrawStake, Inv
    <3>2. QED  BY <3>1 DEF Good
  <2>4. SendValue(w, to, v)
    BY <1>5 DEF WithdrawStake
  <2> HIDE DEF v, w
  <2>5. QED  BY <2>1, <2>2, <2>3, <2>4, SendPaysOut
<1>6. ASSUME NEW a \in Callers, NEW to \in Addr, NEW v \in Amounts, WithdrawTo(a, to, v)
      PROVE  Credits!Next
  <2> DEFINE w == WithoutDeposit(world, a, v)
             paid == [w EXCEPT !.balance = @ - v]
  <2>1. Owed(paid) = [Owed(world) EXCEPT ![a] = Owed(world)[a] - v] /\ paid.balance = world.balance - v
    BY <1>0, DepositDebits
  <2>2. v \in 0..Owed(world)[a]
    <3>1. world.deposits[a].deposit \in Nat /\ world.deposits[a].stake \in Nat
      BY <1>0 DEF World, DepositInfo
    <3>2. v <= world.deposits[a].deposit
      BY <1>6 DEF WithdrawTo, CanWithdraw
    <3>3. v \in Nat /\ Owed(world)[a] = world.deposits[a].deposit + world.deposits[a].stake
      BY <1>0 DEF Owed
    <3>4. QED  BY <3>1, <3>2, <3>3
  <2>3. paid \in World
    <3>1. Good(paid, now)
      BY <1>0, <1>6, DepositPaidGood DEF WithdrawTo
    <3>2. QED  BY <3>1 DEF Good
  <2>4. SendValue(w, to, v)
    BY <1>6 DEF WithdrawTo
  <2> HIDE DEF w
  <2>5. QED  BY <2>1, <2>2, <2>3, <2>4, SendPaysOut
<1>7. CASE RecipientReturns
  <2>1. Kept(frames)' = SubSeq(Kept(frames), 1, Len(Kept(frames)) - 1) /\ Kept(frames) # <<>>
    BY <1>0, <1>7, KeptPop DEF RecipientReturns
  <2>2. Credits!Taken
    BY <1>7, <2>1 DEF RecipientReturns, Credits!Taken, Kept, Owed
  <2>3. QED  BY <2>2 DEF Credits!Next
<1>8. CASE RecipientReverts
  <2>1. /\ Kept(frames)' = SubSeq(Kept(frames), 1, Len(Kept(frames)) - 1) /\ Kept(frames) # <<>>
        /\ Kept(frames)[Len(Kept(frames))] = Entry(world')
    BY <1>0, <1>8, KeptPop DEF RecipientReverts
  <2>2. Credits!SentBack
    <3> DEFINE k == Kept(frames)
    <3>1. k[Len(k)].credit = Owed(world') /\ k[Len(k)].vault = world'.balance
      BY <2>1 DEF Entry
    <3> HIDE DEF k
    <3>2. /\ k # <<>> /\ Owed(world)' = k[Len(k)].credit /\ world'.balance = k[Len(k)].vault
          /\ Kept(frames)' = SubSeq(k, 1, Len(k) - 1)
      BY <2>1, <3>1 DEF Owed, k
    <3>3. QED  BY <3>2 DEF Credits!SentBack, Kept, k
  <2>3. QED  BY <2>2 DEF Credits!Next
<1>9. CASE NextTransaction
  BY <1>9 DEF NextTransaction, Credits!ledger, Owed, Entry
<1>10. CASE UNCHANGED vars
  BY <1>10 DEF vars, Credits!ledger, Owed, Entry
<1>11. QED
  BY <1>2, <1>3, <1>4, <1>5, <1>6, <1>7, <1>8, <1>9, <1>10 DEF Next, Operation

(***************************************************************************)
(* The contract implements the ledger: for any addresses, amounts and      *)
(* delays, and however recipients call back, no call takes money from a    *)
(* credit but its caller's, nor more than is there.                        *)
(***************************************************************************)
THEOREM LedgerImplemented == Spec => ImplementsLedger
BY StartsEmpty, StepsImplement, Invariance, PTL DEF Spec, ImplementsLedger, Credits!Spec
===========================================================================

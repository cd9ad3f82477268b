-------------------------- MODULE Accounts_proofs --------------------------
(***************************************************************************)
(* Who makes accounts act, for any people, accounts, calls and operations, *)
(* and whatever unknown code calls back.                                   *)
(*                                                                         *)
(* A call that reverts brings back the world from before it, so what holds *)
(* of the world must hold of every world that a call in progress has       *)
(* saved.  These worlds are in an order: each is later than the one saved  *)
(* before it, and a later world knows all the owners and keys of an        *)
(* earlier one.  Who may speak for an account in a world may in any later  *)
(* one.  So it is enough to know, of each account that makes calls, that   *)
(* somebody who may speak for it asked for them when it was called.        *)
(*                                                                         *)
(* The second part is about what remains of a transaction: whoever reverts *)
(* and whoever catches it, the calls that returned are whole batches.      *)
(*                                                                         *)
(* The third part is about what accounts spend: in a transaction no more   *)
(* than was asked of them, by somebody who may speak for them.             *)
(***************************************************************************)
EXTENDS Accounts, Wei_proofs, SequenceTheorems, TLAPS

Holders == Addr \cup {NoOne}

Fields == {"code", "initialized", "owner", "key", "impl", "balance", "deposit", "used", "done"}

FrameFields == {"self", "call", "rest", "saved", "op", "at"}

---------------------------------------------------------------------------
(* What holds of a world. *)

Typed(w) ==
  /\ DOMAIN w = Fields
  /\ w.initialized \subseteq w.code /\ w.code \subseteq Accounts
  /\ w.owner \in [Accounts -> Holders] /\ w.key \in [Accounts -> Holders]
  /\ DOMAIN w.impl = Accounts
  /\ w.balance \in [Addr -> Nat] /\ w.deposit \in [Addr -> Nat]
  /\ w.used \subseteq Operations

(* An account without an owner has no key either; the factory's have both. *)
Owned(w) ==
  /\ \A a \in Accounts \ w.initialized : w.owner[a] = NoOne /\ w.key[a] = NoOne
  /\ \A a \in Simple \cap w.code : a \in w.initialized /\ w.owner[a] = MadeFor[a]

World(w) == Typed(w) /\ Owned(w)

(* v is w, or the world after it: what is initialized stays as it is. *)
Later(w, v) ==
  /\ w.initialized \subseteq v.initialized
  /\ \A a \in w.initialized : v.owner[a] = w.owner[a] /\ v.key[a] = w.key[a]

(* The two differ in nothing that says who speaks for whom. *)
SameRights(w, v) ==
  /\ v.code = w.code /\ v.initialized = w.initialized
  /\ v.owner = w.owner /\ v.key = w.key

(* p may speak for a, or code that nobody knows may. *)
Speaks(p, w, a) == p \in Principals(w, a) \/ Principals(w, a) \cap Unknown # {}

(* What is not as in the world b is so because p may speak for it. *)
Kept(p, b, w) == \A a \in b.initialized : w.impl[a] # b.impl[a] => Speaks(p, w, a)

(* The EntryPoint has what it owes: the deposits, and held besides. *)
Backed(w, held) == Total(w.deposit) + held <= w.balance[EntryPoint]

---------------------------------------------------------------------------
(* Who may speak for an account. *)

LEMMA Kinds ==
  /\ IsFiniteSet(Addr) /\ NoOne \notin Addr /\ EntryPoint \in Addr
  /\ EntryPoint \notin Accounts /\ EntryPoint \notin Unknown /\ EntryPoint \notin People
  /\ People \cap Accounts = {} /\ People \cap Unknown = {} /\ Unknown \cap Accounts = {}
  /\ Accounts \subseteq Addr /\ People \subseteq Addr /\ Unknown \subseteq Addr
  /\ Simple \subseteq Accounts /\ Falcon \subseteq Accounts /\ Simple \cap Falcon = {}
<1>1. IsFiniteSet(Addr)
  <2>1. IsFiniteSet(People) /\ IsFiniteSet(Unknown) /\ IsFiniteSet(Accounts) /\ IsFiniteSet({EntryPoint})
    BY AccountsAssumption, FS_Singleton DEF AccountsAssumption, Accounts
  <2>2. IsFiniteSet(People \cup Unknown)
    BY <2>1, FS_Union
  <2>3. IsFiniteSet(People \cup Unknown \cup Accounts)
    BY <2>1, <2>2, FS_Union
  <2>4. QED  BY <2>1, <2>3, FS_Union DEF Addr
<1>2. QED  BY <1>1, AccountsAssumption DEF AccountsAssumption, Addr, Accounts

LEMMA SpeaksForItself ==
  ASSUME NEW w, NEW a \in Holders
  PROVE  a \in Principals(w, a)
BY DEF Principals, Holders

(* Whoever may speak for an account's owner may speak for the account. *)
LEMMA SpeaksForOwned ==
  ASSUME NEW w, NEW a \in Accounts, NEW b, b = w.owner[a] \/ b = w.key[a]
  PROVE  Principals(w, b) \subseteq Principals(w, a)
BY DEF Principals

LEMMA OwnerSpeaks ==
  ASSUME NEW w, Typed(w), NEW a \in Accounts
  PROVE  w.owner[a] \in Principals(w, a) /\ w.key[a] \in Principals(w, a)
<1>1. w.owner[a] \in Holders /\ w.key[a] \in Holders
  BY DEF Typed
<1>2. QED  BY <1>1, SpeaksForItself, SpeaksForOwned

(* Nobody who may speak for an account is silenced. *)
LEMMA StillSpeaks ==
  ASSUME NEW w, NEW v, World(w), World(v), Later(w, v), NEW a \in Holders,
         NEW p \in Principals(w, a), p # NoOne
  PROVE  p \in Principals(v, a)
<1>1. p \in Holders
  BY DEF Principals, Holders
<1>2. ASSUME NEW S \in SUBSET Holders, a \in S,
             \A b \in S \cap Accounts : v.owner[b] \in S /\ v.key[b] \in S
      PROVE  p \in S
  <2> DEFINE T == S \cup {NoOne}
  <2>1. T \in SUBSET Holders /\ a \in T
    BY <1>2 DEF Holders
  <2>2. ASSUME NEW b \in T \cap Accounts
        PROVE  w.owner[b] \in T /\ w.key[b] \in T
    <3>1. b \in S \cap Accounts
      BY Kinds
    <3>2. CASE b \in w.initialized
      BY <1>2, <3>1, <3>2 DEF Later
    <3>3. CASE b \notin w.initialized
      BY <3>1, <3>3 DEF World, Owned
    <3>4. QED  BY <3>2, <3>3
  <2> HIDE DEF T
  <2>3. p \in T
    BY <2>1, <2>2 DEF Principals, Holders
  <2>4. QED  BY <2>3 DEF T
<1>3. QED  BY <1>1, <1>2 DEF Principals, Holders

LEMMA SpeaksLater ==
  ASSUME NEW w, NEW v, World(w), World(v), Later(w, v), NEW a \in Accounts,
         NEW p, p # NoOne, Speaks(p, w, a)
  PROVE  Speaks(p, v, a)
<1>1. a \in Holders /\ NoOne \notin Unknown
  BY Kinds DEF Holders
<1>2. \A q \in Principals(w, a) : q # NoOne => q \in Principals(v, a)
  BY <1>1, StillSpeaks
<1>3. QED  BY <1>1, <1>2 DEF Speaks

LEMMA LaterTransitive ==
  ASSUME NEW u, NEW v, NEW w, Later(u, v), Later(v, w)
  PROVE  Later(u, w)
BY DEF Later

LEMMA SameLater ==
  ASSUME NEW w, NEW v, SameRights(w, v)
  PROVE  Later(w, v) /\ Later(v, w)
BY DEF SameRights, Later

(* The worlds of one and the same set of rights. *)
LEMMA SameSpeaks ==
  ASSUME NEW w, NEW v, SameRights(w, v), NEW p, NEW a
  PROVE  Speaks(p, v, a) <=> Speaks(p, w, a)
BY DEF SameRights, Speaks, Principals

LEMMA SameKept ==
  ASSUME NEW p, NEW b, NEW w, NEW v, Kept(p, b, w), SameRights(w, v), v.impl = w.impl
  PROVE  Kept(p, b, v)
BY SameSpeaks DEF Kept

LEMMA LaterKept ==
  ASSUME NEW p, p # NoOne, NEW b, NEW w, NEW v, World(b), World(w), World(v), Later(w, v),
         Kept(p, b, w), v.impl = w.impl
  PROVE  Kept(p, b, v)
<1>1. b.initialized \subseteq Accounts
  BY DEF World, Typed
<1>2. QED  BY <1>1, SpeaksLater DEF Kept

LEMMA SameWorld ==
  ASSUME NEW w, NEW v, World(w), SameRights(w, v), DOMAIN v = Fields, v.impl = w.impl,
         v.balance \in [Addr -> Nat], v.deposit \in [Addr -> Nat], v.used \subseteq Operations
  PROVE  World(v)
BY DEF World, Typed, Owned, SameRights

---------------------------------------------------------------------------
(* What the functions do to a world. *)

(* Value moves: the accounts stay, and nothing is owed to anybody else. *)
LEMMA MovedWorld ==
  ASSUME NEW w, World(w), NEW from \in Addr, NEW to \in Addr, NEW v \in Nat, v <= w.balance[from]
  PROVE  LET m == Moved(w, from, to, v)
         IN  /\ World(m) /\ SameRights(w, m) /\ m.impl = w.impl /\ m.deposit = w.deposit
             /\ m.balance[EntryPoint] =
                  IF from = to THEN w.balance[EntryPoint]
                  ELSE IF from = EntryPoint THEN w.balance[EntryPoint] - v
                  ELSE IF to = EntryPoint THEN w.balance[EntryPoint] + v
                  ELSE w.balance[EntryPoint]
<1> DEFINE m == Moved(w, from, to, v)
<1>1. Typed(w) /\ EntryPoint \in Addr
  BY Kinds DEF World
<1>2. CASE from = to
  <2>1. m = w
    BY <1>2 DEF Moved
  <2>2. SameRights(w, w)
    BY DEF SameRights
  <2>3. QED  BY <1>2, <2>1, <2>2
<1>3. CASE from # to
  <2> DEFINE b == [[w.balance EXCEPT ![from] = @ - v] EXCEPT ![to] = @ + v]
  <2>1. /\ DOMAIN m = Fields /\ m.balance = b
        /\ m.code = w.code /\ m.initialized = w.initialized /\ m.owner = w.owner /\ m.key = w.key
        /\ m.impl = w.impl /\ m.deposit = w.deposit /\ m.used = w.used
    BY <1>1, <1>3 DEF Moved, Typed, Fields
  <2> HIDE DEF m
  <2>2. b \in [Addr -> Nat]
    <3>1. w.balance \in [Addr -> Nat] /\ w.balance[from] - v \in Nat
      BY <1>1 DEF Typed
    <3>2. [w.balance EXCEPT ![from] = @ - v] \in [Addr -> Nat]
      BY <3>1
    <3>3. QED  BY <3>2
  <2>3. b[EntryPoint] = IF from = EntryPoint THEN w.balance[EntryPoint] - v
                        ELSE IF to = EntryPoint THEN w.balance[EntryPoint] + v
                        ELSE w.balance[EntryPoint]
    BY <1>1, <1>3 DEF Typed
  <2> HIDE DEF b
  <2>4. SameRights(w, m)
    BY <2>1 DEF SameRights
  <2>5. World(m)
    BY <1>1, <2>1, <2>2, <2>4, SameWorld DEF Typed
  <2>6. m.balance[EntryPoint] =
          IF from = to THEN w.balance[EntryPoint]
          ELSE IF from = EntryPoint THEN w.balance[EntryPoint] - v
          ELSE IF to = EntryPoint THEN w.balance[EntryPoint] + v
          ELSE w.balance[EntryPoint]
    BY <1>3, <2>1, <2>3
  <2>7. QED  BY <2>1, <2>4, <2>5, <2>6 DEF m
<1>4. QED  BY <1>2, <1>3

WithDeposit(w, a, d) == [w EXCEPT !.deposit[a] = d]

(* A deposit is changed, and what is owed with it. *)
LEMMA DepositChanged ==
  ASSUME NEW w, World(w), NEW a \in Addr, NEW d \in Nat
  PROVE  LET m == WithDeposit(w, a, d)
         IN
         /\ World(m) /\ SameRights(w, m) /\ m.impl = w.impl /\ m.balance = w.balance
         /\ m.used = w.used /\ m.deposit[a] = d
         /\ Total(m.deposit) = Total(w.deposit) - w.deposit[a] + d
         /\ Total(m.deposit) \in Nat /\ Total(w.deposit) \in Nat
<1> DEFINE m == WithDeposit(w, a, d)
<1>1. Typed(w)
  BY DEF World
<1>2. /\ DOMAIN m = Fields /\ m.deposit = [w.deposit EXCEPT ![a] = d]
      /\ m.code = w.code /\ m.initialized = w.initialized /\ m.owner = w.owner /\ m.key = w.key
      /\ m.impl = w.impl /\ m.balance = w.balance /\ m.used = w.used
  BY <1>1 DEF Typed, Fields, WithDeposit
<1> HIDE DEF m
<1>3. /\ w.deposit \in [Addr -> Nat] /\ m.deposit \in [Addr -> Nat] /\ m.deposit[a] = d
      /\ \A b \in Addr : b # a => m.deposit[b] = w.deposit[b]
  BY <1>1, <1>2 DEF Typed
<1>4. SameRights(w, m)
  BY <1>2 DEF SameRights
<1>5. World(m)
  BY <1>1, <1>2, <1>3, <1>4, SameWorld DEF Typed
<1> DEFINE f == w.deposit
           g == m.deposit
<1>6. Total(g) = Total(f) - f[a] + g[a]
  <2>1. IsFiniteSet(Addr) /\ f \in [Addr -> Nat] /\ g \in [Addr -> Nat] /\ \A b \in Addr : b # a => g[b] = f[b]
    BY <1>3, Kinds
  <2> HIDE DEF f, g
  <2>2. QED  BY <2>1, TotalUpdate
<1>7. Total(g) \in Nat /\ Total(f) \in Nat
  BY <1>3, TotalType, Kinds
<1>8. QED  BY <1>2, <1>3, <1>4, <1>5, <1>6, <1>7 DEF m

(* What the EntryPoint gets for a deposit is owed to its holder. *)
LEMMA DepositGrows ==
  ASSUME NEW u, World(u), NEW a \in Addr, NEW v \in Nat
  PROVE  LET m == [u EXCEPT !.deposit[a] = u.deposit[a] + v]
         IN  /\ World(m) /\ SameRights(u, m) /\ m.impl = u.impl /\ m.balance = u.balance
             /\ Total(m.deposit) = Total(u.deposit) + v
             /\ Total(u.deposit) \in Nat
<1>1. u.deposit[a] \in Nat /\ u.deposit[a] + v \in Nat
  BY DEF World, Typed
<1>2. ASSUME NEW d \in Nat, d = u.deposit[a] + v
      PROVE  LET m == WithDeposit(u, a, d)
             IN  /\ World(m) /\ SameRights(u, m) /\ m.impl = u.impl /\ m.balance = u.balance
                 /\ Total(m.deposit) = Total(u.deposit) + v
                 /\ Total(u.deposit) \in Nat
  <2> DEFINE m == WithDeposit(u, a, d)
  <2>1. World(m) /\ SameRights(u, m) /\ m.impl = u.impl /\ m.balance = u.balance
    BY DepositChanged
  <2>2. Total(u.deposit) \in Nat
    BY DepositChanged
  <2>3. Total(m.deposit) = Total(u.deposit) - u.deposit[a] + d
    BY DepositChanged
  <2> HIDE DEF m
  <2>4. QED  BY <1>1, <1>2, <2>1, <2>2, <2>3 DEF m
<1>3. QED  BY <1>1, <1>2 DEF WithDeposit

LEMMA DepositedWorld ==
  ASSUME NEW w, World(w), NEW from \in Addr, NEW a \in Addr, NEW v \in Nat, v <= w.balance[from],
         NEW held \in Int, Backed(w, held), from = EntryPoint => v = 0
  PROVE  LET m == Deposited(w, from, a, v)
         IN  World(m) /\ SameRights(w, m) /\ m.impl = w.impl /\ Backed(m, held)
<1>1. EntryPoint \in Addr /\ w.balance[EntryPoint] \in Nat
  BY Kinds DEF World, Typed
<1>2. ASSUME NEW u, u = Moved(w, from, EntryPoint, v)
      PROVE  /\ World(u) /\ SameRights(w, u) /\ u.impl = w.impl /\ u.deposit = w.deposit
             /\ u.balance[EntryPoint] = w.balance[EntryPoint] + v
  BY <1>1, <1>2, MovedWorld
<1>3. ASSUME NEW u, u = Moved(w, from, EntryPoint, v),
             NEW m, m = [u EXCEPT !.deposit[a] = u.deposit[a] + v]
      PROVE  World(m) /\ SameRights(w, m) /\ m.impl = w.impl /\ Backed(m, held)
  <2>1. /\ World(u) /\ SameRights(w, u) /\ u.impl = w.impl /\ u.deposit = w.deposit
        /\ u.balance[EntryPoint] = w.balance[EntryPoint] + v
    BY <1>2, <1>3
  <2>2. /\ World(m) /\ SameRights(u, m) /\ m.impl = u.impl /\ m.balance = u.balance
        /\ Total(m.deposit) = Total(u.deposit) + v
        /\ Total(u.deposit) \in Nat
    BY <2>1, <1>3, DepositGrows
  <2>3. SameRights(w, m) /\ m.impl = w.impl
    BY <2>1, <2>2 DEF SameRights
  <2>4. Backed(m, held)
    BY <1>1, <2>1, <2>2 DEF Backed
  <2>5. QED  BY <2>2, <2>3, <2>4
<1>4. QED  BY <1>3 DEF Deposited

(* initialize, of an account that is not: a later world. *)
LEMMA InitializedWorld ==
  ASSUME NEW w, World(w), NEW a \in w.code \ w.initialized, NEW owner \in Holders, NEW key \in Holders
  PROVE  LET m == Initialized(w, a, owner, key)
         IN  World(m) /\ Later(w, m) /\ m.impl = w.impl /\ m.balance = w.balance /\ m.deposit = w.deposit
<1> DEFINE m == Initialized(w, a, owner, key)
<1>1. Typed(w) /\ a \in Accounts /\ a \notin w.initialized /\ a \notin Simple
  BY DEF World, Typed, Owned
<1>2. /\ DOMAIN m = Fields /\ m.initialized = w.initialized \cup {a}
      /\ m.owner = [w.owner EXCEPT ![a] = owner] /\ m.key = [w.key EXCEPT ![a] = key]
      /\ m.code = w.code /\ m.impl = w.impl /\ m.balance = w.balance /\ m.deposit = w.deposit
      /\ m.used = w.used
  BY <1>1 DEF Typed, Fields, Initialized
<1> HIDE DEF m
<1>3. Typed(m)
  BY <1>1, <1>2 DEF Typed
<1>4. \A b \in Accounts : b # a => m.owner[b] = w.owner[b] /\ m.key[b] = w.key[b]
  BY <1>1, <1>2 DEF Typed
<1>5. Owned(m)
  BY <1>1, <1>2, <1>4, Kinds DEF World, Owned
<1>6. Later(w, m)
  BY <1>1, <1>2, <1>4 DEF Later, Typed
<1>7. QED  BY <1>2, <1>3, <1>5, <1>6 DEF World, m

(* The factory's account has its owner from the start. *)
LEMMA CreatedWorld ==
  ASSUME World(world), NEW a \in Simple, a \notin world.code
  PROVE  LET m == createAccount(a)
         IN  World(m) /\ Later(world, m) /\ m.impl = world.impl
             /\ m.balance = world.balance /\ m.deposit = world.deposit
<1> DEFINE m == createAccount(a)
           u == [world EXCEPT !.code = @ \cup {a}]
           owner == MadeFor[a]
<1>1. Typed(world) /\ a \in Accounts /\ a \notin world.initialized
  BY Kinds DEF World, Typed
<1>2. owner \in Holders
  BY AccountsAssumption, Kinds DEF AccountsAssumption, Holders
<1>3. /\ DOMAIN u = Fields /\ u.code = world.code \cup {a}
      /\ u.initialized = world.initialized /\ u.owner = world.owner /\ u.key = world.key
      /\ u.impl = world.impl /\ u.balance = world.balance /\ u.deposit = world.deposit
      /\ u.used = world.used
  BY <1>1 DEF Typed, Fields
<1>4. m = Initialized(u, a, owner, owner)
  BY DEF createAccount
<1> HIDE DEF u, m, owner
<1>5. /\ DOMAIN m = Fields /\ m.initialized = world.initialized \cup {a}
      /\ m.owner = [world.owner EXCEPT ![a] = owner] /\ m.key = [world.key EXCEPT ![a] = owner]
      /\ m.code = world.code \cup {a} /\ m.impl = world.impl /\ m.balance = world.balance
      /\ m.deposit = world.deposit /\ m.used = world.used
  BY <1>3, <1>4 DEF Initialized, Fields
<1>6. Typed(m)
  BY <1>1, <1>2, <1>5 DEF Typed
<1>7. \A b \in Accounts : b # a => m.owner[b] = world.owner[b] /\ m.key[b] = world.key[b]
  BY <1>1, <1>5 DEF Typed
<1>8. m.owner[a] = MadeFor[a]
  BY <1>1, <1>5 DEF Typed, owner
<1>9. Owned(m)
  BY <1>1, <1>5, <1>7, <1>8, Kinds DEF World, Owned
<1>10. Later(world, m)
  BY <1>1, <1>5, <1>7 DEF Later, Typed
<1>11. QED  BY <1>5, <1>6, <1>9, <1>10 DEF World, m

(* withdrawTo: what is paid out is not a deposit any more, but still there. *)
LEMMA DepositFalls ==
  ASSUME NEW u, World(u), NEW a \in Addr, NEW v \in Nat, v <= u.deposit[a],
         NEW held \in Int, Backed(u, held)
  PROVE  LET m == [u EXCEPT !.deposit[a] = u.deposit[a] - v]
         IN  World(m) /\ SameRights(u, m) /\ m.impl = u.impl /\ m.balance = u.balance
             /\ m.used = u.used /\ Backed(m, held + v)
<1>1. u.deposit[a] \in Nat /\ u.deposit[a] - v \in Nat /\ u.balance[EntryPoint] \in Nat
  BY Kinds DEF World, Typed
<1>2. ASSUME NEW d \in Nat, d = u.deposit[a] - v
      PROVE  LET m == WithDeposit(u, a, d)
             IN  World(m) /\ SameRights(u, m) /\ m.impl = u.impl /\ m.balance = u.balance
                 /\ m.used = u.used /\ Backed(m, held + v)
  <2> DEFINE m == WithDeposit(u, a, d)
  <2>1. World(m) /\ SameRights(u, m) /\ m.impl = u.impl /\ m.balance = u.balance /\ m.used = u.used
    BY ZenonT(30), DepositChanged
  <2>2. Total(u.deposit) \in Nat
    BY DepositChanged
  <2>3. Total(m.deposit) = Total(u.deposit) - u.deposit[a] + d
    BY DepositChanged
  <2> HIDE DEF m
  <2>4. Backed(m, held + v)
    BY <1>1, <1>2, <2>1, <2>2, <2>3 DEF Backed
  <2>5. QED  BY <2>1, <2>4 DEF m
<1>3. QED  BY <1>1, <1>2 DEF WithDeposit

(* upgradeToAndCall, which somebody asked for who may. *)
LEMMA UpgradedWorld ==
  ASSUME NEW w, World(w), NEW p, NEW b, World(b), Kept(p, b, w), NEW a \in Accounts, Speaks(p, w, a), NEW impl
  PROVE  LET m == [w EXCEPT !.impl[a] = impl]
         IN  /\ World(m) /\ SameRights(w, m) /\ Kept(p, b, m)
             /\ m.balance = w.balance /\ m.deposit = w.deposit
<1> DEFINE m == [w EXCEPT !.impl[a] = impl]
<1>1. Typed(w)
  BY DEF World
<1>2. /\ DOMAIN m = Fields /\ m.impl = [w.impl EXCEPT ![a] = impl]
      /\ m.code = w.code /\ m.initialized = w.initialized /\ m.owner = w.owner /\ m.key = w.key
      /\ m.deposit = w.deposit /\ m.balance = w.balance /\ m.used = w.used
  BY <1>1 DEF Typed, Fields
<1> HIDE DEF m
<1>3. SameRights(w, m)
  BY <1>2 DEF SameRights
<1>4. World(m)
  BY <1>1, <1>2 DEF World, Typed, Owned
<1>5. Kept(p, b, m)
  BY <1>1, <1>2, <1>3, SameSpeaks DEF Kept, Typed
<1>6. QED  BY <1>2, <1>3, <1>4, <1>5 DEF m

---------------------------------------------------------------------------
(* The calls in progress: w is the world, s the frames, rev tells whether   *)
(* the innermost reverts; p asked for the transaction, which started in b.  *)

IsFrame(f) == DOMAIN f = FrameFields /\ f.self \in Addr /\ f.rest \in Seq(AllCalls)

(* Somebody's own call, or the operation that somebody signed. *)
Sent(p, f) ==
  /\ p \in People
  /\ \/ f.self = p /\ f.at = "called"
     \/ /\ f.self = EntryPoint /\ f.at \in {"create", "validate", "executed"}
        /\ f.op \in Operations /\ f.op.signer = p
        /\ \A i \in DOMAIN f.rest : f.rest[i].dest = f.op.sender /\ f.rest[i].value = 0

(* The code that runs makes the calls it was asked for by who may ask.      *)
Entitled(p, f) ==
  f.rest # <<>> =>
    \/ f.self \in Unknown \cup {p, EntryPoint}
    \/ f.self \in Accounts /\ Speaks(p, f.saved, f.self)

(* withdrawTo, before it pays or after. *)
Paying(f) == f.self = EntryPoint /\ f.at = "called"

OnePayment(f) == f.rest = <<>> \/ (Len(f.rest) = 1 /\ f.rest[1].fn = "receive")

Executed(s) == s # <<>> /\ s[1].at = "executed"

(* What the EntryPoint has to give besides the deposits. *)
Held(s) == IF Executed(s) THEN s[1].op.prefund ELSE 0
Due(f) == IF Paying(f) /\ f.rest # <<>> THEN f.rest[1].value ELSE 0
Pending(s, rev) == IF s # <<>> /\ ~rev THEN Due(s[Len(s)]) ELSE 0

Worlds(p, b, w) == World(w) /\ World(b) /\ Later(b, w) /\ Kept(p, b, w) /\ Backed(b, 0)

Stack(p, s, rev) ==
  /\ \E S : s \in Seq(S)
  /\ rev \in BOOLEAN /\ (rev => s # <<>>)
  /\ \A d \in 1..Len(s) : IsFrame(s[d])
  /\ s # <<>> => Sent(p, s[1])
  /\ \A d \in 2..Len(s) : s[d].at = "called"
  /\ \A d \in 1..Len(s) : d < Len(s) \/ ~rev => Entitled(p, s[d])
  /\ \A d \in 1..Len(s) : d < Len(s) /\ Paying(s[d]) => s[d].rest = <<>>
  /\ s # <<>> /\ ~rev /\ Paying(s[Len(s)]) => OnePayment(s[Len(s)])

(* The worlds that may come back. *)
Saved(p, b, w, s) ==
  /\ \A d \in 2..Len(s) :
       /\ World(s[d].saved) /\ Kept(p, b, s[d].saved) /\ Backed(s[d].saved, Held(s))
       /\ Later(b, s[d].saved) /\ Later(s[d].saved, w)
  /\ \A d \in 2..Len(s), e \in 2..Len(s) : d <= e => Later(s[d].saved, s[e].saved)

(* The signature that was accepted is accepted in all of them. *)
Accepted(p, w, s) ==
  Executed(s) =>
    /\ Speaks(p, w, s[1].op.sender)
    /\ \A d \in 2..Len(s) : Speaks(p, s[d].saved, s[1].op.sender)

Progress(p, b, w, s, rev) ==
  /\ Worlds(p, b, w) /\ Stack(p, s, rev) /\ Saved(p, b, w, s) /\ Accepted(p, w, s)
  /\ Backed(w, Held(s) + Pending(s, rev))

(* The inductive invariant. *)
IInv == Progress(tx.by, start, world, frames, reverting)

LEMMA PersonSent ==
  ASSUME NEW p, NEW f, Sent(p, f)
  PROVE  p \in People /\ p # NoOne /\ p \in Addr /\ p \notin Accounts /\ p # EntryPoint
BY Kinds DEF Sent

LEMMA HeldNat ==
  ASSUME NEW p, NEW s, s # <<>> => Sent(p, s[1])
  PROVE  Held(s) \in Nat
<1>1. \A op \in Operations : op.prefund \in Nat
  BY AccountsAssumption DEF AccountsAssumption
<1>2. CASE Executed(s)
  <2>1. s # <<>> /\ s[1].at = "executed"
    BY <1>2 DEF Executed
  <2>2. s[1].op \in Operations
    BY <2>1 DEF Sent
  <2>3. QED  BY <1>1, <1>2, <2>2 DEF Held
<1>3. QED  BY <1>2 DEF Held

LEMMA DueNat ==
  ASSUME NEW f, IsFrame(f)
  PROVE  Due(f) \in Nat
<1>1. \A c \in AllCalls : c.value \in Nat
  BY AccountsAssumption DEF AccountsAssumption
<1>2. f.rest # <<>> => f.rest[1] \in AllCalls
  BY HeadTailProperties DEF IsFrame
<1>3. QED  BY <1>1, <1>2 DEF Due

Push(s, g, f) == Append([s EXCEPT ![Len(s)] = g], f)

LEMMA PushedStack ==
  ASSUME NEW S, NEW s \in Seq(S), s # <<>>, NEW g, NEW f,
         NEW t, t = Push(s, g, f)
  PROVE  /\ \E T : t \in Seq(T)
         /\ Len(s) \in Nat \ {0} /\ Len(t) = Len(s) + 1 /\ t # <<>>
         /\ t[Len(s) + 1] = f /\ t[Len(s)] = g
         /\ \A d \in 1..Len(s) : d < Len(s) => t[d] = s[d]
<1> DEFINE u == [s EXCEPT ![Len(s)] = g]
           T == S \cup {g, f}
<1>1. Len(s) \in Nat /\ Len(s) # 0
  BY LenProperties, EmptySeq
<1>2. s \in Seq(T) /\ g \in T /\ f \in T
  BY SeqMonotonic
<1>3. /\ u \in Seq(T) /\ Len(u) = Len(s) /\ u[Len(s)] = g
      /\ \A d \in 1..Len(s) : d < Len(s) => u[d] = s[d]
  BY <1>1, <1>2, ExceptSeq
<1> HIDE DEF u, T
<1>4. /\ t \in Seq(T) /\ t # <<>> /\ Len(t) = Len(u) + 1 /\ t[Len(u) + 1] = f
      /\ \A d \in 1..Len(u) : t[d] = u[d]
  <2>1. t = Append(u, f)
    BY DEF u, Push
  <2>2. QED  BY <1>2, <1>3, <2>1, AppendProperties
<1>5. QED  BY <1>1, <1>3, <1>4

LEMMA PoppedStack ==
  ASSUME NEW S, NEW s \in Seq(S), Len(s) > 1, NEW t, t = Front(s)
  PROVE  /\ \E T : t \in Seq(T)
         /\ Len(s) \in Nat /\ Len(t) = Len(s) - 1 /\ t # <<>>
         /\ \A d \in 1..(Len(s) - 1) : t[d] = s[d]
<1>1. Len(s) \in Nat /\ 1 <= Len(s) - 1 + 1 /\ Len(s) - 1 \in 1..Len(s)
  BY LenProperties
<1>2. t = SubSeq(s, 1, Len(s) - 1)
  BY DEF Front
<1>3. t \in Seq(S) /\ Len(t) = Len(s) - 1 /\ \A d \in 1..(Len(s) - 1) : t[d] = s[d]
  BY <1>1, <1>2, SubSeqProperties
<1>4. t # <<>>
  BY <1>1, <1>3
<1>5. QED  BY <1>1, <1>3, <1>4

---------------------------------------------------------------------------
(* What keeps the invariant. *)

(* What is held for an operation, or is to be paid, is there. *)
LEMMA HeldBacked ==
  ASSUME NEW p, NEW b, NEW w, NEW s, NEW rev \in BOOLEAN, Progress(p, b, w, s, rev)
  PROVE  /\ Held(s) \in Nat /\ Pending(s, rev) \in Nat
         /\ Backed(w, Held(s)) /\ Backed(w, Held(s) + Pending(s, rev))
<1> DEFINE held == Held(s)
           pending == Pending(s, rev)
<1>1. held \in Nat
  BY HeldNat DEF Progress, Stack
<1>2. pending \in Nat
  <2>1. ASSUME s # <<>>
        PROVE  IsFrame(s[Len(s)])
    <3>1. PICK S : s \in Seq(S)
      BY DEF Progress, Stack
    <3>2. Len(s) \in 1..Len(s)
      BY <2>1, <3>1, LenProperties, EmptySeq
    <3>3. QED  BY <3>2 DEF Progress, Stack
  <2>2. QED  BY <2>1, DueNat DEF Pending
<1>3. Backed(w, held + pending)
  BY DEF Progress
<1>4. Total(w.deposit) \in Nat /\ w.balance[EntryPoint] \in Nat
  BY Kinds, TotalType DEF Progress, Worlds, World, Typed
<1> HIDE DEF held, pending
<1>5. Backed(w, held)
  BY <1>1, <1>2, <1>3, <1>4 DEF Backed
<1>6. QED  BY <1>1, <1>2, <1>3, <1>5 DEF held, pending

(* A call: f runs or reverts, in the world v, and g is left to its caller. *)
LEMMA Pushed ==
  ASSUME NEW p, NEW b, NEW w, NEW s, Progress(p, b, w, s, FALSE), s # <<>>,
         NEW g, NEW f, NEW t, t = Push(s, g, f),
         NEW v, NEW rev \in BOOLEAN,
         IsFrame(g), g.self = s[Len(s)].self, g.at = s[Len(s)].at, g.op = s[Len(s)].op,
         g.saved = s[Len(s)].saved, s[Len(s)].rest = <<>> => g.rest = <<>>,
         Sent(p, s[Len(s)]) => Sent(p, g), Paying(g) => g.rest = <<>>,
         IsFrame(f), f.at = "called", f.saved = w,
         World(v), Later(w, v), Kept(p, b, v), Backed(v, Held(s) + (IF rev THEN 0 ELSE Due(f))),
         ~rev => Entitled(p, f) /\ (Paying(f) => OnePayment(f))
  PROVE  Progress(p, b, v, t, rev)
<1> DEFINE n == Len(s)
<1>1. PICK S : s \in Seq(S)
  BY DEF Progress, Stack
<1>2. /\ \E T : t \in Seq(T)
      /\ n \in Nat \ {0} /\ Len(t) = n + 1 /\ t # <<>>
      /\ t[n + 1] = f /\ t[n] = g
      /\ \A d \in 1..n : d < n => t[d] = s[d]
  BY <1>1, PushedStack
<1>3. p # NoOne /\ Sent(p, s[1])
  BY PersonSent DEF Progress, Stack
<1>4. Sent(p, t[1]) /\ t[1].at = s[1].at /\ t[1].op = s[1].op
  <2>1. CASE n = 1
    BY <1>2, <1>3, <2>1
  <2>2. CASE n # 1
    BY <1>2, <1>3, <2>2
  <2>3. QED  BY <2>1, <2>2
<1>5. (Executed(t) <=> Executed(s)) /\ Held(t) = Held(s)
  BY <1>2, <1>4 DEF Executed, Held
<1>6. Worlds(p, b, v)
  BY LaterTransitive DEF Progress, Worlds
<1>7. \A d \in 1..n : t[d].saved = s[d].saved /\ t[d].self = s[d].self /\ t[d].at = s[d].at
  BY <1>2
<1>8. Stack(p, t, rev)
  <2>1. \A d \in 1..n : IsFrame(s[d]) /\ Entitled(p, s[d])
    BY <1>2 DEF Progress, Stack
  <2>2. \A d \in 1..(n + 1) : IsFrame(t[d])
    BY <1>2, <2>1
  <2>3. \A d \in 2..(n + 1) : t[d].at = "called"
    <3>1. \A d \in 2..n : s[d].at = "called"
      BY DEF Progress, Stack
    <3>2. QED  BY <1>2, <1>7, <3>1
  <2>4. \A d \in 1..(n + 1) : d < n + 1 \/ ~rev => Entitled(p, t[d])
    <3>1. Entitled(p, g)
      BY <1>2, <2>1 DEF Entitled
    <3>2. QED  BY <1>2, <2>1, <3>1
  <2>5. \A d \in 1..(n + 1) : d < n + 1 /\ Paying(t[d]) => t[d].rest = <<>>
    <3>1. \A d \in 1..n : d < n /\ Paying(s[d]) => s[d].rest = <<>>
      BY DEF Progress, Stack
    <3>2. QED  BY <1>2, <3>1
  <2>6. QED  BY <1>2, <1>4, <2>2, <2>3, <2>4, <2>5 DEF Stack
<1>9. Saved(p, b, v, t)
  <2>1. \A d \in 2..n :
          /\ World(s[d].saved) /\ Kept(p, b, s[d].saved) /\ Backed(s[d].saved, Held(s))
          /\ Later(b, s[d].saved) /\ Later(s[d].saved, w)
    BY DEF Progress, Saved
  <2>2. World(w) /\ Kept(p, b, w) /\ Later(b, w) /\ Backed(w, Held(s))
    <3>1. World(w) /\ Kept(p, b, w) /\ Later(b, w)
      BY DEF Progress, Worlds
    <3>2. Backed(w, Held(s))
      BY HeldBacked
    <3>3. QED  BY <3>1, <3>2
  <2>3. \A d \in 2..n : Later(s[d].saved, v)
    BY <2>1, LaterTransitive
  <2>4. \A d \in 2..(n + 1) :
          /\ World(t[d].saved) /\ Kept(p, b, t[d].saved) /\ Backed(t[d].saved, Held(t))
          /\ Later(b, t[d].saved) /\ Later(t[d].saved, w) /\ Later(t[d].saved, v)
    <3>1. ASSUME NEW d \in 2..(n + 1), d # n + 1
          PROVE  /\ World(t[d].saved) /\ Kept(p, b, t[d].saved) /\ Backed(t[d].saved, Held(t))
                 /\ Later(b, t[d].saved) /\ Later(t[d].saved, w) /\ Later(t[d].saved, v)
      BY <1>2, <1>5, <1>7, <2>1, <2>3, <3>1
    <3>2. Later(w, w)
      BY DEF Later
    <3>3. QED  BY <1>2, <1>5, <2>2, <3>1, <3>2
  <2>5. \A d \in 2..(n + 1), e \in 2..(n + 1) : d <= e => Later(t[d].saved, t[e].saved)
    <3>1. \A d \in 2..n, e \in 2..n : d <= e => Later(s[d].saved, s[e].saved)
      BY DEF Progress, Saved
    <3>2. QED  BY SMTT(30), <1>2, <1>7, <2>4, <3>1
  <2>6. QED  BY <1>2, <2>4, <2>5 DEF Saved
<1>10. Accepted(p, v, t)
  <2>1. SUFFICES ASSUME Executed(t)
                 PROVE  Speaks(p, v, s[1].op.sender) /\ \A d \in 2..(n + 1) : Speaks(p, t[d].saved, s[1].op.sender)
    BY <1>2, <1>4 DEF Accepted
  <2>2. /\ Speaks(p, w, s[1].op.sender)
        /\ \A d \in 2..n : Speaks(p, s[d].saved, s[1].op.sender)
    BY <1>5, <2>1 DEF Progress, Accepted
  <2>3. s[1].op.sender \in Accounts
    <3>1. s[1].op \in Operations
      BY <1>3, <1>5, <2>1 DEF Sent, Executed
    <3>2. QED  BY <3>1, AccountsAssumption DEF AccountsAssumption
  <2>4. Speaks(p, v, s[1].op.sender)
    BY <1>3, <2>2, <2>3, SpeaksLater DEF Progress, Worlds
  <2>5. QED  BY <1>2, <1>7, <2>2, <2>4
<1>11. Pending(t, rev) = IF rev THEN 0 ELSE Due(f)
  BY <1>2 DEF Pending
<1>12. QED  BY <1>5, <1>6, <1>8, <1>9, <1>10, <1>11 DEF Progress

(* The end of a call, in the world v: as it left it, or from before it. *)
LEMMA Popped ==
  ASSUME NEW p, NEW b, NEW w, NEW s, NEW r, Progress(p, b, w, s, r), Len(s) > 1,
         NEW t, t = Front(s), NEW v, NEW rev \in BOOLEAN,
         World(v), Kept(p, b, v), Later(b, v), Backed(v, Held(s)),
         \A d \in 2..Len(s) : d < Len(s) => Later(s[d].saved, v),
         Executed(s) => Speaks(p, v, s[1].op.sender)
  PROVE  Progress(p, b, v, t, rev)
<1> DEFINE n == Len(s)
<1>1. PICK S : s \in Seq(S)
  BY DEF Progress, Stack
<1>2. /\ \E T : t \in Seq(T)
      /\ n \in Nat /\ Len(t) = n - 1 /\ t # <<>> /\ n > 1
      /\ \A d \in 1..(n - 1) : t[d] = s[d]
  BY <1>1, PoppedStack
<1>3. s # <<>> /\ Sent(p, s[1]) /\ t[1] = s[1]
  <2>1. s # <<>>
    BY <1>1, <1>2, EmptySeq
  <2>2. QED  BY <1>2, <2>1 DEF Progress, Stack
<1>4. (Executed(t) <=> Executed(s)) /\ Held(t) = Held(s)
  BY <1>2, <1>3 DEF Executed, Held
<1>5. Worlds(p, b, v)
  BY DEF Progress, Worlds
<1>6. \A d \in 1..(n - 1) : t[d].saved = s[d].saved
  BY <1>2
<1>7. Paying(t[n - 1]) => t[n - 1].rest = <<>>
  <2>1. \A d \in 1..n : d < n /\ Paying(s[d]) => s[d].rest = <<>>
    BY DEF Progress, Stack
  <2>2. QED  BY <1>2, <2>1
<1>8. Stack(p, t, rev)
  <2>1. \A d \in 1..(n - 1) : IsFrame(t[d]) /\ Entitled(p, t[d])
    <3>1. \A d \in 1..n : IsFrame(s[d]) /\ (d < n => Entitled(p, s[d]))
      BY DEF Progress, Stack
    <3>2. QED  BY <1>2, <3>1
  <2>2. \A d \in 2..(n - 1) : t[d].at = "called"
    <3>1. \A d \in 2..n : s[d].at = "called"
      BY DEF Progress, Stack
    <3>2. QED  BY <1>2, <3>1
  <2>3. \A d \in 1..(n - 1) : d < n - 1 /\ Paying(t[d]) => t[d].rest = <<>>
    <3>1. \A d \in 1..n : d < n /\ Paying(s[d]) => s[d].rest = <<>>
      BY DEF Progress, Stack
    <3>2. QED  BY <1>2, <3>1
  <2>4. QED  BY <1>2, <1>3, <1>7, <2>1, <2>2, <2>3 DEF Stack, OnePayment
<1>9. Saved(p, b, v, t)
  <2>1. \A d \in 2..n :
          /\ World(s[d].saved) /\ Kept(p, b, s[d].saved) /\ Backed(s[d].saved, Held(s))
          /\ Later(b, s[d].saved)
    BY DEF Progress, Saved
  <2>2. \A d \in 2..n, e \in 2..n : d <= e => Later(s[d].saved, s[e].saved)
    BY DEF Progress, Saved
  <2>3. \A d \in 2..(n - 1) :
          /\ World(t[d].saved) /\ Kept(p, b, t[d].saved) /\ Backed(t[d].saved, Held(t))
          /\ Later(b, t[d].saved) /\ Later(t[d].saved, v)
    BY <1>2, <1>4, <1>6, <2>1
  <2>4. \A d \in 2..(n - 1), e \in 2..(n - 1) : d <= e => Later(t[d].saved, t[e].saved)
    BY <1>2, <1>6, <2>2
  <2>5. QED  BY <1>2, <2>3, <2>4 DEF Saved
<1>10. Accepted(p, v, t)
  <2>1. Executed(s) => \A d \in 2..n : Speaks(p, s[d].saved, s[1].op.sender)
    BY DEF Progress, Accepted
  <2>2. QED  BY <1>2, <1>3, <1>4, <1>6, <2>1 DEF Accepted
<1>11. Pending(t, rev) = 0
  BY <1>2, <1>7 DEF Pending, Due
<1>12. Held(t) + Pending(t, rev) = Held(s)
  <2>1. Held(s) \in Nat
    BY <1>3, HeldNat
  <2>2. QED  BY <1>4, <1>11, <2>1
<1>13. QED  BY <1>5, <1>8, <1>9, <1>10, <1>12 DEF Progress

(* The end of a transaction. *)
LEMMA Emptied ==
  ASSUME NEW p, NEW b, NEW v, Worlds(p, b, v), Backed(v, 0)
  PROVE  Progress(p, b, v, <<>>, FALSE)
<1> DEFINE s == <<>>
<1>1. (\E S : s \in Seq(S)) /\ Len(s) = 0 /\ s = <<>>
  OBVIOUS
<1> HIDE DEF s
<1>2. Held(s) = 0 /\ Pending(s, FALSE) = 0 /\ ~Executed(s)
  BY <1>1 DEF Held, Pending, Executed
<1>3. Stack(p, s, FALSE)
  BY <1>1 DEF Stack
<1>4. Saved(p, b, v, s)
  BY <1>1 DEF Saved
<1>5. Held(s) + Pending(s, FALSE) = 0
  <2> DEFINE pending == Pending(s, FALSE)
  <2>1. Held(s) = 0 /\ pending = 0
    BY <1>2
  <2> HIDE DEF pending
  <2>2. Held(s) + pending = 0
    BY <2>1
  <2>3. QED  BY <2>2 DEF pending
<1>6. Progress(p, b, v, s, FALSE)
  BY <1>2, <1>3, <1>4, <1>5 DEF Accepted, Progress
<1>7. QED  BY <1>6 DEF s

(* One frame only: there is no saved world yet. *)
LEMMA Single ==
  ASSUME NEW p, NEW b, NEW v, NEW s, \E S : s \in Seq(S), Len(s) = 1, Worlds(p, b, v),
         IsFrame(s[1]), Sent(p, s[1]), Executed(s) => Speaks(p, v, s[1].op.sender),
         Backed(v, Held(s))
  PROVE  Progress(p, b, v, s, FALSE)
<1>1. s # <<>> /\ 2..Len(s) = {} /\ 1..Len(s) = {1}
  BY EmptySeq
<1>2. ~Paying(s[1]) /\ Entitled(p, s[1])
  BY PersonSent DEF Sent, Paying, Entitled
<1>3. Stack(p, s, FALSE)
  BY <1>1, <1>2 DEF Stack
<1>4. Saved(p, b, v, s) /\ Accepted(p, v, s)
  BY <1>1 DEF Saved, Accepted
<1>5. Pending(s, FALSE) = 0
  BY <1>2 DEF Pending, Due
<1>6. Held(s) + Pending(s, FALSE) = Held(s)
  <2> DEFINE pending == Pending(s, FALSE)
  <2>1. Held(s) \in Nat /\ pending = 0
    BY <1>1, <1>5, HeldNat
  <2> HIDE DEF pending
  <2>2. Held(s) + pending = Held(s)
    BY <2>1
  <2>3. QED  BY <2>2 DEF pending
<1>7. QED  BY <1>3, <1>4, <1>6 DEF Progress

(* The innermost call fails. *)
LEMMA Failing ==
  ASSUME NEW p, NEW b, NEW w, NEW s, Progress(p, b, w, s, FALSE), s # <<>>
  PROVE  Progress(p, b, w, s, TRUE)
<1>1. PICK S : s \in Seq(S)
  BY DEF Progress, Stack
<1>2. Stack(p, s, TRUE)
  BY DEF Progress, Stack
<1>3. Held(s) + Pending(s, TRUE) = Held(s)
  <2> DEFINE none == Pending(s, TRUE)
  <2>1. Held(s) \in Nat /\ none = 0
    BY HeldBacked DEF Pending
  <2> HIDE DEF none
  <2>2. Held(s) + none = Held(s)
    BY <2>1
  <2>3. QED  BY <2>2 DEF none
<1>4. Backed(w, Held(s))
  BY HeldBacked
<1>5. QED  BY <1>2, <1>3, <1>4 DEF Progress

---------------------------------------------------------------------------
(* The steps. *)

(* Who makes the call c. *)
LEMMA Caller ==
  ASSUME IInv, NEW c, Makes(c)
  PROVE  /\ ~reverting /\ frames # <<>> /\ Depth \in Nat \ {0} /\ c \in AllCalls
         /\ IsFrame(Top) /\ Entitled(tx.by, Top) /\ (Paying(Top) => OnePayment(Top))
         /\ Top.self \notin Unknown => Top.rest # <<>>
         /\ Paying(Top) => c.fn = "receive" /\ c.value = Due(Top)
         /\ Top.self = EntryPoint /\ ~Paying(Top) =>
              /\ Depth = 1 /\ Executed(frames)
              /\ c.dest = frames[1].op.sender /\ c.value = 0
<1>1. PICK S : frames \in Seq(S)
  BY DEF IInv, Progress, Stack
<1>2. Depth \in Nat \ {0} /\ frames # <<>> /\ ~reverting /\ Depth \in 1..Depth
  BY <1>1, LenProperties, EmptySeq DEF Makes, Running, Depth
<1>3. IsFrame(Top) /\ Entitled(tx.by, Top) /\ (Paying(Top) => OnePayment(Top))
  BY <1>2 DEF IInv, Progress, Stack, Top, Depth
<1>4. Top.self \notin Unknown => Top.rest # <<>> /\ c = Top.rest[1] /\ c \in AllCalls
  BY <1>3, HeadTailProperties DEF Makes, IsFrame
<1>5. c \in AllCalls
  BY <1>4, AccountsAssumption DEF Makes, AccountsAssumption
<1>6. Paying(Top) => c.fn = "receive" /\ c.value = Due(Top)
  BY <1>3, <1>4, Kinds DEF Paying, OnePayment, Due
<1>7. ASSUME Top.self = EntryPoint, ~Paying(Top)
      PROVE  Depth = 1 /\ Executed(frames) /\ c.dest = frames[1].op.sender /\ c.value = 0
  <2>1. Top.at = "executed"
    BY <1>7 DEF Makes, Paying
  <2>2. Depth = 1
    <3>1. \A d \in 2..Depth : frames[d].at = "called"
      BY DEF IInv, Progress, Stack, Depth
    <3>2. CASE Depth # 1
      BY <1>2, <2>1, <3>1, <3>2 DEF Top
    <3>3. QED  BY <3>2
  <2>3. Top = frames[1] /\ Sent(tx.by, frames[1]) /\ Executed(frames)
    BY <1>2, <2>1, <2>2 DEF IInv, Progress, Stack, Top, Executed
  <2>4. Top.rest # <<>> /\ c = Top.rest[1] /\ 1 \in DOMAIN Top.rest
    <3>1. Top.rest # <<>> /\ c = Top.rest[1] /\ Top.rest \in Seq(AllCalls)
      BY <1>3, <1>4, <1>7, Kinds DEF IsFrame
    <3>2. QED  BY <3>1, EmptySeq, LenProperties
  <2>5. c.dest = frames[1].op.sender /\ c.value = 0
    BY <2>1, <2>3, <2>4 DEF Sent
  <2>6. QED  BY <2>2, <2>3, <2>5
<1>8. QED  BY <1>2, <1>3, <1>4, <1>5, <1>6, <1>7

(* What the caller is to make after the call. *)
Left(f) == [f EXCEPT !.rest = IF @ = <<>> THEN @ ELSE Tail(@)]

LEMMA Remaining ==
  ASSUME NEW f, IsFrame(f), Paying(f) => OnePayment(f),
         NEW g, g = Left(f)
  PROVE  /\ IsFrame(g) /\ g.self = f.self /\ g.at = f.at /\ g.op = f.op /\ g.saved = f.saved
         /\ f.rest = <<>> => g.rest = <<>>
         /\ Paying(g) => g.rest = <<>>
         /\ \A p : Sent(p, f) => Sent(p, g)
<1> DEFINE rest == IF f.rest = <<>> THEN f.rest ELSE Tail(f.rest)
<1>1. /\ DOMAIN g = FrameFields /\ g.rest = rest
      /\ g.self = f.self /\ g.at = f.at /\ g.op = f.op /\ g.saved = f.saved
  BY DEF IsFrame, FrameFields, Left
<1>2. f.rest \in Seq(AllCalls)
  BY DEF IsFrame
<1>3. /\ rest \in Seq(AllCalls) /\ (f.rest = <<>> => rest = <<>>)
      /\ \A i \in DOMAIN rest : \E j \in DOMAIN f.rest : rest[i] = f.rest[j]
  <2>1. CASE f.rest = <<>>
    BY <1>2, <2>1
  <2>2. CASE f.rest # <<>>
    <3>1. /\ Tail(f.rest) \in Seq(AllCalls) /\ Len(Tail(f.rest)) = Len(f.rest) - 1
          /\ \A i \in 1..Len(Tail(f.rest)) : Tail(f.rest)[i] = f.rest[i + 1]
      BY <1>2, <2>2, HeadTailProperties
    <3>2. DOMAIN f.rest = 1..Len(f.rest) /\ DOMAIN Tail(f.rest) = 1..Len(Tail(f.rest)) /\ Len(f.rest) \in Nat
      BY <1>2, <3>1, LenProperties
    <3>3. QED  BY <2>2, <3>1, <3>2
  <2>3. QED  BY <2>1, <2>2
<1>4. Paying(g) => rest = <<>>
  <2>1. Paying(g) => Paying(f)
    BY <1>1 DEF Paying
  <2>2. Len(f.rest) = 1 => rest = <<>>
    <3>1. CASE f.rest # <<>> /\ Len(f.rest) = 1
      <4>1. Tail(f.rest) \in Seq(AllCalls) /\ Len(Tail(f.rest)) = 0
        BY <1>2, <3>1, HeadTailProperties
      <4>2. QED  BY <3>1, <4>1, EmptySeq
    <3>2. QED  BY <3>1
  <2>3. QED  BY <2>1, <2>2 DEF OnePayment
<1> HIDE DEF rest
<1>5. ASSUME NEW p, Sent(p, f)
      PROVE  Sent(p, g)
  BY <1>1, <1>3, <1>5 DEF Sent
<1>6. QED  BY <1>1, <1>3, <1>4, <1>5 DEF IsFrame

Worth(dest, next) == IF dest = EntryPoint /\ next # <<>> THEN next[1].value ELSE 0

Allowed(dest, next) ==
  next # <<>> =>
    \/ dest \in Accounts /\ Speaks(tx.by, world, dest)
    \/ dest = EntryPoint /\ Len(next) = 1 /\ next[1].fn = "receive"

(* A call, if what the callee leaves and is to make is as it should be. *)
LEMMA CallStep ==
  ASSUME IInv, NEW c, Makes(c), NEW conditions, NEW v, NEW next \in Seq(AllCalls),
         Runs(c, conditions, v, next),
         c.value <= world.balance[Top.self] /\ conditions =>
           /\ World(v) /\ Later(world, v) /\ Kept(tx.by, start, v)
           /\ Backed(v, Held(frames) + Worth(c.dest, next))
           /\ Allowed(c.dest, next)
  PROVE  IInv'
<1> DEFINE runs == c.value <= world.balance[Top.self] /\ conditions
           f == Frame(c.dest, c, next, NoOne, "called")
           g == Left(Top)
<1>1. /\ ~reverting /\ frames # <<>> /\ c \in AllCalls /\ Depth = Len(frames)
      /\ IsFrame(Top) /\ (Paying(Top) => OnePayment(Top)) /\ Top = frames[Len(frames)]
  BY Caller DEF Depth, Top
<1>2. /\ IsFrame(g) /\ g.self = Top.self /\ g.at = Top.at /\ g.op = Top.op /\ g.saved = Top.saved
      /\ Top.rest = <<>> => g.rest = <<>>
      /\ Paying(g) => g.rest = <<>>
      /\ \A p : Sent(p, Top) => Sent(p, g)
  BY <1>1, Remaining
<1>3. /\ DOMAIN f = FrameFields /\ f.self = c.dest /\ f.rest = next /\ f.saved = world /\ f.at = "called"
  BY DEF Frame, FrameFields
<1>4. /\ frames' = Push(frames, g, f)
      /\ world' = (IF runs THEN v ELSE world) /\ reverting' = ~runs
      /\ tx' = tx /\ start' = start
  BY DEF Runs, Push, Depth, Left
<1>5. Progress(tx.by, start, world, frames, FALSE)
  <2>1. reverting = FALSE
    BY <1>1 DEF IInv, Progress, Stack
  <2>2. QED  BY <2>1 DEF IInv
<1>6. runs => /\ World(v) /\ Later(world, v) /\ Kept(tx.by, start, v)
              /\ Backed(v, Held(frames) + Worth(c.dest, next))
              /\ Allowed(c.dest, next)
  OBVIOUS
<1> HIDE DEF f, g, runs
<1>7. c.dest \in Addr
  BY <1>1, AccountsAssumption DEF AccountsAssumption
<1>8. IsFrame(f)
  BY <1>3, <1>7 DEF IsFrame
<1>9. Due(f) = Worth(c.dest, next)
  BY <1>3 DEF Due, Paying, Worth
<1>10. Held(frames) \in Nat /\ Backed(world, Held(frames))
  BY <1>5, HeldBacked
<1>11. CASE runs
  <2>1. Entitled(tx.by, f) /\ (Paying(f) => OnePayment(f))
    BY <1>3, <1>6, <1>11, Kinds DEF Allowed, Entitled, Paying, OnePayment
  <2>2. Backed(v, Held(frames) + Due(f))
    BY <1>6, <1>9, <1>11
  <2>3. Progress(tx.by, start, v, frames', FALSE)
    BY <1>1, <1>2, <1>3, <1>4, <1>5, <1>6, <1>8, <1>11, <2>1, <2>2, Pushed
  <2>4. reverting' = FALSE /\ world' = v
    BY <1>4, <1>11
  <2>5. QED  BY <1>4, <2>3, <2>4 DEF IInv
<1>12. CASE ~runs
  <2>1. World(world) /\ Later(world, world) /\ Kept(tx.by, start, world)
    BY <1>5 DEF Progress, Worlds, Later
  <2>2. Backed(world, Held(frames) + 0)
    BY <1>10
  <2>3. Progress(tx.by, start, world, frames', TRUE)
    BY <1>1, <1>2, <1>3, <1>4, <1>5, <1>8, <2>1, <2>2, Pushed
  <2>4. reverting' = TRUE /\ world' = world
    BY <1>4, <1>12
  <2>5. QED  BY <1>4, <2>3, <2>4 DEF IInv
<1>13. QED  BY <1>11, <1>12

(* Whoever calls an account as its owner, as itself or for the EntryPoint   *)
(* has been asked to by somebody who may speak for it.                      *)
LEMMA CallerSpeaks ==
  ASSUME IInv, NEW c, Makes(c), c.dest \in Accounts, c.fn # "receive",
         Top.self \in {EntryPoint, world.owner[c.dest], c.dest}
  PROVE  Speaks(tx.by, world, c.dest)
<1> DEFINE x == Top.self
           a == c.dest
<1>1. World(world) /\ Sent(tx.by, frames[1]) /\ IsFrame(Top) /\ Entitled(tx.by, Top)
  BY Caller DEF IInv, Progress, Worlds, Stack
<1>2. CASE x = EntryPoint
  <2>1. Executed(frames) /\ a = frames[1].op.sender
    BY <1>2, Caller
  <2>2. QED  BY <2>1 DEF IInv, Progress, Accepted
<1>3. CASE x # EntryPoint
  <2>1. x \in Holders
    BY <1>1 DEF IsFrame, Holders
  <2>2. x \in Unknown \cup {tx.by} \/ (x \in Accounts /\ Speaks(tx.by, Top.saved, x))
    BY <1>1, <1>3, Caller DEF Entitled
  <2>3. x \in Principals(world, x)
    BY <2>1, SpeaksForItself
  <2>4. Speaks(tx.by, world, x)
    <3>1. CASE x \in Unknown \cup {tx.by}
      BY <2>3, <3>1 DEF Speaks
    <3>2. CASE x \in Accounts /\ Speaks(tx.by, Top.saved, x)
      <4>1. tx.by # NoOne /\ frames[1].self \notin Accounts
        BY <1>1, PersonSent, Kinds DEF Sent
      <4>2. Depth \in 2..Depth
        <5>1. Depth \in Nat \ {0}
          BY Caller
        <5>2. Depth # 1
          BY <3>2, <4>1 DEF Top
        <5>3. QED  BY <5>1, <5>2
      <4>3. World(Top.saved) /\ Later(Top.saved, world)
        BY <4>2 DEF IInv, Progress, Saved, Top, Depth
      <4>4. QED  BY <1>1, <3>2, <4>1, <4>3, SpeaksLater
    <3>3. QED  BY <2>2, <3>1, <3>2
  <2>5. CASE x = a
    BY <2>4, <2>5
  <2>6. CASE x = world.owner[a]
    <3>1. Principals(world, x) \subseteq Principals(world, a)
      BY <2>6, SpeaksForOwned
    <3>2. QED  BY <2>4, <3>1 DEF Speaks
  <2>7. QED  BY <1>3, <2>5, <2>6
<1>4. QED  BY <1>2, <1>3

LEMMA Standing ==
  ASSUME IInv
  PROVE  /\ World(world) /\ World(start) /\ Later(start, world) /\ Kept(tx.by, start, world)
         /\ Held(frames) \in Nat /\ Backed(world, Held(frames))
         /\ frames # <<>> => Sent(tx.by, frames[1]) /\ tx.by # NoOne
<1>1. reverting \in BOOLEAN /\ (frames # <<>> => Sent(tx.by, frames[1]))
  BY DEF IInv, Progress, Stack
<1>2. Held(frames) \in Nat /\ Backed(world, Held(frames))
  BY <1>1, HeldBacked DEF IInv
<1>3. frames # <<>> => tx.by # NoOne
  BY <1>1, PersonSent
<1>4. QED  BY <1>1, <1>2, <1>3 DEF IInv, Progress, Worlds

(* The call that the caller makes carries its value along. *)
LEMMA PaidWorld ==
  ASSUME IInv, NEW c, Makes(c), c.dest \in Addr \ {EntryPoint}, c.value <= world.balance[Top.self]
  PROVE  /\ World(Paid(c)) /\ Later(world, Paid(c)) /\ Kept(tx.by, start, Paid(c))
         /\ Backed(Paid(c), Held(frames))
<1> DEFINE m == Paid(c)
           held == Held(frames)
<1>1. World(world) /\ Kept(tx.by, start, world) /\ held \in Nat /\ Backed(world, held)
  BY Standing
<1>2. c.value \in Nat /\ Top.self \in Addr /\ ~reverting /\ frames # <<>>
  BY Caller, AccountsAssumption DEF AccountsAssumption, IsFrame
<1>3. /\ World(m) /\ SameRights(world, m) /\ m.impl = world.impl /\ m.deposit = world.deposit
      /\ m.balance[EntryPoint] =
           IF Top.self = c.dest THEN world.balance[EntryPoint]
           ELSE IF Top.self = EntryPoint THEN world.balance[EntryPoint] - c.value
           ELSE IF c.dest = EntryPoint THEN world.balance[EntryPoint] + c.value
           ELSE world.balance[EntryPoint]
  BY <1>1, <1>2, MovedWorld DEF Paid
<1> HIDE DEF m
<1>4. Later(world, m) /\ Kept(tx.by, start, m)
  BY <1>1, <1>3, SameLater, SameKept
<1>5. Top.self = EntryPoint => Backed(world, held + c.value)
  <2>1. CASE Top.self = EntryPoint /\ Paying(Top)
    <3>1. c.value = Due(Top)
      BY <2>1, Caller
    <3>2. Pending(frames, FALSE) = c.value
      BY <1>2, <3>1 DEF Pending, Top, Depth
    <3>3. reverting = FALSE
      BY <1>2 DEF IInv, Progress, Stack
    <3>4. QED  BY <3>2, <3>3 DEF IInv, Progress
  <2>2. CASE Top.self = EntryPoint /\ ~Paying(Top)
    <3>1. c.value = 0
      BY <2>2, Caller
    <3> HIDE DEF held
    <3>2. held + c.value = held
      BY <1>1, <3>1
    <3>3. QED  BY <1>1, <3>2
  <2>3. QED  BY <2>1, <2>2
<1> HIDE DEF held
<1>6. Backed(m, held)
  <2>1. Total(world.deposit) \in Nat /\ world.balance[EntryPoint] \in Nat
    BY <1>1, Kinds, TotalType DEF World, Typed
  <2>2. CASE Top.self = EntryPoint
    BY <1>1, <1>2, <1>3, <1>5, <2>1, <2>2 DEF Backed
  <2>3. CASE Top.self # EntryPoint
    BY <1>1, <1>2, <1>3, <2>1, <2>3 DEF Backed
  <2>4. QED  BY <2>2, <2>3
<1>7. QED  BY <1>3, <1>4, <1>6 DEF m, held

LEMMA CallsAccount ==
  ASSUME IInv, NEW c, NEW fn, Calling(c, fn)
  PROVE  /\ Makes(c) /\ c.fn = fn /\ c.dest \in Accounts /\ c.dest \in world.code
         /\ c \in AllCalls /\ c.value \in Nat /\ c.dest # EntryPoint /\ c.dest \in Addr
         /\ Top.self \in Addr
BY Caller, Kinds, AccountsAssumption DEF Calling, AccountsAssumption, IsFrame

(* Calls of an account that leave the world to what it then calls. *)
LEMMA PassesOn ==
  ASSUME IInv, NEW c, Makes(c), c.dest \in Accounts, NEW conditions, NEW next \in Seq(AllCalls),
         Runs(c, conditions, world, next),
         conditions => Speaks(tx.by, world, c.dest)
  PROVE  IInv'
<1>1. World(world) /\ Kept(tx.by, start, world) /\ Held(frames) \in Nat /\ Backed(world, Held(frames))
  BY Standing
<1>2. Later(world, world)
  BY DEF Later
<1>3. Held(frames) + Worth(c.dest, next) = Held(frames)
  BY <1>1, Kinds DEF Worth
<1>4. Backed(world, Held(frames) + Worth(c.dest, next))
  BY <1>1, <1>3
<1>5. conditions => Allowed(c.dest, next)
  BY DEF Allowed
<1>6. QED  BY <1>1, <1>2, <1>4, <1>5, CallStep

(* Calls of an account that call nobody. *)
LEMMA Stays ==
  ASSUME IInv, NEW c, Makes(c), NEW conditions, NEW v, Runs(c, conditions, v, <<>>),
         c.value <= world.balance[Top.self] /\ conditions =>
           World(v) /\ Later(world, v) /\ Kept(tx.by, start, v) /\ Backed(v, Held(frames))
  PROVE  IInv'
<1> DEFINE next == <<>>
<1>1. next \in Seq(AllCalls) /\ next = <<>>
  OBVIOUS
<1> HIDE DEF next
<1>2. Held(frames) \in Nat
  BY Standing
<1>3. Held(frames) + Worth(c.dest, next) = Held(frames)
  BY <1>1, <1>2 DEF Worth
<1>4. Allowed(c.dest, next)
  BY <1>1 DEF Allowed
<1>5. Runs(c, conditions, v, next)
  BY <1>1
<1>6. c.value <= world.balance[Top.self] /\ conditions => Backed(v, Held(frames) + Worth(c.dest, next))
  BY <1>3
<1>7. QED  BY <1>1, <1>4, <1>5, <1>6, CallStep

LEMMA ExecuteStep ==
  ASSUME IInv, NEW c, Execute(c) \/ ExecuteBatch(c)
  PROVE  IInv'
<1>1. /\ Makes(c) /\ c.dest \in Accounts /\ c \in AllCalls /\ c.fn \in {"execute", "executeBatch"}
  BY CallsAccount DEF Execute, ExecuteBatch
<1>2. c.calls \in Seq(AllCalls)
  BY <1>1, AccountsAssumption DEF AccountsAssumption, SubCalls
<1>3. _requireFromEntryPointOrOwner(c.dest) => Speaks(tx.by, world, c.dest)
  BY <1>1, CallerSpeaks DEF _requireFromEntryPointOrOwner
<1>4. CASE Execute(c)
  <2> DEFINE conditions == _requireFromEntryPointOrOwner(c.dest) /\ c.value = 0
  <2>1. Runs(c, conditions, world, c.calls) /\ (conditions => Speaks(tx.by, world, c.dest))
    BY <1>3, <1>4 DEF Execute
  <2> HIDE DEF conditions
  <2>2. QED  BY <1>1, <1>2, <2>1, PassesOn
<1>5. CASE ExecuteBatch(c)
  <2> DEFINE conditions == _requireFromEntryPointOrOwner(c.dest) /\ c.value = 0 /\ c.matching
  <2>1. Runs(c, conditions, world, c.calls) /\ (conditions => Speaks(tx.by, world, c.dest))
    BY <1>3, <1>5 DEF ExecuteBatch
  <2> HIDE DEF conditions
  <2>2. QED  BY <1>1, <1>2, <2>1, PassesOn
<1>6. QED  BY <1>4, <1>5

LEMMA WithdrawDepositToStep ==
  ASSUME IInv, NEW c, WithdrawDepositTo(c)
  PROVE  IInv'
<1>1. Makes(c) /\ c.dest \in Accounts /\ c \in AllCalls /\ c.fn = "withdrawDepositTo"
  BY CallsAccount DEF WithdrawDepositTo
<1>2. <<Withdrawal(c)>> \in Seq(AllCalls)
  BY <1>1, AccountsAssumption DEF AccountsAssumption
<1> DEFINE conditions == _onlyOwner(c.dest) /\ c.value = 0
<1>3. Runs(c, conditions, world, <<Withdrawal(c)>>)
  BY DEF WithdrawDepositTo
<1>4. conditions => Speaks(tx.by, world, c.dest)
  BY <1>1, CallerSpeaks DEF _onlyOwner
<1> HIDE DEF conditions
<1>5. QED  BY <1>1, <1>2, <1>3, <1>4, PassesOn

LEMMA InitializeStep ==
  ASSUME IInv, NEW c, Initialize(c)
  PROVE  IInv'
<1> DEFINE v == Initialized(world, c.dest, c.owner, c.key)
           conditions == Initializable(c.dest) /\ c.value = 0
<1>1. Makes(c) /\ c.dest \in world.code /\ c \in AllCalls /\ c.fn = "initialize"
  BY CallsAccount DEF Initialize
<1>2. c.owner \in Holders /\ c.key \in Holders
  BY <1>1, AccountsAssumption DEF AccountsAssumption, Holders
<1>3. Runs(c, conditions, v, <<>>)
  BY DEF Initialize
<1>4. World(world) /\ World(start) /\ Kept(tx.by, start, world) /\ Backed(world, Held(frames)) /\ tx.by # NoOne
  BY <1>1, Standing, Caller
<1>5. ASSUME conditions
      PROVE  World(v) /\ Later(world, v) /\ Kept(tx.by, start, v) /\ Backed(v, Held(frames))
  <2>1. World(v) /\ Later(world, v) /\ v.impl = world.impl /\ v.balance = world.balance /\ v.deposit = world.deposit
    <3>1. c.dest \in world.code \ world.initialized
      BY <1>1, <1>5 DEF Initializable
    <3>2. QED  BY <1>2, <1>4, <3>1, InitializedWorld
  <2> HIDE DEF v
  <2>2. Kept(tx.by, start, v)
    BY <1>4, <2>1, LaterKept
  <2>3. QED  BY <1>4, <2>1, <2>2 DEF Backed
<1> HIDE DEF v, conditions
<1>6. QED  BY <1>1, <1>3, <1>5, Stays

LEMMA AddDepositStep ==
  ASSUME IInv, NEW c, AddDeposit(c)
  PROVE  IInv'
<1> DEFINE v == Deposited(world, Top.self, c.dest, c.value)
<1>1. Makes(c) /\ c.fn = "addDeposit" /\ c.dest \in Addr /\ c.value \in Nat /\ Top.self \in Addr
  BY CallsAccount DEF AddDeposit
<1>2. Top.self = EntryPoint => c.value = 0
  BY <1>1, Caller
<1>3. World(world) /\ Kept(tx.by, start, world) /\ Held(frames) \in Nat /\ Backed(world, Held(frames))
  BY Standing
<1>4. Runs(c, TRUE, v, <<>>)
  BY DEF AddDeposit
<1>5. ASSUME c.value <= world.balance[Top.self]
      PROVE  World(v) /\ Later(world, v) /\ Kept(tx.by, start, v) /\ Backed(v, Held(frames))
  <2>1. World(v) /\ SameRights(world, v) /\ v.impl = world.impl /\ Backed(v, Held(frames))
    BY <1>1, <1>2, <1>3, <1>5, DepositedWorld
  <2> HIDE DEF v
  <2>2. QED  BY <1>3, <2>1, SameLater, SameKept
<1> HIDE DEF v
<1>6. QED  BY <1>1, <1>4, <1>5, Stays

LEMMA UpgradeStep ==
  ASSUME IInv, NEW c, UpgradeToAndCall(c)
  PROVE  IInv'
<1> DEFINE v == [world EXCEPT !.impl[c.dest] = c.impl]
           conditions == _onlyOwner(c.dest) /\ c.value = 0
<1>1. Makes(c) /\ c.dest \in Accounts /\ c.fn = "upgradeToAndCall"
  BY CallsAccount DEF UpgradeToAndCall
<1>2. Runs(c, conditions, v, <<>>)
  BY DEF UpgradeToAndCall
<1>3. World(world) /\ World(start) /\ Kept(tx.by, start, world) /\ Backed(world, Held(frames))
  BY Standing
<1>4. ASSUME conditions
      PROVE  World(v) /\ Later(world, v) /\ Kept(tx.by, start, v) /\ Backed(v, Held(frames))
  <2>1. Speaks(tx.by, world, c.dest)
    BY <1>1, <1>4, CallerSpeaks DEF _onlyOwner
  <2>2. /\ World(v) /\ SameRights(world, v) /\ Kept(tx.by, start, v)
        /\ v.balance = world.balance /\ v.deposit = world.deposit
    BY <1>1, <1>3, <2>1, UpgradedWorld
  <2> HIDE DEF v
  <2>3. QED  BY <1>3, <2>2, SameLater DEF Backed
<1> HIDE DEF v, conditions
<1>5. QED  BY <1>1, <1>2, <1>4, Stays

LEMMA PayStep ==
  ASSUME IInv, NEW c, Receive(c) \/ CallOther(c)
  PROVE  IInv'
<1>1. Makes(c) /\ c.dest \in Addr \ {EntryPoint} /\ Runs(c, TRUE, Paid(c), <<>>)
  BY CallsAccount DEF Receive, CallOther
<1>2. QED  BY <1>1, PaidWorld, Stays

LEMMA WithdrawToStep ==
  ASSUME IInv, NEW c, WithdrawTo(c)
  PROVE  IInv'
<1> DEFINE v == [world EXCEPT !.deposit[Top.self] = @ - c.amount]
           conditions == c.value = 0 /\ c.amount <= world.deposit[Top.self]
           next == <<Payment(c)>>
<1>1. /\ Makes(c) /\ c.dest = EntryPoint /\ c \in AllCalls /\ Top.self \in Addr
      /\ c.amount \in Nat /\ Payment(c) \in AllCalls
  BY Caller, AccountsAssumption DEF WithdrawTo, AccountsAssumption, IsFrame
<1>2. Runs(c, conditions, v, next)
  BY DEF WithdrawTo
<1>3. Payment(c).value = c.amount /\ Payment(c).fn = "receive"
  BY DEF Payment, Call
<1>4. next \in Seq(AllCalls) /\ next # <<>> /\ Len(next) = 1 /\ next[1] = Payment(c)
  BY <1>1
<1>5. World(world) /\ Kept(tx.by, start, world) /\ Held(frames) \in Nat /\ Backed(world, Held(frames))
  BY Standing
<1> HIDE DEF next
<1>6. Worth(c.dest, next) = c.amount /\ Allowed(c.dest, next)
  BY <1>1, <1>3, <1>4 DEF Worth, Allowed
<1>7. ASSUME conditions
      PROVE  /\ World(v) /\ Later(world, v) /\ Kept(tx.by, start, v)
             /\ Backed(v, Held(frames) + c.amount)
  <2>1. World(v) /\ SameRights(world, v) /\ v.impl = world.impl /\ Backed(v, Held(frames) + c.amount)
    BY <1>1, <1>5, <1>7, DepositFalls
  <2> HIDE DEF v
  <2>2. QED  BY <1>5, <2>1, SameLater, SameKept
<1> HIDE DEF v, conditions
<1>8. conditions => Backed(v, Held(frames) + Worth(c.dest, next))
  BY <1>6, <1>7
<1>9. QED  BY <1>1, <1>2, <1>4, <1>6, <1>7, <1>8, CallStep

(* A transaction starts with the world as it is. *)
LEMMA BeginStep ==
  ASSUME IInv, NEW request, NEW self \in Addr, NEW op, NEW at, Begin(request, self, op, at),
         request.asked \in Seq(AllCalls), at # "executed",
         \A f : f.self = self /\ f.at = at /\ f.op = op /\ f.rest = request.asked => Sent(request.by, f)
  PROVE  IInv'
<1> DEFINE f == Frame(self, Call(self, "transaction"), request.asked, op, at)
           w == [world EXCEPT !.done = EmptyBag]
           p == request.by
<1>1. frames = <<>>
  BY EmptySeq DEF IInv, Progress, Stack, Begin, Depth
<1>2. World(world) /\ Backed(world, 0)
  <2>1. Held(frames) = 0
    BY <1>1 DEF Held, Executed
  <2>2. QED  BY <2>1, Standing
<1>3. frames' = <<f>> /\ tx' = request /\ world' = w /\ start' = w /\ reverting' = FALSE
  BY DEF Begin
<1>4. /\ DOMAIN f = FrameFields /\ f.self = self /\ f.rest = request.asked /\ f.op = op /\ f.at = at
  BY DEF Frame, FrameFields
<1>5. /\ SameRights(world, w) /\ w.impl = world.impl /\ w.balance = world.balance
      /\ w.deposit = world.deposit /\ w.used = world.used /\ DOMAIN w = Fields
  BY <1>2 DEF World, Typed, SameRights, Fields
<1> HIDE DEF f, w
<1>6. World(w)
  BY <1>2, <1>5, SameWorld DEF World, Typed
<1>7. Worlds(p, w, w) /\ Backed(w, 0)
  BY <1>2, <1>5, <1>6 DEF Worlds, Later, Kept, Backed
<1>8. IsFrame(f) /\ Sent(p, f)
  BY <1>4 DEF IsFrame
<1> DEFINE t == <<f>>
<1>9. t \in Seq({f}) /\ Len(t) = 1 /\ t[1] = f
  OBVIOUS
<1>10. ~Executed(t) /\ Held(t) = 0
  BY <1>4 DEF Executed, Held
<1> HIDE DEF t
<1>11. Backed(w, Held(t))
  BY <1>7, <1>10
<1>12. Progress(p, w, w, t, FALSE)
  BY <1>7, <1>8, <1>9, <1>10, <1>11, Single
<1>13. QED  BY <1>3, <1>12 DEF IInv, t

LEMMA SendTransactionStep ==
  ASSUME IInv, NEW q \in People, NEW c \in Calls, SendTransaction(q, c)
  PROVE  IInv'
<1> DEFINE request == Request(q, <<c>>)
           asked == request.asked
<1>1. Begin(request, q, NoOne, "called")
  BY DEF SendTransaction
<1>2. request.by = q /\ asked \in Seq(AllCalls) /\ q \in Addr
  BY AccountsAssumption, Kinds DEF Request, AccountsAssumption
<1> HIDE DEF request
<1>3. \A f : f.self = q /\ f.at = "called" /\ f.op = NoOne /\ f.rest = request.asked => Sent(request.by, f)
  BY <1>2 DEF Sent
<1>4. QED  BY <1>1, <1>2, <1>3, BeginStep

LEMMA HandleOpStep ==
  ASSUME IInv, NEW op \in Operations, HandleOp(op)
  PROVE  IInv'
<1> DEFINE request == [Request(op.signer, op.callData) EXCEPT !.sender = op.sender, !.prefund = op.prefund]
<1>1. Begin(request, EntryPoint, op, "create")
  BY DEF HandleOp
<1>2. request.by = op.signer /\ request.asked = op.callData
  BY DEF Request
<1>3. /\ op.callData \in Seq(AllCalls) /\ op.signer \in People
      /\ \A i \in DOMAIN op.callData : op.callData[i].dest = op.sender /\ op.callData[i].value = 0
  BY AccountsAssumption DEF AccountsAssumption
<1> HIDE DEF request
<1>4. \A f : f.self = EntryPoint /\ f.at = "create" /\ f.op = op /\ f.rest = request.asked => Sent(request.by, f)
  BY <1>2, <1>3 DEF Sent
<1>5. QED  BY <1>1, <1>2, <1>3, <1>4, Kinds, BeginStep

LEMMA DeployProxyStep ==
  ASSUME IInv, NEW a \in Falcon, DeployProxy(a)
  PROVE  IInv'
<1> DEFINE w == [world EXCEPT !.code = @ \cup {a}, !.done = EmptyBag]
           p == tx.by
<1>1. frames = <<>>
  BY EmptySeq DEF IInv, Progress, Stack, DeployProxy, Depth
<1>2. reverting = FALSE
  BY <1>1 DEF IInv, Progress, Stack
<1>3. World(world) /\ Backed(world, 0)
  <2>1. Held(frames) = 0
    BY <1>1 DEF Held, Executed
  <2>2. QED  BY <2>1, Standing
<1>4. /\ w.code = world.code \cup {a} /\ w.initialized = world.initialized
      /\ w.owner = world.owner /\ w.key = world.key /\ w.impl = world.impl
      /\ w.balance = world.balance /\ w.deposit = world.deposit /\ w.used = world.used
      /\ DOMAIN w = Fields
  BY <1>3 DEF World, Typed, Fields
<1>5. world' = w /\ start' = w /\ frames' = <<>> /\ reverting' = FALSE /\ tx' = tx
  BY <1>1, <1>2 DEF DeployProxy
<1> HIDE DEF w
<1>6. World(w)
  BY <1>3, <1>4, Kinds DEF World, Typed, Owned
<1>7. Worlds(p, w, w) /\ Backed(w, 0)
  BY <1>3, <1>4, <1>6 DEF Worlds, Later, Kept, Backed
<1>8. Progress(p, w, w, <<>>, FALSE)
  BY <1>7, Emptied
<1>9. QED  BY <1>5, <1>8 DEF IInv

LEMMA TransactionEndsStep ==
  ASSUME IInv, TransactionEnds
  PROVE  IInv'
<1>1. Depth = 1 /\ ~reverting /\ Top.self \in People
  BY DEF TransactionEnds, Running
<1>2. frames # <<>> /\ Top = frames[1] /\ Sent(tx.by, Top)
  BY SMTT(30), <1>1, EmptySeq DEF IInv, Progress, Stack, Depth, Top
<1>3. Held(frames) = 0
  BY <1>1, <1>2, Kinds DEF Sent, Held, Executed
<1>4. Worlds(tx.by, start, world) /\ Backed(world, 0)
  BY <1>3, Standing DEF IInv, Progress
<1>5. reverting = FALSE
  BY <1>1 DEF IInv, Progress, Stack
<1>6. Progress(tx.by, start, world, <<>>, FALSE)
  BY <1>4, Emptied
<1>7. QED  BY <1>5, <1>6 DEF IInv, TransactionEnds

(* The worlds that were saved before the innermost call. *)
LEMMA Before ==
  ASSUME IInv, Depth > 1
  PROVE  /\ frames # <<>> /\ Depth = Len(frames) /\ Len(frames) > 1 /\ Depth \in 2..Depth
         /\ Progress(tx.by, start, world, frames, reverting)
         /\ \A d \in 2..Len(frames) : Later(frames[d].saved, world) /\ Later(frames[d].saved, Top.saved)
         /\ World(Top.saved) /\ Kept(tx.by, start, Top.saved) /\ Later(start, Top.saved)
         /\ Backed(Top.saved, Held(frames))
         /\ Executed(frames) => /\ Speaks(tx.by, world, frames[1].op.sender)
                                /\ Speaks(tx.by, Top.saved, frames[1].op.sender)
<1>1. PICK S : frames \in Seq(S)
  BY DEF IInv, Progress, Stack
<1>2. Depth \in 2..Depth /\ frames # <<>> /\ Depth = Len(frames) /\ Depth \in Nat
  BY <1>1, LenProperties, EmptySeq DEF Depth
<1>3. \A d \in 2..Depth :
        /\ World(frames[d].saved) /\ Kept(tx.by, start, frames[d].saved) /\ Backed(frames[d].saved, Held(frames))
        /\ Later(start, frames[d].saved) /\ Later(frames[d].saved, world)
  BY DEF IInv, Progress, Saved, Depth
<1>4. \A d \in 2..Depth : Later(frames[d].saved, Top.saved)
  <2>1. \A d \in 2..Depth, e \in 2..Depth : d <= e => Later(frames[d].saved, frames[e].saved)
    BY DEF IInv, Progress, Saved, Depth
  <2>2. QED  BY <1>2, <2>1 DEF Top
<1>5. Executed(frames) => /\ Speaks(tx.by, world, frames[1].op.sender)
                          /\ Speaks(tx.by, Top.saved, frames[1].op.sender)
  BY <1>2 DEF IInv, Progress, Accepted, Depth, Top
<1>6. QED  BY <1>2, <1>3, <1>4, <1>5 DEF IInv, Top

LEMMA ReturnStep ==
  ASSUME IInv, Return
  PROVE  IInv'
<1> DEFINE d == BagAdd(world.done, [call |-> Top.call, of |-> frames[Depth - 1].call])
           w == [world EXCEPT !.done = d]
           p == tx.by
<1>1. /\ Depth > 1 /\ ~reverting
      /\ frames' = Front(frames) /\ world' = w /\ reverting' = reverting /\ tx' = tx /\ start' = start
  BY DEF Return, Running
<1>2. World(world) /\ Kept(p, start, world) /\ Later(start, world) /\ Backed(world, Held(frames))
  BY Standing
<1> HIDE DEF d
<1>3. /\ SameRights(world, w) /\ w.impl = world.impl /\ w.balance = world.balance
      /\ w.deposit = world.deposit /\ w.used = world.used /\ DOMAIN w = Fields
  BY <1>2 DEF World, Typed, SameRights, Fields
<1> HIDE DEF w
<1>4. World(w) /\ Kept(p, start, w) /\ Later(world, w) /\ Backed(w, Held(frames))
  <2>1. World(w)
    BY <1>2, <1>3, SameWorld DEF World, Typed
  <2>2. Kept(p, start, w) /\ Later(world, w)
    BY <1>2, <1>3, SameKept, SameLater
  <2>3. QED  BY <1>2, <1>3, <2>1, <2>2 DEF Backed
<1>5. /\ Len(frames) > 1 /\ Progress(p, start, world, frames, FALSE)
      /\ \A e \in 2..Len(frames) : Later(frames[e].saved, world)
      /\ Executed(frames) => Speaks(p, world, frames[1].op.sender)
  <2>1. reverting = FALSE
    BY <1>1 DEF IInv, Progress, Stack
  <2>2. QED  BY <1>1, <2>1, Before
<1>6. Later(start, w) /\ \A e \in 2..Len(frames) : Later(frames[e].saved, w)
  BY <1>2, <1>4, <1>5, LaterTransitive
<1>7. Executed(frames) => Speaks(p, w, frames[1].op.sender)
  BY <1>3, <1>5, SameSpeaks
<1>8. Progress(p, start, w, frames', FALSE)
  BY <1>1, <1>4, <1>5, <1>6, <1>7, Popped
<1>9. reverting' = FALSE
  BY <1>1 DEF IInv, Progress, Stack
<1>10. QED  BY <1>1, <1>8, <1>9 DEF IInv

LEMMA FailsStep ==
  ASSUME IInv, Running, reverting' = TRUE, UNCHANGED <<world, frames, tx, start>>
  PROVE  IInv'
<1>1. reverting = FALSE /\ frames # <<>>
  BY EmptySeq DEF IInv, Progress, Stack, Running, Depth
<1>2. Progress(tx.by, start, world, frames, FALSE)
  BY <1>1 DEF IInv
<1>3. Progress(tx.by, start, world, frames, TRUE)
  BY <1>1, <1>2, Failing
<1>4. QED  BY <1>3 DEF IInv

LEMMA UnwindStep ==
  ASSUME IInv, Unwind
  PROVE  IInv'
<1> DEFINE p == tx.by
<1>1. PICK S : frames \in Seq(S)
  BY DEF IInv, Progress, Stack
<1>2. Depth \in Nat \ {0} /\ frames # <<>>
  BY <1>1, LenProperties, EmptySeq DEF IInv, Progress, Stack, Unwind, Depth
<1>3. CASE Depth = 1
  <2>1. frames' = <<>>
    BY <1>1, <1>3 DEF Unwind, Front, Depth
  <2>2. world' = start /\ reverting' = FALSE /\ tx' = tx /\ start' = start
    BY <1>3 DEF Unwind
  <2>3. Worlds(p, start, start) /\ Backed(start, 0)
    BY DEF IInv, Progress, Worlds, Later, Kept
  <2>4. Progress(p, start, start, <<>>, FALSE)
    BY <2>3, Emptied
  <2>5. QED  BY <2>1, <2>2, <2>4 DEF IInv
<1>4. CASE Depth # 1
  <2> DEFINE rev == ~Catches(frames[Depth - 1])
  <2>1. frames' = Front(frames) /\ world' = Top.saved /\ reverting' = rev /\ tx' = tx /\ start' = start
    BY <1>4 DEF Unwind
  <2>2. Depth > 1 /\ rev \in BOOLEAN
    BY <1>2, <1>4
  <2>3. /\ Len(frames) > 1 /\ Progress(p, start, world, frames, reverting)
        /\ World(Top.saved) /\ Kept(p, start, Top.saved) /\ Later(start, Top.saved)
        /\ Backed(Top.saved, Held(frames))
        /\ \A d \in 2..Len(frames) : Later(frames[d].saved, Top.saved)
        /\ Executed(frames) => Speaks(p, Top.saved, frames[1].op.sender)
    BY <2>2, Before
  <2> HIDE DEF rev
  <2>4. Progress(p, start, Top.saved, frames', rev)
    BY <2>1, <2>2, <2>3, Popped
  <2>5. QED  BY <2>1, <2>4 DEF IInv
<1>5. QED  BY <1>3, <1>4

(* An operation is the only frame while the EntryPoint deals with it. *)
LEMMA Operating ==
  ASSUME IInv, Running, Top.at # "called"
  PROVE  /\ \E S : frames \in Seq(S)
         /\ Depth = 1 /\ Len(frames) = 1 /\ frames # <<>> /\ Top = frames[1] /\ reverting = FALSE
         /\ IsFrame(Top) /\ Sent(tx.by, Top) /\ Top.self = EntryPoint
         /\ Top.op \in Operations /\ Top.op.signer = tx.by
         /\ Top.op.sender \in Accounts /\ Top.op.sender \in Addr /\ Top.op.sender # EntryPoint
         /\ Top.op.prefund \in Nat /\ Top.op.initCode \in Simple \cup {NoOne}
<1>1. PICK S : frames \in Seq(S)
  BY DEF IInv, Progress, Stack
<1>2. Depth \in Nat \ {0} /\ frames # <<>> /\ reverting = FALSE
  BY <1>1, LenProperties, EmptySeq DEF IInv, Progress, Stack, Running, Depth
<1>3. Depth = 1
  <2>1. \A d \in 2..Depth : frames[d].at = "called"
    BY DEF IInv, Progress, Stack, Depth
  <2>2. CASE Depth # 1
    BY <1>2, <2>1, <2>2 DEF Top
  <2>3. QED  BY <2>2
<1>4. Len(frames) = 1 /\ Top = frames[1] /\ IsFrame(Top) /\ Sent(tx.by, Top)
  BY <1>2, <1>3 DEF IInv, Progress, Stack, Depth, Top
<1>5. Top.self = EntryPoint /\ Top.op \in Operations /\ Top.op.signer = tx.by
  BY <1>4 DEF Sent
<1>6. /\ Top.op.sender \in Accounts /\ Top.op.prefund \in Nat /\ Top.op.initCode \in Simple \cup {NoOne}
  BY <1>5, AccountsAssumption DEF AccountsAssumption
<1>7. QED  BY <1>1, <1>2, <1>3, <1>4, <1>5, <1>6, Kinds

LEMMA GoesStep ==
  ASSUME IInv, Running, Top.at \in {"create", "validate"}, NEW stage \in {"validate", "executed"},
         NEW v, Goes(stage, v), World(v), Later(world, v), Kept(tx.by, start, v),
         stage = "executed" => Speaks(tx.by, v, Top.op.sender) /\ Backed(v, Top.op.prefund),
         stage = "validate" => Backed(v, 0)
  PROVE  IInv'
<1>1. /\ \E S : frames \in Seq(S)
      /\ Depth = 1 /\ Len(frames) = 1 /\ Top = frames[1] /\ reverting = FALSE
      /\ IsFrame(Top) /\ Sent(tx.by, Top) /\ Top.self = EntryPoint
  BY Operating
<1> DEFINE g == [Top EXCEPT !.at = stage]
           t == [frames EXCEPT ![1] = g]
<1>2. frames' = t /\ world' = v /\ reverting' = FALSE /\ tx' = tx /\ start' = start
  BY <1>1 DEF Goes
<1>3. /\ DOMAIN g = FrameFields /\ g.at = stage /\ g.self = Top.self /\ g.op = Top.op /\ g.rest = Top.rest
  BY <1>1 DEF IsFrame, FrameFields
<1> HIDE DEF g
<1>4. IsFrame(g) /\ Sent(tx.by, g)
  <2>1. tx.by # EntryPoint
    BY <1>1, PersonSent
  <2>2. QED  BY <1>1, <1>3, <2>1 DEF IsFrame, Sent
<1>5. (\E S : t \in Seq(S)) /\ Len(t) = 1 /\ t[1] = g /\ t # <<>>
  <2>1. PICK S : frames \in Seq(S)
    BY <1>1
  <2> DEFINE T == S \cup {g}
  <2>2. frames \in Seq(T) /\ g \in T /\ 1 \in 1..Len(frames)
    BY <1>1, <2>1, SeqMonotonic
  <2> HIDE DEF T
  <2>3. t \in Seq(T) /\ Len(t) = Len(frames) /\ t[1] = g
    BY <2>2, ExceptSeq
  <2>4. QED  BY <1>1, <2>3, EmptySeq
<1> HIDE DEF t
<1>6. /\ Executed(t) <=> stage = "executed"
      /\ Held(t) = IF stage = "executed" THEN Top.op.prefund ELSE 0
      /\ t[1].op = Top.op
  BY <1>3, <1>5 DEF Executed, Held
<1>7. Worlds(tx.by, start, v)
  BY Standing, LaterTransitive DEF IInv, Progress, Worlds
<1>8. Backed(v, Held(t))
  BY <1>6
<1>9. Progress(tx.by, start, v, t, FALSE)
  BY <1>4, <1>5, <1>6, <1>7, <1>8, Single
<1>10. QED  BY <1>2, <1>9 DEF IInv

LEMMA CreateSenderStep ==
  ASSUME IInv, CreateSender
  PROVE  IInv'
<1> DEFINE op == Top.op
           v == createAccount(op.initCode)
<1>1. Running /\ Top.at = "create"
  BY DEF CreateSender, At
<1>2. op.initCode \in Simple \cup {NoOne} /\ Top = frames[1] /\ frames # <<>>
  BY <1>1, Operating
<1>3. World(world) /\ World(start) /\ Kept(tx.by, start, world) /\ tx.by # NoOne /\ Backed(world, 0)
  <2>1. Held(frames) = 0
    BY <1>1, <1>2 DEF Held, Executed
  <2>2. QED  BY <1>2, <2>1, Standing
<1>4. CASE op.initCode = NoOne
  <2>1. Goes("validate", world)
    BY <1>4 DEF CreateSender
  <2>2. Later(world, world)
    BY DEF Later
  <2>3. QED  BY <1>1, <1>3, <2>1, <2>2, GoesStep
<1>5. CASE op.initCode # NoOne /\ (op.sender \in world.code \/ op.initCode # op.sender)
  <2>1. FailedOp
    BY <1>5 DEF CreateSender
  <2>2. QED  BY <1>1, <2>1, FailsStep DEF FailedOp
<1>6. CASE op.initCode # NoOne /\ ~(op.sender \in world.code \/ op.initCode # op.sender)
  <2>1. Goes("validate", v)
    BY <1>6 DEF CreateSender
  <2>2. op.initCode \in Simple /\ op.initCode \notin world.code
    BY <1>2, <1>6
  <2>3. World(v) /\ Later(world, v) /\ v.impl = world.impl /\ v.balance = world.balance /\ v.deposit = world.deposit
    BY <1>3, <2>2, CreatedWorld
  <2> HIDE DEF v
  <2>4. Kept(tx.by, start, v)
    BY <1>3, <2>3, LaterKept
  <2>5. Backed(v, 0)
    BY <1>3, <2>3 DEF Backed
  <2>6. QED  BY <1>1, <2>1, <2>3, <2>4, <2>5, GoesStep
<1>7. QED  BY <1>4, <1>5, <1>6

(* The account gives the EntryPoint what is missing, or does not. *)
LEMMA PrefundPaid ==
  ASSUME World(world), Backed(world, 0), NEW op \in Operations
  PROVE  LET m == _payPrefund(op)
         IN  World(m) /\ SameRights(world, m) /\ m.impl = world.impl /\ Backed(m, 0)
<1> DEFINE a == op.sender
           missing == Missing(op)
           m == Deposited(world, a, a, missing)
<1>1. a \in Addr /\ a # EntryPoint /\ op.prefund \in Nat
  BY AccountsAssumption, Kinds DEF AccountsAssumption
<1>2. missing \in Nat
  <2>1. world.deposit[a] \in Nat
    BY <1>1 DEF World, Typed
  <2>2. QED  BY <1>1, <2>1 DEF Missing
<1>3. CASE missing <= world.balance[a]
  <2>1. World(m) /\ SameRights(world, m) /\ m.impl = world.impl /\ Backed(m, 0)
    <3> HIDE DEF missing
    <3>1. QED  BY <1>1, <1>2, <1>3, DepositedWorld
  <2>2. _payPrefund(op) = m
    BY <1>3 DEF _payPrefund
  <2> HIDE DEF m
  <2>3. QED  BY <2>1, <2>2
<1>4. CASE ~(missing <= world.balance[a])
  <2>1. _payPrefund(op) = world /\ SameRights(world, world)
    BY <1>4 DEF _payPrefund, SameRights
  <2>2. QED  BY <2>1
<1>5. QED  BY <1>3, <1>4

LEMMA ValidateUserOpStep ==
  ASSUME IInv, ValidateUserOp
  PROVE  IInv'
<1> DEFINE op == Top.op
           a == op.sender
           paid == _payPrefund(op)
           valid == /\ a \in world.code /\ op.prefund <= paid.deposit[a]
                    /\ op \notin world.used /\ _validateSignature(op)
<1>1. Running /\ Top.at = "validate"
  BY DEF ValidateUserOp, At
<1>2. /\ Top = frames[1] /\ frames # <<>> /\ op \in Operations /\ op.signer = tx.by
      /\ a \in Accounts /\ a \in Addr /\ op.prefund \in Nat
  BY <1>1, Operating
<1>3. World(world) /\ Kept(tx.by, start, world) /\ Backed(world, 0)
  <2>1. Held(frames) = 0
    BY <1>1, <1>2 DEF Held, Executed
  <2>2. QED  BY <2>1, Standing
<1>4. CASE ~valid
  <2>1. FailedOp
    BY <1>4 DEF ValidateUserOp
  <2>2. QED  BY <1>1, <2>1, FailsStep DEF FailedOp
<1>5. CASE valid
  <2> DEFINE u == [paid EXCEPT !.deposit[a] = paid.deposit[a] - op.prefund]
             v == [paid EXCEPT !.deposit[a] = @ - op.prefund, !.used = @ \cup {op}]
  <2>1. Goes("executed", v)
    BY <1>5 DEF ValidateUserOp
  <2>2. World(paid) /\ SameRights(world, paid) /\ paid.impl = world.impl /\ Backed(paid, 0)
    BY <1>2, <1>3, PrefundPaid
  <2>3. op.prefund <= paid.deposit[a] /\ tx.by = world.key[a]
    BY <1>2, <1>5 DEF _validateSignature
  <2> HIDE DEF paid
  <2>4. /\ World(u) /\ SameRights(paid, u) /\ u.impl = paid.impl
        /\ u.balance = paid.balance /\ u.used = paid.used /\ Backed(u, 0 + op.prefund)
    BY <1>2, <2>2, <2>3, DepositFalls
  <2>5. /\ v.code = u.code /\ v.initialized = u.initialized /\ v.owner = u.owner /\ v.key = u.key
        /\ v.impl = u.impl /\ v.balance = u.balance /\ v.deposit = u.deposit
        /\ v.used = u.used \cup {op} /\ DOMAIN v = Fields
    BY <2>2 DEF World, Typed, Fields
  <2> HIDE DEF u, v
  <2>6. SameRights(u, v) /\ v.used \subseteq Operations
    BY <1>2, <2>4, <2>5 DEF World, Typed, SameRights
  <2>7. World(v)
    BY <2>4, <2>5, <2>6, SameWorld DEF World, Typed
  <2>8. SameRights(world, v) /\ v.impl = world.impl
    BY <2>2, <2>4, <2>5, <2>6 DEF SameRights
  <2>9. Later(world, v) /\ Kept(tx.by, start, v)
    BY <1>3, <2>8, SameLater, SameKept
  <2>10. Backed(v, op.prefund)
    <3>1. 0 + op.prefund = op.prefund
      BY <1>2
    <3>2. QED  BY <2>4, <2>5, <3>1 DEF Backed
  <2>11. Speaks(tx.by, v, a)
    <3>1. Speaks(tx.by, world, a)
      BY <1>2, <1>3, <2>3, OwnerSpeaks DEF World, Speaks
    <3>2. QED  BY <2>8, <3>1, SameSpeaks
  <2>12. QED  BY <1>1, <2>1, <2>7, <2>9, <2>10, <2>11, GoesStep
<1>6. QED  BY <1>4, <1>5

LEMMA SettleStep ==
  ASSUME IInv, NEW beneficiary \in People, Settle(beneficiary)
  PROVE  IInv'
<1> DEFINE op == Top.op
           a == op.sender
           p == tx.by
<1>1. Running /\ Top.at = "executed" /\ frames' = <<>> /\ reverting' = reverting /\ tx' = tx /\ start' = start
  BY DEF Settle, At
<1>2. /\ Top = frames[1] /\ frames # <<>> /\ a \in Addr /\ op.prefund \in Nat /\ reverting = FALSE
  BY <1>1, Operating
<1>3. World(world) /\ World(start) /\ Later(start, world) /\ Kept(p, start, world) /\ Backed(world, op.prefund)
  <2>1. Held(frames) = op.prefund
    BY <1>1, <1>2 DEF Held, Executed
  <2>2. QED  BY <2>1, Standing
<1>4. PICK cost \in 0..op.prefund :
        world' = [Moved(world, EntryPoint, beneficiary, cost) EXCEPT
                    !.deposit[a] = @ + (op.prefund - cost)]
  BY DEF Settle
<1>5. cost \in Nat /\ op.prefund - cost \in Nat /\ cost <= op.prefund
  BY <1>2, <1>4
<1>6. Total(world.deposit) \in Nat /\ world.balance[EntryPoint] \in Nat
  BY <1>3, Kinds, TotalType DEF World, Typed
<1>7. cost <= world.balance[EntryPoint]
  BY <1>2, <1>3, <1>5, <1>6 DEF Backed
<1>8. ASSUME NEW u, u = Moved(world, EntryPoint, beneficiary, cost),
             NEW rest \in Nat, rest = op.prefund - cost,
             NEW v, v = [u EXCEPT !.deposit[a] = u.deposit[a] + rest]
      PROVE  World(v) /\ SameRights(world, v) /\ v.impl = world.impl /\ Backed(v, 0)
  <2>1. /\ World(u) /\ SameRights(world, u) /\ u.impl = world.impl /\ u.deposit = world.deposit
        /\ u.balance[EntryPoint] = world.balance[EntryPoint] - cost
    <3>1. beneficiary \in Addr /\ EntryPoint \in Addr /\ beneficiary # EntryPoint
      BY Kinds
    <3>2. QED  BY <1>3, <1>5, <1>7, <1>8, <3>1, MovedWorld
  <2>2. /\ World(v) /\ SameRights(u, v) /\ v.impl = u.impl /\ v.balance = u.balance
        /\ Total(v.deposit) = Total(u.deposit) + rest
    <3> DEFINE m == [u EXCEPT !.deposit[a] = u.deposit[a] + rest]
    <3>1. World(u) /\ a \in Addr
      BY <1>2, <2>1
    <3> HIDE DEF a
    <3>2. World(m) /\ SameRights(u, m) /\ m.impl = u.impl /\ m.balance = u.balance
      BY <3>1, DepositGrows
    <3>3. Total(m.deposit) = Total(u.deposit) + rest
      BY <3>1, DepositGrows
    <3>4. v = m
      BY <1>8 DEF a
    <3> HIDE DEF m
    <3>5. QED  BY <3>2, <3>3, <3>4
  <2>3. SameRights(world, v) /\ v.impl = world.impl
    BY <2>1, <2>2 DEF SameRights
  <2>4. Backed(v, 0)
    BY SMTT(30), <1>2, <1>3, <1>5, <1>6, <1>8, <2>1, <2>2 DEF Backed
  <2>5. QED  BY <2>2, <2>3, <2>4
<1>9. World(world') /\ SameRights(world, world') /\ world'.impl = world.impl /\ Backed(world', 0)
  BY <1>4, <1>5, <1>8
<1>10. Worlds(p, start, world')
  <2>1. Later(world, world') /\ Kept(p, start, world')
    BY <1>3, <1>9, SameLater, SameKept
  <2>2. QED  BY <1>3, <1>9, <2>1, LaterTransitive DEF IInv, Progress, Worlds
<1>11. Progress(p, start, world', <<>>, FALSE)
  BY <1>9, <1>10, Emptied
<1>12. QED  BY <1>1, <1>2, <1>11 DEF IInv

---------------------------------------------------------------------------
(* The theorems. *)

LEMMA InitInv ==
  ASSUME Init
  PROVE  IInv
<1> DEFINE nobody == [a \in Accounts |-> NoOne]
           first == [a \in Accounts |-> 1]
           balance == [a \in Addr |-> IF a = EntryPoint THEN 0 ELSE Wealth]
           deposit == [a \in Addr |-> 0]
<1>1. /\ DOMAIN world = Fields /\ world.code = {} /\ world.initialized = {} /\ world.used = {}
      /\ world.owner = nobody /\ world.key = nobody /\ world.impl = first
      /\ world.balance = balance /\ world.deposit = deposit
  BY DEF Init, Fields
<1>2. /\ nobody \in [Accounts -> Holders] /\ \A a \in Accounts : nobody[a] = NoOne
      /\ DOMAIN first = Accounts
      /\ balance \in [Addr -> Nat] /\ deposit \in [Addr -> Nat]
      /\ balance[EntryPoint] \in Nat /\ \A a \in Addr : deposit[a] = 0
  BY AccountsAssumption, Kinds DEF AccountsAssumption, Holders
<1> HIDE DEF nobody, first, balance, deposit
<1>3. World(world)
  BY <1>1, <1>2 DEF World, Typed, Owned
<1>4. Total(deposit) = 0
  BY <1>2, TotalZero, Kinds
<1>5. Backed(world, 0)
  BY <1>1, <1>2, <1>4 DEF Backed
<1>6. start = world /\ frames = <<>> /\ reverting = FALSE
  BY DEF Init
<1>7. Worlds(tx.by, start, world)
  BY <1>3, <1>5, <1>6 DEF Worlds, Later, Kept
<1>8. Progress(tx.by, start, world, <<>>, FALSE)
  BY <1>5, <1>7, Emptied
<1>9. QED  BY <1>6, <1>8 DEF IInv

LEMMA StepInv ==
  ASSUME IInv, [Next]_vars
  PROVE  IInv'
<1>1. ASSUME NEW q \in People, NEW c \in Calls, SendTransaction(q, c)
      PROVE  IInv'
  BY <1>1, SendTransactionStep
<1>2. ASSUME NEW op \in Operations, HandleOp(op)
      PROVE  IInv'
  BY <1>2, HandleOpStep
<1>3. ASSUME NEW a \in Falcon, DeployProxy(a)
      PROVE  IInv'
  BY <1>3, DeployProxyStep
<1>4. ASSUME NEW c, MakesCall(c)
      PROVE  IInv'
  <2>1. CASE Execute(c) \/ ExecuteBatch(c)
    BY <2>1, ExecuteStep
  <2>2. CASE Initialize(c)
    BY <2>2, InitializeStep
  <2>3. CASE AddDeposit(c)
    BY <2>3, AddDepositStep
  <2>4. CASE WithdrawDepositTo(c)
    BY <2>4, WithdrawDepositToStep
  <2>5. CASE UpgradeToAndCall(c)
    BY <2>5, UpgradeStep
  <2>6. CASE Receive(c) \/ CallOther(c)
    BY <2>6, PayStep
  <2>7. CASE WithdrawTo(c)
    BY <2>7, WithdrawToStep
  <2>8. QED  BY <1>4, <2>1, <2>2, <2>3, <2>4, <2>5, <2>6, <2>7 DEF MakesCall
<1>5. CASE TransactionEnds
  BY <1>5, TransactionEndsStep
<1>6. CASE Return
  BY <1>6, ReturnStep
<1>7. CASE Fails
  BY <1>7, FailsStep DEF Fails
<1>8. CASE Unwind
  BY <1>8, UnwindStep
<1>9. CASE CreateSender
  BY <1>9, CreateSenderStep
<1>10. CASE ValidateUserOp
  BY <1>10, ValidateUserOpStep
<1>11. ASSUME NEW q \in People, Settle(q)
       PROVE  IInv'
  BY <1>11, SettleStep
<1>12. CASE UNCHANGED vars
  BY <1>12 DEF vars, IInv
<1>13. QED  BY <1>1, <1>2, <1>3, <1>4, <1>5, <1>6, <1>7, <1>8, <1>9, <1>10, <1>11, <1>12 DEF Next

LEMMA Invariance == Spec => []IInv
<1>1. Init => IInv
  BY InitInv
<1>2. IInv /\ [Next]_vars => IInv'
  BY StepInv
<1>3. QED  BY <1>1, <1>2, PTL DEF Spec

(* Nobody ever spends what it has not, at any depth of calls, the           *)
(* EntryPoint when it settles included: balances and deposits are natural   *)
(* numbers.  And only addresses with an account's code are initialized.     *)
THEOREM AccountsTyped == Spec => []TypeOK
<1>1. ASSUME IInv
      PROVE  TypeOK
  <2>1. Typed(world)
    BY <1>1, Standing DEF World
  <2>2. \A d \in 1..Depth : frames[d].self \in Addr
    BY <1>1 DEF IInv, Progress, Stack, IsFrame, Depth
  <2>3. QED  BY <2>1, <2>2 DEF TypeOK, Typed, Holders
<1>2. QED  BY <1>1, Invariance, PTL

(* Whatever code a transaction calls, and whatever that calls back: the     *)
(* owner and the key of an initialized account never change, its            *)
(* implementation only on behalf of somebody who may speak for it, and an   *)
(* account of the factory is its owner's from the moment it has code.       *)
THEOREM ConfigurationIsKept == Spec => []ConfigurationKept
<1>1. ASSUME IInv
      PROVE  ConfigurationKept
  <2>1. World(world) /\ Later(start, world) /\ Kept(tx.by, start, world)
    BY <1>1, Standing
  <2>2. ASSUME NEW a \in start.initialized
        PROVE  /\ world.owner[a] = start.owner[a] /\ world.key[a] = start.key[a]
               /\ frames = <<>> /\ world.impl[a] # start.impl[a] => Agreed(world, a)
    BY <2>1 DEF Later, Kept, Speaks, Agreed
  <2>3. \A a \in Simple \cap world.code : world.owner[a] = MadeFor[a]
    BY <2>1 DEF World, Owned
  <2>4. QED  BY <2>2, <2>3 DEF ConfigurationKept
<1>2. QED  BY <1>1, Invariance, PTL

---------------------------------------------------------------------------
(* How often a call occurs, in a sequence and in its tail. *)
LEMMA TimesNat ==
  ASSUME NEW s \in Seq(AllCalls), NEW c
  PROVE  Times(s, c) \in Nat /\ IsFiniteSet({i \in DOMAIN s : s[i] = c})
<1> DEFINE X == {i \in DOMAIN s : s[i] = c}
<1>1. DOMAIN s = 1..Len(s) /\ Len(s) \in Nat
  BY LenProperties
<1>2. IsFiniteSet(1..Len(s))
  BY <1>1, FS_Interval
<1>3. X \in SUBSET (1..Len(s))
  BY <1>1
<1>4. IsFiniteSet(X)
  BY <1>2, <1>3, FS_Subset
<1>5. QED  BY <1>4, FS_CardinalityType DEF Times

LEMMA TimesEmpty ==
  ASSUME NEW c
  PROVE  Times(<<>>, c) = 0
<1>1. {i \in DOMAIN <<>> : <<>>[i] = c} = {}
  OBVIOUS
<1>2. QED  BY <1>1, FS_EmptySet DEF Times

LEMMA TimesTail ==
  ASSUME NEW s \in Seq(AllCalls), s # <<>>, NEW c
  PROVE  Times(s, c) = Times(Tail(s), c) + (IF Head(s) = c THEN 1 ELSE 0)
<1> DEFINE t == Tail(s)
           X == {i \in DOMAIN s : s[i] = c}
           Y == {i \in DOMAIN t : t[i] = c}
           Z == {i \in X : i # 1}
<1>1. /\ t \in Seq(AllCalls) /\ Len(s) \in Nat \ {0} /\ Len(t) = Len(s) - 1
      /\ DOMAIN s = 1..Len(s) /\ DOMAIN t = 1..Len(t) /\ Head(s) = s[1]
      /\ \A i \in 1..Len(t) : t[i] = s[i + 1]
  BY HeadTailProperties, LenProperties, EmptySeq
<1>2. IsFiniteSet(Y) /\ Cardinality(Y) \in Nat /\ Times(t, c) = Cardinality(Y)
  BY <1>1, TimesNat DEF Times
<1>3. Times(s, c) = Cardinality(X)
  BY DEF Times
<1> HIDE DEF t
<1>5. IsFiniteSet(Z) /\ Cardinality(Z) = Cardinality(Y)
  <2>1. Y \subseteq Int /\ Z \subseteq Int
    BY <1>1
  <2>2. \A i \in Y : i + 1 \in Z
    BY <1>1
  <2>3. \A j \in Z : j - 1 \in Y
    BY <1>1
  <2> HIDE DEF Y, Z
  <2>4. QED  BY <1>2, <2>1, <2>2, <2>3, Shifted
<1>6. CASE Head(s) = c
  <2>1. X = Z \cup {1} /\ 1 \notin Z
    BY <1>1, <1>6
  <2> HIDE DEF X, Y, Z
  <2>2. Cardinality(X) = Cardinality(Z) + 1
    BY <1>5, <2>1, FS_AddElement
  <2>3. QED  BY <1>2, <1>3, <1>5, <1>6, <2>2 DEF t
<1>7. CASE Head(s) # c
  <2>1. X = Z
    BY <1>1, <1>7
  <2> HIDE DEF X, Y, Z
  <2>2. QED  BY <1>2, <1>3, <1>5, <1>7, <2>1 DEF t
<1>8. QED  BY <1>6, <1>7

---------------------------------------------------------------------------
(* The calls that returned, as a bag of events: the call c, made by the     *)
(* call p.  A batch p of which a call is missing owes it.                   *)

Event(c, p) == [call |-> c, of |-> p]

Often(b, e) == IF e \in DOMAIN b THEN b[e] ELSE 0

Ended(b, p) == Total([e \in {e \in DOMAIN b : e.call = p} |-> b[e]])

Surplus(b, p, c) == Often(b, Event(c, p)) - Ended(b, p) * Times(p.calls, c)

Bag(b) == b \in [DOMAIN b -> Nat] /\ IsFiniteSet(DOMAIN b)

LEMMA EndedNat ==
  ASSUME NEW b, Bag(b), NEW p
  PROVE  Ended(b, p) \in Nat
<1> DEFINE S == {e \in DOMAIN b : e.call = p}
           f == [e \in S |-> b[e]]
<1>1. S \in SUBSET DOMAIN b /\ f \in [S -> Nat]
  BY DEF Bag
<1>2. IsFiniteSet(S)
  BY <1>1, FS_Subset DEF Bag
<1> HIDE DEF S
<1>3. Total(f) \in Nat
  <2> HIDE DEF f
  <2>1. QED  BY <1>1, <1>2, TotalType
<1>4. QED  BY <1>3 DEF Ended, S

(* m is the bag b and e. *)
Grown(m, b, e) ==
  /\ Bag(m) /\ DOMAIN m = DOMAIN b \cup {e}
  /\ m[e] = Often(b, e) + 1 /\ \A d \in DOMAIN b : d # e => m[d] = b[d]

LEMMA AddedBag ==
  ASSUME NEW b, Bag(b), NEW e
  PROVE  Grown(BagAdd(b, e), b, e)
<1> DEFINE m == BagAdd(b, e)
<1>1. IsFiniteSet(DOMAIN b \cup {e})
  BY FS_AddElement DEF Bag
<1>2. CASE e \in DOMAIN b
  <2>1. DOMAIN m = DOMAIN b \cup {e}
    BY <1>2 DEF BagAdd
  <2>2. \A d \in DOMAIN b : m[d] = IF d = e THEN b[d] + 1 ELSE b[d]
    BY <1>2 DEF BagAdd
  <2>3. m = [d \in DOMAIN m |-> m[d]]
    BY <1>2 DEF BagAdd
  <2>4. m \in [DOMAIN m -> Nat]
    BY <1>2, <2>1, <2>2, <2>3 DEF Bag
  <2>5. QED  BY <1>1, <1>2, <2>1, <2>2, <2>4 DEF Grown, Bag, Often
<1>3. CASE e \notin DOMAIN b
  <2>1. DOMAIN m = DOMAIN b \cup {e}
    BY <1>3 DEF BagAdd
  <2>2. \A d \in DOMAIN b \cup {e} : m[d] = IF d = e THEN 1 ELSE b[d]
    BY <1>3 DEF BagAdd
  <2>3. m = [d \in DOMAIN m |-> m[d]]
    BY <1>3 DEF BagAdd
  <2>4. m \in [DOMAIN m -> Nat]
    BY <1>3, <2>1, <2>2, <2>3 DEF Bag
  <2>5. QED  BY <1>1, <1>3, <2>1, <2>2, <2>4 DEF Grown, Bag, Often
<1>4. QED  BY <1>2, <1>3

LEMMA EndedAdded ==
  ASSUME NEW b, Bag(b), NEW e, NEW m, m = BagAdd(b, e), NEW p
  PROVE  Ended(m, p) = Ended(b, p) + (IF e.call = p THEN 1 ELSE 0)
<1> DEFINE S == {d \in DOMAIN b : d.call = p}
           T == {d \in DOMAIN m : d.call = p}
           f == [d \in S |-> b[d]]
           g == [d \in T |-> m[d]]
<1>1. /\ Bag(m) /\ DOMAIN m = DOMAIN b \cup {e}
      /\ m[e] = Often(b, e) + 1 /\ \A d \in DOMAIN b : d # e => m[d] = b[d]
  <2> HIDE DEF S, T, f, g
  <2>1. Grown(m, b, e)
    BY AddedBag
  <2>2. QED  BY <2>1 DEF Grown
<1>2. S \in SUBSET DOMAIN b /\ f \in [S -> Nat] /\ g \in [T -> Nat]
  BY <1>1 DEF Bag
<1>3. IsFiniteSet(S)
  BY <1>2, FS_Subset DEF Bag
<1>4. \A d \in S : f[d] = b[d]
  OBVIOUS
<1>5. \A d \in T : g[d] = m[d]
  OBVIOUS
<1>6. Ended(b, p) = Total(f) /\ Ended(m, p) = Total(g)
  BY DEF Ended
<1>7. Ended(b, p) \in Nat
  BY EndedNat
<1>8. CASE e.call # p
  <2>1. T = S
    BY <1>1, <1>8
  <2>2. g = f
    BY <1>1, <1>8, <2>1
  <2> HIDE DEF f, g, S, T
  <2>3. QED  BY <1>6, <1>7, <1>8, <2>2
<1>9. CASE e.call = p /\ e \in DOMAIN b
  <2>1. T = S /\ e \in S
    BY <1>1, <1>9
  <2>2. g[e] = f[e] + 1 /\ f[e] \in Nat /\ \A d \in S : d # e => g[d] = f[d]
    BY <1>1, <1>9, <1>2, <2>1 DEF Often
  <2> HIDE DEF f, g, S, T
  <2>3. Total(g) = Total(f) - f[e] + g[e]
    BY <1>2, <1>3, <2>1, <2>2, TotalUpdate
  <2> DEFINE n == Total(f)
             k == Total(g)
  <2>4. k = n - f[e] + g[e] /\ n \in Nat
    BY <1>6, <1>7, <2>3
  <2> HIDE DEF n, k
  <2>5. k = n + 1
    BY <2>2, <2>4
  <2>6. QED  BY <1>6, <1>9, <2>5 DEF n, k
<1>10. CASE e.call = p /\ e \notin DOMAIN b
  <2>1. T = S \cup {e} /\ e \notin S
    BY <1>1, <1>10
  <2>2. g[e] = 1 /\ \A d \in S : g[d] = f[d]
    BY <1>1, <1>10, <2>1 DEF Often
  <2> HIDE DEF f, g, S, T
  <2>3. Total(g) = Total(f) + g[e]
    BY <1>2, <1>3, <2>1, <2>2, TotalAdded
  <2>4. Total(g) = Total(f) + 1
    BY <2>2, <2>3
  <2>5. QED  BY <1>6, <1>10, <2>4
<1>11. QED  BY <1>8, <1>9, <1>10

(* The call x returns to the call y that made it. *)
LEMMA SurplusAdded ==
  ASSUME NEW b, Bag(b), NEW x, NEW y, NEW m, m = BagAdd(b, Event(x, y)),
         NEW p, NEW c, Times(p.calls, c) \in Nat
  PROVE  Surplus(m, p, c) = Surplus(b, p, c) + (IF y = p /\ x = c THEN 1 ELSE 0)
                         - (IF x = p THEN Times(p.calls, c) ELSE 0)
<1> DEFINE e == Event(x, y)
           n == Times(p.calls, c)
           k == Ended(b, p)
           often == Often(b, Event(c, p))
<1>1. /\ Bag(m) /\ DOMAIN m = DOMAIN b \cup {e}
      /\ m[e] = Often(b, e) + 1 /\ \A d \in DOMAIN b : d # e => m[d] = b[d]
  <2> HIDE DEF e, n, k, often
  <2>1. Grown(m, b, e)
    BY AddedBag DEF e
  <2>2. QED  BY <2>1 DEF Grown
<1>2. e.call = x /\ (e = Event(c, p) <=> x = c /\ y = p)
  BY DEF Event
<1>3. Ended(m, p) = k + (IF x = p THEN 1 ELSE 0)
  <2> HIDE DEF e
  <2>1. Ended(m, p) = k + (IF e.call = p THEN 1 ELSE 0)
    BY EndedAdded DEF e
  <2>2. QED  BY <1>2, <2>1
<1>4. k \in Nat
  BY EndedNat
<1>5. often \in Nat
  BY DEF Bag, Often
<1>6. Often(m, Event(c, p)) = often + (IF y = p /\ x = c THEN 1 ELSE 0)
  <2> HIDE DEF e
  <2>1. CASE y = p /\ x = c
    BY <1>1, <1>2, <2>1 DEF Often
  <2>2. CASE ~(y = p /\ x = c)
    <3>1. Often(m, Event(c, p)) = often
      BY <1>1, <1>2, <2>2 DEF Often
    <3>2. QED  BY <1>5, <2>2, <3>1
  <2>3. QED  BY <2>1, <2>2
<1> HIDE DEF n, k, often, e
<1>7. n \in Nat
  BY DEF n
<1>8. (k + 1) * n = k * n + n /\ k * n \in Int
  BY <1>4, <1>7
<1>9. Surplus(b, p, c) = often - k * n
  BY DEF Surplus, often, k, n
<1>10. Surplus(m, p, c) = (often + (IF y = p /\ x = c THEN 1 ELSE 0)) - (k + (IF x = p THEN 1 ELSE 0)) * n
  BY <1>3, <1>6 DEF Surplus, n
<1>11. CASE x = p
  <2>1. (k + (IF x = p THEN 1 ELSE 0)) * n = k * n + n
    BY <1>8, <1>11
  <2>2. QED  BY <1>5, <1>7, <1>8, <1>9, <1>10, <1>11, <2>1 DEF n
<1>12. CASE x # p
  <2>1. (k + (IF x = p THEN 1 ELSE 0)) * n = k * n
    BY <1>4, <1>12
  <2>2. QED  BY <1>5, <1>7, <1>8, <1>9, <1>10, <1>12, <2>1 DEF n
<1>13. QED  BY <1>11, <1>12

LEMMA SurplusNone ==
  ASSUME NEW p, NEW c, Times(p.calls, c) \in Nat
  PROVE  Surplus(EmptyBag, p, c) = 0 /\ Bag(EmptyBag) /\ DOMAIN EmptyBag = {}
<1>1. DOMAIN EmptyBag = {} /\ EmptyBag \in [{} -> Nat]
  BY DEF EmptyBag, SetToBag
<1>2. Bag(EmptyBag)
  BY <1>1, FS_EmptySet DEF Bag
<1>3. Ended(EmptyBag, p) = 0
  <2> DEFINE S == {e \in DOMAIN EmptyBag : e.call = p}
             f == [e \in S |-> EmptyBag[e]]
  <2>1. f \in [S -> Nat] /\ \A a \in S : f[a] = 0
    BY <1>1
  <2> HIDE DEF f
  <2>2. Total(f) = 0
    BY <2>1, TotalZero
  <2>3. QED  BY <2>2 DEF Ended, f
<1>4. Often(EmptyBag, Event(c, p)) = 0
  BY <1>1 DEF Often
<1>5. QED  BY <1>1, <1>2, <1>3, <1>4 DEF Surplus

LEMMA SurplusInt ==
  ASSUME NEW b, Bag(b), NEW p, NEW c, Times(p.calls, c) \in Nat
  PROVE  Surplus(b, p, c) \in Int
<1> DEFINE n == Times(p.calls, c)
           k == Ended(b, p)
           often == Often(b, Event(c, p))
<1>1. n \in Nat /\ k \in Nat /\ often \in Nat
  BY EndedNat DEF Bag, Often
<1> HIDE DEF n, k, often
<1>2. often - k * n \in Int
  BY <1>1
<1>3. QED  BY <1>2 DEF Surplus, n, k, often

(* A batch, of an account that has code. *)
IsBatch(w, p) == p.fn \in {"execute", "executeBatch"} /\ p.dest \in w.code

(* What the frame f has called of the batch p so far. *)
Counted(f, p, c) == IF f.call = p THEN Times(p.calls, c) - Times(f.rest, c) ELSE 0

(* The surplus when the frame d began, and the call that it has not back yet. *)
Base(s, d, p, c) == IF d = 1 THEN 0 ELSE Surplus(s[d].saved.done, p, c)
Open(s, d, p, c) == IF s[d].call = p /\ s[d + 1].call = c THEN 1 ELSE 0

Book(b) ==
  Bag(b) /\ \A e \in DOMAIN b : e.call \in AllCalls /\ (e.of \in AllCalls \/ e.of.fn = "transaction")

(* What returned, in the world and in the worlds that may come back, is     *)
(* what the calls in progress have made; no call else has a surplus.        *)
Square(w, s, rev, p, c) ==
  /\ \A d \in 1..Len(s) : d < Len(s) =>
       Surplus(s[d + 1].saved.done, p, c) = Base(s, d, p, c) + Counted(s[d], p, c) - Open(s, d, p, c)
  /\ s # <<>> /\ ~rev => Surplus(w.done, p, c) = Base(s, Len(s), p, c) + Counted(s[Len(s)], p, c)
  /\ s = <<>> => Surplus(w.done, p, c) = 0

Listed(w, s) ==
  /\ Book(w.done)
  /\ s # <<>> => s[1].call.fn = "transaction" /\ (s[1].at = "create" => Len(s) = 1 /\ w.done = EmptyBag)
  /\ \A d \in 2..Len(s) :
       /\ s[d].call \in AllCalls /\ s[d].self = s[d].call.dest
       /\ Book(s[d].saved.done) /\ s[d].saved.code = w.code

Booked(b, w, s, rev) ==
  /\ b.done = EmptyBag /\ Listed(w, s)
  /\ \A p \in AllCalls, c \in AllCalls : IsBatch(w, p) => Square(w, s, rev, p, c)

BInv == Booked(start, world, frames, reverting)

LEMMA BatchCalls ==
  ASSUME NEW w, NEW p \in AllCalls, IsBatch(w, p)
  PROVE  p.calls \in Seq(AllCalls) /\ \A c : Times(p.calls, c) \in Nat
<1>1. p.calls \in Seq(AllCalls)
  BY AccountsAssumption DEF AccountsAssumption, SubCalls, IsBatch
<1>2. QED  BY <1>1, TimesNat

(* Only the code of an account makes the calls of a batch, one by one. *)
LEMMA BatchFrame ==
  ASSUME NEW q, NEW b, NEW w, NEW s, NEW r, Progress(q, b, w, s, r), Listed(w, s),
         NEW d \in 1..Len(s), s # <<>>, NEW p \in AllCalls, IsBatch(w, p), s[d].call = p
  PROVE  d # 1 /\ s[d].self \in Accounts /\ s[d].self \notin Unknown /\ s[d].at = "called"
<1>1. d # 1
  BY DEF Listed, IsBatch
<1>2. PICK S : s \in Seq(S)
  BY DEF Progress, Stack
<1>3. d \in 2..Len(s)
  BY <1>1, <1>2, LenProperties
<1>4. s[d].self = p.dest /\ s[d].at = "called"
  BY <1>3 DEF Listed, Progress, Stack
<1>5. p.dest \in Accounts
  BY DEF IsBatch, Progress, Worlds, World, Typed
<1>6. QED  BY <1>1, <1>4, <1>5, Kinds

LEMMA CountedInt ==
  ASSUME NEW f, IsFrame(f), NEW w, NEW p \in AllCalls, IsBatch(w, p), NEW c
  PROVE  Counted(f, p, c) \in Int
<1>1. Times(p.calls, c) \in Nat
  BY BatchCalls
<1>2. Times(f.rest, c) \in Nat
  BY TimesNat DEF IsFrame
<1>3. QED  BY <1>1, <1>2 DEF Counted

LEMMA CountedLeft ==
  ASSUME NEW f, IsFrame(f), f.rest # <<>>, NEW g, g = Left(f),
         NEW w, NEW p \in AllCalls, IsBatch(w, p), NEW c
  PROVE  Counted(g, p, c) = Counted(f, p, c) + (IF f.call = p /\ Head(f.rest) = c THEN 1 ELSE 0)
<1>1. g.call = f.call /\ g.rest = Tail(f.rest)
  BY DEF Left, IsFrame, FrameFields
<1>2. /\ Times(p.calls, c) \in Nat
      /\ Times(f.rest, c) \in Nat /\ Times(Tail(f.rest), c) \in Nat
      /\ Times(f.rest, c) = Times(Tail(f.rest), c) + (IF Head(f.rest) = c THEN 1 ELSE 0)
  <2>1. f.rest \in Seq(AllCalls) /\ Tail(f.rest) \in Seq(AllCalls)
    BY HeadTailProperties DEF IsFrame
  <2>2. Times(p.calls, c) \in Nat
    BY BatchCalls
  <2>3. Times(f.rest, c) \in Nat /\ Times(Tail(f.rest), c) \in Nat
    BY <2>1, TimesNat
  <2>4. Times(f.rest, c) = Times(Tail(f.rest), c) + (IF Head(f.rest) = c THEN 1 ELSE 0)
    BY <2>1, TimesTail
  <2>5. QED  BY <2>2, <2>3, <2>4
<1> DEFINE x == Times(f.rest, c)
           y == Times(Tail(f.rest), c)
           z == Times(p.calls, c)
<1> HIDE DEF x, y, z
<1>3. x \in Nat /\ y \in Nat /\ z \in Nat /\ x = y + (IF Head(f.rest) = c THEN 1 ELSE 0)
  BY <1>2 DEF x, y, z
<1>4. Counted(f, p, c) = IF f.call = p THEN z - x ELSE 0
  BY DEF Counted, x, z
<1>5. Counted(g, p, c) = IF f.call = p THEN z - y ELSE 0
  BY <1>1 DEF Counted, y, z
<1>6. QED  BY <1>3, <1>4, <1>5

LEMMA BaseInt ==
  ASSUME NEW w, NEW s, Listed(w, s), NEW d \in 1..Len(s), Len(s) \in Nat,
         NEW p \in AllCalls, IsBatch(w, p), NEW c
  PROVE  Base(s, d, p, c) \in Int
<1>1. CASE d = 1
  BY <1>1 DEF Base
<1>2. CASE d # 1
  <2>1. Bag(s[d].saved.done)
    BY <1>2 DEF Listed, Book
  <2>2. Surplus(s[d].saved.done, p, c) \in Int
    BY <2>1, BatchCalls, SurplusInt
  <2>3. QED  BY <1>2, <2>2 DEF Base
<1>3. QED  BY <1>1, <1>2

(* A call: what its caller made of a batch is one more, and not back yet. *)
LEMMA BooksPushed ==
  ASSUME NEW q, NEW b, NEW w, NEW s, Progress(q, b, w, s, FALSE), Booked(b, w, s, FALSE), s # <<>>,
         s[Len(s)].at # "create",
         NEW g, g = Left(s[Len(s)]), NEW f, NEW t, t = Push(s, g, f),
         NEW v, v.code = w.code, v.done = w.done, NEW rev \in BOOLEAN,
         IsFrame(f), f.call \in AllCalls, f.self = f.call.dest, f.saved = w,
         IsBatch(w, f.call) => f.rest = f.call.calls,
         s[Len(s)].self \notin Unknown => s[Len(s)].rest # <<>> /\ f.call = Head(s[Len(s)].rest)
  PROVE  Booked(b, v, t, rev)
<1> DEFINE n == Len(s)
           top == s[n]
<1>1. PICK S : s \in Seq(S)
  BY DEF Progress, Stack
<1>2. /\ n \in Nat \ {0} /\ Len(t) = n + 1 /\ t # <<>>
      /\ t[n + 1] = f /\ t[n] = g
      /\ \A d \in 1..n : d < n => t[d] = s[d]
  BY <1>1, PushedStack
<1>3. IsFrame(top) /\ g.saved = top.saved /\ g.call = top.call /\ g.self = top.self /\ g.at = top.at
  <2>1. IsFrame(top)
    BY <1>2 DEF Progress, Stack
  <2>2. QED  BY <2>1 DEF Left, IsFrame, FrameFields
<1>4. \A d \in 1..n : /\ t[d].saved = s[d].saved /\ t[d].call = s[d].call
                      /\ t[d].self = s[d].self /\ t[d].at = s[d].at
  BY <1>2, <1>3
<1>5. Listed(w, s)
  BY DEF Booked
<1>6. Listed(v, t)
  <2>1. t[1].call.fn = "transaction" /\ t[1].at # "create"
    <3>1. s[1].call.fn = "transaction" /\ s[1].at # "create"
      <4>1. s[1].call.fn = "transaction" /\ (s[1].at = "create" => n = 1)
        BY <1>5 DEF Listed
      <4>2. QED  BY <4>1
    <3>2. QED  BY <1>2, <1>4, <3>1
  <2>2. \A d \in 2..(n + 1) :
          /\ t[d].call \in AllCalls /\ t[d].self = t[d].call.dest
          /\ Book(t[d].saved.done) /\ t[d].saved.code = v.code
    <3>1. ASSUME NEW d \in 2..(n + 1), d # n + 1
          PROVE  /\ t[d].call \in AllCalls /\ t[d].self = t[d].call.dest
                 /\ Book(t[d].saved.done) /\ t[d].saved.code = v.code
      BY <1>2, <1>4, <1>5, <3>1 DEF Listed
    <3>2. Book(w.done)
      BY <1>5 DEF Listed
    <3>3. QED  BY <1>2, <3>1, <3>2
  <2>3. Book(v.done)
    BY <1>5 DEF Listed
  <2>4. QED  BY <1>2, <2>1, <2>2, <2>3 DEF Listed
<1>7. ASSUME NEW p \in AllCalls, NEW c \in AllCalls, IsBatch(v, p)
      PROVE  Square(v, t, rev, p, c)
  <2>1. IsBatch(w, p) /\ Square(w, s, FALSE, p, c)
    BY <1>7 DEF Booked, IsBatch
  <2>2. \A d \in 1..n : Base(t, d, p, c) = Base(s, d, p, c)
    BY <1>4 DEF Base
  <2>3. Surplus(w.done, p, c) = Base(s, n, p, c) + Counted(top, p, c)
    BY <2>1 DEF Square
  <2>4. Base(s, n, p, c) \in Int /\ Counted(top, p, c) \in Int
    BY <1>2, <1>3, <1>5, <2>1, BaseInt, CountedInt
  <2>5. Counted(g, p, c) - Open(t, n, p, c) = Counted(top, p, c)
    <3>1. CASE top.call = p
      <4>1. top.rest # <<>> /\ f.call = Head(top.rest)
        <5>1. n \in 1..Len(s) /\ s[n].call = p
          BY <1>2, <3>1
        <5>2. s[n].self \notin Unknown
          BY <1>5, <2>1, <5>1, BatchFrame
        <5>3. QED  BY <5>2
      <4>2. Counted(g, p, c) = Counted(top, p, c) + (IF top.call = p /\ Head(top.rest) = c THEN 1 ELSE 0)
        BY <1>3, <2>1, <4>1, CountedLeft
      <4>3. Open(t, n, p, c) = IF f.call = c THEN 1 ELSE 0
        BY <1>2, <1>3, <3>1 DEF Open
      <4>4. QED  BY <2>4, <3>1, <4>1, <4>2, <4>3
    <3>2. CASE top.call # p
      BY <1>2, <1>3, <3>2 DEF Counted, Open
    <3>3. QED  BY <3>1, <3>2
  <2>6. ASSUME NEW d \in 1..(n + 1), d < n + 1
        PROVE  Surplus(t[d + 1].saved.done, p, c) = Base(t, d, p, c) + Counted(t[d], p, c) - Open(t, d, p, c)
    <3>1. CASE d < n
      <4>1. Surplus(s[d + 1].saved.done, p, c) = Base(s, d, p, c) + Counted(s[d], p, c) - Open(s, d, p, c)
        BY <1>2, <2>1, <3>1 DEF Square
      <4>2. t[d] = s[d] /\ t[d + 1].saved = s[d + 1].saved /\ t[d + 1].call = s[d + 1].call
        BY <1>2, <1>4, <3>1
      <4>3. Open(t, d, p, c) = Open(s, d, p, c)
        BY <4>2 DEF Open
      <4>4. Base(t, d, p, c) = Base(s, d, p, c)
        BY <1>2, <2>2, <3>1
      <4>5. QED  BY <4>1, <4>2, <4>3, <4>4
    <3>2. CASE d = n
      <4>1. t[d + 1].saved = w /\ t[d] = g /\ Base(t, d, p, c) = Base(s, n, p, c)
        BY <1>2, <2>2, <3>2
      <4>2. Counted(g, p, c) \in Int /\ Open(t, n, p, c) \in Int
        <5>1. IsFrame(g)
          <6>1. IsFrame(t[n])
            <7>1. top.rest \in Seq(AllCalls) /\ (top.rest # <<>> => Tail(top.rest) \in Seq(AllCalls))
              BY <1>3, HeadTailProperties DEF IsFrame
            <7>2. DOMAIN g = FrameFields /\ g.rest = IF top.rest = <<>> THEN top.rest ELSE Tail(top.rest)
              BY <1>3 DEF Left, IsFrame, FrameFields
            <7>3. QED  BY <1>2, <1>3, <7>1, <7>2 DEF IsFrame
          <6>2. QED  BY <1>2, <6>1
        <5>2. QED  BY <2>1, <5>1, CountedInt DEF Open
      <4>3. QED  BY <2>3, <2>4, <2>5, <3>2, <4>1, <4>2
    <3>3. QED  BY <1>2, <2>6, <3>1, <3>2
  <2>7. Surplus(v.done, p, c) = Base(t, n + 1, p, c) + Counted(t[n + 1], p, c)
    <3>1. Base(t, n + 1, p, c) = Surplus(w.done, p, c)
      BY <1>2 DEF Base
    <3>2. Counted(f, p, c) = 0
      <4>1. CASE f.call = p
        <5>1. f.rest = p.calls /\ Times(p.calls, c) \in Nat
          BY <2>1, <4>1, BatchCalls
        <5>2. QED  BY <4>1, <5>1 DEF Counted
      <4>2. CASE f.call # p
        BY <4>2 DEF Counted
      <4>3. QED  BY <4>1, <4>2
    <3>3. Surplus(w.done, p, c) \in Int
      BY <2>3, <2>4
    <3>4. QED  BY <1>2, <3>1, <3>2, <3>3
  <2>8. QED  BY <1>2, <2>6, <2>7 DEF Square
<1>8. QED  BY <1>6, <1>7 DEF Booked

(* The end of a call, in the world v. *)
LEMMA BooksPopped ==
  ASSUME NEW q, NEW b, NEW w, NEW s, NEW r, Progress(q, b, w, s, r), Booked(b, w, s, r), Len(s) > 1,
         NEW t, t = Front(s), NEW v, v.code = w.code, Book(v.done), NEW rev \in BOOLEAN,
         ~rev => \A p \in AllCalls, c \in AllCalls : IsBatch(w, p) =>
                   Surplus(v.done, p, c) = Base(s, Len(s) - 1, p, c) + Counted(s[Len(s) - 1], p, c)
  PROVE  Booked(b, v, t, rev)
<1> DEFINE n == Len(s)
<1>1. PICK S : s \in Seq(S)
  BY DEF Progress, Stack
<1>2. /\ n \in Nat /\ n > 1 /\ Len(t) = n - 1 /\ t # <<>>
      /\ \A d \in 1..(n - 1) : t[d] = s[d]
  BY <1>1, PoppedStack
<1>3. s # <<>>
  BY <1>1, <1>2, EmptySeq
<1>4. Listed(v, t)
  <2>1. Listed(w, s)
    BY DEF Booked
  <2>2. t[1].call.fn = "transaction" /\ t[1].at # "create"
    BY <1>2, <1>3, <2>1 DEF Listed
  <2>3. QED  BY <1>2, <2>1, <2>2 DEF Listed
<1>5. ASSUME NEW p \in AllCalls, NEW c \in AllCalls, IsBatch(v, p)
      PROVE  Square(v, t, rev, p, c)
  <2>1. IsBatch(w, p) /\ Square(w, s, r, p, c)
    BY <1>5 DEF Booked, IsBatch
  <2>2. \A d \in 1..(n - 1) : Base(t, d, p, c) = Base(s, d, p, c)
    BY <1>2 DEF Base
  <2>3. ASSUME NEW d \in 1..(n - 1), d < n - 1
        PROVE  Surplus(t[d + 1].saved.done, p, c) = Base(t, d, p, c) + Counted(t[d], p, c) - Open(t, d, p, c)
    <3>1. Surplus(s[d + 1].saved.done, p, c) = Base(s, d, p, c) + Counted(s[d], p, c) - Open(s, d, p, c)
      BY <1>2, <2>1, <2>3 DEF Square
    <3>2. t[d] = s[d] /\ t[d + 1] = s[d + 1]
      BY <1>2, <2>3
    <3>3. Open(t, d, p, c) = Open(s, d, p, c) /\ Base(t, d, p, c) = Base(s, d, p, c)
      BY <2>2, <3>2 DEF Open
    <3>4. QED  BY <3>1, <3>2, <3>3
  <2>4. ASSUME ~rev
        PROVE  Surplus(v.done, p, c) = Base(t, n - 1, p, c) + Counted(t[n - 1], p, c)
    BY <1>2, <2>1, <2>2, <2>4
  <2>5. QED  BY <1>2, <2>3, <2>4 DEF Square
<1>6. QED  BY <1>4, <1>5 DEF Booked

(* No call in progress. *)
LEMMA BooksEmpty ==
  ASSUME NEW b, b.done = EmptyBag, NEW v, Book(v.done),
         \A p \in AllCalls, c \in AllCalls : IsBatch(v, p) => Surplus(v.done, p, c) = 0
  PROVE  Booked(b, v, <<>>, FALSE)
<1> DEFINE s == <<>>
<1>1. s = <<>> /\ Len(s) = 0
  OBVIOUS
<1> HIDE DEF s
<1>2. Listed(v, s)
  BY <1>1 DEF Listed
<1>3. \A p \in AllCalls, c \in AllCalls : IsBatch(v, p) => Square(v, s, FALSE, p, c)
  BY <1>1 DEF Square
<1>4. Booked(b, v, s, FALSE)
  BY <1>2, <1>3 DEF Booked
<1>5. QED  BY <1>4 DEF s

(* When only the transaction's own code is left, every batch is whole. *)
LEMMA BooksWhole ==
  ASSUME NEW b, NEW w, NEW s, Booked(b, w, s, FALSE), Len(s) = 1, s # <<>>
  PROVE  \A p \in AllCalls, c \in AllCalls : IsBatch(w, p) => Surplus(w.done, p, c) = 0
<1> SUFFICES ASSUME NEW p \in AllCalls, NEW c \in AllCalls, IsBatch(w, p)
             PROVE  Surplus(w.done, p, c) = 0
  OBVIOUS
<1>1. Surplus(w.done, p, c) = Base(s, 1, p, c) + Counted(s[1], p, c)
  BY DEF Booked, Square
<1>2. Counted(s[1], p, c) = 0
  BY DEF Booked, Listed, IsBatch, Counted
<1>3. Base(s, 1, p, c) = 0
  BY DEF Base
<1>4. QED  BY <1>1, <1>2, <1>3

LEMMA BooksSingle ==
  ASSUME NEW b, b.done = EmptyBag, NEW v, Book(v.done), NEW s, Len(s) = 1, s # <<>>,
         s[1].call.fn = "transaction", s[1].at = "create" => v.done = EmptyBag,
         \A p \in AllCalls, c \in AllCalls : IsBatch(v, p) => Surplus(v.done, p, c) = 0
  PROVE  Booked(b, v, s, FALSE)
<1>1. Listed(v, s)
  BY DEF Listed
<1>2. ASSUME NEW p \in AllCalls, NEW c \in AllCalls, IsBatch(v, p)
      PROVE  Square(v, s, FALSE, p, c)
  <2>1. Counted(s[1], p, c) = 0 /\ Base(s, 1, p, c) = 0
    BY <1>2 DEF IsBatch, Counted, Base
  <2>2. QED  BY <1>2, <2>1 DEF Square
<1>3. QED  BY <1>1, <1>2 DEF Booked

(* No call has returned yet. *)
LEMMA BooksBlank ==
  ASSUME NEW v, v.done = EmptyBag
  PROVE  Book(v.done) /\ \A p \in AllCalls, c \in AllCalls : IsBatch(v, p) => Surplus(v.done, p, c) = 0
<1>1. Bag(EmptyBag) /\ DOMAIN EmptyBag = {}
  <2> DEFINE p == [calls |-> <<>>]
  <2>1. Times(p.calls, 0) \in Nat
    BY TimesEmpty
  <2> HIDE DEF p
  <2>2. QED  BY <2>1, SurplusNone
<1>2. QED  BY <1>1, BatchCalls, SurplusNone DEF Book

---------------------------------------------------------------------------
(* The steps, again. *)

LEMMA CallBooks ==
  ASSUME IInv, BInv, NEW c, Makes(c), NEW conditions, NEW v, NEW next \in Seq(AllCalls),
         Runs(c, conditions, v, next), v.code = world.code, v.done = world.done,
         IsBatch(world, c) => next = c.calls
  PROVE  BInv'
<1> DEFINE runs == c.value <= world.balance[Top.self] /\ conditions
           f == Frame(c.dest, c, next, NoOne, "called")
           g == Left(Top)
           m == IF runs THEN v ELSE world
           rev == ~runs
<1>1. /\ ~reverting /\ frames # <<>> /\ c \in AllCalls /\ Depth = Len(frames)
      /\ Top = frames[Len(frames)]
      /\ Top.self \notin Unknown => Top.rest # <<>>
  BY Caller DEF Depth, Top
<1>2. /\ DOMAIN f = FrameFields /\ f.self = c.dest /\ f.rest = next /\ f.saved = world /\ f.call = c
  BY DEF Frame, FrameFields
<1>3. /\ frames' = Push(frames, g, f) /\ world' = m /\ reverting' = rev /\ start' = start
  BY DEF Runs, Push, Depth, Left
<1>4. m.code = world.code /\ m.done = world.done /\ rev \in BOOLEAN
  OBVIOUS
<1>5. Progress(tx.by, start, world, frames, FALSE) /\ Booked(start, world, frames, FALSE)
  <2>1. reverting = FALSE
    BY <1>1 DEF IInv, Progress, Stack
  <2>2. QED  BY <2>1 DEF IInv, BInv
<1>6. Top.at # "create" /\ (Top.self \notin Unknown => c = Head(Top.rest))
  BY DEF Makes
<1> HIDE DEF f, g, m, rev
<1>7. IsFrame(f)
  <2>1. c.dest \in Addr
    BY <1>1, AccountsAssumption DEF AccountsAssumption
  <2>2. QED  BY <1>2, <2>1 DEF IsFrame
<1>8. g = Left(frames[Len(frames)])
  BY <1>1 DEF g
<1>9. Booked(start, m, frames', rev)
  BY ZenonT(60), <1>1, <1>2, <1>3, <1>4, <1>5, <1>6, <1>7, <1>8, BooksPushed
<1>10. QED  BY <1>3, <1>9 DEF BInv

LEMMA MovedKeeps ==
  ASSUME NEW w, DOMAIN w = Fields, NEW from, NEW to, NEW v
  PROVE  /\ Moved(w, from, to, v).code = w.code /\ Moved(w, from, to, v).done = w.done
         /\ DOMAIN Moved(w, from, to, v) = Fields
BY DEF Moved, Fields

LEMMA CallsKeep ==
  ASSUME IInv, NEW c, MakesCall(c)
  PROVE  /\ Makes(c)
         /\ \E conditions, v : \E next \in Seq(AllCalls) :
              /\ Runs(c, conditions, v, next) /\ v.code = world.code /\ v.done = world.done
              /\ IsBatch(world, c) => next = c.calls
<1>1. DOMAIN world = Fields
  BY Standing DEF World, Typed
<1>2. <<>> \in Seq(AllCalls)
  OBVIOUS
<1>3. CASE Execute(c) \/ ExecuteBatch(c)
  <2>1. Makes(c) /\ c \in AllCalls /\ c.fn \in {"execute", "executeBatch"}
    BY <1>3, CallsAccount DEF Execute, ExecuteBatch
  <2>2. c.calls \in Seq(AllCalls)
    BY <2>1, AccountsAssumption DEF AccountsAssumption, SubCalls
  <2>3. \E conditions : Runs(c, conditions, world, c.calls)
    BY <1>3 DEF Execute, ExecuteBatch
  <2>4. QED  BY <2>1, <2>2, <2>3
<1>4. CASE Initialize(c)
  <2> DEFINE v == Initialized(world, c.dest, c.owner, c.key)
  <2>1. Makes(c) /\ \E conditions : Runs(c, conditions, v, <<>>)
    BY <1>4 DEF Initialize, Calling
  <2>2. v.code = world.code /\ v.done = world.done
    BY <1>1 DEF Initialized, Fields
  <2>3. ~IsBatch(world, c)
    BY <1>4 DEF Initialize, Calling, IsBatch
  <2> HIDE DEF v
  <2>4. QED  BY <1>2, <2>1, <2>2, <2>3
<1>5. CASE AddDeposit(c)
  <2> DEFINE v == Deposited(world, Top.self, c.dest, c.value)
  <2>1. Makes(c) /\ \E conditions : Runs(c, conditions, v, <<>>)
    BY <1>5 DEF AddDeposit, Calling
  <2>2. v.code = world.code /\ v.done = world.done
    BY <1>1, MovedKeeps DEF Deposited, Fields
  <2>3. ~IsBatch(world, c)
    BY <1>5 DEF AddDeposit, Calling, IsBatch
  <2> HIDE DEF v
  <2>4. QED  BY <1>2, <2>1, <2>2, <2>3
<1>6. CASE WithdrawDepositTo(c)
  <2> DEFINE next == <<Withdrawal(c)>>
  <2>1. Makes(c) /\ c \in AllCalls /\ c.fn = "withdrawDepositTo"
    BY <1>6, CallsAccount DEF WithdrawDepositTo
  <2>2. next \in Seq(AllCalls)
    BY <2>1, AccountsAssumption DEF AccountsAssumption
  <2>3. \E conditions : Runs(c, conditions, world, next)
    BY <1>6 DEF WithdrawDepositTo
  <2>4. ~IsBatch(world, c)
    BY <2>1 DEF IsBatch
  <2> HIDE DEF next
  <2>5. QED  BY <2>1, <2>2, <2>3, <2>4
<1>7. CASE UpgradeToAndCall(c)
  <2> DEFINE v == [world EXCEPT !.impl[c.dest] = c.impl]
  <2>1. Makes(c) /\ \E conditions : Runs(c, conditions, v, <<>>)
    BY <1>7 DEF UpgradeToAndCall, Calling
  <2>2. v.code = world.code /\ v.done = world.done
    BY <1>1 DEF Fields
  <2>3. ~IsBatch(world, c)
    BY <1>7 DEF UpgradeToAndCall, Calling, IsBatch
  <2> HIDE DEF v
  <2>4. QED  BY <1>2, <2>1, <2>2, <2>3
<1>8. CASE Receive(c) \/ CallOther(c)
  <2> DEFINE v == Paid(c)
  <2>1. Makes(c) /\ \E conditions : Runs(c, conditions, v, <<>>)
    BY <1>8 DEF Receive, CallOther, Calling
  <2>2. v.code = world.code /\ v.done = world.done
    BY <1>1, MovedKeeps DEF Paid
  <2>3. ~IsBatch(world, c)
    BY <1>8 DEF Receive, CallOther, Calling, IsBatch
  <2> HIDE DEF v
  <2>4. QED  BY <1>2, <2>1, <2>2, <2>3
<1>9. CASE WithdrawTo(c)
  <2> DEFINE v == [world EXCEPT !.deposit[Top.self] = @ - c.amount]
             next == <<Payment(c)>>
  <2>1. Makes(c) /\ c \in AllCalls /\ c.fn = "withdrawTo"
    BY <1>9, Caller DEF WithdrawTo
  <2>2. next \in Seq(AllCalls)
    BY <2>1, AccountsAssumption DEF AccountsAssumption
  <2>3. \E conditions : Runs(c, conditions, v, next)
    BY <1>9 DEF WithdrawTo
  <2>4. v.code = world.code /\ v.done = world.done
    BY <1>1 DEF Fields
  <2>5. ~IsBatch(world, c)
    BY <2>1 DEF IsBatch
  <2> HIDE DEF next, v
  <2>6. QED  BY <2>1, <2>2, <2>3, <2>4, <2>5
<1>10. QED  BY <1>3, <1>4, <1>5, <1>6, <1>7, <1>8, <1>9 DEF MakesCall

LEMMA BeginBooks ==
  ASSUME IInv, NEW request, NEW self, NEW op, NEW at, Begin(request, self, op, at)
  PROVE  BInv'
<1> DEFINE f == Frame(self, Call(self, "transaction"), request.asked, op, at)
           w == [world EXCEPT !.done = EmptyBag]
           t == <<f>>
<1>1. frames' = t /\ world' = w /\ start' = w /\ reverting' = FALSE
  BY DEF Begin
<1>2. f.call.fn = "transaction"
  BY DEF Frame, Call
<1>3. w.done = EmptyBag
  BY Standing DEF World, Typed, Fields
<1> HIDE DEF f, w
<1>4. Len(t) = 1 /\ t # <<>> /\ t[1] = f
  OBVIOUS
<1> HIDE DEF t
<1>5. Booked(w, w, t, FALSE)
  BY <1>2, <1>3, <1>4, BooksBlank, BooksSingle
<1>6. QED  BY <1>1, <1>5 DEF BInv

LEMMA DeployProxyBooks ==
  ASSUME IInv, NEW a, DeployProxy(a)
  PROVE  BInv'
<1> DEFINE w == [world EXCEPT !.code = @ \cup {a}, !.done = EmptyBag]
<1>1. frames = <<>>
  BY EmptySeq DEF IInv, Progress, Stack, DeployProxy, Depth
<1>2. reverting = FALSE
  BY <1>1 DEF IInv, Progress, Stack
<1>3. world' = w /\ start' = w /\ frames' = <<>> /\ reverting' = FALSE
  BY <1>1, <1>2 DEF DeployProxy
<1>4. w.done = EmptyBag
  BY Standing DEF World, Typed, Fields
<1> HIDE DEF w
<1>5. Booked(w, w, <<>>, FALSE)
  BY <1>4, BooksBlank, BooksEmpty
<1>6. QED  BY <1>3, <1>5 DEF BInv

LEMMA TransactionEndsBooks ==
  ASSUME IInv, BInv, TransactionEnds
  PROVE  BInv'
<1>1. Len(frames) = 1 /\ frames # <<>> /\ reverting = FALSE
  BY EmptySeq DEF IInv, Progress, Stack, TransactionEnds, Running, Depth
<1>2. Booked(start, world, frames, FALSE)
  BY <1>1 DEF BInv
<1>3. \A p \in AllCalls, c \in AllCalls : IsBatch(world, p) => Surplus(world.done, p, c) = 0
  BY <1>1, <1>2, BooksWhole
<1>4. start.done = EmptyBag /\ Book(world.done)
  BY <1>2 DEF Booked, Listed
<1>5. Booked(start, world, <<>>, FALSE)
  BY <1>3, <1>4, BooksEmpty
<1>6. QED  BY <1>1, <1>5 DEF BInv, TransactionEnds

LEMMA FailsBooks ==
  ASSUME IInv, BInv, Running, reverting' = TRUE, UNCHANGED <<world, frames, start>>
  PROVE  BInv'
<1>1. reverting = FALSE /\ frames # <<>>
  BY EmptySeq DEF IInv, Progress, Stack, Running, Depth
<1>2. Booked(start, world, frames, FALSE)
  BY <1>1 DEF BInv
<1>3. Booked(start, world, frames, TRUE)
  BY <1>1, <1>2 DEF Booked, Square
<1>4. QED  BY <1>3 DEF BInv

(* What the books say of the innermost call and of the one that made it. *)
LEMMA Innermost ==
  ASSUME IInv, BInv, Depth > 1
  PROVE  /\ frames # <<>> /\ Depth = Len(frames) /\ Depth \in Nat /\ Depth - 1 \in 1..Depth
         /\ Listed(world, frames) /\ Progress(tx.by, start, world, frames, reverting)
         /\ IsFrame(Top) /\ Top.call \in AllCalls /\ IsFrame(frames[Depth - 1])
         /\ Book(Top.saved.done) /\ Top.saved.code = world.code
         /\ frames[Depth - 1].call \in AllCalls \/ frames[Depth - 1].call.fn = "transaction"
         /\ \A p \in AllCalls, c \in AllCalls : IsBatch(world, p) =>
              /\ Square(world, frames, reverting, p, c)
              /\ Surplus(Top.saved.done, p, c) =
                   Base(frames, Depth - 1, p, c) + Counted(frames[Depth - 1], p, c) - Open(frames, Depth - 1, p, c)
<1>1. /\ frames # <<>> /\ Depth = Len(frames) /\ Depth \in 2..Depth /\ Top = frames[Depth]
      /\ Progress(tx.by, start, world, frames, reverting)
  BY Before DEF Top
<1>2. Depth \in Nat /\ Depth - 1 \in 1..Depth /\ Depth - 1 < Depth /\ Depth - 1 + 1 = Depth /\ Depth \in 1..Depth
  BY <1>1
<1>3. Listed(world, frames)
  BY DEF BInv, Booked
<1>4. Top.call \in AllCalls /\ Book(Top.saved.done) /\ Top.saved.code = world.code
  BY <1>1, <1>3 DEF Listed
<1>5. IsFrame(Top) /\ IsFrame(frames[Depth - 1])
  BY <1>1, <1>2 DEF Progress, Stack
<1>6. frames[Depth - 1].call \in AllCalls \/ frames[Depth - 1].call.fn = "transaction"
  <2>1. CASE Depth - 1 = 1
    BY <1>1, <1>3, <2>1 DEF Listed
  <2>2. CASE Depth - 1 # 1
    <3>1. Depth - 1 \in 2..Depth
      BY <1>2, <2>2
    <3>2. QED  BY <1>1, <1>3, <3>1 DEF Listed
  <2>3. QED  BY <2>1, <2>2
<1>7. ASSUME NEW p \in AllCalls, NEW c \in AllCalls, IsBatch(world, p)
      PROVE  /\ Square(world, frames, reverting, p, c)
             /\ Surplus(Top.saved.done, p, c) =
                  Base(frames, Depth - 1, p, c) + Counted(frames[Depth - 1], p, c) - Open(frames, Depth - 1, p, c)
  <2>1. Square(world, frames, reverting, p, c)
    BY <1>7 DEF BInv, Booked
  <2> DEFINE d == Depth - 1
  <2>2. d \in 1..Len(frames) /\ d < Len(frames) /\ frames[d + 1] = Top
    BY <1>1, <1>2
  <2> HIDE DEF d
  <2>3. Surplus(Top.saved.done, p, c) = Base(frames, d, p, c) + Counted(frames[d], p, c) - Open(frames, d, p, c)
    BY <2>1, <2>2 DEF Square
  <2>4. QED  BY <2>1, <2>3 DEF d
<1>8. QED  BY <1>1, <1>2, <1>3, <1>4, <1>5, <1>6, <1>7

(* A call that returns counts for its caller, and a batch counts as whole. *)
LEMMA ReturnBooks ==
  ASSUME IInv, BInv, Return
  PROVE  BInv'
<1> DEFINE n == Depth
           x == Top.call
           y == frames[n - 1].call
           m == BagAdd(world.done, Event(x, y))
           w == [world EXCEPT !.done = m]
<1>1. /\ Depth > 1 /\ ~reverting /\ Top.rest = <<>>
      /\ frames' = Front(frames) /\ world' = w /\ reverting' = reverting /\ start' = start
  BY DEF Return, Running, Event
<1>2. reverting = FALSE
  BY <1>1 DEF IInv, Progress, Stack
<1>3. /\ frames # <<>> /\ n = Len(frames) /\ n \in Nat /\ n - 1 \in 1..n
      /\ Listed(world, frames) /\ Progress(tx.by, start, world, frames, reverting)
      /\ IsFrame(Top) /\ x \in AllCalls /\ IsFrame(frames[n - 1])
      /\ y \in AllCalls \/ y.fn = "transaction"
  BY <1>1, Innermost
<1>4. w.code = world.code /\ w.done = m
  BY Standing DEF World, Typed, Fields
<1>5. Book(world.done)
  BY <1>3 DEF Listed
<1>6. Grown(m, world.done, Event(x, y))
  BY <1>5, AddedBag DEF Book
<1> HIDE DEF w, m, x, y
<1>7. Book(m)
  <2>1. Event(x, y).call = x /\ Event(x, y).of = y
    BY DEF Event
  <2>2. DOMAIN m = DOMAIN world.done \cup {Event(x, y)} /\ Bag(m)
    BY <1>6 DEF Grown
  <2>3. QED  BY <1>3, <1>5, <2>1, <2>2 DEF Book
<1>8. ASSUME NEW p \in AllCalls, NEW c \in AllCalls, IsBatch(world, p)
      PROVE  Surplus(m, p, c) = Base(frames, n - 1, p, c) + Counted(frames[n - 1], p, c)
  <2> DEFINE before == Surplus(Top.saved.done, p, c)
             now == Surplus(world.done, p, c)
             after == Surplus(m, p, c)
             base == Base(frames, n - 1, p, c)
             counted == Counted(frames[n - 1], p, c)
             open == Open(frames, n - 1, p, c)
             times == Times(p.calls, c)
  <2>1. before = base + counted - open
    BY <1>1, <1>8, Innermost
  <2>2. now = before + (IF x = p THEN times ELSE 0)
    <3>1. now = Base(frames, n, p, c) + Counted(Top, p, c)
      BY <1>1, <1>3, <1>8, Innermost DEF Square, Top
    <3>2. Base(frames, n, p, c) = before
      BY <1>1, <1>3 DEF Base, Top
    <3>3. Counted(Top, p, c) = IF x = p THEN times ELSE 0
      <4>1. Times(Top.rest, c) = 0
        BY <1>1, TimesEmpty
      <4>2. times \in Nat
        BY <1>8, BatchCalls
      <4>3. QED  BY <4>1, <4>2 DEF Counted, x
    <3>4. QED  BY <3>1, <3>2, <3>3
  <2>3. times \in Nat
    BY <1>8, BatchCalls
  <2>4. m = BagAdd(world.done, Event(x, y)) /\ Bag(world.done)
    BY <1>5 DEF m, Book
  <2>5. after = now + (IF y = p /\ x = c THEN 1 ELSE 0) - (IF x = p THEN times ELSE 0)
    BY <2>3, <2>4, SurplusAdded
  <2>6. open = IF y = p /\ x = c THEN 1 ELSE 0
    <3>1. n - 1 + 1 = n
      BY <1>3
    <3>2. QED  BY <3>1 DEF Open, x, y, Top
  <2>7. base \in Int
    BY <1>3, <1>8, BaseInt
  <2>8. counted \in Int
    BY <1>3, <1>8, CountedInt
  <2> HIDE DEF before, now, after, base, counted, open, times
  <2>9. after = base + counted
    BY <2>1, <2>2, <2>3, <2>5, <2>6, <2>7, <2>8
  <2>10. QED  BY <2>9 DEF after, base, counted
<1>9. Booked(start, world, frames, reverting)
  BY DEF BInv
<1>10. Booked(start, w, frames', reverting)
  <2>1. \A p \in AllCalls, c \in AllCalls : IsBatch(world, p) =>
          Surplus(w.done, p, c) = Base(frames, Len(frames) - 1, p, c) + Counted(frames[Len(frames) - 1], p, c)
    BY <1>3, <1>4, <1>8
  <2>2. Len(frames) > 1 /\ Book(w.done)
    BY <1>1, <1>3, <1>4, <1>7
  <2>3. reverting \in BOOLEAN
    BY <1>2
  <2>4. QED  BY <1>1, <1>3, <1>4, <1>9, <2>1, <2>2, <2>3, BooksPopped
<1>11. QED  BY <1>1, <1>10 DEF BInv

(* Who goes on when a call it made reverts is no batch. *)
LEMMA UnwindBooks ==
  ASSUME IInv, BInv, Unwind
  PROVE  BInv'
<1>1. PICK S : frames \in Seq(S)
  BY DEF IInv, Progress, Stack
<1>2. Depth \in Nat \ {0} /\ frames # <<>>
  BY <1>1, LenProperties, EmptySeq DEF IInv, Progress, Stack, Unwind, Depth
<1>3. CASE Depth = 1
  <2>1. frames' = <<>>
    BY <1>1, <1>3 DEF Unwind, Front, Depth
  <2>2. world' = start /\ reverting' = FALSE /\ start' = start
    BY <1>3 DEF Unwind
  <2>3. start.done = EmptyBag
    BY DEF BInv, Booked
  <2>4. Booked(start, start, <<>>, FALSE)
    BY <2>3, BooksBlank, BooksEmpty
  <2>5. QED  BY <2>1, <2>2, <2>4 DEF BInv
<1>4. CASE Depth # 1
  <2> DEFINE n == Depth
             rev == ~Catches(frames[n - 1])
  <2>1. frames' = Front(frames) /\ world' = Top.saved /\ reverting' = rev /\ start' = start
    BY <1>4 DEF Unwind
  <2>2. Depth > 1 /\ rev \in BOOLEAN
    BY <1>2, <1>4
  <2>3. /\ frames # <<>> /\ n = Len(frames) /\ n \in Nat /\ n - 1 \in 1..n
        /\ Listed(world, frames) /\ Progress(tx.by, start, world, frames, reverting)
        /\ IsFrame(frames[n - 1]) /\ Book(Top.saved.done) /\ Top.saved.code = world.code
    BY <2>2, Innermost
  <2>4. ASSUME ~rev, NEW p \in AllCalls, NEW c \in AllCalls, IsBatch(world, p)
        PROVE  Surplus(Top.saved.done, p, c) = Base(frames, n - 1, p, c) + Counted(frames[n - 1], p, c)
    <3>1. frames[n - 1].call # p
      <4>1. frames[n - 1].self \in Unknown \/ frames[n - 1].at # "called"
        BY <2>4 DEF Catches
      <4>2. QED  BY <2>3, <2>4, <4>1, BatchFrame
    <3>2. Open(frames, n - 1, p, c) = 0 /\ Counted(frames[n - 1], p, c) = 0
      BY <3>1 DEF Open, Counted
    <3>3. Base(frames, n - 1, p, c) \in Int
      BY <2>3, <2>4, BaseInt
    <3>4. Surplus(Top.saved.done, p, c) =
            Base(frames, n - 1, p, c) + Counted(frames[n - 1], p, c) - Open(frames, n - 1, p, c)
      BY <2>2, <2>4, Innermost
    <3>5. QED  BY <3>2, <3>3, <3>4
  <2>5. Booked(start, world, frames, reverting)
    BY DEF BInv
  <2> HIDE DEF rev
  <2>6. Booked(start, Top.saved, frames', rev)
    BY <2>1, <2>2, <2>3, <2>4, <2>5, BooksPopped
  <2>7. QED  BY <2>1, <2>6 DEF BInv
<1>5. QED  BY <1>3, <1>4

(* The EntryPoint goes on with the operation, before any call was made. *)
LEMMA GoesBooks ==
  ASSUME IInv, BInv, Running, Top.at \in {"create", "validate"}, NEW stage \in {"validate", "executed"},
         NEW v, Goes(stage, v), v.done = world.done, v.code = world.code \/ Top.at = "create"
  PROVE  BInv'
<1>1. /\ \E S : frames \in Seq(S)
      /\ Depth = 1 /\ Len(frames) = 1 /\ frames # <<>> /\ Top = frames[1] /\ reverting = FALSE
      /\ IsFrame(Top)
  BY Operating
<1> DEFINE g == [Top EXCEPT !.at = stage]
           t == [frames EXCEPT ![1] = g]
<1>2. frames' = t /\ world' = v /\ reverting' = FALSE /\ start' = start
  BY <1>1 DEF Goes
<1>3. g.at = stage /\ g.call = Top.call
  BY <1>1 DEF IsFrame, FrameFields
<1> HIDE DEF g
<1>4. Len(t) = 1 /\ t[1] = g /\ t # <<>>
  <2>1. PICK S : frames \in Seq(S)
    BY <1>1
  <2> DEFINE T == S \cup {g}
  <2>2. frames \in Seq(T) /\ g \in T /\ 1 \in 1..Len(frames)
    BY <1>1, <2>1, SeqMonotonic
  <2> HIDE DEF T
  <2>3. t \in Seq(T) /\ Len(t) = Len(frames) /\ t[1] = g
    BY <2>2, ExceptSeq
  <2>4. QED  BY <1>1, <2>3, EmptySeq
<1> HIDE DEF t
<1>5. Booked(start, world, frames, FALSE)
  BY <1>1 DEF BInv
<1>6. start.done = EmptyBag /\ Book(v.done) /\ t[1].call.fn = "transaction" /\ t[1].at # "create"
  BY <1>1, <1>3, <1>4, <1>5 DEF Booked, Listed
<1>7. \A p \in AllCalls, c \in AllCalls : IsBatch(v, p) => Surplus(v.done, p, c) = 0
  <2>1. CASE v.code = world.code
    BY ZenonT(30), <1>1, <1>5, <2>1, BooksWhole DEF IsBatch
  <2>2. CASE Top.at = "create"
    <3>1. v.done = EmptyBag
      BY <1>1, <1>5, <2>2 DEF Booked, Listed
    <3>2. QED  BY <3>1, BooksBlank
  <2>3. QED  BY <2>1, <2>2
<1>8. Booked(start, v, t, FALSE)
  BY <1>4, <1>6, <1>7, BooksSingle
<1>9. QED  BY <1>2, <1>8 DEF BInv

LEMMA CreateSenderBooks ==
  ASSUME IInv, BInv, CreateSender
  PROVE  BInv'
<1> DEFINE op == Top.op
           v == createAccount(op.initCode)
<1>1. Running /\ Top.at = "create"
  BY DEF CreateSender, At
<1>2. Goes("validate", world) \/ FailedOp \/ Goes("validate", v)
  BY DEF CreateSender
<1>3. v.done = world.done
  <2>1. DOMAIN world = Fields
    BY Standing DEF World, Typed
  <2>2. QED  BY <2>1 DEF createAccount, Initialized, Fields
<1> HIDE DEF v
<1>4. CASE FailedOp
  BY <1>1, <1>4, FailsBooks DEF FailedOp
<1>5. CASE Goes("validate", world)
  BY <1>1, <1>5, GoesBooks
<1>6. CASE Goes("validate", v)
  BY <1>1, <1>3, <1>6, GoesBooks
<1>7. QED  BY <1>2, <1>4, <1>5, <1>6

LEMMA ValidateUserOpBooks ==
  ASSUME IInv, BInv, ValidateUserOp
  PROVE  BInv'
<1> DEFINE op == Top.op
           a == op.sender
           paid == _payPrefund(op)
           v == [paid EXCEPT !.deposit[a] = @ - op.prefund, !.used = @ \cup {op}]
<1>1. Running /\ Top.at = "validate"
  BY DEF ValidateUserOp, At
<1>2. FailedOp \/ Goes("executed", v)
  BY DEF ValidateUserOp
<1>3. v.done = world.done /\ v.code = world.code
  <2>1. DOMAIN world = Fields
    BY Standing DEF World, Typed
  <2>2. paid.done = world.done /\ paid.code = world.code /\ DOMAIN paid = Fields
    <3> DEFINE m == Moved(world, a, EntryPoint, Missing(op))
    <3>1. m.done = world.done /\ m.code = world.code /\ DOMAIN m = Fields
      BY <2>1, MovedKeeps
    <3>2. paid = [m EXCEPT !.deposit[a] = @ + Missing(op)] \/ paid = world
      BY DEF _payPrefund, Deposited
    <3> HIDE DEF m, paid
    <3>3. QED  BY <2>1, <3>1, <3>2 DEF Fields
  <2> HIDE DEF paid
  <2>3. QED  BY <2>2 DEF Fields
<1> HIDE DEF v
<1>4. CASE FailedOp
  BY <1>1, <1>4, FailsBooks DEF FailedOp
<1>5. CASE Goes("executed", v)
  BY <1>1, <1>3, <1>5, GoesBooks
<1>6. QED  BY <1>2, <1>4, <1>5

LEMMA SettleBooks ==
  ASSUME IInv, BInv, NEW beneficiary, Settle(beneficiary)
  PROVE  BInv'
<1>1. Running /\ Top.at # "called" /\ frames' = <<>> /\ reverting' = reverting /\ start' = start
  BY DEF Settle, At
<1>2. Len(frames) = 1 /\ frames # <<>> /\ reverting = FALSE
  BY <1>1, Operating
<1>3. world'.done = world.done /\ world'.code = world.code
  <2>1. PICK cost : world' = [Moved(world, EntryPoint, beneficiary, cost) EXCEPT
                                !.deposit[Top.op.sender] = @ + (Top.op.prefund - cost)]
    BY DEF Settle
  <2> DEFINE m == Moved(world, EntryPoint, beneficiary, cost)
  <2>2. m.done = world.done /\ m.code = world.code /\ DOMAIN m = Fields
    BY Standing, MovedKeeps DEF World, Typed
  <2>3. world' = [m EXCEPT !.deposit[Top.op.sender] = @ + (Top.op.prefund - cost)]
    BY <2>1
  <2> HIDE DEF m
  <2>4. QED  BY <2>2, <2>3 DEF Fields
<1>4. Booked(start, world, frames, FALSE)
  BY <1>2 DEF BInv
<1>5. \A p \in AllCalls, c \in AllCalls : IsBatch(world', p) => Surplus(world'.done, p, c) = 0
  BY <1>2, <1>3, <1>4, BooksWhole DEF IsBatch
<1>6. start.done = EmptyBag /\ Book(world'.done)
  BY <1>3, <1>4 DEF Booked, Listed
<1>7. Booked(start, world', <<>>, FALSE)
  BY <1>5, <1>6, BooksEmpty
<1>8. QED  BY <1>1, <1>2, <1>7 DEF BInv

---------------------------------------------------------------------------

LEMMA InitBooks ==
  ASSUME Init
  PROVE  BInv
<1>1. start = world /\ frames = <<>> /\ reverting = FALSE /\ world.done = EmptyBag
  BY DEF Init
<1>2. Booked(start, world, <<>>, FALSE)
  BY <1>1, BooksBlank, BooksEmpty
<1>3. QED  BY <1>1, <1>2 DEF BInv

LEMMA StepBooks ==
  ASSUME IInv, BInv, [Next]_vars
  PROVE  BInv'
<1>1. ASSUME NEW q \in People, NEW c \in Calls, SendTransaction(q, c)
      PROVE  BInv'
  BY <1>1, BeginBooks DEF SendTransaction
<1>2. ASSUME NEW op \in Operations, HandleOp(op)
      PROVE  BInv'
  BY <1>2, BeginBooks DEF HandleOp
<1>3. ASSUME NEW a \in Falcon, DeployProxy(a)
      PROVE  BInv'
  BY <1>3, DeployProxyBooks
<1>4. ASSUME NEW c, MakesCall(c)
      PROVE  BInv'
  <2>1. PICK conditions, v : \E next \in Seq(AllCalls) :
          /\ Runs(c, conditions, v, next) /\ v.code = world.code /\ v.done = world.done
          /\ IsBatch(world, c) => next = c.calls
    BY <1>4, CallsKeep
  <2>2. Makes(c)
    BY <1>4, CallsKeep
  <2>3. QED  BY <2>1, <2>2, CallBooks
<1>5. CASE TransactionEnds
  BY <1>5, TransactionEndsBooks
<1>6. CASE Return
  BY <1>6, ReturnBooks
<1>7. CASE Fails
  BY <1>7, FailsBooks DEF Fails
<1>8. CASE Unwind
  BY <1>8, UnwindBooks
<1>9. CASE CreateSender
  BY <1>9, CreateSenderBooks
<1>10. CASE ValidateUserOp
  BY <1>10, ValidateUserOpBooks
<1>11. ASSUME NEW q \in People, Settle(q)
       PROVE  BInv'
  BY <1>11, SettleBooks
<1>12. CASE UNCHANGED vars
  BY <1>12 DEF vars, BInv
<1>13. QED  BY <1>1, <1>2, <1>3, <1>4, <1>5, <1>6, <1>7, <1>8, <1>9, <1>10, <1>11, <1>12 DEF Next

(* What an account was asked to do together is done together: whatever      *)
(* code was called on the way, and whoever caught a revert, what remains of *)
(* a transaction has each call of execute and executeBatch as often as the  *)
(* batch says, for each time the batch returned.                            *)
THEOREM BatchesAreWhole == Spec => []BatchWhole
<1>1. Init => BInv
  BY InitBooks
<1>2. IInv /\ BInv /\ [Next]_vars => BInv'
  BY StepBooks
<1>3. ASSUME BInv
      PROVE  BatchWhole
  <2> SUFFICES ASSUME frames = <<>>, NEW p \in Batches, NEW c \in Range(p.calls)
               PROVE  HowOften(Event(c, p)) = Returned(p) * Times(p.calls, c)
    BY DEF BatchWhole, Event
  <2>1. IsBatch(world, p) /\ p \in AllCalls
    <3>1. IsBatch(world, p)
      BY DEF Batches, IsBatch
    <3>2. \A e \in DOMAIN world.done : e.call \in AllCalls /\ (e.of \in AllCalls \/ e.of.fn = "transaction")
      BY <1>3 DEF BInv, Booked, Listed, Book
    <3>3. QED  BY <3>1, <3>2 DEF Batches, IsBatch
  <2>2. p.calls \in Seq(AllCalls) /\ Times(p.calls, c) \in Nat
    BY <2>1, BatchCalls
  <2>3. c \in AllCalls
    <3>1. DOMAIN p.calls = 1..Len(p.calls)
      BY <2>2, LenProperties
    <3>2. PICK i \in DOMAIN p.calls : c = p.calls[i]
      BY DEF Range
    <3>3. QED  BY <2>2, <3>1, <3>2, ElementOfSeq
  <2>4. Surplus(world.done, p, c) = 0 /\ Bag(world.done)
    BY <1>3, <2>1, <2>3 DEF BInv, Booked, Square, Listed, Book
  <2> DEFINE n == Times(p.calls, c)
             k == Ended(world.done, p)
             often == Often(world.done, Event(c, p))
  <2>5. k = Returned(p) /\ often = HowOften(Event(c, p))
    BY DEF Ended, Returned, Often, HowOften
  <2>6. k \in Nat /\ often \in Nat /\ n \in Nat
    BY <2>2, <2>4, EndedNat DEF Bag, Often
  <2>7. often - k * n = 0
    BY <2>4 DEF Surplus
  <2> HIDE DEF n, k, often
  <2>8. k * n \in Int
    BY <2>6
  <2>9. often = k * n
    BY <2>6, <2>7, <2>8
  <2>10. QED  BY <2>5, <2>9 DEF n
<1>4. QED  BY <1>1, <1>2, <1>3, Invariance, PTL DEF Spec

---------------------------------------------------------------------------
(***************************************************************************)
(* What accounts spend.  Of each frame it is known what it had when it was *)
(* called, what the call may spend, and what it still has to spend; this   *)
(* holds from its call to the one it has in progress, or to now.  A call   *)
(* passes part of what the caller still has to spend to the callee.  When  *)
(* the callee returns, its account is added to the caller's; when it       *)
(* reverts, the caller is where it was.  What is done in the name of       *)
(* unknown code is left out on both sides, as it may do what it likes with *)
(* what it may speak for, and can make nobody else spend.                  *)
(***************************************************************************)
(* What a sequence of calls comes to, at a price for each. *)
Bill(price, s) == Total([i \in DOMAIN s |-> price[s[i]]])

(* The bill of a sequence is a number, *)
LEMMA BillNat ==
  ASSUME NEW S, NEW s \in Seq(S), NEW price \in [S -> Nat]
  PROVE  Bill(price, s) \in Nat /\ (s = <<>> => Bill(price, s) = 0)
<1> DEFINE f == [i \in DOMAIN s |-> price[s[i]]]
<1>1. DOMAIN s = 1..Len(s) /\ Len(s) \in Nat /\ \A i \in DOMAIN s : s[i] \in S
  BY LenProperties, ElementOfSeq
<1>2. IsFiniteSet(DOMAIN s) /\ f \in [DOMAIN s -> Nat]
  BY <1>1, FS_Interval
<1>3. s = <<>> => DOMAIN s = {}
  BY <1>1, EmptySeq
<1> HIDE DEF f
<1>4. Total(f) \in Nat /\ (s = <<>> => Total(f) = 0)
  BY <1>2, <1>3, TotalType, TotalZero
<1>5. QED  BY <1>4 DEF Bill, f

(* the price of the first call and the bill of the rest, *)
LEMMA BillTail ==
  ASSUME NEW S, NEW s \in Seq(S), s # <<>>, NEW price \in [S -> Nat]
  PROVE  Bill(price, s) = price[Head(s)] + Bill(price, Tail(s))
<1> DEFINE n == Len(s)
           m == n - 1
           r == Tail(s)
           f == [i \in 1..n |-> price[s[i]]]
           h == [i \in 1..m |-> price[r[i]]]
<1>1. n \in Nat /\ n # 0 /\ m \in Nat /\ m + 1 = n
  BY LenProperties, EmptySeq
<1>2. /\ DOMAIN s = 1..n /\ \A i \in 1..n : s[i] \in S
  BY LenProperties, ElementOfSeq
<1>3. /\ r \in Seq(S) /\ Len(r) = m /\ Head(s) = s[1]
      /\ \A i \in 1..m : r[i] = s[i + 1]
  BY HeadTailProperties
<1>4. DOMAIN r = 1..m
  BY <1>3, LenProperties
<1> HIDE DEF n, m, r
<1>5. f \in [1..(m + 1) -> Nat] /\ h \in [1..m -> Nat] /\ \A i \in 1..m : f[i + 1] = h[i]
  BY <1>1, <1>2, <1>3
<1>6. f[1] = price[s[1]]
  BY <1>1
<1>7. Bill(price, s) = Total(f) /\ Bill(price, r) = Total(h)
  BY <1>2, <1>4, Zenon DEF Bill
<1> HIDE DEF f, h
<1>8. Total(f) = f[1] + Total(h)
  BY <1>1, <1>5, TotalFirst
<1>9. QED  BY <1>3, <1>6, <1>7, <1>8 DEF r

(* and no more than at higher prices. *)
LEMMA BillLess ==
  ASSUME NEW S, NEW s \in Seq(S), NEW price \in [S -> Nat], NEW dear \in [S -> Nat],
         \A c \in S : price[c] <= dear[c]
  PROVE  Bill(price, s) <= Bill(dear, s)
<1> DEFINE D == DOMAIN s
           f == [i \in D |-> price[s[i]]]
           g == [i \in D |-> dear[s[i]]]
<1>1. IsFiniteSet(D) /\ \A i \in D : s[i] \in S
  BY LenProperties, ElementOfSeq, FS_Interval
<1> HIDE DEF D
<1>2. f \in [D -> Nat] /\ g \in [D -> Nat] /\ \A i \in D : f[i] <= g[i]
  BY <1>1
<1>3. Bill(price, s) = Total(f) /\ Bill(dear, s) = Total(g)
  BY Zenon DEF Bill, D
<1> HIDE DEF f, g
<1>4. Total(f) <= Total(g)
  <2>1. D \in SUBSET D
    OBVIOUS
  <2>2. QED  BY <1>1, <1>2, <2>1, TotalLess
<1>5. QED  BY <1>3, <1>4

(* The calls that a call leads to are calls, and what it takes is a number. *)
LEMMA CallTypes ==
  ASSUME NEW c \in AllCalls
  PROVE  /\ Leads(c) \in Seq(AllCalls) /\ Takes(c) \in Nat /\ c.value \in Nat /\ c.dest \in Addr
         /\ c.fn \notin {"execute", "executeBatch", "withdrawDepositTo"} => Leads(c) = <<>>
<1>1. c.dest \in Addr /\ c.value \in Nat /\ SubCalls(c) \in Seq(AllCalls)
  BY AccountsAssumption DEF AccountsAssumption
<1>2. (c.fn = "withdrawDepositTo" => Withdrawal(c) \in AllCalls) /\ (c.fn = "withdrawTo" => c.amount \in Nat)
  BY AccountsAssumption DEF AccountsAssumption
<1>3. Leads(c) \in Seq(AllCalls)
  <2> HIDE DEF Withdrawal
  <2>1. CASE c.fn = "withdrawDepositTo"
    BY <1>2, <2>1 DEF Leads
  <2>2. CASE c.fn # "withdrawDepositTo"
    BY <1>1, <2>2 DEF Leads
  <2>3. QED  BY <2>1, <2>2
<1>4. c.fn \notin {"execute", "executeBatch", "withdrawDepositTo"} => Leads(c) = <<>>
  BY DEF Leads, SubCalls
<1>5. QED  BY <1>1, <1>2, <1>3, <1>4 DEF Takes

(* What the call c costs a when x makes it, if row says what it leads to costs. *)
Price(row, x, a) == [c \in AllCalls |-> row[c] + (IF x = a THEN Takes(c) ELSE 0)]

LEMMA PriceNat ==
  ASSUME NEW row \in [AllCalls -> Nat], NEW x, NEW a
  PROVE  /\ Price(row, x, a) \in [AllCalls -> Nat]
         /\ \A c \in AllCalls : Price(row, x, a)[c] = row[c] + (IF x = a THEN Takes(c) ELSE 0)
<1>1. \A c \in AllCalls : row[c] + (IF x = a THEN Takes(c) ELSE 0) \in Nat
  BY CallTypes
<1>2. QED  BY <1>1 DEF Price

(* Spending adds up the prices of the calls that a call leads to. *)
LEMMA Priced ==
  ASSUME NEW a
  PROVE  /\ Spending(a) \in [0..MaxCalls -> [AllCalls -> Nat]]
         /\ \A c \in AllCalls : Spending(a)[0][c] = 0
         /\ \A k \in 0..MaxCalls, c \in AllCalls : k # 0 =>
              Spending(a)[k][c] = Bill(Price(Spending(a)[k - 1], c.dest, a), Leads(c))
<1> DEFINE D == 0..MaxCalls
           X == [AllCalls -> Nat]
           B == {0}
           base == [c \in AllCalls |-> 0]
           Row(y) == [c \in AllCalls |-> Total([i \in DOMAIN Leads(c) |->
                        y[Leads(c)[i]] + (IF c.dest = a THEN Takes(Leads(c)[i]) ELSE 0)])]
           step == [s \in X \X D |-> Row(s[1])]
           pred == [m \in D |-> m - 1]
           Is(g) == g = [k \in D |-> IF k = 0 THEN base ELSE Row(g[k - 1])]
<1>1. ASSUME NEW y \in X, NEW c \in AllCalls
      PROVE  /\ Total([i \in DOMAIN Leads(c) |-> y[Leads(c)[i]] + (IF c.dest = a THEN Takes(Leads(c)[i]) ELSE 0)])
                  = Bill(Price(y, c.dest, a), Leads(c))
             /\ Bill(Price(y, c.dest, a), Leads(c)) \in Nat
  <2>1. Leads(c) \in Seq(AllCalls) /\ Price(y, c.dest, a) \in [AllCalls -> Nat]
    BY CallTypes, PriceNat
  <2>2. \A i \in DOMAIN Leads(c) : Leads(c)[i] \in AllCalls
    BY <2>1, LenProperties, ElementOfSeq
  <2>3. [i \in DOMAIN Leads(c) |-> y[Leads(c)[i]] + (IF c.dest = a THEN Takes(Leads(c)[i]) ELSE 0)]
          = [i \in DOMAIN Leads(c) |-> Price(y, c.dest, a)[Leads(c)[i]]]
    BY <2>2 DEF Price
  <2>4. Total([i \in DOMAIN Leads(c) |-> y[Leads(c)[i]] + (IF c.dest = a THEN Takes(Leads(c)[i]) ELSE 0)])
                  = Bill(Price(y, c.dest, a), Leads(c))
    BY <2>3, Zenon DEF Bill
  <2>5. QED  BY <2>1, <2>4, BillNat
<1>2. \A y \in X : Row(y) \in X /\ \A c \in AllCalls : Row(y)[c] = Bill(Price(y, c.dest, a), Leads(c))
  BY <1>1
<1>3. base \in X /\ D \in SUBSET Nat
  BY AccountsAssumption DEF AccountsAssumption
<1>4. \A m \in D \ B : pred[m] \in D /\ pred[m] < m /\ pred[m] = m - 1
  BY AccountsAssumption DEF AccountsAssumption
<1>5. \A y \in X, k \in D : step[<<y, k>>] = Row(y)
  <2> HIDE DEF Row
  <2>1. QED  OBVIOUS
<1>6. step \in [X \X D -> X]
  <2> HIDE DEF Row
  <2>1. QED  BY <1>2
<1> HIDE DEF D, X, B, base, Row, step, pred
<1>7. \E g \in [D -> X] : Recurs(g, D, base, step, pred, B)
  BY <1>3, <1>4, <1>6, RecursionOn
<1>8. PICK g \in [D -> X] : g = [k \in D |-> IF k \in B THEN base ELSE step[<<g[pred[k]], k>>]]
  BY <1>7, Zenon DEF Recurs
<1>9. \A k \in D : g[k] = IF k = 0 THEN base ELSE Row(g[k - 1])
  <2>1. ASSUME NEW k \in D, k = 0 PROVE g[k] = base
    <3>1. k \in B
      BY <2>1 DEF B
    <3>2. QED  BY <1>8, <3>1
  <2>2. ASSUME NEW k \in D, k # 0 PROVE g[k] = Row(g[k - 1])
    <3>1. k \notin B
      BY <2>2 DEF B
    <3>2. g[k] = step[<<g[pred[k]], k>>] /\ pred[k] \in D /\ pred[k] = k - 1
      BY <1>4, <1>8, <3>1
    <3>3. g[pred[k]] \in X
      BY <1>8, <3>2
    <3>4. step[<<g[pred[k]], k>>] = Row(g[pred[k]])
      BY <1>5, <3>3
    <3>5. QED  BY <3>2, <3>4
  <2>3. QED  BY <2>1, <2>2
<1>10. Is(g)
  BY <1>8, <1>9
<1>11. Spending(a) = CHOOSE h : Is(h)
  BY Zenon DEF Spending, Is, D, base, Row
<1>12. Is(Spending(a))
  <2> HIDE DEF Is
  <2>1. QED  BY <1>10, <1>11, Zenon
<1>13. Spending(a) \in [D -> X]
  <2> DEFINE T == Spending(a)
             Q == {k \in Nat : k \in D => T[k] \in X}
  <2>1. T = [k \in D |-> IF k = 0 THEN base ELSE Row(T[k - 1])]
    BY <1>12
  <2> HIDE DEF T
  <2>2. \A k \in D : T[k] = IF k = 0 THEN base ELSE Row(T[k - 1])
    BY <2>1
  <2>3. 0 \in Q
    BY <1>3, <2>2
  <2>4. ASSUME NEW k \in Nat, k \in Q PROVE k + 1 \in Q
    <3>1. SUFFICES ASSUME k + 1 \in D PROVE T[k + 1] \in X
      OBVIOUS
    <3>2. k \in D /\ k + 1 # 0 /\ k + 1 - 1 = k
      BY <3>1, AccountsAssumption DEF D, AccountsAssumption
    <3>3. T[k] \in X
      BY <2>4, <3>2
    <3>4. T[k + 1] = Row(T[k])
      BY <2>2, <3>1, <3>2
    <3>5. QED  BY <1>2, <3>3, <3>4
  <2> HIDE DEF Q
  <2>5. Nat \subseteq Q
    BY <2>3, <2>4, Induction
  <2>6. \A k \in D : T[k] \in X
    BY <1>3, <2>5 DEF Q
  <2>7. QED  BY <2>1, <2>6 DEF T
<1>14. ASSUME NEW T, T = Spending(a)
       PROVE  /\ T \in [D -> X] /\ \A c \in AllCalls : T[0][c] = 0
              /\ \A k \in D, c \in AllCalls : k # 0 => T[k][c] = Bill(Price(T[k - 1], c.dest, a), Leads(c))
  <2>1. T = [k \in D |-> IF k = 0 THEN base ELSE Row(T[k - 1])]
    BY <1>12, <1>14
  <2>2. T \in [D -> X] /\ 0 \in D
    BY <1>13, <1>14, AccountsAssumption DEF D, AccountsAssumption
  <2>3. T[0] = base
    BY <2>1, <2>2
  <2>4. ASSUME NEW k \in D, NEW c \in AllCalls, k # 0
        PROVE  T[k][c] = Bill(Price(T[k - 1], c.dest, a), Leads(c))
    <3>1. k - 1 \in D
      BY <2>4, AccountsAssumption DEF D, AccountsAssumption
    <3>2. T[k] = Row(T[k - 1])
      BY <2>1, <2>4
    <3>3. T[k - 1] \in X
      BY <2>2, <3>1
    <3>4. QED  BY <1>2, <3>2, <3>3
  <2>5. QED  BY <2>2, <2>3, <2>4 DEF base
<1>15. QED  BY <1>14, Zenon DEF D, X

(* Unknown code may speak for x. *)
Captive(w, x) == Principals(w, x) \cap Unknown # {}

LEMMA CaptiveLater ==
  ASSUME NEW w, NEW v, World(w), World(v), Later(w, v), NEW x \in Holders, Captive(w, x)
  PROVE  Captive(v, x)
<1>1. PICK u \in Unknown : u \in Principals(w, x)
  BY DEF Captive
<1>2. u # NoOne
  BY Kinds
<1>3. u \in Principals(v, x)
  BY <1>1, <1>2, StillSpeaks
<1>4. QED  BY <1>3 DEF Captive

(* It does for itself and what it owns, and for nobody else without an owner. *)
LEMMA CaptiveKinds ==
  ASSUME NEW w
  PROVE  /\ \A x \in Unknown : Captive(w, x)
         /\ \A x \in Addr \ (Accounts \cup Unknown) : ~Captive(w, x)
         /\ \A a \in Accounts : Captive(w, w.owner[a]) => Captive(w, a)
<1>1. ASSUME NEW x \in Unknown PROVE Captive(w, x)
  <2>1. x \in Holders
    BY Kinds DEF Holders
  <2>2. QED  BY <2>1, SpeaksForItself DEF Captive
<1>2. ASSUME NEW x \in Addr \ (Accounts \cup Unknown), NEW p \in Principals(w, x)
      PROVE  p \notin Unknown
  <2> DEFINE S == {x}
  <2>1. S \in SUBSET (Addr \cup {NoOne}) /\ x \in S /\ S \cap Accounts = {}
    OBVIOUS
  <2> HIDE DEF S
  <2>2. p \in S
    BY <1>2, <2>1 DEF Principals
  <2>3. QED  BY <1>2, <2>2 DEF S
<1>3. ASSUME NEW a \in Accounts, Captive(w, w.owner[a]) PROVE Captive(w, a)
  <2>1. Principals(w, w.owner[a]) \subseteq Principals(w, a)
    BY SpeaksForOwned
  <2>2. QED  BY <1>3, <2>1 DEF Captive
<1>4. QED  BY <1>1, <1>2, <1>3 DEF Captive

(* What the d-th frame f is still to spend of what a has, in the world w:  *)
(* the prefund, and its calls.  What captives do is nobody's to answer for. *)
Charge(f, a) == IF f.at \in {"create", "validate"} /\ f.op.sender = a THEN f.op.prefund ELSE 0

Ahead(w, f, d, a, T) ==
  Charge(f, a) + (IF Captive(w, f.self) THEN 0 ELSE Bill(Price(T[MaxCalls + 1 - d], f.self, a), f.rest))

(* What the request r may spend, and what the d-th frame may. *)
Budget(r, a, T) == (IF a = r.sender THEN r.prefund ELSE 0) + Bill(T[MaxCalls], r.asked)

Allowance(r, s, d, a, T) ==
  IF d = 1 THEN Budget(r, a, T)
  ELSE IF Captive(s[d].saved, s[d - 1].self) THEN 0
  ELSE Price(T[MaxCalls + 2 - d], s[d - 1].self, a)[s[d].call]

From(b, s, d) == IF d = 1 THEN b ELSE s[d].saved

(* From the world b to the world w, a has spent what p may speak for, and no *)
(* more than the allowance, of which something is ahead.                     *)
Fair(p, b, w, a, ahead, allowance) ==
  ~Captive(w, a) =>
    /\ p \notin Principals(w, a) => Owns(b, a) <= Owns(w, a)
    /\ Owns(b, a) + ahead <= Owns(w, a) + allowance

(* Each frame has been fair until it made the call that is in progress. *)
Thrifty(r, b, w, s, rev, a, T) ==
  /\ \A d \in 1..Len(s) : d < Len(s) =>
       Fair(r.by, From(b, s, d), s[d + 1].saved, a,
            Ahead(s[d + 1].saved, s[d], d, a, T) + Allowance(r, s, d + 1, a, T), Allowance(r, s, d, a, T))
  /\ s # <<>> /\ ~rev =>
       Fair(r.by, From(b, s, Len(s)), w, a, Ahead(w, s[Len(s)], Len(s), a, T), Allowance(r, s, Len(s), a, T))
  /\ s = <<>> => Fair(r.by, b, w, a, 0, Budget(r, a, T))

Metered(r, s, n) ==
  /\ n \in 0..MaxCalls /\ (s # <<>> => Len(s) <= n + 1)
  /\ r.asked \in Seq(AllCalls) /\ r.prefund \in Nat

SInv ==
  /\ Metered(tx, frames, made)
  /\ \A a \in Accounts : Thrifty(tx, start, world, frames, reverting, a, Spending(a))

(* A table of what calls cost a, so many calls deep. *)
Table(T, a) ==
  /\ T \in [0..MaxCalls -> [AllCalls -> Nat]]
  /\ \A c \in AllCalls : T[0][c] = 0
  /\ \A k \in 0..MaxCalls, c \in AllCalls : k # 0 => T[k][c] = Bill(Price(T[k - 1], c.dest, a), Leads(c))

LEMMA SpendingTable ==
  ASSUME NEW a
  PROVE  Table(Spending(a), a)
BY Priced, Zenon DEF Table

LEMMA BudgetNat ==
  ASSUME NEW r, NEW s, NEW n, Metered(r, s, n), NEW a, NEW T, Table(T, a)
  PROVE  Budget(r, a, T) \in Nat /\ Bill(T[MaxCalls], r.asked) \in Nat
<1>1. r.asked \in Seq(AllCalls) /\ r.prefund \in Nat
  BY DEF Metered
<1>2. T[MaxCalls] \in [AllCalls -> Nat]
  BY AccountsAssumption DEF Table, AccountsAssumption
<1>3. Bill(T[MaxCalls], r.asked) \in Nat
  BY <1>1, <1>2, BillNat
<1>4. QED  BY <1>1, <1>3 DEF Budget

LEMMA OwnsNat ==
  ASSUME NEW w, World(w), NEW a \in Addr
  PROVE  Owns(w, a) \in Nat
BY DEF World, Typed, Owns

(* A call of no account is quiet: what it leads to costs nothing. *)
LEMMA Quiet ==
  ASSUME NEW a, NEW T, Table(T, a), NEW k \in 0..MaxCalls, NEW c \in AllCalls,
         c.fn \notin {"execute", "executeBatch", "withdrawDepositTo"}
  PROVE  T[k][c] = 0
<1>1. CASE k = 0
  BY <1>1 DEF Table
<1>2. CASE k # 0
  <2>1. k - 1 \in 0..MaxCalls
    BY <1>2, AccountsAssumption DEF AccountsAssumption
  <2>2. T[k - 1] \in [AllCalls -> Nat]
    BY <2>1 DEF Table
  <2>3. Leads(c) = <<>> /\ Leads(c) \in Seq(AllCalls)
    BY CallTypes
  <2>4. Price(T[k - 1], c.dest, a) \in [AllCalls -> Nat]
    BY <2>2, PriceNat
  <2>5. Bill(Price(T[k - 1], c.dest, a), Leads(c)) = 0
    BY <2>3, <2>4, BillNat
  <2>6. QED  BY <1>2, <2>5 DEF Table
<1>3. QED  BY <1>1, <1>2

LEMMA ChargeNat ==
  ASSUME NEW p, NEW f, f.at = "called" \/ Sent(p, f), NEW a
  PROVE  Charge(f, a) \in Nat
<1>1. CASE f.at \in {"create", "validate"}
  <2>1. f.op \in Operations
    BY <1>1 DEF Sent
  <2>2. f.op.prefund \in Nat
    BY <2>1, AccountsAssumption DEF AccountsAssumption
  <2>3. QED  BY <2>2 DEF Charge
<1>2. CASE f.at \notin {"create", "validate"}
  BY <1>2 DEF Charge
<1>3. QED  BY <1>1, <1>2

LEMMA AheadNat ==
  ASSUME NEW p, NEW f, f.at = "called" \/ Sent(p, f), f.rest \in Seq(AllCalls),
         NEW a, NEW T, Table(T, a), NEW d \in 1..(MaxCalls + 1), NEW w
  PROVE  /\ Ahead(w, f, d, a, T) \in Nat /\ Charge(f, a) \in Nat
         /\ Bill(Price(T[MaxCalls + 1 - d], f.self, a), f.rest) \in Nat
         /\ T[MaxCalls + 1 - d] \in [AllCalls -> Nat]
         /\ Price(T[MaxCalls + 1 - d], f.self, a) \in [AllCalls -> Nat]
<1> DEFINE k == MaxCalls + 1 - d
<1>1. k \in 0..MaxCalls
  BY AccountsAssumption DEF AccountsAssumption
<1>2. MaxCalls + 1 - d = k
  OBVIOUS
<1> HIDE DEF k
<1>3. T[k] \in [AllCalls -> Nat]
  BY <1>1 DEF Table
<1>4. Price(T[k], f.self, a) \in [AllCalls -> Nat]
  BY <1>3, PriceNat
<1>5. Bill(Price(T[k], f.self, a), f.rest) \in Nat
  BY <1>4, BillNat
<1>6. Charge(f, a) \in Nat
  BY ChargeNat
<1>7. Ahead(w, f, d, a, T) \in Nat
  BY <1>2, <1>5, <1>6 DEF Ahead
<1>8. QED  BY <1>2, <1>3, <1>4, <1>5, <1>6, <1>7

LEMMA AllowanceNat ==
  ASSUME NEW w, NEW s, Listed(w, s), Len(s) \in Nat, NEW r, NEW n, Metered(r, s, n),
         NEW a, NEW T, Table(T, a), NEW d \in 1..Len(s)
  PROVE  Allowance(r, s, d, a, T) \in Nat /\ d \in 1..(MaxCalls + 1)
<1>1. d \in 1..(MaxCalls + 1)
  <2>1. s # <<>>
    BY EmptySeq
  <2>2. QED  BY <2>1, AccountsAssumption DEF Metered, AccountsAssumption
<1>2. CASE d = 1
  BY <1>1, <1>2, BudgetNat DEF Allowance
<1>3. CASE d # 1
  <2> DEFINE k == MaxCalls + 2 - d
             x == s[d - 1].self
             c == s[d].call
  <2>1. k \in 0..MaxCalls
    BY <1>1, <1>3, AccountsAssumption DEF AccountsAssumption
  <2>2. c \in AllCalls
    BY <1>3 DEF Listed
  <2> HIDE DEF x, c
  <2>3. T[k] \in [AllCalls -> Nat]
    BY <2>1 DEF Table
  <2> HIDE DEF k
  <2>4. Price(T[k], x, a)[c] \in Nat
    BY <2>2, <2>3, PriceNat
  <2>5. QED  BY <1>1, <1>3, <2>4 DEF Allowance, k, x, c
<1>4. QED  BY <1>2, <1>3

(* A later world has no more ahead. *)
LEMMA AheadLater ==
  ASSUME NEW p, NEW f, f.at = "called" \/ Sent(p, f), f.rest \in Seq(AllCalls), f.self \in Addr,
         NEW a, NEW T, Table(T, a), NEW d \in 1..(MaxCalls + 1),
         NEW w, NEW v, World(w), World(v), Later(w, v)
  PROVE  Ahead(v, f, d, a, T) <= Ahead(w, f, d, a, T)
<1> DEFINE x == Charge(f, a)
           y == Bill(Price(T[MaxCalls + 1 - d], f.self, a), f.rest)
<1>1. x \in Nat /\ y \in Nat
  BY AheadNat
<1>2. Ahead(v, f, d, a, T) = x + (IF Captive(v, f.self) THEN 0 ELSE y)
  BY DEF Ahead
<1>3. Ahead(w, f, d, a, T) = x + (IF Captive(w, f.self) THEN 0 ELSE y)
  BY DEF Ahead
<1> HIDE DEF x, y
<1>4. Captive(w, f.self) => Captive(v, f.self)
  BY CaptiveLater DEF Holders
<1>5. QED  BY <1>1, <1>2, <1>3, <1>4

(* A call that is made is no longer ahead: it is the callee's to spend. *)
LEMMA AheadLeft ==
  ASSUME NEW f, IsFrame(f), NEW g, g = Left(f), NEW p, f.at = "called" \/ Sent(p, f),
         NEW c \in AllCalls, f.self \notin Unknown => f.rest # <<>> /\ c = Head(f.rest),
         NEW a, NEW T, Table(T, a), NEW d \in 1..(MaxCalls + 1), NEW w
  PROVE  Ahead(w, g, d, a, T) + (IF Captive(w, f.self) THEN 0 ELSE Price(T[MaxCalls + 1 - d], f.self, a)[c])
           = Ahead(w, f, d, a, T)
<1> DEFINE x == Charge(f, a)
           price == Price(T[MaxCalls + 1 - d], f.self, a)
<1>1. x \in Nat /\ price \in [AllCalls -> Nat]
  BY AheadNat DEF IsFrame
<1>2. /\ f.rest \in Seq(AllCalls) /\ g.self = f.self /\ g.at = f.at /\ g.op = f.op
      /\ g.rest = IF f.rest = <<>> THEN f.rest ELSE Tail(f.rest)
  BY DEF IsFrame, FrameFields, Left
<1>3. Charge(g, a) = x
  BY <1>2 DEF Charge
<1>4. Ahead(w, g, d, a, T) = x + (IF Captive(w, f.self) THEN 0 ELSE Bill(price, g.rest))
  BY <1>2, <1>3 DEF Ahead
<1>5. Ahead(w, f, d, a, T) = x + (IF Captive(w, f.self) THEN 0 ELSE Bill(price, f.rest))
  BY DEF Ahead
<1> HIDE DEF x, price
<1>6. CASE Captive(w, f.self)
  BY <1>1, <1>4, <1>5, <1>6
<1>7. CASE ~Captive(w, f.self)
  <2>1. f.self \notin Unknown
    BY <1>7, CaptiveKinds
  <2>2. f.rest # <<>> /\ c = Head(f.rest) /\ g.rest = Tail(f.rest)
    BY <1>2, <2>1
  <2>3. g.rest \in Seq(AllCalls)
    BY <1>2, <2>2, HeadTailProperties
  <2>4. Bill(price, f.rest) = price[c] + Bill(price, g.rest) /\ Bill(price, g.rest) \in Nat
    BY <1>1, <1>2, <2>2, <2>3, BillTail, BillNat
  <2>5. QED  BY <1>1, <1>4, <1>5, <1>7, <2>4 DEF price
<1>8. QED  BY <1>6, <1>7

(* A call: what the caller has left, and the callee is fair. *)
LEMMA ThriftPushed ==
  ASSUME NEW r, NEW b, NEW w, NEW s, NEW n, Progress(r.by, b, w, s, FALSE), Listed(w, s), Metered(r, s, n),
         s # <<>>, NEW a, NEW T, Table(T, a), Thrifty(r, b, w, s, FALSE, a, T),
         NEW g, g = Left(s[Len(s)]), NEW f, NEW t, t = Push(s, g, f),
         f.call \in AllCalls, f.saved = w,
         s[Len(s)].self \notin Unknown => s[Len(s)].rest # <<>> /\ f.call = Head(s[Len(s)].rest),
         NEW v, NEW rev \in BOOLEAN,
         ~rev => Fair(r.by, w, v, a, Ahead(v, f, Len(s) + 1, a, T),
                      IF Captive(w, s[Len(s)].self) THEN 0
                      ELSE Price(T[MaxCalls + 1 - Len(s)], s[Len(s)].self, a)[f.call])
  PROVE  Thrifty(r, b, v, t, rev, a, T)
<1> DEFINE m == Len(s)
           top == s[m]
           share == IF Captive(w, top.self) THEN 0 ELSE Price(T[MaxCalls + 1 - m], top.self, a)[f.call]
<1>1. PICK S : s \in Seq(S)
  BY DEF Progress, Stack
<1>2. /\ m \in Nat \ {0} /\ Len(t) = m + 1 /\ t # <<>>
      /\ t[m + 1] = f /\ t[m] = g
      /\ \A d \in 1..m : d < m => t[d] = s[d]
  BY <1>1, PushedStack
<1>3. IsFrame(top) /\ (top.at = "called" \/ Sent(r.by, top))
  BY <1>2 DEF Progress, Stack
<1>4. g.saved = top.saved /\ g.call = top.call /\ g.self = top.self
  BY <1>3 DEF Left, IsFrame, FrameFields
<1>5. \A d \in 1..m : t[d].saved = s[d].saved /\ t[d].call = s[d].call /\ t[d].self = s[d].self
  BY <1>2, <1>4
<1>6. \A d \in 1..m : From(b, t, d) = From(b, s, d) /\ Allowance(r, t, d, a, T) = Allowance(r, s, d, a, T)
  <2>1. ASSUME NEW d \in 1..m
        PROVE  From(b, t, d) = From(b, s, d) /\ Allowance(r, t, d, a, T) = Allowance(r, s, d, a, T)
    <3>1. CASE d = 1
      BY <3>1 DEF From, Allowance
    <3>2. CASE d # 1
      <4>1. d - 1 \in 1..m
        BY <1>2, <3>2
      <4>2. t[d].saved = s[d].saved /\ t[d].call = s[d].call /\ t[d - 1].self = s[d - 1].self
        BY <1>5, <4>1
      <4>3. QED  BY <3>2, <4>2 DEF From, Allowance
    <3>3. QED  BY <3>1, <3>2
  <2>2. QED  BY <2>1
<1>7. Allowance(r, t, m + 1, a, T) = share /\ From(b, t, m + 1) = w
  <2> DEFINE k == MaxCalls + 1 - m
             e == m + 1
  <2>1. MaxCalls + 2 - e = k /\ e # 1 /\ e - 1 = m
    BY <1>2, AccountsAssumption DEF AccountsAssumption
  <2>2. t[e].saved = w /\ t[m].self = top.self /\ t[e].call = f.call
    BY <1>2, <1>4
  <2>3. share = IF Captive(w, top.self) THEN 0 ELSE Price(T[k], top.self, a)[f.call]
    OBVIOUS
  <2> HIDE DEF k, e, m, top, share
  <2>4. Allowance(r, t, e, a, T) =
          IF Captive(t[e].saved, t[m].self) THEN 0 ELSE Price(T[k], t[m].self, a)[t[e].call]
    <3>1. Allowance(r, t, e, a, T) =
            IF Captive(t[e].saved, t[e - 1].self) THEN 0
            ELSE Price(T[MaxCalls + 2 - e], t[e - 1].self, a)[t[e].call]
      BY <2>1, Zenon DEF Allowance
    <3>2. QED  BY <2>1, <3>1, Zenon
  <2>5. From(b, t, e) = t[e].saved
    BY <2>1 DEF From
  <2>6. Allowance(r, t, e, a, T) = share /\ From(b, t, e) = w
    BY <2>2, <2>3, <2>4, <2>5, Zenon
  <2>7. QED  BY <2>6, Zenon DEF e
<1>8. Ahead(w, g, m, a, T) + share = Ahead(w, top, m, a, T)
  <2>1. m \in 1..Len(s)
    BY <1>2
  <2>2. m \in 1..(MaxCalls + 1)
    BY <2>1, <1>2, AllowanceNat
  <2>3. g = Left(top) /\ (top.self \notin Unknown => top.rest # <<>> /\ f.call = Head(top.rest))
    OBVIOUS
  <2> HIDE DEF m, top
  <2>4. Ahead(w, g, m, a, T)
          + (IF Captive(w, top.self) THEN 0 ELSE Price(T[MaxCalls + 1 - m], top.self, a)[f.call])
          = Ahead(w, top, m, a, T)
    BY <1>3, <2>2, <2>3, AheadLeft
  <2>5. QED  BY <2>4, Zenon
<1>9. ASSUME NEW d \in 1..(m + 1), d < m + 1
      PROVE  Fair(r.by, From(b, t, d), t[d + 1].saved, a,
                  Ahead(t[d + 1].saved, t[d], d, a, T) + Allowance(r, t, d + 1, a, T), Allowance(r, t, d, a, T))
  <2>1. CASE d < m
    <3>1. Fair(r.by, From(b, s, d), s[d + 1].saved, a,
               Ahead(s[d + 1].saved, s[d], d, a, T) + Allowance(r, s, d + 1, a, T), Allowance(r, s, d, a, T))
      BY <1>2, <2>1 DEF Thrifty
    <3>2. d \in 1..m /\ d + 1 \in 1..m
      BY <1>2, <2>1
    <3>3. t[d] = s[d] /\ t[d + 1].saved = s[d + 1].saved
      BY <1>2, <1>5, <2>1, <3>2
    <3>4. /\ From(b, t, d) = From(b, s, d) /\ Allowance(r, t, d, a, T) = Allowance(r, s, d, a, T)
          /\ Allowance(r, t, d + 1, a, T) = Allowance(r, s, d + 1, a, T)
      BY <1>6, <3>2
    <3>5. QED  BY <3>1, <3>3, <3>4
  <2>2. CASE d = m
    <3>1. Fair(r.by, From(b, s, m), w, a, Ahead(w, top, m, a, T), Allowance(r, s, m, a, T))
      BY DEF Thrifty
    <3>2. t[d + 1].saved = w /\ t[d] = g
      BY <1>2, <2>2
    <3>3. From(b, t, d) = From(b, s, m) /\ Allowance(r, t, d, a, T) = Allowance(r, s, m, a, T)
      BY <1>2, <1>6, <2>2
    <3>4. Allowance(r, t, d + 1, a, T) = share
      BY <1>7, <2>2
    <3> HIDE DEF share, top, m
    <3>5. QED  BY <1>8, <2>2, <3>1, <3>2, <3>3, <3>4
  <2>3. QED  BY <1>2, <1>9, <2>1, <2>2
<1>10. ~rev => Fair(r.by, From(b, t, m + 1), v, a, Ahead(v, t[m + 1], m + 1, a, T), Allowance(r, t, m + 1, a, T))
  BY <1>2, <1>7
<1> HIDE DEF m, top, share
<1>11. QED  BY <1>2, <1>9, <1>10 DEF Thrifty

(* The end of a call. *)
LEMMA ThriftPopped ==
  ASSUME NEW r, NEW b, NEW w, NEW s, NEW r0, Progress(r.by, b, w, s, r0), Len(s) > 1,
         NEW a, NEW T, Thrifty(r, b, w, s, r0, a, T), NEW t, t = Front(s), NEW v, NEW rev \in BOOLEAN,
         ~rev => Fair(r.by, From(b, s, Len(s) - 1), v, a,
                      Ahead(v, s[Len(s) - 1], Len(s) - 1, a, T), Allowance(r, s, Len(s) - 1, a, T))
  PROVE  Thrifty(r, b, v, t, rev, a, T)
<1> DEFINE m == Len(s) - 1
<1>1. PICK S : s \in Seq(S)
  BY DEF Progress, Stack
<1>2. /\ Len(s) \in Nat /\ m \in Nat /\ m \in 1..m /\ Len(t) = m /\ t # <<>> /\ Len(s) = m + 1
      /\ \A d \in 1..m : t[d] = s[d]
  BY <1>1, PoppedStack
<1> HIDE DEF m
<1>3. ASSUME NEW d \in 1..m
      PROVE  From(b, t, d) = From(b, s, d) /\ Allowance(r, t, d, a, T) = Allowance(r, s, d, a, T)
  <2>1. CASE d = 1
    BY <2>1 DEF From, Allowance
  <2>2. CASE d # 1
    <3>1. d - 1 \in 1..m
      BY <1>2, <2>2
    <3>2. t[d] = s[d] /\ t[d - 1] = s[d - 1]
      BY <1>2, <3>1
    <3>3. QED  BY <2>2, <3>2 DEF From, Allowance
  <2>3. QED  BY <2>1, <2>2
<1>4. ASSUME NEW d \in 1..m, d < m
      PROVE  Fair(r.by, From(b, t, d), t[d + 1].saved, a,
                  Ahead(t[d + 1].saved, t[d], d, a, T) + Allowance(r, t, d + 1, a, T), Allowance(r, t, d, a, T))
  <2>1. d \in 1..Len(s) /\ d < Len(s) /\ d + 1 \in 1..m
    BY <1>2, <1>4
  <2>2. Fair(r.by, From(b, s, d), s[d + 1].saved, a,
             Ahead(s[d + 1].saved, s[d], d, a, T) + Allowance(r, s, d + 1, a, T), Allowance(r, s, d, a, T))
    BY <2>1 DEF Thrifty
  <2>3. t[d] = s[d] /\ t[d + 1] = s[d + 1]
    BY <1>2, <2>1
  <2>4. /\ From(b, t, d) = From(b, s, d) /\ Allowance(r, t, d, a, T) = Allowance(r, s, d, a, T)
        /\ Allowance(r, t, d + 1, a, T) = Allowance(r, s, d + 1, a, T)
    BY <1>3, <2>1
  <2>5. QED  BY <2>2, <2>3, <2>4
<1>5. ~rev => Fair(r.by, From(b, t, m), v, a, Ahead(v, t[m], m, a, T), Allowance(r, t, m, a, T))
  <2>1. t[m] = s[m] /\ From(b, t, m) = From(b, s, m) /\ Allowance(r, t, m, a, T) = Allowance(r, s, m, a, T)
    BY <1>2, <1>3
  <2>2. QED  BY <2>1 DEF m
<1>6. QED  BY <1>2, <1>4, <1>5 DEF Thrifty

(* An account makes the calls that somebody who may speak for it asked for. *)
LEMMA SpenderSpeaks ==
  ASSUME IInv, NEW c, Makes(c), Top.self \in Accounts
  PROVE  Speaks(tx.by, world, Top.self)
<1>1. World(world) /\ Sent(tx.by, frames[1]) /\ Entitled(tx.by, Top) /\ Depth \in Nat \ {0}
  BY Caller, Standing
<1>2. tx.by # NoOne /\ tx.by \in People /\ frames[1].self \notin Accounts
  BY <1>1, PersonSent, Kinds DEF Sent
<1>3. Top.rest # <<>> /\ Top.self \notin Unknown \cup {tx.by, EntryPoint}
  BY <1>2, Caller, Kinds
<1>4. Speaks(tx.by, Top.saved, Top.self)
  BY <1>1, <1>3 DEF Entitled
<1>5. Depth \in 2..Depth
  <2>1. Depth # 1
    BY <1>2 DEF Top
  <2>2. QED  BY <1>1, <2>1
<1>6. World(Top.saved) /\ Later(Top.saved, world)
  BY <1>5 DEF IInv, Progress, Saved, Top, Depth
<1>7. QED  BY <1>1, <1>2, <1>4, <1>6, SpeaksLater

(* What the callee has ahead was in the price of the call. *)
LEMMA CalleeAhead ==
  ASSUME NEW a \in Accounts, NEW T, Table(T, a), NEW k \in 1..MaxCalls, NEW c \in AllCalls,
         NEW next \in Seq(AllCalls),
         next = <<>> \/ next = Leads(c) \/ (c.dest = EntryPoint /\ next = <<Payment(c)>>)
  PROVE  /\ Bill(Price(T[k - 1], c.dest, a), next) \in Nat
         /\ Bill(Price(T[k - 1], c.dest, a), next) <= T[k][c] /\ T[k][c] \in Nat
         /\ next = <<>> \/ (c.dest = EntryPoint /\ next = <<Payment(c)>>) =>
              Bill(Price(T[k - 1], c.dest, a), next) = 0
<1> DEFINE j == k - 1
           price == Price(T[j], c.dest, a)
<1>1. k \in 0..MaxCalls /\ k # 0 /\ j \in 0..MaxCalls
  BY AccountsAssumption DEF AccountsAssumption
<1>2. T[k][c] \in Nat /\ T[j] \in [AllCalls -> Nat]
  BY <1>1 DEF Table
<1>3. T[k][c] = Bill(price, Leads(c))
  BY <1>1 DEF Table
<1> HIDE DEF j
<1>4. /\ price \in [AllCalls -> Nat]
      /\ \A d \in AllCalls : price[d] = T[j][d] + (IF c.dest = a THEN Takes(d) ELSE 0)
  BY <1>2, PriceNat
<1>5. Bill(price, next) \in Nat
  BY <1>4, BillNat
<1>6. ASSUME c.dest = EntryPoint, next = <<Payment(c)>>
      PROVE  Bill(price, next) = 0
  <2> DEFINE pay == Payment(c)
  <2>1. pay.fn = "receive"
    BY DEF Payment, Call
  <2> HIDE DEF pay
  <2>2. next # <<>> /\ Head(next) = pay /\ Tail(next) = <<>> /\ pay \in AllCalls
    <3>1. next = <<pay>>
      BY <1>6 DEF pay
    <3>2. Len(next) = 1 /\ next[1] = pay
      BY <3>1
    <3>3. 1 \in 1..Len(next)
      BY <3>2
    <3>4. next[1] \in AllCalls
      BY <3>3, ElementOfSeq
    <3>5. QED  BY <3>1, <3>2, <3>4
  <2>3. T[j][pay] = 0
    BY <1>1, <2>1, <2>2, Quiet
  <2>4. c.dest # a
    BY <1>6, Kinds
  <2>5. price[pay] = 0
    BY <1>4, <2>2, <2>3, <2>4
  <2>6. Bill(price, Tail(next)) = 0
    <3>1. Tail(next) \in Seq(AllCalls)
      BY <2>2
    <3>2. QED  BY <1>4, <2>2, <3>1, BillNat
  <2> HIDE DEF price
  <2>7. Bill(price, next) = price[Head(next)] + Bill(price, Tail(next))
    BY <1>4, <2>2, BillTail
  <2>8. QED  BY <2>2, <2>5, <2>6, <2>7
<1>7. next = <<>> => Bill(price, next) = 0
  BY <1>4, BillNat
<1> HIDE DEF price
<1>8. /\ Bill(price, next) \in Nat /\ Bill(price, next) <= T[k][c] /\ T[k][c] \in Nat
      /\ next = <<>> \/ (c.dest = EntryPoint /\ next = <<Payment(c)>>) => Bill(price, next) = 0
  BY <1>2, <1>3, <1>5, <1>6, <1>7
<1>9. QED  BY <1>8 DEF price, j

(* What a call does to what accounts have, and what it leads to. *)
Modest(c, v, next) ==
  /\ \A a \in Accounts : Owns(world, a) <= Owns(v, a) + (IF Top.self = a THEN Takes(c) ELSE 0)
  /\ \/ next = <<>>
     \/ c.dest = EntryPoint /\ next = <<Payment(c)>>
     \/ next = Leads(c) /\ (Captive(world, Top.self) => Captive(world, c.dest))

LEMMA CallFair ==
  ASSUME IInv, NEW c, Makes(c), NEW v, World(v), Later(world, v), NEW next \in Seq(AllCalls),
         Modest(c, v, next), NEW a \in Accounts, NEW T, Table(T, a), Depth <= MaxCalls,
         NEW f, f.self = c.dest, f.rest = next, f.at = "called"
  PROVE  Fair(tx.by, world, v, a, Ahead(v, f, Depth + 1, a, T),
              IF Captive(world, Top.self) THEN 0 ELSE Price(T[MaxCalls + 1 - Depth], Top.self, a)[c])
<1> DEFINE k == MaxCalls + 1 - Depth
           x == Top.self
           bill == Bill(Price(T[k - 1], c.dest, a), next)
           loss == IF x = a THEN Takes(c) ELSE 0
<1>1. Depth \in Nat \ {0} /\ c \in AllCalls /\ IsFrame(Top) /\ World(world) /\ tx.by # NoOne
  BY Caller, Standing
<1>2. k \in 1..MaxCalls /\ MaxCalls + 1 - (Depth + 1) = k - 1
  BY <1>1, AccountsAssumption DEF AccountsAssumption
<1>3. /\ Owns(world, a) \in Nat /\ Owns(v, a) \in Nat /\ Takes(c) \in Nat /\ c.dest \in Addr
      /\ a \in Addr /\ a \in Holders /\ x \in Holders /\ c.dest \in Holders
  BY <1>1, Kinds, OwnsNat, CallTypes DEF IsFrame, Holders
<1>4. Owns(world, a) <= Owns(v, a) + loss
  BY DEF Modest
<1>5. /\ bill \in Nat /\ bill <= T[k][c] /\ T[k][c] \in Nat
      /\ next = <<>> \/ (c.dest = EntryPoint /\ next = <<Payment(c)>>) => bill = 0
  <2> HIDE DEF k
  <2>1. next = <<>> \/ next = Leads(c) \/ (c.dest = EntryPoint /\ next = <<Payment(c)>>)
    BY DEF Modest
  <2>2. QED  BY <1>1, <1>2, <2>1, CalleeAhead
<1>6. Ahead(v, f, Depth + 1, a, T) = IF Captive(v, c.dest) THEN 0 ELSE bill
  <2>1. Charge(f, a) = 0
    BY DEF Charge
  <2>2. Ahead(v, f, Depth + 1, a, T) =
          Charge(f, a) + (IF Captive(v, f.self) THEN 0
                          ELSE Bill(Price(T[MaxCalls + 1 - (Depth + 1)], f.self, a), f.rest))
    BY Zenon DEF Ahead
  <2>3. Ahead(v, f, Depth + 1, a, T) = 0 + (IF Captive(v, c.dest) THEN 0 ELSE bill)
    BY <1>2, <2>1, <2>2, Zenon
  <2> HIDE DEF bill
  <2>4. QED  BY <1>5, <2>3
<1>7. Price(T[k], x, a)[c] = T[k][c] + loss
  <2> HIDE DEF k
  <2>1. T[k] \in [AllCalls -> Nat]
    BY <1>2, AccountsAssumption DEF Table, AccountsAssumption
  <2>2. QED  BY <1>1, <2>1, PriceNat
<1>8. ASSUME ~Captive(v, a)
      PROVE  /\ ~Captive(world, a)
             /\ tx.by \notin Principals(v, a) => x # a
             /\ Captive(world, x) => x # a
  <2>1. ~Captive(world, a)
    BY <1>1, <1>3, <1>8, CaptiveLater
  <2>2. x = a => tx.by \in Principals(v, a)
    <3>1. x = a => Speaks(tx.by, world, a)
      BY SpenderSpeaks
    <3>2. x = a => Speaks(tx.by, v, a)
      BY <1>1, <3>1, SpeaksLater
    <3>3. QED  BY <1>8, <3>2 DEF Speaks, Captive
  <2>3. QED  BY <2>1, <2>2
<1>9. Captive(world, x) => Captive(v, c.dest) \/ bill = 0
  <2>1. Captive(world, c.dest) => Captive(v, c.dest)
    BY <1>1, <1>3, CaptiveLater
  <2> HIDE DEF bill
  <2>2. QED  BY <1>5, <2>1 DEF Modest
<1> HIDE DEF k, x, bill, loss
<1>10. QED
  <2> DEFINE ahead == IF Captive(v, c.dest) THEN 0 ELSE bill
             allowance == IF Captive(world, x) THEN 0 ELSE T[k][c] + loss
  <2>1. ASSUME ~Captive(v, a)
        PROVE  /\ tx.by \notin Principals(v, a) => Owns(world, a) <= Owns(v, a)
               /\ Owns(world, a) + ahead <= Owns(v, a) + allowance
    <3>1. /\ loss \in Nat
          /\ x # a => loss = 0
      BY <1>3 DEF loss
    <3> DEFINE o == Owns(world, a)
               u == Owns(v, a)
               y == T[k][c]
    <3>2. /\ o \in Nat /\ u \in Nat /\ y \in Nat /\ o <= u + loss /\ bill \in Nat /\ bill <= y
      BY <1>3, <1>4, <1>5
    <3>3. Captive(world, x) => ahead = 0 /\ loss = 0
      BY <1>8, <1>9, <2>1, <3>1
    <3>4. ahead \in Nat /\ ahead <= y
      BY <3>2
    <3>5. allowance = IF Captive(world, x) THEN 0 ELSE y + loss
      OBVIOUS
    <3>6. tx.by \notin Principals(v, a) => loss = 0
      BY <1>8, <2>1, <3>1
    <3> HIDE DEF ahead, allowance, o, u, y
    <3>7. (tx.by \notin Principals(v, a) => o <= u) /\ o + ahead <= u + allowance
      BY <3>1, <3>2, <3>3, <3>4, <3>5, <3>6
    <3>8. QED  BY <3>7 DEF o, u
  <2>2. Fair(tx.by, world, v, a, ahead, allowance)
    BY <2>1 DEF Fair
  <2>3. ahead = Ahead(v, f, Depth + 1, a, T)
    BY <1>6
  <2>4. allowance = IF Captive(world, Top.self) THEN 0 ELSE Price(T[MaxCalls + 1 - Depth], Top.self, a)[c]
    BY <1>7 DEF k, x
  <2> HIDE DEF ahead, allowance
  <2>5. QED  BY <2>2, <2>3, <2>4, Zenon

LEMMA CallThrift ==
  ASSUME IInv, BInv, SInv, IInv', NEW c, Makes(c), NEW conditions, NEW v, NEW next \in Seq(AllCalls),
         Runs(c, conditions, v, next),
         c.value <= world.balance[Top.self] /\ conditions => Modest(c, v, next)
  PROVE  SInv'
<1> DEFINE runs == c.value <= world.balance[Top.self] /\ conditions
           f == Frame(c.dest, c, next, NoOne, "called")
           g == Left(Top)
           m == IF runs THEN v ELSE world
           rev == ~runs
<1>1. /\ ~reverting /\ frames # <<>> /\ c \in AllCalls /\ Depth = Len(frames) /\ Depth \in Nat \ {0}
      /\ Top = frames[Len(frames)]
      /\ Top.self \notin Unknown => Top.rest # <<>>
  BY Caller DEF Depth, Top
<1>2. /\ f.self = c.dest /\ f.rest = next /\ f.saved = world /\ f.call = c /\ f.at = "called"
  BY DEF Frame
<1>3. /\ frames' = Push(frames, g, f) /\ world' = m /\ reverting' = rev /\ start' = start
      /\ made' = made + 1 /\ tx' = tx
  BY DEF Runs, Push, Depth, Left
<1>4. rev \in BOOLEAN /\ (~rev => m = v /\ Modest(c, v, next))
  OBVIOUS
<1>5. Progress(tx.by, start, world, frames, FALSE) /\ Listed(world, frames)
  <2>1. reverting = FALSE
    BY <1>1 DEF IInv, Progress, Stack
  <2>2. QED  BY <2>1 DEF IInv, BInv, Booked
<1>6. made < MaxCalls /\ (Top.self \notin Unknown => c = Head(Top.rest))
  BY DEF Makes
<1> HIDE DEF f, g, m, rev, runs
<1>7. Metered(tx, frames, made) /\ Depth <= MaxCalls
  <2>1. Metered(tx, frames, made)
    BY DEF SInv
  <2>2. QED  BY <1>1, <1>6, <2>1, AccountsAssumption DEF Metered, AccountsAssumption
<1>8. World(world') /\ Later(world, world') /\ Len(frames') = Depth + 1 /\ frames' # <<>>
  <2>1. PICK S : frames \in Seq(S)
    BY DEF IInv, Progress, Stack
  <2>2. Len(frames') = Len(frames) + 1 /\ frames'[Len(frames) + 1] = f /\ frames' # <<>>
    BY <1>1, <1>3, <2>1, PushedStack
  <2>3. World(world')
    BY DEF IInv, Progress, Worlds
  <2>4. \A d \in 2..Len(frames') : Later(frames'[d].saved, world')
    BY DEF IInv, Progress, Saved
  <2>5. Depth + 1 \in 2..Len(frames')
    BY <1>1, <2>2
  <2>6. Later(frames'[Depth + 1].saved, world')
    BY <2>4, <2>5
  <2>7. QED  BY <1>1, <1>2, <2>2, <2>3, <2>6
<1>9. ASSUME NEW a \in Accounts
      PROVE  Thrifty(tx, start, m, frames', rev, a, Spending(a))
  <2> DEFINE T == Spending(a)
  <2>1. Table(T, a) /\ Thrifty(tx, start, world, frames, FALSE, a, T)
    <3>1. reverting = FALSE
      BY <1>1 DEF IInv, Progress, Stack
    <3>2. QED  BY <3>1, SpendingTable DEF SInv
  <2> HIDE DEF T
  <2>2. ~rev => Fair(tx.by, world, m, a, Ahead(m, f, Depth + 1, a, T),
                     IF Captive(world, Top.self) THEN 0
                     ELSE Price(T[MaxCalls + 1 - Depth], Top.self, a)[c])
    <3>1. SUFFICES ASSUME ~rev
                   PROVE  Fair(tx.by, world, m, a, Ahead(m, f, Depth + 1, a, T),
                               IF Captive(world, Top.self) THEN 0
                               ELSE Price(T[MaxCalls + 1 - Depth], Top.self, a)[c])
      OBVIOUS
    <3>2. m = v /\ Modest(c, v, next) /\ World(v) /\ Later(world, v)
      BY <1>3, <1>4, <1>8, <3>1
    <3>3. Fair(tx.by, world, v, a, Ahead(v, f, Depth + 1, a, T),
                               IF Captive(world, Top.self) THEN 0
                               ELSE Price(T[MaxCalls + 1 - Depth], Top.self, a)[c])
      BY <1>2, <1>7, <2>1, <3>2, CallFair
    <3>4. QED  BY <3>2, <3>3, Zenon
  <2>3. ~rev => Fair(tx.by, world, m, a, Ahead(m, f, Len(frames) + 1, a, T),
                      IF Captive(world, frames[Len(frames)].self) THEN 0
                      ELSE Price(T[MaxCalls + 1 - Len(frames)], frames[Len(frames)].self, a)[f.call])
    BY <1>1, <1>2, <2>2, Zenon
  <2>4. /\ frames[Len(frames)].self \notin Unknown =>
             frames[Len(frames)].rest # <<>> /\ f.call = Head(frames[Len(frames)].rest)
        /\ g = Left(frames[Len(frames)])
    BY <1>1, <1>2, <1>6 DEF g
  <2>5. Thrifty(tx, start, m, frames', rev, a, T)
    BY ZenonT(60), <1>1, <1>2, <1>3, <1>4, <1>5, <1>7, <2>1, <2>3, <2>4, ThriftPushed
  <2>6. QED  BY <2>5 DEF T
<1>10. Metered(tx', frames', made')
  <2>1. made' \in 0..MaxCalls /\ Len(frames') <= made' + 1
    BY <1>1, <1>3, <1>6, <1>7, <1>8, AccountsAssumption DEF Metered, AccountsAssumption
  <2>2. QED  BY <1>3, <1>7, <2>1 DEF Metered
<1>11. QED  BY <1>3, <1>9, <1>10 DEF SInv

(* What somebody has when amounts move. *)
LEMMA MovedOwns ==
  ASSUME NEW w, World(w), NEW from \in Addr, NEW to \in Addr, NEW v \in Nat, NEW a \in Addr,
         from # a \/ v <= w.balance[a]
  PROVE  LET m == Moved(w, from, to, v)
         IN  /\ m.deposit = w.deposit
             /\ m.balance[a] \in Int
             /\ w.balance[a] <= m.balance[a] + (IF from = a THEN v ELSE 0)
<1>1. w.balance \in [Addr -> Nat] /\ DOMAIN w = Fields
  BY DEF World, Typed
<1>2. CASE from = to
  BY <1>1, <1>2 DEF Moved
<1>3. CASE from # to
  <2> DEFINE half == [w EXCEPT !.balance[from] = w.balance[from] - v]
             m == [w EXCEPT !.balance[from] = @ - v, !.balance[to] = @ + v]
  <2>1. Moved(w, from, to, v) = m
    BY <1>3 DEF Moved
  <2>2. m.deposit = w.deposit
    BY <1>1 DEF Fields
  <2>3. m.balance[a] = IF a = to THEN w.balance[a] + v ELSE IF a = from THEN w.balance[a] - v ELSE w.balance[a]
    BY <1>1, <1>3 DEF Fields
  <2> HIDE DEF m
  <2>4. w.balance[a] \in Nat
    BY <1>1
  <2>5. /\ m.balance[a] \in Int
        /\ w.balance[a] <= m.balance[a] + (IF from = a THEN v ELSE 0)
    BY <1>3, <2>3, <2>4
  <2>6. QED  BY <2>1, <2>2, <2>5
<1>4. QED  BY <1>2, <1>3

LEMMA CallsModest ==
  ASSUME IInv, NEW c, MakesCall(c)
  PROVE  /\ Makes(c)
         /\ \E conditions, v : \E next \in Seq(AllCalls) :
              /\ Runs(c, conditions, v, next)
              /\ c.value <= world.balance[Top.self] /\ conditions => Modest(c, v, next)
<1>1. World(world) /\ DOMAIN world = Fields
  BY Standing DEF World, Typed
<1>2. <<>> \in Seq(AllCalls)
  OBVIOUS
<1>3. Makes(c)
  BY DEF MakesCall, Execute, ExecuteBatch, Initialize, AddDeposit, WithdrawDepositTo,
         UpgradeToAndCall, Receive, WithdrawTo, CallOther, Calling
<1>4. /\ c \in AllCalls /\ c.value \in Nat /\ c.dest \in Addr /\ Takes(c) \in Nat /\ Leads(c) \in Seq(AllCalls)
      /\ Top.self \in Addr
  BY <1>3, Caller, CallTypes DEF IsFrame
<1>5. ASSUME NEW v, v.balance = world.balance, v.deposit = world.deposit
      PROVE  \A a \in Accounts : Owns(world, a) <= Owns(v, a) + (IF Top.self = a THEN Takes(c) ELSE 0)
  <2>1. ASSUME NEW a \in Accounts
        PROVE  Owns(world, a) <= Owns(v, a) + (IF Top.self = a THEN Takes(c) ELSE 0)
    <3>1. Owns(v, a) = Owns(world, a) /\ Owns(world, a) \in Nat
      BY <1>1, <1>5, OwnsNat, Kinds DEF Owns
    <3>2. QED  BY <1>4, <3>1
  <2>2. QED  BY <2>1
<1>6. ASSUME NEW conditions, Runs(c, conditions, world, Leads(c)), c.dest \in Accounts,
             conditions => Top.self = EntryPoint \/ Top.self = world.owner[c.dest] \/ Top.self = c.dest
      PROVE  \E cond, v : \E next \in Seq(AllCalls) :
               /\ Runs(c, cond, v, next)
               /\ c.value <= world.balance[Top.self] /\ cond => Modest(c, v, next)
  <2>1. conditions => (Captive(world, Top.self) => Captive(world, c.dest))
    <3>1. ~Captive(world, EntryPoint)
      BY CaptiveKinds, Kinds
    <3>2. Captive(world, world.owner[c.dest]) => Captive(world, c.dest)
      BY <1>6, CaptiveKinds
    <3>3. QED  BY <1>6, <3>1, <3>2
  <2>2. conditions => Modest(c, world, Leads(c))
    BY <1>5, <2>1 DEF Modest
  <2>3. QED  BY <1>4, <1>6, <2>2
<1>7. ASSUME NEW conditions, NEW v, Runs(c, conditions, v, <<>>),
             c.value <= world.balance[Top.self] /\ conditions =>
               \A a \in Accounts : Owns(world, a) <= Owns(v, a) + (IF Top.self = a THEN Takes(c) ELSE 0)
      PROVE  \E cond, u : \E next \in Seq(AllCalls) :
               /\ Runs(c, cond, u, next)
               /\ c.value <= world.balance[Top.self] /\ cond => Modest(c, u, next)
  <2>1. c.value <= world.balance[Top.self] /\ conditions => Modest(c, v, <<>>)
    BY <1>7 DEF Modest
  <2>2. QED  BY <1>2, <1>7, <2>1
<1>8. CASE Execute(c) \/ ExecuteBatch(c)
  <2>1. c.dest \in Accounts /\ Leads(c) = c.calls
    BY <1>8, CallsAccount DEF Execute, ExecuteBatch, Leads, SubCalls
  <2>2. PICK conditions : /\ Runs(c, conditions, world, c.calls)
                          /\ conditions => _requireFromEntryPointOrOwner(c.dest)
    <3>1. CASE Execute(c)
      BY <3>1 DEF Execute
    <3>2. CASE ExecuteBatch(c)
      BY <3>2 DEF ExecuteBatch
    <3>3. QED  BY <1>8, <3>1, <3>2
  <2>3. Runs(c, conditions, world, Leads(c))
    BY <2>1, <2>2
  <2>4. conditions => Top.self = EntryPoint \/ Top.self = world.owner[c.dest] \/ Top.self = c.dest
    BY <2>2 DEF _requireFromEntryPointOrOwner
  <2>5. QED  BY <1>3, <1>6, <2>1, <2>3, <2>4
<1>9. CASE WithdrawDepositTo(c)
  <2>1. c.dest \in Accounts /\ Leads(c) = <<Withdrawal(c)>>
    BY <1>9, CallsAccount DEF WithdrawDepositTo, Leads
  <2>2. Runs(c, _onlyOwner(c.dest) /\ c.value = 0, world, Leads(c))
    BY <1>9, <2>1 DEF WithdrawDepositTo
  <2>3. _onlyOwner(c.dest) /\ c.value = 0 =>
          Top.self = EntryPoint \/ Top.self = world.owner[c.dest] \/ Top.self = c.dest
    BY DEF _onlyOwner
  <2>4. QED  BY <1>3, <1>6, <2>1, <2>2, <2>3
<1>10. CASE Initialize(c)
  <2> DEFINE v == Initialized(world, c.dest, c.owner, c.key)
  <2>1. \E conditions : Runs(c, conditions, v, <<>>)
    BY <1>10 DEF Initialize
  <2>2. v.balance = world.balance /\ v.deposit = world.deposit
    BY <1>1 DEF Initialized, Fields
  <2> HIDE DEF v
  <2>3. QED  BY <1>3, <1>5, <1>7, <2>1, <2>2
<1>11. CASE UpgradeToAndCall(c)
  <2> DEFINE v == [world EXCEPT !.impl[c.dest] = c.impl]
  <2>1. \E conditions : Runs(c, conditions, v, <<>>)
    BY <1>11 DEF UpgradeToAndCall
  <2>2. v.balance = world.balance /\ v.deposit = world.deposit
    BY <1>1 DEF Fields
  <2> HIDE DEF v
  <2>3. QED  BY <1>3, <1>5, <1>7, <2>1, <2>2
<1>12. ASSUME NEW a \in Accounts, c.value <= world.balance[Top.self], c.dest # EntryPoint,
              NEW to \in Addr, NEW m, m = Moved(world, Top.self, to, c.value)
       PROVE  /\ m.deposit = world.deposit /\ m.balance[a] \in Int
              /\ world.balance[a] <= m.balance[a] + (IF Top.self = a THEN Takes(c) ELSE 0)
              /\ world.balance[a] \in Nat /\ world.deposit[a] \in Nat /\ world.deposit \in [Addr -> Nat]
  <2>1. Takes(c) = c.value
    BY <1>12 DEF Takes
  <2>2. a \in Addr /\ (Top.self # a \/ c.value <= world.balance[a])
    BY <1>12, Kinds
  <2>3. world.balance[a] \in Nat /\ world.deposit[a] \in Nat /\ world.deposit \in [Addr -> Nat]
    BY <1>1, <2>2 DEF World, Typed
  <2> DEFINE x == Top.self
             y == c.value
  <2>4. x \in Addr /\ y \in Nat /\ (x # a \/ y <= world.balance[a]) /\ a \in Addr /\ m = Moved(world, x, to, y)
    BY <1>4, <1>12, <2>2
  <2> HIDE DEF x, y
  <2>5. /\ m.deposit = world.deposit /\ m.balance[a] \in Int
        /\ world.balance[a] <= m.balance[a] + (IF x = a THEN y ELSE 0)
    BY <1>1, <2>4, MovedOwns
  <2>6. QED  BY <2>1, <2>3, <2>5 DEF x, y
<1>13. CASE AddDeposit(c)
  <2> DEFINE m == Moved(world, Top.self, EntryPoint, c.value)
             v == Deposited(world, Top.self, c.dest, c.value)
  <2>1. Runs(c, TRUE, v, <<>>) /\ c.dest # EntryPoint
    BY <1>13, CallsAccount DEF AddDeposit
  <2>2. v = [m EXCEPT !.deposit[c.dest] = @ + c.value]
    BY DEF Deposited
  <2>3. ASSUME NEW a \in Accounts, c.value <= world.balance[Top.self]
        PROVE  Owns(world, a) <= Owns(v, a) + (IF Top.self = a THEN Takes(c) ELSE 0)
    <3>1. /\ m.deposit = world.deposit /\ m.balance[a] \in Int
          /\ world.balance[a] <= m.balance[a] + (IF Top.self = a THEN Takes(c) ELSE 0)
          /\ world.balance[a] \in Nat /\ world.deposit[a] \in Nat /\ world.deposit \in [Addr -> Nat]
      BY <1>12, <2>1, <2>3, Kinds
    <3>2. DOMAIN m = Fields
      BY <1>1, MovedKeeps
    <3> HIDE DEF m
    <3>3. v.balance = m.balance /\ v.deposit[a] = m.deposit[a] + (IF c.dest = a THEN c.value ELSE 0)
      BY <1>4, <2>2, <3>1, <3>2, Kinds DEF Fields
    <3> HIDE DEF v
    <3>4. QED  BY <1>4, <3>1, <3>3 DEF Owns
  <2> HIDE DEF v
  <2>4. QED  BY <1>3, <1>7, <2>1, <2>3
<1>14. CASE Receive(c) \/ CallOther(c)
  <2> DEFINE v == Paid(c)
  <2>1. Runs(c, TRUE, v, <<>>) /\ c.dest # EntryPoint
    BY <1>14, CallsAccount DEF Receive, CallOther
  <2>2. ASSUME NEW a \in Accounts, c.value <= world.balance[Top.self]
        PROVE  Owns(world, a) <= Owns(v, a) + (IF Top.self = a THEN Takes(c) ELSE 0)
    <3>1. v = Moved(world, Top.self, c.dest, c.value)
      BY DEF Paid
    <3> HIDE DEF v
    <3>2. /\ v.deposit = world.deposit /\ v.balance[a] \in Int
          /\ world.balance[a] <= v.balance[a] + (IF Top.self = a THEN Takes(c) ELSE 0)
          /\ world.balance[a] \in Nat /\ world.deposit[a] \in Nat
      BY <1>4, <1>12, <2>1, <2>2, <3>1
    <3>3. QED  BY <1>4, <3>2 DEF Owns
  <2> HIDE DEF v
  <2>3. QED  BY <1>3, <1>7, <2>1, <2>2
<1>15. CASE WithdrawTo(c)
  <2> DEFINE x == Top.self
             conditions == c.value = 0 /\ c.amount <= world.deposit[x]
             v == [world EXCEPT !.deposit[x] = @ - c.amount]
             next == <<Payment(c)>>
  <2>1. Runs(c, conditions, v, next) /\ c.dest = EntryPoint /\ c.fn = "withdrawTo"
    BY <1>15 DEF WithdrawTo
  <2>2. next \in Seq(AllCalls) /\ c.amount \in Nat
    BY <1>4, <2>1, AccountsAssumption DEF AccountsAssumption
  <2>3. Takes(c) = c.amount
    BY <2>1 DEF Takes
  <2>4. ASSUME NEW a \in Accounts
        PROVE  Owns(world, a) <= Owns(v, a) + (IF x = a THEN Takes(c) ELSE 0)
    <3>1. world.balance[a] \in Nat /\ world.deposit[a] \in Nat /\ world.deposit \in [Addr -> Nat] /\ a \in Addr
      BY <1>1, Kinds DEF World, Typed
    <3>2. v.balance = world.balance /\ v.deposit[a] = world.deposit[a] - (IF x = a THEN c.amount ELSE 0)
      BY <1>1, <2>2, <3>1 DEF Fields
    <3> HIDE DEF v
    <3>3. QED  BY <2>2, <2>3, <3>1, <3>2 DEF Owns
  <2> HIDE DEF v, conditions, next
  <2>5. Modest(c, v, next)
    BY <2>1, <2>4 DEF Modest, next
  <2>6. QED  BY <1>3, <2>1, <2>2, <2>5
<1>16. QED
  BY <1>8, <1>9, <1>10, <1>11, <1>13, <1>14, <1>15 DEF MakesCall

(* A fair frame goes on: it loses what it had ahead, with p's agreement. *)
LEMMA FairOn ==
  ASSUME NEW p, p # NoOne, NEW b, NEW w, NEW v, World(b), World(w), World(v), Later(w, v), NEW a \in Accounts,
         NEW x \in Nat, NEW y \in Nat, NEW z \in Nat, NEW loss \in Nat, Fair(p, b, w, a, x, z),
         Owns(w, a) <= Owns(v, a) + loss, y + loss <= x,
         loss # 0 => p \in Principals(v, a) \/ Captive(v, a)
  PROVE  Fair(p, b, v, a, y, z)
<1>1. a \in Addr /\ a \in Holders
  BY Kinds DEF Holders
<1>2. Owns(b, a) \in Nat /\ Owns(w, a) \in Nat /\ Owns(v, a) \in Nat
  BY <1>1, OwnsNat
<1>3. SUFFICES ASSUME ~Captive(v, a)
               PROVE  /\ p \notin Principals(v, a) => Owns(b, a) <= Owns(v, a)
                      /\ Owns(b, a) + y <= Owns(v, a) + z
  BY DEF Fair
<1>4. ~Captive(w, a)
  BY <1>1, <1>3, CaptiveLater
<1>5. p \notin Principals(v, a) => p \notin Principals(w, a) /\ loss = 0
  BY <1>1, <1>3, StillSpeaks
<1>6. /\ p \notin Principals(w, a) => Owns(b, a) <= Owns(w, a)
      /\ Owns(b, a) + x <= Owns(w, a) + z
  BY <1>4 DEF Fair
<1> DEFINE i == Owns(b, a)
           j == Owns(w, a)
           k == Owns(v, a)
<1>7. i \in Nat /\ j \in Nat /\ k \in Nat /\ j <= k + loss /\ i + x <= j + z
  BY <1>2, <1>6
<1>8. p \notin Principals(v, a) => i <= j /\ loss = 0
  BY <1>5, <1>6
<1> HIDE DEF i, j, k
<1>9. (p \notin Principals(v, a) => i <= k) /\ i + y <= k + z
  BY <1>7, <1>8
<1>10. QED  BY <1>9 DEF i, k

(* The callee's allowance was the caller's: when it returns, both were fair. *)
LEMMA FairChain ==
  ASSUME NEW p, p # NoOne, NEW b, NEW u, NEW w, World(b), World(u), World(w), Later(u, w), NEW a \in Accounts,
         NEW x \in Nat, NEW y \in Nat, NEW z \in Nat, NEW less \in Nat, NEW share \in Nat, less <= x,
         Fair(p, b, u, a, x + share, z), Fair(p, u, w, a, y, share)
  PROVE  Fair(p, b, w, a, less, z)
<1>1. a \in Addr /\ a \in Holders
  BY Kinds DEF Holders
<1>2. Owns(b, a) \in Nat /\ Owns(u, a) \in Nat /\ Owns(w, a) \in Nat
  BY <1>1, OwnsNat
<1>3. SUFFICES ASSUME ~Captive(w, a)
               PROVE  /\ p \notin Principals(w, a) => Owns(b, a) <= Owns(w, a)
                      /\ Owns(b, a) + less <= Owns(w, a) + z
  BY DEF Fair
<1>4. ~Captive(u, a)
  BY <1>1, <1>3, CaptiveLater
<1>5. p \notin Principals(w, a) => p \notin Principals(u, a)
  BY <1>1, StillSpeaks
<1>6. /\ p \notin Principals(u, a) => Owns(b, a) <= Owns(u, a)
      /\ Owns(b, a) + (x + share) <= Owns(u, a) + z
  BY <1>4 DEF Fair
<1>7. /\ p \notin Principals(w, a) => Owns(u, a) <= Owns(w, a)
      /\ Owns(u, a) + y <= Owns(w, a) + share
  BY <1>3 DEF Fair
<1> DEFINE i == Owns(b, a)
           j == Owns(u, a)
           k == Owns(w, a)
<1>8. i \in Nat /\ j \in Nat /\ k \in Nat /\ i + (x + share) <= j + z /\ j + y <= k + share
  BY <1>2, <1>6, <1>7
<1>9. p \notin Principals(w, a) => i <= j /\ j <= k
  BY <1>5, <1>6, <1>7
<1> HIDE DEF i, j, k
<1>10. (p \notin Principals(w, a) => i <= k) /\ i + less <= k + z
  BY <1>8, <1>9
<1>11. QED  BY <1>10 DEF i, k

(* To have nothing ahead, and to be where one began, is fair. *)
LEMMA FairStart ==
  ASSUME NEW p, NEW b, World(b), NEW a \in Accounts, NEW x \in Nat, NEW z \in Nat, x <= z
  PROVE  Fair(p, b, b, a, x, z)
<1>1. Owns(b, a) \in Nat
  BY OwnsNat, Kinds
<1> DEFINE i == Owns(b, a)
<1> HIDE DEF i
<1>2. i \in Nat
  BY <1>1 DEF i
<1>3. i <= i /\ i + x <= i + z
  BY <1>2
<1>4. QED  BY <1>3 DEF Fair, i

LEMMA ThriftEmpty ==
  ASSUME NEW r, NEW b, NEW v, NEW a, NEW T, Fair(r.by, b, v, a, 0, Budget(r, a, T))
  PROVE  Thrifty(r, b, v, <<>>, FALSE, a, T)
<1>1. Len(<<>>) = 0
  OBVIOUS
<1>2. QED  BY <1>1 DEF Thrifty

LEMMA ThriftSingle ==
  ASSUME NEW r, NEW b, NEW v, NEW s, Len(s) = 1, s # <<>>, NEW a, NEW T
  PROVE  Thrifty(r, b, v, s, FALSE, a, T) <=> Fair(r.by, b, v, a, Ahead(v, s[1], 1, a, T), Budget(r, a, T))
<1>1. From(b, s, 1) = b /\ Allowance(r, s, 1, a, T) = Budget(r, a, T)
  BY DEF From, Allowance
<1>2. \A d \in 1..Len(s) : ~(d < Len(s))
  OBVIOUS
<1>3. Thrifty(r, b, v, s, FALSE, a, T) <=>
        Fair(r.by, From(b, s, 1), v, a, Ahead(v, s[1], 1, a, T), Allowance(r, s, 1, a, T))
  BY <1>2 DEF Thrifty
<1>4. QED  BY <1>1, <1>3

LEMMA BeginThrift ==
  ASSUME IInv, SInv, IInv', NEW request, NEW self \in Addr \ (Accounts \cup Unknown), NEW op, NEW at,
         Begin(request, self, op, at), request.asked \in Seq(AllCalls), request.prefund \in Nat,
         at = "called" \/ (op.sender = request.sender /\ op.prefund = request.prefund)
  PROVE  SInv'
<1> DEFINE f == Frame(self, Call(self, "transaction"), request.asked, op, at)
           t == <<f>>
           v == world'
<1>1. frames' = t /\ start' = v /\ reverting' = FALSE /\ made' = 0 /\ tx' = request
  BY DEF Begin
<1>2. f.self = self /\ f.rest = request.asked /\ f.op = op /\ f.at = at
  BY DEF Frame
<1> HIDE DEF f
<1>3. Len(t) = 1 /\ t # <<>> /\ t[1] = f
  OBVIOUS
<1>4. World(v)
  BY DEF IInv, Progress, Worlds
<1>5. Metered(request, t, 0)
  BY <1>3, AccountsAssumption DEF Metered, AccountsAssumption
<1> HIDE DEF t, v
<1>6. ASSUME NEW a \in Accounts, NEW T, Table(T, a)
      PROVE  Thrifty(request, v, v, t, FALSE, a, T)
  <2> DEFINE row == T[MaxCalls]
             price == Price(row, self, a)
             charge == Charge(f, a)
             prefund == IF a = request.sender THEN request.prefund ELSE 0
             budget == Budget(request, a, T)
             ahead == Ahead(v, f, 1, a, T)
  <2>1. row \in [AllCalls -> Nat] /\ self # a
    BY <1>6, AccountsAssumption DEF Table, AccountsAssumption
  <2>2. price \in [AllCalls -> Nat] /\ \A c \in AllCalls : price[c] <= row[c]
    <3> HIDE DEF row
    <3>1. \A c \in AllCalls : price[c] = row[c] + 0
      BY <2>1, PriceNat
    <3>2. QED  BY <2>1, <3>1, PriceNat
  <2>3. charge \in Nat /\ prefund \in Nat /\ charge <= prefund
    BY <1>2 DEF Charge
  <2>4. budget = prefund + Bill(row, request.asked)
    BY DEF Budget
  <2>5. ahead = charge + (IF Captive(v, self) THEN 0 ELSE Bill(price, request.asked))
    <3>1. ahead = Charge(f, a) + (IF Captive(v, f.self) THEN 0
                                  ELSE Bill(Price(T[MaxCalls + 1 - 1], f.self, a), f.rest))
      BY Zenon DEF Ahead
    <3>2. MaxCalls + 1 - 1 = MaxCalls
      BY AccountsAssumption DEF AccountsAssumption
    <3>3. QED  BY <1>2, <3>1, <3>2, Zenon
  <2> HIDE DEF row, price, charge, prefund, budget, ahead
  <2>6. /\ Bill(row, request.asked) \in Nat /\ Bill(price, request.asked) \in Nat
        /\ Bill(price, request.asked) <= Bill(row, request.asked)
    BY <2>1, <2>2, BillNat, BillLess
  <2>7. ahead \in Nat /\ budget \in Nat /\ ahead <= budget
    BY <2>3, <2>4, <2>5, <2>6
  <2>8. Fair(request.by, v, v, a, ahead, budget)
    BY <1>4, <2>7, FairStart
  <2>9. Fair(request.by, v, v, a, Ahead(v, t[1], 1, a, T), Budget(request, a, T))
    BY <1>3, <2>8 DEF ahead, budget
  <2>10. QED  BY <1>3, <2>9, ThriftSingle
<1>7. ASSUME NEW a \in Accounts PROVE Thrifty(request, v, v, t, FALSE, a, Spending(a))
  BY <1>6, SpendingTable
<1>8. world' = v
  BY DEF v
<1>9. QED  BY <1>1, <1>5, <1>7, <1>8 DEF SInv

LEMMA DeployProxyThrift ==
  ASSUME IInv, SInv, IInv', NEW d, DeployProxy(d)
  PROVE  SInv'
<1>1. frames = <<>>
  BY EmptySeq DEF IInv, Progress, Stack, DeployProxy, Depth
<1>2. reverting = FALSE
  BY <1>1 DEF IInv, Progress, Stack
<1>3. start' = world' /\ frames' = <<>> /\ reverting' = FALSE /\ made' = made /\ tx' = tx
  BY <1>1, <1>2 DEF DeployProxy
<1>4. World(world')
  BY DEF IInv, Progress, Worlds
<1>5. ASSUME NEW a \in Accounts
      PROVE  Thrifty(tx, world', world', <<>>, FALSE, a, Spending(a))
  <2> DEFINE budget == Budget(tx, a, Spending(a))
  <2>1. budget \in Nat
    BY SpendingTable, BudgetNat DEF SInv
  <2> HIDE DEF budget
  <2>2. 0 \in Nat /\ 0 <= budget
    BY <2>1
  <2>3. Fair(tx.by, world', world', a, 0, budget)
    BY <1>4, <2>1, <2>2, FairStart
  <2>4. QED  BY <2>3, ThriftEmpty DEF budget
<1>6. Metered(tx', frames', made')
  BY <1>1, <1>3 DEF SInv
<1>7. QED  BY <1>3, <1>5, <1>6 DEF SInv

LEMMA FailsThrift ==
  ASSUME IInv, SInv, Running, reverting' = TRUE, UNCHANGED <<world, frames, made, tx, start>>
  PROVE  SInv'
<1>1. reverting = FALSE /\ frames # <<>>
  BY EmptySeq DEF IInv, Progress, Stack, Running, Depth
<1>2. \A a \in Accounts : Thrifty(tx, start, world, frames, FALSE, a, Spending(a))
  BY <1>1 DEF SInv
<1>3. \A a \in Accounts : Thrifty(tx, start, world, frames, TRUE, a, Spending(a))
  BY <1>1, <1>2 DEF Thrifty
<1>4. QED  BY <1>3 DEF SInv

(* The end of a transaction, which has nothing ahead. *)
LEMMA EndThrift ==
  ASSUME IInv, SInv, IInv', Running, Depth = 1, frames' = <<>>, UNCHANGED <<reverting, made, tx, start>>,
         Later(world, world'), \A a \in Accounts : Owns(world, a) <= Owns(world', a)
  PROVE  SInv'
<1>1. reverting = FALSE /\ frames # <<>> /\ Len(frames) = 1
  BY EmptySeq DEF IInv, Progress, Stack, Running, Depth
<1>2. /\ World(world) /\ World(start) /\ tx.by # NoOne /\ World(world')
      /\ IsFrame(frames[1]) /\ Sent(tx.by, frames[1])
  <2>1. World(world) /\ World(start) /\ tx.by # NoOne /\ Sent(tx.by, frames[1])
    BY <1>1, Standing
  <2>2. World(world') /\ IsFrame(frames[1])
    BY <1>1 DEF IInv, Progress, Worlds, Stack
  <2>3. QED  BY <2>1, <2>2
<1>3. Metered(tx, frames, made) /\ Metered(tx, <<>>, made)
  BY DEF SInv, Metered
<1>4. ASSUME NEW a \in Accounts, NEW T, Table(T, a), Thrifty(tx, start, world, frames, FALSE, a, T)
      PROVE  Thrifty(tx, start, world', <<>>, FALSE, a, T)
  <2> DEFINE x == Ahead(world, frames[1], 1, a, T)
             z == Budget(tx, a, T)
  <2>1. z \in Nat
    BY <1>3, <1>4, BudgetNat
  <2>2. x \in Nat
    <3> DEFINE d == 1
    <3>1. d \in 1..(MaxCalls + 1)
      BY AccountsAssumption DEF AccountsAssumption
    <3> HIDE DEF d
    <3>2. Ahead(world, frames[1], d, a, T) \in Nat
      BY <1>2, <1>4, <3>1, AheadNat DEF IsFrame
    <3>3. QED  BY <3>2 DEF d
  <2>3. Fair(tx.by, start, world, a, x, z)
    BY <1>1, <1>4, ThriftSingle
  <2> HIDE DEF x, z
  <2> DEFINE y == 0
  <2>4. y \in Nat /\ y + y <= x /\ Owns(world, a) <= Owns(world', a) + y /\ y = 0
    <3>1. Owns(world, a) \in Nat /\ Owns(world', a) \in Nat
      BY <1>2, OwnsNat, Kinds
    <3>2. QED  BY <2>2, <3>1
  <2> HIDE DEF y
  <2>5. Fair(tx.by, start, world', a, y, z)
    BY <1>2, <2>1, <2>2, <2>3, <2>4, FairOn
  <2>6. QED  BY <2>4, <2>5, ThriftEmpty DEF z
<1>5. ASSUME NEW a \in Accounts PROVE Thrifty(tx, start, world', <<>>, FALSE, a, Spending(a))
  BY <1>1, <1>4, SpendingTable DEF SInv
<1>6. reverting' = FALSE
  BY <1>1
<1>7. QED  BY <1>3, <1>5, <1>6 DEF SInv

(* What the innermost call and the one that made it have ahead and may spend. *)
LEMMA InnermostThrift ==
  ASSUME IInv, BInv, SInv, Depth > 1, NEW a \in Accounts, NEW T, Table(T, a),
         Thrifty(tx, start, world, frames, reverting, a, T),
         NEW d, d = Depth - 1
  PROVE  /\ World(From(start, frames, d)) /\ World(Top.saved) /\ Later(Top.saved, world) /\ tx.by # NoOne
         /\ d \in 1..(MaxCalls + 1) /\ IsFrame(frames[d]) /\ (frames[d].at = "called" \/ Sent(tx.by, frames[d]))
         /\ Ahead(Top.saved, frames[d], d, a, T) \in Nat
         /\ Allowance(tx, frames, d, a, T) \in Nat /\ Allowance(tx, frames, Depth, a, T) \in Nat
         /\ Fair(tx.by, From(start, frames, d), Top.saved, a,
                 Ahead(Top.saved, frames[d], d, a, T) + Allowance(tx, frames, Depth, a, T),
                 Allowance(tx, frames, d, a, T))
         /\ ~reverting =>
              /\ Ahead(world, Top, Depth, a, T) \in Nat
              /\ Fair(tx.by, Top.saved, world, a, Ahead(world, Top, Depth, a, T), Allowance(tx, frames, Depth, a, T))
<1>1. /\ frames # <<>> /\ Depth = Len(frames) /\ Depth \in Nat /\ d \in 1..Depth
      /\ Listed(world, frames) /\ IsFrame(Top) /\ IsFrame(frames[d])
  BY Innermost
<1>2. d < Depth /\ d + 1 = Depth /\ Depth \in 1..Depth /\ Depth \in 2..Depth /\ Depth # 1
  BY <1>1
<1>3. World(Top.saved) /\ Later(Top.saved, world) /\ tx.by # NoOne /\ World(start) /\ Sent(tx.by, frames[1])
  <2>1. World(Top.saved) /\ \A e \in 2..Len(frames) : Later(frames[e].saved, world)
    BY Before
  <2>2. Later(Top.saved, world)
    BY <1>1, <1>2, <2>1 DEF Top
  <2>3. QED  BY <1>1, <2>1, <2>2, Standing
<1>4. World(From(start, frames, d))
  <2>1. CASE d = 1
    BY <1>3, <2>1 DEF From
  <2>2. CASE d # 1
    <3>1. d \in 2..Len(frames)
      BY <1>1, <2>2
    <3>2. World(frames[d].saved)
      BY <3>1 DEF IInv, Progress, Saved
    <3>3. QED  BY <2>2, <3>2 DEF From
  <2>3. QED  BY <2>1, <2>2
<1>5. /\ Allowance(tx, frames, d, a, T) \in Nat /\ d \in 1..(MaxCalls + 1)
      /\ Allowance(tx, frames, Depth, a, T) \in Nat /\ Depth \in 1..(MaxCalls + 1)
  <2>1. Metered(tx, frames, made) /\ d \in 1..Len(frames) /\ Depth \in 1..Len(frames) /\ Len(frames) \in Nat
    BY <1>1, <1>2 DEF SInv
  <2> HIDE DEF Depth
  <2>2. QED  BY <1>1, <2>1, AllowanceNat
<1>6. /\ frames[d].at = "called" \/ Sent(tx.by, frames[d])
      /\ Top.at = "called"
  <2>1. \A e \in 2..Len(frames) : frames[e].at = "called"
    BY DEF IInv, Progress, Stack
  <2>2. d = 1 \/ d \in 2..Len(frames)
    BY <1>1
  <2>3. QED  BY <1>1, <1>2, <1>3, <2>1, <2>2 DEF Top
<1>7. /\ Ahead(Top.saved, frames[d], d, a, T) \in Nat
      /\ Ahead(world, Top, Depth, a, T) \in Nat
  <2>1. frames[d].rest \in Seq(AllCalls) /\ Top.rest \in Seq(AllCalls)
    BY <1>1 DEF IsFrame
  <2> DEFINE e == Depth
             f == frames[d]
             g == Top
             u == Top.saved
  <2>2. e \in 1..(MaxCalls + 1) /\ (f.at = "called" \/ Sent(tx.by, f)) /\ g.at = "called"
        /\ f.rest \in Seq(AllCalls) /\ g.rest \in Seq(AllCalls)
    BY <1>5, <1>6, <2>1
  <2> HIDE DEF e, f, g, u
  <2>3. Ahead(u, f, d, a, T) \in Nat /\ Ahead(world, g, e, a, T) \in Nat
    BY <1>5, <2>2, AheadNat
  <2>4. QED  BY <2>3 DEF e, f, g, u
<1>8. Fair(tx.by, From(start, frames, d), Top.saved, a,
           Ahead(Top.saved, frames[d], d, a, T) + Allowance(tx, frames, Depth, a, T),
           Allowance(tx, frames, d, a, T))
  <2>1. d \in 1..Len(frames) /\ d < Len(frames)
    BY <1>1, <1>2
  <2>2. Fair(tx.by, From(start, frames, d), frames[d + 1].saved, a,
             Ahead(frames[d + 1].saved, frames[d], d, a, T) + Allowance(tx, frames, d + 1, a, T),
             Allowance(tx, frames, d, a, T))
    BY <2>1 DEF Thrifty
  <2>3. frames[d + 1] = Top /\ Allowance(tx, frames, d + 1, a, T) = Allowance(tx, frames, Depth, a, T)
    BY <1>2 DEF Top
  <2>4. QED  BY <2>2, <2>3, Zenon
<1>9. ~reverting =>
        Fair(tx.by, Top.saved, world, a, Ahead(world, Top, Depth, a, T), Allowance(tx, frames, Depth, a, T))
  <2>1. ~reverting => Fair(tx.by, From(start, frames, Len(frames)), world, a,
                           Ahead(world, frames[Len(frames)], Len(frames), a, T),
                           Allowance(tx, frames, Len(frames), a, T))
    BY <1>1 DEF Thrifty
  <2>2. From(start, frames, Depth) = Top.saved
    BY <1>2 DEF From, Top
  <2>3. frames[Len(frames)] = Top /\ Len(frames) = Depth
    BY <1>1 DEF Top
  <2>4. QED  BY <2>1, <2>2, <2>3, Zenon
<1>10. QED  BY <1>1, <1>3, <1>4, <1>5, <1>6, <1>7, <1>8, <1>9

LEMMA ReturnThrift ==
  ASSUME IInv, BInv, SInv, IInv', Return
  PROVE  SInv'
<1> DEFINE d == Depth - 1
           v == world'
<1>1. /\ Depth > 1 /\ ~reverting /\ reverting = FALSE
      /\ frames' = Front(frames) /\ reverting' = FALSE /\ tx' = tx /\ start' = start /\ made' = made
  BY DEF Return, Running, IInv, Progress, Stack
<1>2. /\ v.balance = world.balance /\ v.deposit = world.deposit
      /\ v.owner = world.owner /\ v.key = world.key /\ v.initialized = world.initialized
  BY Standing DEF Return, World, Typed, Fields
<1>3. World(world) /\ World(v) /\ Later(world, v)
  BY <1>2, Standing DEF IInv, Progress, Worlds, Later
<1>4. Len(frames) > 1 /\ Len(frames) = Depth /\ Progress(tx.by, start, world, frames, reverting)
      /\ frames # <<>> /\ Depth \in Nat
  BY <1>1, Innermost
<1> HIDE DEF d, v
<1>5. ASSUME NEW a \in Accounts, NEW T, Table(T, a), Thrifty(tx, start, world, frames, reverting, a, T)
      PROVE  Thrifty(tx, start, v, frames', FALSE, a, T)
  <2> DEFINE b == From(start, frames, d)
             u == Top.saved
             f == frames[d]
             x == Ahead(u, f, d, a, T)
             y == Ahead(world, Top, Depth, a, T)
             z == Allowance(tx, frames, d, a, T)
             share == Allowance(tx, frames, Depth, a, T)
             less == Ahead(v, f, d, a, T)
  <2>1. /\ World(b) /\ World(u) /\ Later(u, world) /\ tx.by # NoOne
        /\ d \in 1..(MaxCalls + 1) /\ IsFrame(f) /\ (f.at = "called" \/ Sent(tx.by, f))
        /\ x \in Nat /\ z \in Nat /\ share \in Nat /\ y \in Nat
        /\ Fair(tx.by, b, u, a, x + share, z)
        /\ Fair(tx.by, u, world, a, y, share)
    BY <1>1, <1>5, InnermostThrift, Zenon DEF d
  <2>2. Later(u, v)
    BY <1>3, <2>1, LaterTransitive
  <2>3. less \in Nat /\ less <= x
    <3> HIDE DEF f, u
    <3>1. f.rest \in Seq(AllCalls) /\ f.self \in Addr
      BY <2>1 DEF IsFrame
    <3>2. Ahead(v, f, d, a, T) \in Nat
      BY <1>5, <2>1, <3>1, AheadNat
    <3>3. Ahead(v, f, d, a, T) <= Ahead(u, f, d, a, T)
      BY <1>3, <1>5, <2>1, <2>2, <3>1, AheadLater
    <3>4. QED  BY <3>2, <3>3
  <2> HIDE DEF b, u, f, x, y, z, share, less
  <2>4. Fair(tx.by, u, v, a, y, share)
    <3> DEFINE loss == 0
    <3>1. loss \in Nat /\ loss = 0 /\ y + loss <= y /\ Owns(world, a) <= Owns(v, a) + loss
      <4>1. Owns(world, a) \in Nat /\ Owns(v, a) = Owns(world, a)
        BY <1>2, <1>3, OwnsNat, Kinds DEF Owns
      <4>2. QED  BY <2>1, <4>1
    <3> HIDE DEF loss
    <3>2. QED  BY <1>3, <2>1, <3>1, FairOn
  <2>5. Fair(tx.by, b, v, a, less, z)
    BY <1>3, <2>1, <2>2, <2>3, <2>4, FairChain
  <2>6. Fair(tx.by, From(start, frames, Len(frames) - 1), v, a,
             Ahead(v, frames[Len(frames) - 1], Len(frames) - 1, a, T),
             Allowance(tx, frames, Len(frames) - 1, a, T))
    BY <1>4, <2>5, Zenon DEF b, less, z, f, d
  <2>7. QED  BY <1>1, <1>4, <1>5, <2>6, ThriftPopped
<1>6. Metered(tx', frames', made')
  <2>1. PICK S : frames \in Seq(S)
    BY DEF IInv, Progress, Stack
  <2>2. Len(frames') = Len(frames) - 1
    BY <1>1, <1>4, <2>1, PoppedStack
  <2>3. QED  BY <1>1, <1>4, <2>2, AccountsAssumption DEF SInv, Metered, AccountsAssumption
<1>7. ASSUME NEW a \in Accounts PROVE Thrifty(tx, start, v, frames', FALSE, a, Spending(a))
  BY <1>5, SpendingTable DEF SInv
<1>8. QED  BY <1>1, <1>6, <1>7 DEF SInv, v

LEMMA UnwindThrift ==
  ASSUME IInv, BInv, SInv, Unwind
  PROVE  SInv'
<1>1. PICK S : frames \in Seq(S)
  BY DEF IInv, Progress, Stack
<1>2. Depth \in Nat \ {0} /\ frames # <<>> /\ Depth = Len(frames)
  BY <1>1, LenProperties, EmptySeq DEF IInv, Progress, Stack, Unwind, Depth
<1>3. Metered(tx, frames, made) /\ tx' = tx /\ start' = start /\ made' = made /\ World(start)
  BY Standing DEF SInv, Unwind
<1>4. CASE Depth = 1
  <2>1. frames' = <<>>
    BY <1>1, <1>4 DEF Unwind, Front, Depth
  <2>2. world' = start /\ reverting' = FALSE
    BY <1>4 DEF Unwind
  <2>3. ASSUME NEW a \in Accounts PROVE Thrifty(tx, start, start, <<>>, FALSE, a, Spending(a))
    <3> DEFINE budget == Budget(tx, a, Spending(a))
    <3>1. budget \in Nat
      BY <1>3, SpendingTable, BudgetNat
    <3> HIDE DEF budget
    <3>2. 0 \in Nat /\ 0 <= budget
      BY <3>1
    <3>3. Fair(tx.by, start, start, a, 0, budget)
      BY <1>3, <3>1, <3>2, FairStart
    <3>4. QED  BY <3>3, ThriftEmpty DEF budget
  <2>4. Metered(tx, <<>>, made)
    BY <1>3 DEF Metered
  <2>5. QED  BY <1>3, <2>1, <2>2, <2>3, <2>4 DEF SInv
<1>5. CASE Depth # 1
  <2> DEFINE d == Depth - 1
             rev == ~Catches(frames[Depth - 1])
             u == Top.saved
  <2>1. frames' = Front(frames) /\ world' = u /\ reverting' = rev
    BY <1>5 DEF Unwind
  <2>2. Depth > 1 /\ rev \in BOOLEAN /\ Len(frames) > 1
    BY <1>2, <1>5
  <2>3. Progress(tx.by, start, world, frames, reverting)
    BY DEF IInv
  <2> HIDE DEF rev, d, u
  <2>4. ASSUME NEW a \in Accounts, NEW T, Table(T, a), Thrifty(tx, start, world, frames, reverting, a, T)
        PROVE  Thrifty(tx, start, u, frames', rev, a, T)
    <3> DEFINE b == From(start, frames, d)
               f == frames[d]
               y == Ahead(u, f, d, a, T)
               z == Allowance(tx, frames, d, a, T)
               share == Allowance(tx, frames, Depth, a, T)
               x == y + share
    <3>1. /\ World(b) /\ World(u) /\ tx.by # NoOne
          /\ y \in Nat /\ z \in Nat /\ share \in Nat
          /\ Fair(tx.by, b, u, a, x, z)
      BY <2>2, <2>4, InnermostThrift, Zenon DEF d, u
    <3>2. Later(u, u)
      BY DEF Later
    <3> DEFINE loss == 0
    <3>3. loss \in Nat /\ loss = 0 /\ x \in Nat /\ y + loss <= x /\ Owns(u, a) <= Owns(u, a) + loss
      <4>1. Owns(u, a) \in Nat
        BY <3>1, OwnsNat, Kinds
      <4> HIDE DEF y, share
      <4>2. QED  BY <3>1, <4>1
    <3> HIDE DEF loss, b, f, x, y, z, share
    <3>4. Fair(tx.by, b, u, a, y, z)
      BY <3>1, <3>2, <3>3, FairOn
    <3>5. Fair(tx.by, From(start, frames, Len(frames) - 1), u, a,
               Ahead(u, frames[Len(frames) - 1], Len(frames) - 1, a, T),
               Allowance(tx, frames, Len(frames) - 1, a, T))
      BY <1>2, <3>4, Zenon DEF b, y, z, f, d
    <3>6. QED  BY <2>1, <2>2, <2>3, <2>4, <3>5, ThriftPopped
  <2>5. ASSUME NEW a \in Accounts PROVE Thrifty(tx, start, u, frames', rev, a, Spending(a))
    BY <2>4, SpendingTable DEF SInv
  <2>6. Metered(tx', frames', made')
    <3>1. Len(frames') = Len(frames) - 1
      BY <1>1, <2>1, <2>2, PoppedStack
    <3>2. QED  BY <1>2, <1>3, <2>2, <3>1, AccountsAssumption DEF Metered, AccountsAssumption
  <2>7. QED  BY <1>3, <2>1, <2>5, <2>6 DEF SInv
<1>6. QED  BY <1>4, <1>5

(* The EntryPoint goes on with the operation: it takes the prefund, which the *)
(* signer of the operation may let it take.                                   *)
LEMMA GoesThrift ==
  ASSUME IInv, SInv, Running, Top.at \in {"create", "validate"}, NEW stage \in {"validate", "executed"},
         NEW v, Goes(stage, v), World(v), Later(world, v),
         \A a \in Accounts :
           Owns(world, a) <= Owns(v, a) + (IF stage = "executed" /\ Top.op.sender = a THEN Top.op.prefund ELSE 0),
         stage = "executed" => tx.by \in Principals(v, Top.op.sender)
  PROVE  SInv'
<1> DEFINE f == Top
           g == [f EXCEPT !.at = stage]
           t == [frames EXCEPT ![1] = g]
<1>1. /\ \E S : frames \in Seq(S)
      /\ Depth = 1 /\ Len(frames) = 1 /\ frames # <<>> /\ f = frames[1] /\ reverting = FALSE
      /\ IsFrame(f) /\ Sent(tx.by, f) /\ f.op \in Operations /\ f.op.prefund \in Nat
  BY Operating
<1>2. /\ frames' = t /\ world' = v /\ reverting' = FALSE /\ start' = start /\ tx' = tx /\ made' = made
  BY <1>1 DEF Goes
<1>3. g.at = stage /\ g.op = f.op /\ g.self = f.self /\ g.rest = f.rest
  BY <1>1 DEF IsFrame, FrameFields
<1>4. f.at \in {"create", "validate"}
  OBVIOUS
<1>5. World(world) /\ World(start) /\ tx.by # NoOne
  BY <1>1, Standing
<1> HIDE DEF f, g
<1>6. Len(t) = 1 /\ t[1] = g /\ t # <<>>
  <2>1. PICK S : frames \in Seq(S)
    BY <1>1
  <2> DEFINE U == S \cup {g}
  <2>2. frames \in Seq(U) /\ g \in U /\ 1 \in 1..Len(frames)
    BY <1>1, <2>1, SeqMonotonic
  <2> HIDE DEF U
  <2>3. t \in Seq(U) /\ Len(t) = Len(frames) /\ t[1] = g
    BY <2>2, ExceptSeq
  <2>4. QED  BY <1>1, <2>3, EmptySeq
<1> HIDE DEF t
<1>7. Metered(tx, frames, made) /\ Metered(tx, t, made)
  BY <1>1, <1>6 DEF SInv, Metered
<1>8. ASSUME NEW a \in Accounts, NEW T, Table(T, a), Thrifty(tx, start, world, frames, FALSE, a, T)
      PROVE  Thrifty(tx, start, v, t, FALSE, a, T)
  <2> DEFINE d == 1
             x == Ahead(world, f, d, a, T)
             y == Ahead(v, g, d, a, T)
             full == Ahead(v, f, d, a, T)
             z == Budget(tx, a, T)
             loss == IF stage = "executed" /\ f.op.sender = a THEN f.op.prefund ELSE 0
  <2>1. d \in 1..(MaxCalls + 1) /\ f.rest \in Seq(AllCalls) /\ f.self \in Addr
    BY <1>1, AccountsAssumption DEF IsFrame, AccountsAssumption
  <2>2. loss \in Nat /\ Owns(world, a) <= Owns(v, a) + loss
    BY <1>1 DEF f
  <2>3. loss # 0 => tx.by \in Principals(v, a)
    BY DEF f
  <2>4. Fair(tx.by, start, world, a, x, z)
    BY <1>1, <1>8, ThriftSingle
  <2>5. Charge(f, a) = Charge(g, a) + loss /\ Charge(g, a) \in Nat
    <3>1. CASE stage = "executed"
      BY <1>1, <1>3, <1>4, <3>1 DEF Charge
    <3>2. CASE stage = "validate"
      BY <1>1, <1>3, <1>4, <3>2 DEF Charge
    <3>3. QED  BY <3>1, <3>2
  <2> HIDE DEF d, loss
  <2>6. z \in Nat
    BY <1>7, <1>8, BudgetNat
  <2>7. x \in Nat /\ full \in Nat /\ full <= x
    BY <1>1, <1>5, <1>8, <2>1, AheadNat, AheadLater
  <2>8. y \in Nat /\ y + loss <= x
    <3> DEFINE bill == Bill(Price(T[MaxCalls + 1 - d], f.self, a), f.rest)
    <3>1. bill \in Nat
      BY <1>1, <1>8, <2>1, AheadNat
    <3>2. full = Charge(f, a) + (IF Captive(v, f.self) THEN 0 ELSE bill)
      BY Zenon DEF Ahead
    <3>3. y = Charge(g, a) + (IF Captive(v, f.self) THEN 0 ELSE bill)
      BY <1>3, Zenon DEF Ahead
    <3> HIDE DEF bill, x, y, full
    <3>4. QED  BY <2>2, <2>5, <2>7, <3>1, <3>2, <3>3
  <2> HIDE DEF x, y, z, full
  <2>9. Fair(tx.by, start, v, a, y, z)
    BY <1>5, <2>2, <2>3, <2>4, <2>6, <2>7, <2>8, FairOn
  <2>10. Fair(tx.by, start, v, a, Ahead(v, t[1], 1, a, T), Budget(tx, a, T))
    BY <1>6, <2>9, Zenon DEF y, z, d
  <2>11. QED  BY <1>6, <2>10, ThriftSingle
<1>9. ASSUME NEW a \in Accounts PROVE Thrifty(tx, start, v, t, FALSE, a, Spending(a))
  BY <1>1, <1>8, SpendingTable DEF SInv
<1>10. QED  BY <1>2, <1>7, <1>9 DEF SInv

LEMMA CreateSenderThrift ==
  ASSUME IInv, SInv, CreateSender
  PROVE  SInv'
<1> DEFINE op == Top.op
           v == createAccount(op.initCode)
<1>1. Running /\ Top.at = "create"
  BY DEF CreateSender, At
<1>2. World(world) /\ op.initCode \in Simple \cup {NoOne}
  BY <1>1, Standing, Operating
<1>3. ASSUME NEW w, World(w), Later(world, w), w.balance = world.balance, w.deposit = world.deposit,
             Goes("validate", w)
      PROVE  SInv'
  <2>1. ASSUME NEW a \in Accounts PROVE Owns(world, a) <= Owns(w, a) + 0
    <3>1. Owns(w, a) = Owns(world, a) /\ Owns(world, a) \in Nat
      BY <1>2, <1>3, OwnsNat, Kinds DEF Owns
    <3>2. QED  BY <3>1
  <2> DEFINE stage == "validate"
  <2>2. \A a \in Accounts :
          Owns(world, a) <= Owns(w, a) + (IF stage = "executed" /\ Top.op.sender = a THEN Top.op.prefund ELSE 0)
    BY <2>1
  <2>3. stage \in {"validate", "executed"} /\ stage # "executed" /\ Goes(stage, w)
    BY <1>3
  <2> HIDE DEF stage
  <2>4. QED  BY <1>1, <1>3, <2>2, <2>3, GoesThrift
<1>4. CASE op.initCode = NoOne
  <2>1. Goes("validate", world)
    BY <1>4 DEF CreateSender
  <2>2. Later(world, world)
    BY DEF Later
  <2>3. QED  BY <1>2, <1>3, <2>1, <2>2
<1>5. CASE op.initCode # NoOne /\ (op.sender \in world.code \/ op.initCode # op.sender)
  <2>1. FailedOp
    BY <1>5 DEF CreateSender
  <2>2. QED  BY <1>1, <2>1, FailsThrift DEF FailedOp
<1>6. CASE op.initCode # NoOne /\ ~(op.sender \in world.code \/ op.initCode # op.sender)
  <2>1. Goes("validate", v)
    BY <1>6 DEF CreateSender
  <2>2. op.initCode \in Simple /\ op.initCode \notin world.code
    BY <1>2, <1>6
  <2>3. World(v) /\ Later(world, v) /\ v.balance = world.balance /\ v.deposit = world.deposit
    BY <1>2, <2>2, CreatedWorld
  <2> HIDE DEF v
  <2>4. QED  BY <1>3, <2>1, <2>3
<1>7. QED  BY <1>4, <1>5, <1>6

(* What an account pays to its deposit it still has. *)
LEMMA PrefundOwns ==
  ASSUME World(world), NEW op \in Operations, NEW a \in Accounts
  PROVE  LET m == _payPrefund(op)
         IN  Owns(world, a) <= Owns(m, a)
<1> DEFINE x == op.sender
           y == Missing(op)
           m == Moved(world, x, EntryPoint, y)
           p == _payPrefund(op)
<1>1. x \in Addr /\ x # EntryPoint /\ op.prefund \in Nat /\ EntryPoint \in Addr /\ a \in Addr
  BY AccountsAssumption, Kinds DEF AccountsAssumption
<1>2. /\ world.deposit \in [Addr -> Nat] /\ world.balance \in [Addr -> Nat] /\ DOMAIN world = Fields
      /\ world.balance[a] \in Nat /\ world.deposit[a] \in Nat
  BY <1>1 DEF World, Typed
<1>3. y \in Nat
  <2>1. world.deposit[x] \in Nat
    BY <1>1, <1>2
  <2>2. QED  BY <1>1, <2>1 DEF Missing
<1>4. CASE y <= world.balance[x]
  <2>1. p = [m EXCEPT !.deposit[x] = @ + y]
    BY <1>4 DEF _payPrefund, Deposited
  <2>2. /\ m.deposit = world.deposit /\ m.balance[a] \in Int
        /\ world.balance[a] <= m.balance[a] + (IF x = a THEN y ELSE 0)
    <3>1. x # a \/ y <= world.balance[a]
      BY <1>4
    <3> HIDE DEF x, y
    <3>2. QED  BY <1>1, <1>3, <3>1, MovedOwns
  <2>3. DOMAIN m = Fields
    BY <1>2, MovedKeeps
  <2> HIDE DEF m, x, y, p
  <2>4. p.balance = m.balance /\ p.deposit[a] = m.deposit[a] + (IF x = a THEN y ELSE 0)
    BY <1>1, <1>2, <1>3, <2>1, <2>2, <2>3 DEF Fields
  <2>5. Owns(world, a) <= Owns(p, a)
    BY <1>2, <1>3, <2>2, <2>4 DEF Owns
  <2>6. QED  BY <2>5 DEF p
<1>5. CASE ~(y <= world.balance[x])
  <2>1. p = world
    BY <1>5 DEF _payPrefund
  <2>2. Owns(world, a) \in Nat
    BY <1>1, OwnsNat
  <2>3. QED  BY <2>1, <2>2
<1>6. QED  BY <1>4, <1>5

LEMMA ValidateUserOpThrift ==
  ASSUME IInv, SInv, ValidateUserOp
  PROVE  SInv'
<1> DEFINE op == Top.op
           x == op.sender
           paid == _payPrefund(op)
           valid == /\ x \in world.code /\ op.prefund <= paid.deposit[x]
                    /\ op \notin world.used /\ _validateSignature(op)
           v == [paid EXCEPT !.deposit[x] = @ - op.prefund, !.used = @ \cup {op}]
<1>1. Running /\ Top.at = "validate"
  BY DEF ValidateUserOp, At
<1>2. /\ Top = frames[1] /\ frames # <<>> /\ op \in Operations /\ op.signer = tx.by
      /\ x \in Accounts /\ x \in Addr /\ op.prefund \in Nat
  BY <1>1, Operating
<1>3. World(world) /\ Backed(world, 0)
  <2>1. Held(frames) = 0
    BY <1>1, <1>2 DEF Held, Executed
  <2>2. QED  BY <2>1, Standing
<1>4. CASE ~valid
  <2>1. FailedOp
    BY <1>4 DEF ValidateUserOp
  <2>2. QED  BY <1>1, <2>1, FailsThrift DEF FailedOp
<1>5. CASE valid
  <2>1. Goes("executed", v)
    BY <1>5 DEF ValidateUserOp
  <2>2. World(paid) /\ SameRights(world, paid) /\ paid.impl = world.impl
    BY <1>2, <1>3, PrefundPaid
  <2>3. op.prefund <= paid.deposit[x] /\ tx.by = world.key[x]
    BY <1>2, <1>5 DEF _validateSignature
  <2>4. \A a \in Accounts : Owns(world, a) <= Owns(paid, a)
    BY <1>2, <1>3, PrefundOwns
  <2> HIDE DEF paid
  <2>5. /\ paid.deposit \in [Addr -> Nat] /\ paid.balance \in [Addr -> Nat] /\ DOMAIN paid = Fields
        /\ paid.used \subseteq Operations
    BY <2>2 DEF World, Typed
  <2>6. /\ v.code = paid.code /\ v.initialized = paid.initialized /\ v.owner = paid.owner /\ v.key = paid.key
        /\ v.impl = paid.impl /\ v.balance = paid.balance /\ v.used = paid.used \cup {op} /\ DOMAIN v = Fields
        /\ v.deposit = [paid.deposit EXCEPT ![x] = @ - op.prefund]
    BY <2>5 DEF Fields
  <2> HIDE DEF v
  <2>7. v.deposit \in [Addr -> Nat] /\ v.used \subseteq Operations /\ SameRights(paid, v)
    <3>1. paid.deposit[x] - op.prefund \in Nat
      BY <1>2, <2>3, <2>5
    <3>2. QED  BY <1>2, <2>5, <2>6, <3>1 DEF SameRights
  <2>8. World(v) /\ SameRights(world, v)
    <3>1. World(v)
      BY <2>2, <2>5, <2>6, <2>7, SameWorld
    <3>2. QED  BY <2>2, <2>7, <3>1 DEF SameRights
  <2>9. Later(world, v)
    BY <2>8, SameLater
  <2>10. tx.by \in Principals(v, x)
    <3>1. v.key[x] = tx.by
      BY <2>3, <2>8 DEF SameRights
    <3>2. QED  BY <1>2, <2>8, <3>1, OwnerSpeaks DEF World
  <2> DEFINE stage == "executed"
  <2>11. ASSUME NEW a \in Accounts
         PROVE  Owns(world, a) <= Owns(v, a) + (IF stage = "executed" /\ x = a THEN op.prefund ELSE 0)
    <3>1. a \in Addr /\ paid.deposit[a] \in Nat /\ paid.balance[a] \in Nat
      BY <2>5, Kinds
    <3>2. v.balance[a] = paid.balance[a]
          /\ v.deposit[a] = paid.deposit[a] - (IF x = a THEN op.prefund ELSE 0)
      BY <1>2, <2>5, <2>6, <3>1
    <3>3. Owns(world, a) \in Nat /\ Owns(world, a) <= Owns(paid, a)
      BY <1>3, <2>4, <3>1, OwnsNat
    <3> HIDE DEF x, op
    <3>4. QED  BY <1>2, <3>1, <3>2, <3>3 DEF Owns
  <2>12. stage \in {"validate", "executed"} /\ Goes(stage, v)
    BY <2>1
  <2> HIDE DEF stage
  <2>13. QED  BY <1>1, <2>8, <2>9, <2>10, <2>11, <2>12, GoesThrift
<1>6. QED  BY <1>4, <1>5

LEMMA SettleThrift ==
  ASSUME IInv, SInv, IInv', NEW beneficiary \in People, Settle(beneficiary)
  PROVE  SInv'
<1> DEFINE op == Top.op
           x == op.sender
<1>1. Running /\ Top.at # "called" /\ frames' = <<>> /\ UNCHANGED <<reverting, made, tx, start>>
  BY DEF Settle, At
<1>2. /\ Depth = 1 /\ x \in Addr /\ op.prefund \in Nat
  BY <1>1, Operating
<1>3. World(world) /\ DOMAIN world = Fields /\ world.deposit \in [Addr -> Nat]
  BY Standing DEF World, Typed
<1>4. PICK cost \in 0..op.prefund :
        world' = [Moved(world, EntryPoint, beneficiary, cost) EXCEPT
                    !.deposit[x] = @ + (op.prefund - cost)]
  BY DEF Settle
<1> DEFINE m == Moved(world, EntryPoint, beneficiary, cost)
           rest == op.prefund - cost
           v == [m EXCEPT !.deposit[x] = @ + rest]
<1>5. cost \in Nat /\ rest \in Nat /\ world' = v
  BY <1>2, <1>4
<1>6. /\ m.initialized = world.initialized /\ m.owner = world.owner /\ m.key = world.key
      /\ m.deposit = world.deposit /\ DOMAIN m = Fields
  BY <1>3 DEF Moved, Fields
<1>7. ASSUME NEW a \in Accounts PROVE m.balance[a] \in Int /\ world.balance[a] <= m.balance[a]
  <2>1. a \in Addr /\ beneficiary \in Addr /\ EntryPoint \in Addr /\ EntryPoint # a
    BY Kinds
  <2> DEFINE y == cost
  <2>2. y \in Nat
    BY <1>5
  <2> HIDE DEF y
  <2>3. LET n == Moved(world, EntryPoint, beneficiary, y)
        IN  n.balance[a] \in Int /\ world.balance[a] <= n.balance[a] + (IF EntryPoint = a THEN y ELSE 0)
    BY <1>3, <2>1, <2>2, MovedOwns
  <2>4. QED  BY <2>1, <2>3 DEF y
<1> HIDE DEF m, rest, x
<1>8. /\ v.initialized = m.initialized /\ v.owner = m.owner /\ v.key = m.key /\ v.balance = m.balance
      /\ v.deposit = [m.deposit EXCEPT ![x] = @ + rest]
  BY <1>6 DEF Fields
<1> HIDE DEF v
<1>9. Later(world, v)
  BY <1>6, <1>8 DEF Later
<1>10. ASSUME NEW a \in Accounts PROVE Owns(world, a) <= Owns(v, a)
  <2>1. a \in Addr /\ world.balance[a] \in Nat /\ world.deposit[a] \in Nat
    BY <1>3, Kinds DEF World, Typed
  <2>2. v.deposit[a] = world.deposit[a] + (IF x = a THEN rest ELSE 0)
    BY <1>3, <1>6, <1>8, <2>1
  <2>3. QED  BY <1>5, <1>7, <1>8, <2>1, <2>2 DEF Owns
<1>11. QED  BY <1>1, <1>2, <1>5, <1>9, <1>10, EndThrift

---------------------------------------------------------------------------

LEMMA InitThrift ==
  ASSUME Init
  PROVE  SInv
<1>1. start = world /\ frames = <<>> /\ reverting = FALSE /\ made = 0 /\ tx = Request(NoOne, <<>>)
  BY DEF Init
<1>2. World(world)
  BY <1>1, InitInv DEF IInv, Progress, Worlds
<1>3. Metered(tx, <<>>, made)
  BY <1>1, AccountsAssumption DEF Metered, Request, AccountsAssumption
<1>4. ASSUME NEW a \in Accounts
      PROVE  Thrifty(tx, world, world, <<>>, FALSE, a, Spending(a))
  <2> DEFINE budget == Budget(tx, a, Spending(a))
  <2>1. budget \in Nat
    BY <1>3, SpendingTable, BudgetNat
  <2> HIDE DEF budget
  <2>2. 0 \in Nat /\ 0 <= budget
    BY <2>1
  <2>3. Fair(tx.by, world, world, a, 0, budget)
    BY <1>2, <2>1, <2>2, FairStart
  <2>4. QED  BY <2>3, ThriftEmpty DEF budget
<1>5. QED  BY <1>1, <1>3, <1>4 DEF SInv

LEMMA StepThrift ==
  ASSUME IInv, BInv, SInv, IInv', [Next]_vars
  PROVE  SInv'
<1>1. ASSUME NEW q \in People, NEW c \in Calls, SendTransaction(q, c)
      PROVE  SInv'
  <2> DEFINE request == Request(q, <<c>>)
             at == "called"
  <2>1. Begin(request, q, NoOne, at) /\ at = "called"
    BY <1>1 DEF SendTransaction
  <2>2. request.asked \in Seq(AllCalls) /\ request.prefund \in Nat
    BY AccountsAssumption DEF AccountsAssumption, Request
  <2>3. q \in Addr \ (Accounts \cup Unknown)
    BY Kinds
  <2> HIDE DEF request, at
  <2>4. QED  BY <2>1, <2>2, <2>3, BeginThrift
<1>2. ASSUME NEW op \in Operations, HandleOp(op)
      PROVE  SInv'
  <2> DEFINE request == [Request(op.signer, op.callData) EXCEPT !.sender = op.sender, !.prefund = op.prefund]
             at == "create"
  <2>1. Begin(request, EntryPoint, op, at)
    BY <1>2 DEF HandleOp
  <2>2. /\ request.asked \in Seq(AllCalls) /\ request.prefund \in Nat
        /\ op.sender = request.sender /\ op.prefund = request.prefund
    BY AccountsAssumption DEF AccountsAssumption, Request
  <2>3. EntryPoint \in Addr \ (Accounts \cup Unknown)
    BY Kinds
  <2> HIDE DEF request, at
  <2>4. QED  BY <2>1, <2>2, <2>3, BeginThrift
<1>3. ASSUME NEW a \in Falcon, DeployProxy(a)
      PROVE  SInv'
  BY <1>3, DeployProxyThrift
<1>4. ASSUME NEW c, MakesCall(c)
      PROVE  SInv'
  <2>1. PICK conditions, v : \E next \in Seq(AllCalls) :
          /\ Runs(c, conditions, v, next)
          /\ c.value <= world.balance[Top.self] /\ conditions => Modest(c, v, next)
    BY <1>4, CallsModest
  <2>2. Makes(c)
    BY <1>4, CallsModest
  <2>3. PICK next \in Seq(AllCalls) :
          /\ Runs(c, conditions, v, next)
          /\ c.value <= world.balance[Top.self] /\ conditions => Modest(c, v, next)
    BY <2>1
  <2>4. QED  BY <2>2, <2>3, CallThrift
<1>5. CASE TransactionEnds
  <2>1. /\ Running /\ Depth = 1 /\ frames' = <<>> /\ UNCHANGED <<reverting, made, tx, start>>
        /\ world' = world
    BY <1>5 DEF TransactionEnds
  <2>2. World(world) /\ Later(world, world)
    BY Standing DEF Later
  <2>3. \A a \in Accounts : Owns(world, a) <= Owns(world, a)
    BY <2>2, OwnsNat, Kinds
  <2>4. Later(world, world') /\ \A a \in Accounts : Owns(world, a) <= Owns(world', a)
    BY <2>1, <2>2, <2>3
  <2>5. QED  BY <2>1, <2>4, EndThrift
<1>6. CASE Return
  BY <1>6, ReturnThrift
<1>7. CASE Fails
  BY <1>7, FailsThrift DEF Fails
<1>8. CASE Unwind
  BY <1>8, UnwindThrift
<1>9. CASE CreateSender
  BY <1>9, CreateSenderThrift
<1>10. CASE ValidateUserOp
  BY <1>10, ValidateUserOpThrift
<1>11. ASSUME NEW q \in People, Settle(q)
       PROVE  SInv'
  BY <1>11, SettleThrift
<1>12. CASE UNCHANGED vars
  BY <1>12 DEF vars, SInv
<1>13. QED  BY <1>1, <1>2, <1>3, <1>4, <1>5, <1>6, <1>7, <1>8, <1>9, <1>10, <1>11, <1>12 DEF Next

(* Nobody spends what is another's: whatever code was called on the way and  *)
(* calls back, a transaction takes from an account no more than the calls    *)
(* spend that were asked of it, and the prefund, by the owner or the key;    *)
(* and nothing if they asked for none.                                       *)
THEOREM SpendingIsAsked == Spec => []SpendsAsAsked
<1>1. Init => SInv
  BY InitThrift
<1>2. IInv /\ BInv /\ SInv /\ [Next]_vars => SInv'
  BY StepInv, StepThrift
<1>3. ASSUME IInv, SInv
      PROVE  SpendsAsAsked
  <2> SUFFICES ASSUME frames = <<>>, NEW a \in start.initialized
               PROVE  \/ Principals(world, a) \cap Unknown # {}
                      \/ Owns(start, a) <= Owns(world, a) + (IF Agreed(world, a) THEN Asked(a) ELSE 0)
    BY DEF SpendsAsAsked
  <2>1. a \in Accounts /\ World(start) /\ World(world)
    BY <1>3, Standing DEF World, Typed
  <2> DEFINE T == Spending(a)
             z == Budget(tx, a, T)
  <2>2. Fair(tx.by, start, world, a, 0, z)
    BY <1>3, <2>1 DEF SInv, Thrifty
  <2>3. z \in Nat
    BY <1>3, SpendingTable, BudgetNat DEF SInv
  <2>4. z = Asked(a)
    BY Zenon DEF Asked, Budget, Bill
  <2>5. Owns(start, a) \in Nat /\ Owns(world, a) \in Nat
    BY <2>1, OwnsNat, Kinds
  <2> HIDE DEF z
  <2>6. CASE Captive(world, a)
    BY <2>6 DEF Captive
  <2>7. CASE ~Captive(world, a)
    <3>1. /\ tx.by \notin Principals(world, a) => Owns(start, a) <= Owns(world, a)
          /\ Owns(start, a) + 0 <= Owns(world, a) + z
      BY <2>2, <2>7 DEF Fair
    <3>2. Agreed(world, a) <=> tx.by \in Principals(world, a)
      BY <2>7 DEF Agreed, Captive
    <3> DEFINE i == Owns(start, a)
               j == Owns(world, a)
    <3>3. i \in Nat /\ j \in Nat /\ (tx.by \notin Principals(world, a) => i <= j) /\ i + 0 <= j + z
      BY <2>5, <3>1
    <3> HIDE DEF i, j
    <3>4. i <= j + (IF Agreed(world, a) THEN z ELSE 0)
      BY <2>3, <3>2, <3>3
    <3>5. QED  BY <2>4, <3>4 DEF i, j
  <2>8. QED  BY <2>6, <2>7
<1>4. Init => BInv
  BY InitBooks
<1>5. IInv /\ BInv /\ [Next]_vars => BInv'
  BY StepBooks
<1>6. QED  BY <1>1, <1>2, <1>3, <1>4, <1>5, Invariance, PTL DEF Spec
=============================================================================

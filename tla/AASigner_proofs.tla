-------------------------- MODULE AASigner_proofs --------------------------
(***************************************************************************)
(* Proofs about AASigner, for any number of transactions, connections and  *)
(* reads at once, and any number of blocks.                                *)
(*                                                                         *)
(* A receipt is true because of what the listener still holds when it      *)
(* resolves: its event is one of this operation (the hashes are compared), *)
(* events are never taken back, and the operation no longer changes once   *)
(* the response has been made, although the call of sendTransaction goes   *)
(* on and may fail.  Quiet, Listeners, Settled and Sending say so for each *)
(* transaction; Prepared is what its operation is filled from.             *)
(***************************************************************************)
EXTENDS AASigner, TLAPS

(* sendTransaction before it makes the response. *)
Early == {"called", "address", "code", "synced", "populate", "nonce", "filled"}

Stages ==
  Early \cup {"connecting", "send", "beneficiary", "network", "ready", "sending", "mining",
             "returned", "thrown"}

Operation == [tx : Txs \cup {None}, sender : Accounts \cup {None}, initCode : BOOLEAN, nonce : Nat]

Typed ==
  /\ account \in Accounts \cup {None} /\ isPhantom \in BOOLEAN
  /\ at \in [Calls -> Stages]
  /\ seen \in [Calls -> [of : Accounts \cup {None}, value : Nat]]
  /\ op \in [Txs -> Operation]
  /\ wait \in [Txs -> {"waiting", "success", "failure"}]
  /\ resolved \in [Txs -> BOOLEAN] /\ listening \in [Txs -> BOOLEAN] /\ timer \in [Txs -> BOOLEAN]
  /\ asked \in [Txs -> 0..MaxBlock \cup {None}]
  /\ currentBlock \in [Txs -> 0..MaxBlock \cup {None}]
  /\ DOMAIN calls = Txs
  /\ nonce \in [Accounts -> Nat] /\ block \in 0..MaxBlock /\ local \in BOOLEAN
  /\ \A e \in events : e.success \in BOOLEAN

(* The operation is filled from a known account. *)
Prepared(t) ==
  /\ at[t] \in {"code", "synced", "populate"} => account \in Accounts
  /\ at[t] = "nonce" => seen[t].of \in Accounts

(* No listener yet, and no receipt. *)
Quiet(t) ==
  at[t] \in Early => wait[t] = "waiting" /\ ~listening[t] /\ ~timer[t] /\ calls[t] = {}

(* Every call of the listener has an event of the operation, and waits for *)
(* the reason of a failure only if it failed.                              *)
Call == [via : {"on", "timer"}, event : events, stage : {"block", "receipt", "reasons"}]

Listeners(t) ==
  \A c \in calls[t] :
    c \in Call /\ c.event.op = op[t] /\ (c.stage = "reasons" => ~c.event.success)

Settled(t) ==
  /\ resolved[t] <=> wait[t] # "waiting"
  /\ resolved[t] => ~listening[t]
  /\ wait[t] # "waiting" => \E e \in events : e.op = op[t] /\ e.success = (wait[t] = "success")

(* An operation sent to handleOps by this process is waiting to be mined,   *)
(* was handled, or reverted.                                                *)
Handled(o) == \E e \in events : e.op = o

Sending(t) ==
  /\ at[t] = "sending" => ~local
  /\ local /\ at[t] = "mining" => op[t] \in pool \cup reverted \/ Handled(op[t])
  /\ local /\ at[t] = "returned" => Handled(op[t])

TxInv(t) == Prepared(t) /\ Quiet(t) /\ Listeners(t) /\ Settled(t) /\ Sending(t)

IInv == Typed /\ \A t \in Txs : TxInv(t)

---------------------------------------------------------------------------
(* What a step leaves of the parts of TxInv. *)

LEMMA ListenersKept ==
  ASSUME NEW t, Listeners(t), calls'[t] = calls[t], op'[t] = op[t], events \subseteq events'
  PROVE  Listeners(t)'
BY DEF Listeners, Call

LEMMA SettledKept ==
  ASSUME NEW t, Settled(t), UNCHANGED <<wait[t], resolved[t], listening[t]>>,
         op'[t] = op[t], events \subseteq events'
  PROVE  Settled(t)'
BY DEF Settled

LEMMA SendingKept ==
  ASSUME NEW t, Sending(t), UNCHANGED <<at[t], op[t], local>>, events \subseteq events',
         \A o : o \in pool \cup reverted => o \in pool' \cup reverted' \/ Handled(o)'
  PROVE  Sending(t)'
<1>1. \A o : Handled(o) => Handled(o)'
  BY DEF Handled
<1>2. QED  BY <1>1 DEF Sending

LEMMA PreparedKept ==
  ASSUME NEW t, Prepared(t), UNCHANGED <<at[t], seen[t]>>,
         account \in Accounts => account' \in Accounts
  PROVE  Prepared(t)'
BY DEF Prepared

LEMMA QuietKept ==
  ASSUME NEW t, Quiet(t), UNCHANGED <<at[t], wait[t], listening[t], timer[t], calls[t]>>
  PROVE  Quiet(t)'
BY DEF Quiet

---------------------------------------------------------------------------
LEMMA InitInv == Init => IInv
<1> SUFFICES ASSUME Init PROVE IInv
  OBVIOUS
<1>1. Typed
  <2>1. NoOp \in Operation
    BY DEF NoOp, Operation
  <2>2. NoRequest \in [of : Accounts \cup {None}, value : Nat]
    BY DEF NoRequest
  <2>3. 0 \in 0..MaxBlock
    BY AASignerAssumption DEF AASignerAssumption
  <2>4. at \in [Calls -> Stages] /\ seen \in [Calls -> [of : Accounts \cup {None}, value : Nat]]
    <3>1. at \in [Calls -> Stages]
      BY DEF Init, Stages, Early
    <3>2. \A r : NoRequest \in r => seen \in [Calls -> r]
      BY DEF Init
    <3>3. QED  BY <2>2, <3>1, <3>2
  <2>5. op \in [Txs -> Operation]
    BY <2>1 DEF Init
  <2>6. /\ wait \in [Txs -> {"waiting", "success", "failure"}]
        /\ resolved \in [Txs -> BOOLEAN] /\ listening \in [Txs -> BOOLEAN] /\ timer \in [Txs -> BOOLEAN]
    BY DEF Init
  <2>7. /\ asked \in [Txs -> 0..MaxBlock \cup {None}]
        /\ currentBlock \in [Txs -> 0..MaxBlock \cup {None}]
        /\ DOMAIN calls = Txs /\ nonce \in [Accounts -> Nat] /\ block \in 0..MaxBlock
    BY <2>3 DEF Init
  <2>8. QED  BY <2>4, <2>5, <2>6, <2>7 DEF Init, Typed
<1>2. ASSUME NEW t \in Txs PROVE TxInv(t)
  <2>1. /\ at[t] = "called" /\ wait[t] = "waiting" /\ ~resolved[t] /\ ~listening[t]
        /\ ~timer[t] /\ calls[t] = {}
    BY DEF Init, Calls
  <2>2. QED  BY <2>1 DEF TxInv, Prepared, Quiet, Listeners, Settled, Sending
<1>3. QED  BY <1>1, <1>2 DEF IInv

(* A step of call c, which may fill its operation while that is early. *)
LEMMA CallStep ==
  ASSUME IInv, NEW c \in Calls, NEW s \in Stages, Go(c, s),
         op' \in [Txs -> Operation],
         \A t \in Txs : op'[t] = op[t] \/ (t = c /\ at[c] \in Early /\ s \in Early),
         UNCHANGED <<response, local, deployed, nonce, block, events, reverted>>,
         pool \subseteq pool', isPhantom' \in BOOLEAN, account' \in Accounts \cup {None},
         account \in Accounts => account' \in Accounts,
         seen' \in [Calls -> [of : Accounts \cup {None}, value : Nat]],
         \A d \in Calls \ {c} : seen'[d] = seen[d],
         c \in Txs => Prepared(c)' /\ Sending(c)' /\ (s \in Early => at[c] \in Early)
  PROVE  IInv'
<1>1. Typed'
  BY DEF IInv, Typed, Go, response
<1>2. ASSUME NEW t \in Txs PROVE TxInv(t)'
  <2>1. /\ Typed /\ Prepared(t) /\ Quiet(t) /\ Listeners(t) /\ Settled(t) /\ Sending(t)
        /\ t \in Calls /\ at \in [Calls -> Stages]
    BY DEF IInv, TxInv, Typed, Calls
  <2>2. UNCHANGED <<wait[t], resolved[t], listening[t], timer[t], calls[t]>> /\ events' = events
    BY DEF response
  <2>3. CASE t # c
    <3>1. at'[t] = at[t] /\ op'[t] = op[t] /\ seen'[t] = seen[t]
      BY <2>1, <2>3 DEF Go
    <3>2. Prepared(t)' /\ Quiet(t)' /\ Listeners(t)' /\ Settled(t)'
      BY <2>1, <2>2, <3>1, PreparedKept, QuietKept, ListenersKept, SettledKept
    <3>3. Sending(t)'
      BY <2>1, <2>2, <3>1, SendingKept
    <3>4. QED  BY <3>2, <3>3 DEF TxInv
  <2>4. CASE t = c
    <3>1. at'[t] = s
      BY <2>1, <2>4 DEF Go
    <3>2. Quiet(t)'
      BY <2>1, <2>2, <2>4, <3>1 DEF Quiet
    <3>3. Listeners(t)' /\ Settled(t)'
      <4>1. CASE op'[t] = op[t]
        BY <2>1, <2>2, <4>1, ListenersKept, SettledKept
      <4>2. CASE at[t] \in Early
        BY <2>1, <2>2, <4>2 DEF Quiet, Listeners, Settled
      <4>3. QED  BY <2>4, <4>1, <4>2
    <3>4. QED  BY <2>4, <3>2, <3>3 DEF TxInv
  <2>5. QED  BY <2>3, <2>4
<1>3. QED  BY <1>1, <1>2 DEF IInv

(* A step of the response of t. *)
LEMMA ResponseStep ==
  ASSUME IInv, NEW t \in Txs, UNCHANGED <<signer, at, seen, op, sender, chain>>, Typed',
         \A u \in Txs \ {t} : UNCHANGED <<wait[u], resolved[u], listening[u], timer[u], calls[u]>>,
         Quiet(t)', Listeners(t)', Settled(t)'
  PROVE  IInv'
<1>1. ASSUME NEW u \in Txs PROVE TxInv(u)'
  <2>1. Prepared(u) /\ Quiet(u) /\ Listeners(u) /\ Settled(u) /\ Sending(u)
    BY DEF IInv, TxInv
  <2>2. UNCHANGED <<at[u], seen[u], op[u], account, events, local, pool, reverted>>
    BY DEF signer, sender, chain
  <2>3. Prepared(u)' /\ Sending(u)'
    BY <2>1, <2>2, PreparedKept, SendingKept
  <2>4. CASE u = t
    BY <2>3, <2>4 DEF TxInv
  <2>5. CASE u # t
    <3>1. UNCHANGED <<wait[u], resolved[u], listening[u], timer[u], calls[u]>>
      BY <2>5
    <3>2. Quiet(u)' /\ Listeners(u)' /\ Settled(u)'
      BY <2>1, <2>2, <3>1, QuietKept, ListenersKept, SettledKept
    <3>3. QED  BY <2>3, <3>2 DEF TxInv
  <2>6. QED  BY <2>4, <2>5
<1>2. QED  BY <1>1 DEF IInv

(* A step of the chain. *)
LEMMA ChainStep ==
  ASSUME IInv, UNCHANGED <<signer, at, seen, op, response, sender>>,
         events \subseteq events', \A e \in events' : e.success \in BOOLEAN,
         \A o : o \in pool \cup reverted => o \in pool' \cup reverted' \/ Handled(o)',
         nonce' \in [Accounts -> Nat], block' \in 0..MaxBlock
  PROVE  IInv'
<1>1. Typed'
  BY DEF IInv, Typed, signer, response, sender
<1>2. ASSUME NEW t \in Txs PROVE TxInv(t)'
  <2>1. Prepared(t) /\ Quiet(t) /\ Listeners(t) /\ Settled(t) /\ Sending(t)
    BY DEF IInv, TxInv
  <2>2. UNCHANGED <<at[t], seen[t], op[t], account, local,
                    wait[t], resolved[t], listening[t], timer[t], calls[t]>>
    BY DEF signer, sender, response
  <2>3. Prepared(t)' /\ Quiet(t)' /\ Listeners(t)' /\ Settled(t)'
    BY <2>1, <2>2, PreparedKept, QuietKept, ListenersKept, SettledKept
  <2>4. Sending(t)'
    BY <2>1, <2>2, SendingKept
  <2>5. QED  BY <2>3, <2>4 DEF TxInv
<1>3. QED  BY <1>1, <1>2 DEF IInv

---------------------------------------------------------------------------
(* The steps of connectAccountAddress, syncAccount and sendTransaction. *)

LEMMA Requests ==
  ASSUME Typed, NEW c \in Calls, NEW a \in Accounts
  PROVE  /\ AskCode(c, a) => seen' \in [Calls -> [of : Accounts \cup {None}, value : Nat]]
         /\ AskNonce(c, a) => seen' \in [Calls -> [of : Accounts \cup {None}, value : Nat]]
         /\ Answered(c) => seen' \in [Calls -> [of : Accounts \cup {None}, value : Nat]]
         /\ AskCode(c, a) \/ AskNonce(c, a) => seen'[c].of = a
         /\ AskCode(c, a) \/ AskNonce(c, a) \/ Answered(c) =>
              \A d \in Calls \ {c} : seen'[d] = seen[d]
<1> DEFINE Req == [of : Accounts \cup {None}, value : Nat]
<1>1. seen \in [Calls -> Req] /\ nonce[a] \in Nat
  BY DEF Typed
<1>2. [of |-> a, value |-> CodeSize(a)] \in Req /\ [of |-> a, value |-> nonce[a]] \in Req
  BY <1>1 DEF CodeSize
<1>3. NoRequest \in Req
  BY DEF NoRequest
<1> HIDE DEF Req
<1>4. \A r \in Req : seen' = [seen EXCEPT ![c] = r] =>
        /\ seen' \in [Calls -> Req] /\ seen'[c] = r
        /\ \A d \in Calls \ {c} : seen'[d] = seen[d]
  BY <1>1
<1>5. AskCode(c, a) => /\ seen' \in [Calls -> Req] /\ seen'[c] = [of |-> a, value |-> CodeSize(a)]
                       /\ \A d \in Calls \ {c} : seen'[d] = seen[d]
  BY <1>2, <1>4 DEF AskCode
<1>6. AskNonce(c, a) => /\ seen' \in [Calls -> Req] /\ seen'[c] = [of |-> a, value |-> nonce[a]]
                        /\ \A d \in Calls \ {c} : seen'[d] = seen[d]
  BY <1>2, <1>4 DEF AskNonce
<1>7. Answered(c) => /\ seen' \in [Calls -> Req]
                     /\ \A d \in Calls \ {c} : seen'[d] = seen[d]
  BY <1>3, <1>4 DEF Answered
<1>8. QED  BY <1>5, <1>6, <1>7 DEF Req

(* A call that fills no operation and touches nothing but the signer. *)
LEMMA SignerStep ==
  ASSUME IInv, NEW c \in Calls, NEW s \in Stages, Go(c, s),
         UNCHANGED <<op, response, local, deployed, nonce, block, events, reverted>>,
         pool \subseteq pool', isPhantom' \in BOOLEAN, account' \in Accounts \cup {None},
         account \in Accounts => account' \in Accounts,
         seen' \in [Calls -> [of : Accounts \cup {None}, value : Nat]],
         \A d \in Calls \ {c} : seen'[d] = seen[d],
         c \in Txs => Prepared(c)' /\ Sending(c)' /\ (s \in Early => at[c] \in Early)
  PROVE  IInv'
<1>1. op' \in [Txs -> Operation] /\ \A t \in Txs : op'[t] = op[t]
  BY DEF IInv, Typed
<1>2. QED  BY <1>1, CallStep

LEMMA ConnectInv ==
  ASSUME IInv, NEW c \in Connects, Connect(c) \/ Connected(c)
  PROVE  IInv'
<1>1. c \in Calls /\ c \notin Txs /\ Typed /\ OtherAccount \in Accounts
  BY AASignerAssumption DEF AASignerAssumption, Calls, Accounts, IInv
<1>2. CASE Connect(c)
  <2>1. Go(c, "thrown") \/ Go(c, "connecting")
    BY <1>2 DEF Connect
  <2>2. UNCHANGED <<signer, op, response, sender, chain>>
    BY <1>2 DEF Connect
  <2>3. UNCHANGED seen \/ AskCode(c, OtherAccount)
    BY <1>2 DEF Connect
  <2>4. /\ seen' \in [Calls -> [of : Accounts \cup {None}, value : Nat]]
        /\ \A d \in Calls \ {c} : seen'[d] = seen[d]
    BY <1>1, <2>3, Requests DEF Typed
  <2>5. "thrown" \in Stages /\ "connecting" \in Stages
    BY DEF Stages
  <2>6. QED  BY <1>1, <2>1, <2>2, <2>4, <2>5, SignerStep DEF signer, sender, chain, Typed
<1>3. CASE Connected(c)
  <2>1. Go(c, "thrown") \/ Go(c, "returned")
    BY <1>3 DEF Connected
  <2>2. /\ UNCHANGED <<op, response, sender, chain>> /\ Answered(c)
        /\ \/ UNCHANGED <<account, isPhantom>>
           \/ account' = OtherAccount /\ isPhantom' = FALSE
    BY <1>3 DEF Connected, signer
  <2>3. /\ seen' \in [Calls -> [of : Accounts \cup {None}, value : Nat]]
        /\ \A d \in Calls \ {c} : seen'[d] = seen[d]
    BY <1>1, <2>2, Requests
  <2>4. "thrown" \in Stages /\ "returned" \in Stages
    BY DEF Stages
  <2>5. QED  BY <1>1, <2>1, <2>2, <2>3, <2>4, SignerStep DEF sender, chain, Typed
<1>4. QED  BY <1>2, <1>3

LEMMA SyncInv ==
  ASSUME IInv, NEW c \in Txs \cup Reads, SyncAccount(c) \/ AddressKnown(c) \/ CodeKnown(c)
  PROVE  IInv'
<1> DEFINE Req == [of : Accounts \cup {None}, value : Nat]
<1>0. "address" \in Stages /\ "code" \in Stages
  BY DEF Stages, Early
<1>1. /\ c \in Calls /\ Typed /\ FactoryAccount \in Accounts /\ at \in [Calls -> Stages]
      /\ seen \in [Calls -> Req] /\ (c \in Txs => c \notin Reads)
      /\ account \in Accounts \cup {None} /\ isPhantom \in BOOLEAN
  BY AASignerAssumption DEF AASignerAssumption, Calls, Accounts, IInv, Typed
<1>2. AfterSync(c) \in Stages /\ (c \in Txs => AfterSync(c) = "synced")
  <2>1. "returned" \in Stages /\ "synced" \in Stages
    BY DEF Stages, Early
  <2>2. AfterSync(c) = (IF c \in Reads THEN "returned" ELSE "synced") /\ (c \in Txs => c \notin Reads)
    BY <1>1 DEF AfterSync
  <2>3. QED  BY <2>1, <2>2
<1>3. /\ UNCHANGED <<op, response, sender, chain>> /\ at[c] \in {"called", "address", "code"}
      /\ account' \in Accounts \/ account' = account
  BY <1>1 DEF SyncAccount, AddressKnown, CodeKnown
<1>4. account' \in Accounts \cup {None} /\ (account \in Accounts => account' \in Accounts)
  BY <1>1, <1>3
<1>5. isPhantom' \in BOOLEAN
  BY <1>1 DEF SyncAccount, AddressKnown, CodeKnown
<1>6. ASSUME NEW s \in Stages, Go(c, s), seen' \in [Calls -> Req],
             \A d \in Calls \ {c} : seen'[d] = seen[d],
             s \in {"address", "code", AfterSync(c)},
             s \in {"code", "synced"} /\ c \in Txs => account' \in Accounts
      PROVE  IInv'
  <2>1. at'[c] = s
    BY <1>1, <1>6 DEF Go
  <2>2. c \in Txs => Prepared(c)' /\ Sending(c)' /\ at[c] \in Early
    BY <1>2, <1>3, <1>6, <2>1 DEF Prepared, Sending, Early
  <2>3. QED  BY <1>1, <1>3, <1>4, <1>5, <1>6, <2>2, SignerStep DEF sender, chain
<1>7. ASSUME CheckPhantom(c), account' \in Accounts PROVE IInv'
  <2>1. CASE AskCode(c, account') /\ Go(c, "code")
    <3>1. seen' \in [Calls -> Req] /\ \A d \in Calls \ {c} : seen'[d] = seen[d]
      BY <1>1, <1>7, <2>1, Requests
    <3>2. QED  BY <1>0, <1>6, <1>7, <2>1, <3>1
  <2>2. CASE UNCHANGED seen /\ Go(c, AfterSync(c))
    BY <1>1, <1>2, <1>6, <1>7, <2>2
  <2>3. QED  BY <1>7, <2>1, <2>2 DEF CheckPhantom
<1>8. CASE SyncAccount(c)
  <2>1. CASE Go(c, "address") /\ UNCHANGED seen
    BY <1>0, <1>1, <1>2, <1>6, <2>1
  <2>2. CASE account # None /\ CheckPhantom(c) /\ UNCHANGED account
    BY <1>1, <1>7, <2>2
  <2>3. QED  BY <1>8, <2>1, <2>2 DEF SyncAccount
<1>9. CASE AddressKnown(c)
  <2>1. account' \in Accounts /\ CheckPhantom(c)
    BY <1>1, <1>9 DEF AddressKnown
  <2>2. QED  BY <1>7, <2>1
<1>10. CASE CodeKnown(c)
  <2>1. Go(c, AfterSync(c)) /\ Answered(c) /\ account' = account /\ at[c] = "code"
    BY <1>10 DEF CodeKnown
  <2>2. seen' \in [Calls -> Req] /\ \A d \in Calls \ {c} : seen'[d] = seen[d]
    BY <1>1, <2>1, Requests
  <2>3. c \in Txs => account' \in Accounts
    BY <2>1 DEF IInv, TxInv, Prepared
  <2>4. QED  BY <1>2, <1>6, <2>1, <2>2, <2>3
<1>11. QED  BY <1>8, <1>9, <1>10

LEMMA ThrowsInv ==
  ASSUME IInv, NEW c \in Calls, Throws(c)
  PROVE  IInv'
<1>1. /\ Go(c, "thrown") /\ Answered(c) /\ UNCHANGED <<signer, op, response, sender, chain>>
      /\ at \in [Calls -> Stages] /\ Typed
  BY DEF Throws, IInv, Typed
<1>2. at'[c] = "thrown"
  BY <1>1 DEF Go
<1>3. Prepared(c)' /\ Sending(c)'
  BY <1>2 DEF Prepared, Sending
<1>4. /\ seen' \in [Calls -> [of : Accounts \cup {None}, value : Nat]]
      /\ \A d \in Calls \ {c} : seen'[d] = seen[d]
  <2>1. FactoryAccount \in Accounts
    BY DEF Accounts
  <2>2. QED  BY <1>1, <2>1, Requests
<1>5. account' \in Accounts \cup {None} /\ isPhantom' \in BOOLEAN /\ "thrown" \in Stages \ Early
  BY <1>1 DEF signer, Typed, Early, Stages
<1>6. QED  BY <1>1, <1>3, <1>4, <1>5, SignerStep DEF signer, sender, chain

LEMMA FillInv ==
  ASSUME IInv, NEW t \in Txs, Synced(t) \/ Populated(t) \/ NonceKnown(t)
  PROVE  IInv'
<1> DEFINE Req == [of : Accounts \cup {None}, value : Nat]
<1>1. /\ t \in Calls /\ Typed /\ at \in [Calls -> Stages] /\ op \in [Txs -> Operation]
      /\ isPhantom \in BOOLEAN /\ account \in Accounts \cup {None} /\ seen \in [Calls -> Req]
      /\ nonce \in [Accounts -> Nat]
  BY DEF Calls, IInv, Typed
<1>2. {"populate", "nonce", "filled"} \subseteq Stages /\ {"synced", "populate", "nonce", "filled"} \subseteq Early
  BY DEF Stages, Early
<1>3. UNCHANGED <<signer, response, sender, chain>> /\ at[t] \in Early
  BY <1>2 DEF Synced, Populated, NonceKnown
<1>4. \E o \in Operation : op' = [op EXCEPT ![t] = o]
  <2> DEFINE o == op[t]
  <2>1. /\ o = [tx |-> o.tx, sender |-> o.sender, initCode |-> o.initCode, nonce |-> o.nonce]
        /\ o.tx \in Txs \cup {None} /\ o.sender \in Accounts \cup {None}
        /\ o.initCode \in BOOLEAN /\ o.nonce \in Nat
    BY <1>1 DEF Operation
  <2>2. CASE Synced(t)
    <3>1. op' = [op EXCEPT ![t] = [o EXCEPT !.initCode = isPhantom]]
      BY <2>2 DEF Synced
    <3> HIDE DEF o
    <3>2. [o EXCEPT !.initCode = isPhantom]
            = [tx |-> o.tx, sender |-> o.sender, initCode |-> isPhantom, nonce |-> o.nonce]
      BY <2>1
    <3>3. [tx |-> o.tx, sender |-> o.sender, initCode |-> isPhantom, nonce |-> o.nonce] \in Operation
      BY <1>1, <2>1 DEF Operation
    <3>4. QED  BY <3>1, <3>2, <3>3
  <2>3. CASE Populated(t)
    <3> DEFINE m == IF o.initCode THEN Index ELSE 0
    <3>1. op' = [op EXCEPT ![t] = [tx |-> t, sender |-> account, initCode |-> o.initCode, nonce |-> m]]
      <4>1. op' = [op EXCEPT ![t] = [o EXCEPT !.tx = t, !.sender = account, !.nonce = m]]
        BY <1>1, <2>3 DEF Populated
      <4>2. [o EXCEPT !.tx = t, !.sender = account, !.nonce = m]
              = [tx |-> t, sender |-> account, initCode |-> o.initCode, nonce |-> m]
        <5> DEFINE r == [o EXCEPT !.tx = t, !.sender = account, !.nonce = m]
                   Fields == {"tx", "sender", "initCode", "nonce"}
        <5> HIDE DEF o, m
        <5>1. DOMAIN o = Fields
          BY <2>1
        <5>2. r = [f \in Fields |-> IF f = "nonce" THEN m ELSE IF f = "sender" THEN account
                                    ELSE IF f = "tx" THEN t ELSE o[f]]
          BY <5>1
        <5>3. QED  BY <5>1, <5>2
      <4>3. QED  BY <4>1, <4>2
    <3>2. m \in Nat
      BY AASignerAssumption DEF AASignerAssumption
    <3> HIDE DEF o, m
    <3>3. [tx |-> t, sender |-> account, initCode |-> o.initCode, nonce |-> m] \in Operation
      BY <1>1, <2>1, <3>2 DEF Operation
    <3>4. QED  BY <3>1, <3>3
  <2>4. CASE NonceKnown(t)
    <3>1. PICK m \in NonceAnswers(t) : op' = [op EXCEPT ![t] = [o EXCEPT !.nonce = m]]
      BY <2>4 DEF NonceKnown
    <3>2. m \in Nat
      <4>1. seen[t].of \in Accounts /\ seen[t].value \in Nat
        BY <1>1, <2>4 DEF NonceKnown, IInv, TxInv, Prepared
      <4>2. nonce[seen[t].of] \in Nat
        BY <1>1, <4>1
      <4>3. QED  BY <4>1, <4>2 DEF NonceAnswers
    <3> HIDE DEF o
    <3>3. [o EXCEPT !.nonce = m]
            = [tx |-> o.tx, sender |-> o.sender, initCode |-> o.initCode, nonce |-> m]
      BY <2>1
    <3>4. [tx |-> o.tx, sender |-> o.sender, initCode |-> o.initCode, nonce |-> m] \in Operation
      BY <2>1, <3>2 DEF Operation
    <3>5. QED  BY <3>1, <3>3, <3>4
  <2>5. QED  BY <2>2, <2>3, <2>4
<1>5. op' \in [Txs -> Operation] /\ \A u \in Txs \ {t} : op'[u] = op[u]
  BY <1>1, <1>4
<1>6. ASSUME NEW s \in {"populate", "nonce", "filled"}, Go(t, s), seen' \in [Calls -> Req],
             \A d \in Calls \ {t} : seen'[d] = seen[d],
             s = "populate" => account \in Accounts,
             s = "nonce" => seen'[t].of \in Accounts
      PROVE  IInv'
  <2>1. at'[t] = s
    BY <1>1, <1>2, <1>6 DEF Go
  <2>2. account' = account /\ isPhantom' = isPhantom /\ pool' = pool
    BY <1>3 DEF signer, chain
  <2>3. Prepared(t)' /\ Sending(t)'
    BY <1>6, <2>1, <2>2 DEF Prepared, Sending
  <2>4. s \in Stages /\ s \in Early
    BY <1>2
  <2>5. UNCHANGED <<response, local, deployed, nonce, block, events, reverted>>
    BY <1>3 DEF sender, chain
  <2>6. QED  BY <1>1, <1>3, <1>5, <1>6, <2>2, <2>3, <2>4, <2>5, CallStep
<1>7. CASE Synced(t)
  <2>1. account \in Accounts
    BY <1>7 DEF Synced, IInv, TxInv, Prepared
  <2>2. QED  BY <1>1, <1>6, <1>7, <2>1 DEF Synced
<1>8. CASE Populated(t)
  <2>1. account \in Accounts
    BY <1>8 DEF Populated, IInv, TxInv, Prepared
  <2>2. CASE Go(t, "filled") /\ UNCHANGED seen
    BY <1>1, <1>6, <2>2
  <2>3. CASE Go(t, "nonce") /\ AskNonce(t, account)
    <3>1. /\ seen' \in [Calls -> Req] /\ seen'[t].of = account
          /\ \A d \in Calls \ {t} : seen'[d] = seen[d]
      BY <1>1, <2>1, <2>3, Requests
    <3>2. QED  BY <1>6, <2>1, <2>3, <3>1
  <2>4. QED  BY <1>8, <2>2, <2>3 DEF Populated
<1>9. CASE NonceKnown(t)
  <2>1. Go(t, "filled") /\ Answered(t) /\ FactoryAccount \in Accounts
    BY <1>9 DEF NonceKnown, Accounts
  <2>2. seen' \in [Calls -> Req] /\ \A d \in Calls \ {t} : seen'[d] = seen[d]
    BY <1>1, <2>1, Requests
  <2>3. QED  BY <1>6, <2>1, <2>2
<1>10. QED  BY <1>7, <1>8, <1>9

(* What is sent by localUserOpSender is in the pool when it is waited for. *)
LEMMA SendInv ==
  ASSUME IInv, NEW t \in Txs,
         SendUserOp(t) \/ SenderReady(t) \/ Submit(t) \/ Sent(t) \/ MinedLocally(t)
  PROVE  IInv'
<1>1. /\ t \in Calls /\ at \in [Calls -> Stages]
      /\ isPhantom \in BOOLEAN /\ account \in Accounts \cup {None}
      /\ seen \in [Calls -> [of : Accounts \cup {None}, value : Nat]] /\ Sending(t)
  BY DEF Calls, IInv, Typed, TxInv
<1>2. UNCHANGED <<signer, seen, op, response, local, deployed, nonce, block, events, reverted>>
  BY DEF SendUserOp, SenderReady, Submit, Sent, MinedLocally, sender, chain
<1>3. pool \subseteq pool'
  BY DEF SendUserOp, SenderReady, Submit, Sent, MinedLocally, chain
<1>4. UNCHANGED <<account, isPhantom>>
  BY <1>2 DEF signer
<1>5. ASSUME NEW s \in Stages \ Early, Go(t, s), Sending(t)' PROVE IInv'
  <2>1. at'[t] = s /\ Prepared(t)'
    BY <1>1, <1>5 DEF Go, Prepared, Early
  <2>2. QED  BY <1>1, <1>2, <1>3, <1>4, <1>5, <2>1, SignerStep
<1>6. {"beneficiary", "ready", "network", "mining", "sending", "returned", "thrown"} \subseteq Stages \ Early
  BY DEF Stages, Early
<1>7. CASE SendUserOp(t) \/ SenderReady(t)
  <2>1. PICK s \in {"beneficiary", "ready", "network"} : Go(t, s)
    BY <1>7 DEF SendUserOp, SenderReady
  <2>2. at'[t] = s
    BY <1>1, <2>1 DEF Go
  <2>3. Sending(t)'
    BY <2>2 DEF Sending
  <2>4. QED  BY <1>5, <1>6, <2>1, <2>3
<1>8. CASE Submit(t)
  <2>1. Go(t, IF local THEN "mining" ELSE "sending") /\ op[t] \in pool' /\ op' = op /\ local' = local
    BY <1>8 DEF Submit, SentBy, sender
  <2>2. at'[t] = IF local THEN "mining" ELSE "sending"
    BY <1>1, <2>1 DEF Go
  <2>3. Sending(t)'
    BY <2>1, <2>2 DEF Sending
  <2>4. QED  BY <1>5, <1>6, <2>1, <2>3
<1>9. CASE Sent(t)
  <2>1. Go(t, "returned") /\ ~local
    BY <1>1, <1>9 DEF Sent, Sending
  <2>2. Sending(t)'
    BY <1>1, <1>2, <2>1 DEF Sending, Go
  <2>3. QED  BY <1>5, <1>6, <2>1, <2>2
<1>10. CASE MinedLocally(t)
  <2>1. Go(t, IF op[t] \in reverted THEN "thrown" ELSE "returned") /\ op[t] \notin pool /\ at[t] = "mining"
    BY <1>10 DEF MinedLocally
  <2>2. at'[t] = IF op[t] \in reverted THEN "thrown" ELSE "returned"
    BY <1>1, <2>1 DEF Go
  <2>3. Sending(t)'
    BY <1>1, <1>2, <2>1, <2>2 DEF Sending, Handled
  <2>4. QED  BY <1>5, <1>6, <2>1, <2>3
<1>11. QED  BY <1>7, <1>8, <1>9, <1>10

---------------------------------------------------------------------------
(* The response. *)

LEMMA RespondInv ==
  ASSUME IInv, NEW t \in Txs, Respond(t)
  PROVE  IInv'
<1>1. /\ Typed /\ Quiet(t) /\ Settled(t) /\ at[t] = "filled" /\ t \in Calls /\ "send" \in Stages
      /\ block \in 0..MaxBlock
  BY DEF IInv, TxInv, Typed, Respond, Calls, Stages
<1>2. wait[t] = "waiting" /\ calls[t] = {}
  BY <1>1 DEF Quiet, Early
<1>3. Typed'
  <2>1. UNCHANGED <<account, isPhantom, seen, op, wait, resolved, currentBlock, calls, local, nonce, block, events>>
    BY DEF Respond, signer, sender, chain
  <2>2. at' = [at EXCEPT ![t] = "send"] /\ at \in [Calls -> Stages]
    BY <1>1 DEF Respond, Go, Typed
  <2>3. /\ asked' \in [Txs -> 0..MaxBlock \cup {None}] /\ listening' \in [Txs -> BOOLEAN]
        /\ timer' \in [Txs -> BOOLEAN]
    BY <1>1 DEF Respond, Typed
  <2>4. at' \in [Calls -> Stages]
    BY <1>1, <2>2
  <2>5. QED  BY <1>1, <2>1, <2>3, <2>4 DEF Typed
<1>4. ASSUME NEW u \in Txs PROVE TxInv(u)'
  <2>1. Prepared(u) /\ Quiet(u) /\ Listeners(u) /\ Settled(u) /\ Sending(u)
    BY DEF IInv, TxInv
  <2>2. UNCHANGED <<seen[u], op[u], account, events, local, pool, reverted, wait[u], resolved[u], calls[u]>>
    BY DEF Respond, signer, sender, chain
  <2>3. Listeners(u)'
    BY <2>1, <2>2, ListenersKept
  <2>4. CASE u = t
    <3>1. at'[t] = "send"
      BY <1>1 DEF Respond, Go, Typed
    <3>2. Prepared(u)' /\ Sending(u)' /\ Quiet(u)'
      BY <2>4, <3>1 DEF Prepared, Sending, Quiet, Early
    <3>3. Settled(u)'
      BY <1>1, <1>2, <2>2, <2>4 DEF Settled
    <3>4. QED  BY <2>3, <3>2, <3>3 DEF TxInv
  <2>5. CASE u # t
    <3>1. UNCHANGED <<at[u], listening[u], timer[u]>>
      BY <1>1, <2>5 DEF Respond, Go, Typed, Calls
    <3>2. Prepared(u)' /\ Quiet(u)' /\ Settled(u)' /\ Sending(u)'
      BY <2>1, <2>2, <3>1, PreparedKept, QuietKept, SettledKept, SendingKept
    <3>3. QED  BY <2>3, <3>2 DEF TxInv
  <2>6. QED  BY <2>4, <2>5
<1>5. QED  BY <1>3, <1>4 DEF IInv

(* The listener is called with an event of the operation. *)
LEMMA ListenerCalled ==
  ASSUME NEW t \in Txs, Typed, Listeners(t), NEW via \in {"on", "timer"}, NEW e \in EventsOf(t),
         Listener(t, via, e), UNCHANGED <<op, events>>
  PROVE  /\ DOMAIN calls' = Txs /\ \A u \in Txs \ {t} : calls'[u] = calls[u]
         /\ Listeners(t)'
<1> DEFINE new == [via |-> via, event |-> e, stage |-> "block"]
<1>1. new \in Call /\ new.event.op = op[t] /\ new.stage # "reasons"
  BY DEF EventsOf, Call
<1> HIDE DEF new
<1>2. calls' = [calls EXCEPT ![t] = IF resolved[t] THEN calls[t] ELSE calls[t] \cup {new}]
  BY DEF Listener, new
<1>3. DOMAIN calls = Txs
  BY DEF Typed
<1>4. calls'[t] \subseteq calls[t] \cup {new}
  BY <1>2, <1>3
<1>5. Listeners(t)'
  BY <1>1, <1>4 DEF Listeners, Call
<1>6. QED  BY <1>2, <1>3, <1>5

LEMMA HeardInv ==
  ASSUME IInv, NEW t \in Txs, Heard(t) \/ TimerFires(t)
  PROVE  IInv'
<1>1. Typed /\ Quiet(t) /\ Listeners(t) /\ Settled(t) /\ DOMAIN calls = Txs
  BY DEF IInv, TxInv, Typed
<1>2. /\ UNCHANGED <<signer, at, seen, op, wait, resolved, listening, asked, currentBlock, sender, chain>>
      /\ timer' = timer \/ timer' = [timer EXCEPT ![t] = FALSE]
  BY DEF Heard, TimerFires
<1>3. at[t] \notin Early
  BY <1>1 DEF Quiet, Heard, TimerFires
<1>4. UNCHANGED events
  BY <1>2 DEF chain
<1>5. /\ DOMAIN calls' = Txs /\ \A u \in Txs \ {t} : calls'[u] = calls[u]
      /\ Listeners(t)'
  <2>1. CASE UNCHANGED calls
    BY <1>1, <1>2, <1>4, <2>1, ListenersKept
  <2>2. ASSUME NEW e \in EventsOf(t), NEW via \in {"on", "timer"}, Listener(t, via, e)
        PROVE  /\ DOMAIN calls' = Txs /\ \A u \in Txs \ {t} : calls'[u] = calls[u]
               /\ Listeners(t)'
    BY <1>1, <1>2, <1>4, <2>2, ListenerCalled
  <2>3. QED  BY <2>1, <2>2 DEF Heard, TimerFires
<1>6. timer' \in [Txs -> BOOLEAN] /\ \A u \in Txs \ {t} : timer'[u] = timer[u]
  BY <1>1, <1>2 DEF Typed
<1>7. Typed'
  BY <1>1, <1>2, <1>5, <1>6 DEF Typed, signer, sender, chain
<1>8. Quiet(t)' /\ Settled(t)'
  BY <1>1, <1>2, <1>3, <1>4, SettledKept DEF Quiet
<1>9. QED  BY <1>2, <1>5, <1>6, <1>7, <1>8, ResponseStep

LEMMA BlockInv ==
  ASSUME IInv, NEW t \in Txs, BlockKnown(t)
  PROVE  IInv'
<1>1. /\ Typed /\ Quiet(t) /\ Listeners(t) /\ Settled(t) /\ block \in 0..MaxBlock
      /\ asked[t] \in 0..MaxBlock /\ MaxBlock \in Nat
  BY AASignerAssumption DEF AASignerAssumption, IInv, TxInv, Typed, BlockKnown
<1>2. UNCHANGED <<signer, at, seen, op, wait, resolved, listening, timer, calls, sender, chain>>
  BY DEF BlockKnown
<1>3. PICK b \in asked[t]..block : currentBlock' = [currentBlock EXCEPT ![t] = b]
  BY DEF BlockKnown
<1>4. b \in 0..MaxBlock
  BY <1>1
<1>5. /\ currentBlock' \in [Txs -> 0..MaxBlock \cup {None}]
      /\ asked' \in [Txs -> 0..MaxBlock \cup {None}]
  BY <1>1, <1>3, <1>4 DEF Typed, BlockKnown
<1>6. Typed'
  BY <1>1, <1>2, <1>5 DEF Typed, signer, sender, chain
<1>7. UNCHANGED <<at[t], op[t], events, wait[t], resolved[t], listening[t], timer[t], calls[t]>>
  BY <1>2 DEF chain
<1>8. Quiet(t)' /\ Listeners(t)' /\ Settled(t)'
  BY <1>1, <1>7, QuietKept, ListenersKept, SettledKept
<1>9. QED  BY <1>2, <1>6, <1>8, ResponseStep

(* A call of the listener ends, or waits for the next answer. *)
LEMMA ListenerStep ==
  ASSUME IInv, NEW t \in Txs, NEW c \in calls[t], NEW next, Step(t, c, next),
         \A d \in next : d \in Call /\ d.event = c.event /\ (d.stage = "reasons" => ~d.event.success),
         UNCHANGED <<signer, at, seen, op, timer, asked, currentBlock, sender, chain>>,
         \/ UNCHANGED <<wait, resolved, listening>>
         \/ \E status \in {"success", "failure"} :
              Resolve(t, status) /\ c.event.success = (status = "success")
  PROVE  IInv'
<1>1. /\ Typed /\ Quiet(t) /\ Listeners(t) /\ Settled(t) /\ DOMAIN calls = Txs
      /\ at[t] \notin Early
  BY DEF IInv, TxInv, Typed, Quiet
<1>2. UNCHANGED <<op, events>>
  BY DEF chain
<1>3. calls' = [calls EXCEPT ![t] = (calls[t] \ {c}) \cup next]
  BY DEF Step
<1>4. c.event \in events /\ c.event.op = op[t]
  BY <1>1 DEF Listeners, Call
<1>5. Listeners(t)'
  <2>1. ASSUME NEW d \in calls'[t]
        PROVE  d \in Call /\ d.event.op = op[t] /\ (d.stage = "reasons" => ~d.event.success)
    BY <1>1, <1>3, <1>4, <2>1 DEF Listeners
  <2>2. QED  BY <1>2, <2>1 DEF Listeners, Call
<1>6. /\ wait' \in [Txs -> {"waiting", "success", "failure"}]
      /\ resolved' \in [Txs -> BOOLEAN] /\ listening' \in [Txs -> BOOLEAN]
      /\ \A u \in Txs \ {t} : UNCHANGED <<wait[u], resolved[u], listening[u]>>
  <2>1. /\ wait \in [Txs -> {"waiting", "success", "failure"}]
        /\ resolved \in [Txs -> BOOLEAN] /\ listening \in [Txs -> BOOLEAN]
    BY <1>1 DEF Typed
  <2>2. CASE UNCHANGED <<wait, resolved, listening>>
    BY <2>1, <2>2
  <2>3. ASSUME NEW status \in {"success", "failure"}, Resolve(t, status)
        PROVE  /\ wait' \in [Txs -> {"waiting", "success", "failure"}]
               /\ resolved' \in [Txs -> BOOLEAN] /\ listening' \in [Txs -> BOOLEAN]
               /\ \A u \in Txs \ {t} : UNCHANGED <<wait[u], resolved[u], listening[u]>>
    BY <2>1, <2>3 DEF Resolve
  <2>4. QED  BY <2>2, <2>3
<1>7. Typed'
  <2>1. DOMAIN calls' = Txs
    BY <1>1, <1>3
  <2>2. QED  BY <1>1, <1>6, <2>1 DEF Typed, signer, sender, chain
<1>8. Quiet(t)'
  BY <1>1 DEF Quiet
<1>9. Settled(t)'
  <2>1. CASE UNCHANGED <<wait, resolved, listening>>
    BY <1>1, <1>2, <2>1, SettledKept
  <2>2. ASSUME NEW status \in {"success", "failure"}, Resolve(t, status),
               c.event.success = (status = "success")
        PROVE  Settled(t)'
    <3>1. /\ resolved'[t] = TRUE /\ listening'[t] = FALSE
          /\ wait'[t] = IF wait[t] = "waiting" THEN status ELSE wait[t]
      BY <1>1, <2>2 DEF Resolve, Typed
    <3>2. CASE wait[t] = "waiting"
      BY <1>2, <1>4, <2>2, <3>1, <3>2 DEF Settled
    <3>3. CASE wait[t] # "waiting"
      BY <1>1, <1>2, <3>1, <3>3 DEF Settled
    <3>4. QED  BY <3>2, <3>3
  <2>3. QED  BY <2>1, <2>2
<1>10. \A u \in Txs \ {t} : UNCHANGED <<wait[u], resolved[u], listening[u], timer[u], calls[u]>>
  BY <1>1, <1>3, <1>6
<1>11. QED  BY <1>5, <1>7, <1>8, <1>9, <1>10, ResponseStep

LEMMA ListenerInv ==
  ASSUME IInv, NEW t \in Txs, NEW c \in calls[t],
         BlockCompared(t, c) \/ ReceiptKnown(t, c) \/ ReasonsKnown(t, c) \/ ListenerFails(t, c)
  PROVE  IInv'
<1>1. /\ c \in Call /\ c.event \in events /\ c.event.success \in BOOLEAN
      /\ c.stage = "reasons" => ~c.event.success
  BY DEF IInv, TxInv, Listeners, Call, Typed
<1>2. UNCHANGED <<signer, at, seen, op, timer, asked, currentBlock, sender, chain>>
  BY DEF BlockCompared, ReceiptKnown, ReasonsKnown, ListenerFails
<1>3. ASSUME NEW stage \in {"receipt", "reasons"}
      PROVE  LET d == [c EXCEPT !.stage = stage]
             IN  d \in Call /\ d.event = c.event /\ d.stage = stage
  BY <1>1 DEF Call
<1>4. CASE BlockCompared(t, c)
  <2> DEFINE d == [c EXCEPT !.stage = "receipt"]
  <2>1. UNCHANGED <<wait, resolved, listening>> /\ (Step(t, c, {}) \/ Step(t, c, {d}))
    BY <1>4 DEF BlockCompared
  <2>2. d \in Call /\ d.event = c.event /\ d.stage # "reasons"
    BY <1>3
  <2> HIDE DEF d
  <2>3. \A x \in {d} : x \in Call /\ x.event = c.event /\ (x.stage = "reasons" => ~x.event.success)
    BY <2>2
  <2>4. CASE Step(t, c, {})
    BY <1>2, <2>1, <2>4, ListenerStep
  <2>5. CASE Step(t, c, {d})
    BY <1>2, <2>1, <2>3, <2>5, ListenerStep
  <2>6. QED  BY <2>1, <2>4, <2>5
<1>5. CASE ReceiptKnown(t, c)
  <2>1. CASE c.event.success
    <3>1. Step(t, c, {}) /\ Resolve(t, "success")
      BY <1>5, <2>1 DEF ReceiptKnown
    <3>2. c.event.success = ("success" = "success")
      BY <1>1, <2>1
    <3>3. QED  BY <1>2, <3>1, <3>2, ListenerStep
  <2>2. CASE ~c.event.success
    <3> DEFINE d == [c EXCEPT !.stage = "reasons"]
    <3>1. Step(t, c, {d}) /\ UNCHANGED <<wait, resolved, listening>>
      BY <1>5, <2>2 DEF ReceiptKnown
    <3>2. d \in Call /\ d.event = c.event
      BY <1>3
    <3> HIDE DEF d
    <3>3. \A x \in {d} : x \in Call /\ x.event = c.event /\ (x.stage = "reasons" => ~x.event.success)
      BY <2>2, <3>2
    <3>4. QED  BY <1>2, <3>1, <3>3, ListenerStep
  <2>3. QED  BY <2>1, <2>2
<1>6. CASE ReasonsKnown(t, c)
  <2>1. Step(t, c, {}) /\ Resolve(t, "failure") /\ ~c.event.success
    BY <1>1, <1>6 DEF ReasonsKnown
  <2>2. c.event.success = ("failure" = "success")
    BY <1>1, <2>1
  <2>3. QED  BY <1>2, <2>1, <2>2, ListenerStep
<1>7. CASE ListenerFails(t, c)
  <2>1. Step(t, c, {}) /\ UNCHANGED <<wait, resolved, listening>>
    BY <1>7 DEF ListenerFails
  <2>2. QED  BY <1>2, <2>1, ListenerStep
<1>8. QED  BY <1>4, <1>5, <1>6, <1>7

---------------------------------------------------------------------------
(* The chain. *)

LEMMA MineInv ==
  ASSUME IInv, NEW o \in pool, Mine(o)
  PROVE  IInv'
<1>1. /\ \A e \in events : e.success \in BOOLEAN
      /\ nonce \in [Accounts -> Nat] /\ block \in 0..MaxBlock
  BY DEF IInv, Typed
<1>2. UNCHANGED <<signer, at, seen, op, response, sender>> /\ pool' = pool \ {o} /\ block < MaxBlock
  BY DEF Mine
<1>3. MaxBlock \in Nat
  BY AASignerAssumption DEF AASignerAssumption
<1>4. CASE reverted' = reverted \cup {o} /\ UNCHANGED <<block, deployed, nonce, events>>
  <2>1. \A x : x \in pool \cup reverted => x \in pool' \cup reverted'
    BY <1>2, <1>4
  <2>2. QED  BY <1>1, <1>2, <1>4, <2>1, ChainStep
<1>5. ASSUME NEW success \in BOOLEAN, block' = block + 1, UNCHANGED reverted,
             nonce' = [nonce EXCEPT ![o.sender] = @ + 1],
             events' = events \cup {[op |-> o, block |-> block', success |-> success]}
      PROVE  IInv'
  <2>1. events \subseteq events' /\ \A e \in events' : e.success \in BOOLEAN
    BY <1>1, <1>5
  <2>2. Handled(o)'
    <3> DEFINE e == [op |-> o, block |-> block', success |-> success]
    <3>1. e \in events' /\ e.op = o
      BY <1>5
    <3> HIDE DEF e
    <3>2. QED  BY <3>1 DEF Handled
  <2>3. \A x : x \in pool \cup reverted => x \in pool' \cup reverted' \/ Handled(x)'
    BY <1>2, <1>5, <2>2
  <2>4. block' \in 0..MaxBlock
    BY <1>1, <1>2, <1>3, <1>5
  <2>5. nonce' \in [Accounts -> Nat]
    <3>1. nonce' = [nonce EXCEPT ![o.sender] = nonce[o.sender] + 1]
      BY <1>5
    <3>2. CASE o.sender \in Accounts
      BY <1>1, <3>1, <3>2
    <3>3. CASE o.sender \notin Accounts
      BY <1>1, <3>1, <3>3
    <3>4. QED  BY <3>2, <3>3
  <2>6. QED  BY <1>2, <2>1, <2>3, <2>4, <2>5, ChainStep
<1>6. QED  BY <1>4, <1>5 DEF Mine

LEMMA OthersInv ==
  ASSUME IInv, OtherBlock \/ \E a \in Accounts : OtherClient(a)
  PROVE  IInv'
<1>1. /\ \A e \in events : e.success \in BOOLEAN
      /\ nonce \in [Accounts -> Nat] /\ block \in 0..MaxBlock /\ MaxBlock \in Nat
  BY AASignerAssumption DEF AASignerAssumption, IInv, Typed
<1>2. CASE OtherBlock
  <2>1. block < MaxBlock /\ block' = block + 1
    BY <1>2 DEF OtherBlock
  <2>2. UNCHANGED <<signer, at, seen, op, response, sender, nonce, pool, events, reverted>>
    BY <1>2 DEF OtherBlock
  <2>3. block' \in 0..MaxBlock
    BY <1>1, <2>1
  <2>4. QED  BY <1>1, <2>2, <2>3, ChainStep
<1>3. ASSUME NEW a \in Accounts, OtherClient(a) PROVE IInv'
  <2>1. block < MaxBlock /\ block' = block + 1 /\ nonce' = [nonce EXCEPT ![a] = nonce[a] + 1]
    BY <1>3 DEF OtherClient
  <2>2. UNCHANGED <<signer, at, seen, op, response, sender, pool, reverted>>
    BY <1>3 DEF OtherClient
  <2>3. block' \in 0..MaxBlock /\ nonce' \in [Accounts -> Nat]
    BY <1>1, <2>1
  <2>4. \E e : events' = events \cup {e} /\ e.success = TRUE
    <3> DEFINE e == [op |-> [NoOp EXCEPT !.sender = a, !.nonce = nonce[a]],
                     block |-> block', success |-> TRUE]
    <3>1. events' = events \cup {e}
      BY <1>3 DEF OtherClient
    <3>2. e.success = TRUE
      OBVIOUS
    <3> HIDE DEF e
    <3>3. QED  BY <3>1, <3>2
  <2>5. events \subseteq events' /\ \A e \in events' : e.success \in BOOLEAN
    BY <1>1, <2>4
  <2>6. QED  BY <2>2, <2>3, <2>5, ChainStep
<1>4. QED  BY <1>2, <1>3

LEMMA StutterInv ==
  ASSUME IInv, UNCHANGED vars
  PROVE  IInv'
<1>1. /\ UNCHANGED <<signer, at, seen, op, response, sender, events, nonce, block, pool, reverted>>
  BY DEF vars, chain
<1>2. /\ \A e \in events : e.success \in BOOLEAN
      /\ nonce \in [Accounts -> Nat] /\ block \in 0..MaxBlock
  BY DEF IInv, Typed
<1>3. QED  BY <1>1, <1>2, ChainStep

LEMMA StepInv == IInv /\ [Next]_vars => IInv'
<1> SUFFICES ASSUME IInv, [Next]_vars PROVE IInv'
  OBVIOUS
<1>1. ASSUME NEW c \in Connects, Connect(c) \/ Connected(c) PROVE IInv'
  BY <1>1, ConnectInv
<1>2. ASSUME NEW t \in Txs, Synced(t) \/ Populated(t) \/ NonceKnown(t) PROVE IInv'
  BY <1>2, FillInv
<1>3. ASSUME NEW t \in Txs, Respond(t) PROVE IInv'
  BY <1>3, RespondInv
<1>4. ASSUME NEW t \in Txs,
             SendUserOp(t) \/ SenderReady(t) \/ Submit(t) \/ Sent(t) \/ MinedLocally(t)
      PROVE  IInv'
  BY <1>4, SendInv
<1>5. ASSUME NEW t \in Txs, ListenerSteps(t) \/ \E c \in calls[t] : ListenerFails(t, c) PROVE IInv'
  BY <1>5, HeardInv, BlockInv, ListenerInv DEF ListenerSteps
<1>6. ASSUME NEW c \in Txs \cup Reads, SyncAccount(c) \/ AddressKnown(c) \/ CodeKnown(c) PROVE IInv'
  BY <1>6, SyncInv
<1>7. ASSUME NEW c \in Calls, Throws(c) PROVE IInv'
  BY <1>7, ThrowsInv
<1>8. ASSUME NEW o \in pool, Mine(o) PROVE IInv'
  BY <1>8, MineInv
<1>9. CASE OtherBlock \/ \E a \in Accounts : OtherClient(a)
  BY <1>9, OthersInv
<1>10. CASE UNCHANGED vars
  BY <1>10, StutterInv
<1>11. QED  BY <1>1, <1>2, <1>3, <1>4, <1>5, <1>6, <1>7, <1>8, <1>9, <1>10 DEF Next

LEMMA Inductive == Spec => []IInv
BY InitInv, StepInv, PTL DEF Spec

(***************************************************************************)
(* The signer and every response stay typed, and the listener is off and   *)
(* the flag set exactly when wait() has settled, for any number of calls.  *)
(***************************************************************************)
THEOREM SignerTyped == Spec => []TypeOK
<1>1. IInv => TypeOK
  BY DEF IInv, Typed, TxInv, Settled, TypeOK, Operation
<1>2. QED  BY <1>1, Inductive, PTL

(***************************************************************************)
(* wait() returns the fate of its own operation, and localUserOpSender     *)
(* returns only once the operation was handled, however many transactions  *)
(* interleave their awaits and whichever requests fail.                    *)
(***************************************************************************)
THEOREM ReceiptsTrue == Spec => []ReceiptTruthful
<1>1. IInv => ReceiptTruthful
  BY DEF IInv, TxInv, Settled, Sending, Handled, ReceiptTruthful
<1>2. QED  BY <1>1, Inductive, PTL
============================================================================

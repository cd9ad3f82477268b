------------------------------ MODULE AASigner ------------------------------
(***************************************************************************)
(* src/AASigner.ts: one AASigner, on which sendTransaction,                *)
(* connectAccountAddress, getAddress, getAccount and isPhantom are called  *)
(* any number of times at once, and the function that it sends with, made  *)
(* by rpcUserOpSender or by localUserOpSender.                             *)
(*                                                                         *)
(* The calls run interleaved, in steps from one await to the next.  What a *)
(* request returns is what it asked for as it was at some moment between   *)
(* the request and the answer: code, nonces and block numbers only grow,   *)
(* so the oldest and the newest answer are all there is to distinguish.    *)
(***************************************************************************)
EXTENDS Integers, FiniteSets

CONSTANTS
  Txs,             \* the calls of sendTransaction
  Connects,        \* the calls of connectAccountAddress
  Reads,           \* the calls of getAddress, getAccount and isPhantom
  FactoryAccount,  \* the address that the factory gives the signer's account
  OtherAccount,    \* the address that connectAccountAddress is called with
  None,            \* undefined
  Index,           \* the constructor's index
  MaxBlock         \* bound: blocks explored

ASSUME AASignerAssumption ==
  /\ Index \in Nat /\ MaxBlock \in Nat
  /\ FactoryAccount # OtherAccount /\ None \notin {FactoryAccount, OtherAccount}
  /\ Txs \cap Connects = {} /\ (Txs \cup Connects) \cap Reads = {}

VARIABLES
  account,    \* this._account, by its address
  isPhantom,  \* this._isPhantom
  at,         \* at[c]: the await that call c is at
  seen,       \* seen[c]: what c's request is about and would have returned at once
  op,         \* op[t]: the user operation of t
  wait,       \* wait[t]: waitPromise, "waiting" or the status of the receipt
  resolved, listening, timer,  \* of userEventResponse(op[t])
  asked,      \* asked[t]: the block when getBlockNumber was called, until it answers
  currentBlock,
  calls,      \* calls[t]: the listener's calls in progress: [via, event, stage]
  heard,      \* heard[t]: the event came through the subscription
  lost,       \* history: a request of the listener failed
  local, chainId,  \* sendUserOp: localUserOpSender's, or that rpcUserOpSender knows the chain
  deployed, nonce, block, pool, events,  \* the node and the chain
  reverted         \* the operations whose handleOps reverted

signer == <<account, isPhantom>>
response == <<wait, resolved, listening, timer, asked, currentBlock, calls, heard, lost>>
sender == <<local, chainId>>
chain == <<deployed, nonce, block, pool, events, reverted>>
vars == <<signer, at, seen, op, response, sender, chain>>

Calls == Txs \cup Connects \cup Reads
Accounts == {FactoryAccount, OtherAccount}
NoRequest == [of |-> None, value |-> 0]
NoOp == [tx |-> None, sender |-> None, initCode |-> FALSE, nonce |-> 0]

Init ==
  /\ account = None /\ isPhantom = TRUE
  /\ at = [c \in Calls |-> "called"]
  /\ seen = [c \in Calls |-> NoRequest]
  /\ op = [t \in Txs |-> NoOp]
  /\ wait = [t \in Txs |-> "waiting"]
  /\ resolved = [t \in Txs |-> FALSE]
  /\ listening = [t \in Txs |-> FALSE]
  /\ timer = [t \in Txs |-> FALSE]
  /\ asked = [t \in Txs |-> None]
  /\ currentBlock = [t \in Txs |-> None]
  /\ calls = [t \in Txs |-> {}]
  /\ heard = [t \in Txs |-> FALSE]
  /\ lost = [t \in Txs |-> FALSE]
  /\ deployed \in {{OtherAccount}, Accounts}
  /\ nonce = [a \in Accounts |-> 0]
  /\ local \in BOOLEAN /\ chainId = FALSE
  /\ block = 0 /\ pool = {} /\ events = {} /\ reverted = {}

Go(c, stage) == at' = [at EXCEPT ![c] = stage]

(* The request getCode(a), or getNonce() of a, and what it may return. *)
CodeSize(a) == IF a \in deployed THEN 1 ELSE 0

AskCode(c, a) == seen' = [seen EXCEPT ![c] = [of |-> a, value |-> CodeSize(a)]]
CodeAnswers(c) == {seen[c].value, CodeSize(seen[c].of)}

AskNonce(c, a) == seen' = [seen EXCEPT ![c] = [of |-> a, value |-> nonce[a]]]
NonceAnswers(c) == seen[c].value..nonce[seen[c].of]

Answered(c) == seen' = [seen EXCEPT ![c] = NoRequest]

---------------------------------------------------------------------------
(* connectAccountAddress(OtherAccount) *)

Connect(c) ==
  /\ at[c] = "called"
  /\ IF account # None THEN Go(c, "thrown") /\ UNCHANGED seen
     ELSE Go(c, "connecting") /\ AskCode(c, OtherAccount)
  /\ UNCHANGED <<signer, op, response, sender, chain>>

Connected(c) ==
  /\ at[c] = "connecting"
  /\ \E size \in CodeAnswers(c) :
       IF size = 0 THEN Go(c, "thrown") /\ UNCHANGED signer
       ELSE Go(c, "returned") /\ account' = OtherAccount /\ isPhantom' = FALSE
  /\ Answered(c)
  /\ UNCHANGED <<op, response, sender, chain>>

---------------------------------------------------------------------------
(* syncAccount: the start of every other call, and the whole of Reads. *)

AfterSync(c) == IF c \in Reads THEN "returned" ELSE "synced"

(* The second half of syncAccount. *)
CheckPhantom(c) ==
  IF isPhantom THEN Go(c, "code") /\ AskCode(c, account') ELSE Go(c, AfterSync(c)) /\ UNCHANGED seen

SyncAccount(c) ==
  /\ at[c] = "called"
  /\ IF account = None THEN Go(c, "address") /\ UNCHANGED <<account, seen>>
     ELSE UNCHANGED account /\ CheckPhantom(c)
  /\ UNCHANGED <<isPhantom, op, response, sender, chain>>

AddressKnown(c) ==
  /\ at[c] = "address"
  /\ account' = FactoryAccount
  /\ CheckPhantom(c)
  /\ UNCHANGED <<isPhantom, op, response, sender, chain>>

CodeKnown(c) ==
  /\ at[c] = "code"
  /\ \E size \in CodeAnswers(c) : isPhantom' = (size = 0)
  /\ Go(c, AfterSync(c)) /\ Answered(c)
  /\ UNCHANGED <<account, op, response, sender, chain>>

---------------------------------------------------------------------------
(* sendTransaction: _createUserOperation, once the account is known. *)
Synced(t) ==
  /\ at[t] = "synced"
  /\ op' = [op EXCEPT ![t].initCode = isPhantom]
  /\ Go(t, "populate")
  /\ UNCHANGED <<signer, seen, response, sender, chain>>

(* An operation that creates the account has the signer's index as nonce. *)
Populated(t) ==
  /\ at[t] = "populate"
  /\ op' = [op EXCEPT ![t].tx = t, ![t].sender = account,
                      ![t].nonce = IF op[t].initCode THEN Index ELSE 0]
  /\ IF op[t].initCode THEN Go(t, "filled") /\ UNCHANGED seen
     ELSE Go(t, "nonce") /\ AskNonce(t, account)
  /\ UNCHANGED <<signer, response, sender, chain>>

NonceKnown(t) ==
  /\ at[t] = "nonce"
  /\ \E n \in NonceAnswers(t) : op' = [op EXCEPT ![t].nonce = n]
  /\ Go(t, "filled") /\ Answered(t)
  /\ UNCHANGED <<signer, response, sender, chain>>

(* userEventResponse *)
Respond(t) ==
  /\ at[t] = "filled"
  /\ asked' = [asked EXCEPT ![t] = block]
  /\ listening' = [listening EXCEPT ![t] = TRUE]
  /\ timer' = [timer EXCEPT ![t] = TRUE]
  /\ Go(t, "send")
  /\ UNCHANGED <<signer, seen, op, wait, resolved, currentBlock, calls, heard, lost, sender, chain>>

(* handleOps of localUserOpSender is waited for. *)
SentBy(t) == Go(t, IF local THEN "mining" ELSE "sending")

(* sendUserOp of an RPC URL, or with the key of the local sender. *)
SendUserOp(t) ==
  /\ at[t] = "send"
  /\ IF local THEN Go(t, "beneficiary") ELSE Go(t, IF chainId THEN "ready" ELSE "network")
  /\ UNCHANGED <<signer, seen, op, response, sender, chain>>

(* getNetwork, or getAddress *)
SenderReady(t) ==
  /\ at[t] \in {"network", "beneficiary"}
  /\ chainId' = (chainId \/ at[t] = "network")
  /\ Go(t, "ready")
  /\ UNCHANGED <<signer, seen, op, response, local, chain>>

(* eth_sendUserOperation, or handleOps *)
Submit(t) ==
  /\ at[t] = "ready"
  /\ pool' = pool \cup {op[t]}
  /\ SentBy(t)
  /\ UNCHANGED <<signer, seen, op, response, sender, deployed, nonce, block, events, reverted>>

Sent(t) ==
  /\ at[t] = "sending"
  /\ Go(t, "returned")
  /\ UNCHANGED <<signer, seen, op, response, sender, chain>>

(* wait() of localUserOpSender *)
MinedLocally(t) ==
  /\ at[t] = "mining" /\ op[t] \notin pool
  /\ Go(t, IF op[t] \in reverted THEN "thrown" ELSE "returned")
  /\ UNCHANGED <<signer, seen, op, response, sender, chain>>

(* A request fails: the call throws, whatever it has left behind. *)
Throws(c) ==
  /\ at[c] \notin {"called", "returned", "thrown"}
  /\ Go(c, "thrown") /\ Answered(c)
  /\ UNCHANGED <<signer, op, response, sender, chain>>

---------------------------------------------------------------------------
(* The response: the listener is called with events of this operation by   *)
(* the subscription and once by the timer.  Its calls with other events    *)
(* end at the comparison of hashes, or before.                             *)

(* Mutant: the hash of the event is not compared. *)
EventsOfAnyone(t) == events

EventsOf(t) == {e \in events : e.op = op[t]}

Listener(t, via, e) ==
  calls' = [calls EXCEPT ![t] = IF resolved[t] THEN @
                                ELSE @ \cup {[via |-> via, event |-> e, stage |-> "block"]}]

Heard(t) ==
  /\ listening[t] /\ ~heard[t]
  /\ \E e \in EventsOf(t) : Listener(t, "on", e)
  /\ heard' = [heard EXCEPT ![t] = TRUE]
  /\ UNCHANGED <<signer, at, seen, op, wait, resolved, listening, timer, asked, currentBlock, lost, sender, chain>>

TimerFires(t) ==
  /\ timer[t]
  /\ timer' = [timer EXCEPT ![t] = FALSE]
  /\ \/ EventsOf(t) = {} /\ UNCHANGED calls
     \/ \E e \in EventsOf(t) : Listener(t, "timer", e)
  /\ UNCHANGED <<signer, at, seen, op, wait, resolved, listening, asked, currentBlock, heard, lost, sender, chain>>

(* The answer to getBlockNumber, which nothing waited for. *)
BlockKnown(t) ==
  /\ asked[t] # None
  /\ \E b \in asked[t]..block : currentBlock' = [currentBlock EXCEPT ![t] = b]
  /\ asked' = [asked EXCEPT ![t] = None]
  /\ UNCHANGED <<signer, at, seen, op, wait, resolved, listening, timer, calls, heard, lost, sender, chain>>

(* Mutant: the block after the current one is taken for an earlier one. *)
NextBlockIgnored(t, e) == e.block <= currentBlock[t] + 1

PreviousBlock(t, e) == e.block <= currentBlock[t]

Step(t, c, next) == calls' = [calls EXCEPT ![t] = (@ \ {c}) \cup next]

(* await currentBlock *)
BlockCompared(t, c) ==
  /\ c.stage = "block" /\ currentBlock[t] # None
  /\ Step(t, c, IF PreviousBlock(t, c.event) THEN {} ELSE {[c EXCEPT !.stage = "receipt"]})
  /\ UNCHANGED <<signer, at, seen, op, wait, resolved, listening, timer, asked, currentBlock, heard, lost, sender, chain>>

(* Mutant: the flag is left alone. *)
ResolveUnnoticed(t, status) ==
  /\ listening' = [listening EXCEPT ![t] = FALSE]
  /\ wait' = [wait EXCEPT ![t] = IF @ = "waiting" THEN status ELSE @]
  /\ UNCHANGED resolved

(* off(listener), resolve(rcpt): a promise settles once. *)
Resolve(t, status) ==
  /\ listening' = [listening EXCEPT ![t] = FALSE]
  /\ wait' = [wait EXCEPT ![t] = IF @ = "waiting" THEN status ELSE @]
  /\ resolved' = [resolved EXCEPT ![t] = TRUE]

ReceiptKnown(t, c) ==
  /\ c.stage = "receipt"
  /\ IF c.event.success THEN Step(t, c, {}) /\ Resolve(t, "success")
     ELSE Step(t, c, {[c EXCEPT !.stage = "reasons"]}) /\ UNCHANGED <<wait, resolved, listening>>
  /\ UNCHANGED <<signer, at, seen, op, timer, asked, currentBlock, heard, lost, sender, chain>>

(* The filter has the sender in the place of the hash, and finds nothing. *)
ReasonsKnown(t, c) ==
  /\ c.stage = "reasons"
  /\ Step(t, c, {}) /\ Resolve(t, "failure")
  /\ UNCHANGED <<signer, at, seen, op, timer, asked, currentBlock, heard, lost, sender, chain>>

ListenerFails(t, c) ==
  /\ Step(t, c, {})
  /\ lost' = [lost EXCEPT ![t] = TRUE]
  /\ UNCHANGED <<signer, at, seen, op, wait, resolved, listening, timer, asked, currentBlock, heard, sender, chain>>

---------------------------------------------------------------------------
(* The chain: handleOps of a bundle of one, or of one that has nothing to   *)
(* do with this signer.  An operation that is not valid is dropped.         *)

Valid(o) == o.nonce = nonce[o.sender] /\ (o.initCode <=> o.sender \notin deployed)

Mine(o) ==
  /\ block < MaxBlock
  /\ pool' = pool \ {o}
  /\ \/ /\ Valid(o)
        /\ block' = block + 1
        /\ deployed' = deployed \cup {o.sender}
        /\ nonce' = [nonce EXCEPT ![o.sender] = @ + 1]
        /\ \E success \in BOOLEAN :
             events' = events \cup {[op |-> o, block |-> block', success |-> success]}
        /\ UNCHANGED reverted
     \/ reverted' = reverted \cup {o} /\ UNCHANGED <<block, deployed, nonce, events>>
  /\ UNCHANGED <<signer, at, seen, op, response, sender>>

(* A block of other transactions: the account may be created or used by     *)
(* another client of the same owner.                                        *)
OtherBlock ==
  /\ block < MaxBlock
  /\ block' = block + 1
  /\ deployed' \in {deployed, deployed \cup {FactoryAccount}}
  /\ UNCHANGED <<signer, at, seen, op, response, sender, nonce, pool, events, reverted>>

OtherClient(a) ==
  /\ block < MaxBlock /\ a \in deployed
  /\ block' = block + 1
  /\ nonce' = [nonce EXCEPT ![a] = @ + 1]
  /\ events' = events \cup {[op |-> [NoOp EXCEPT !.sender = a, !.nonce = nonce[a]],
                             block |-> block', success |-> TRUE]}
  /\ UNCHANGED <<signer, at, seen, op, response, sender, deployed, pool, reverted>>

---------------------------------------------------------------------------
ListenerSteps(t) ==
  \/ Heard(t) \/ TimerFires(t) \/ BlockKnown(t)
  \/ \E c \in calls[t] : BlockCompared(t, c) \/ ReceiptKnown(t, c) \/ ReasonsKnown(t, c)

Next ==
  \/ \E c \in Connects : Connect(c) \/ Connected(c)
  \/ \E t \in Txs :
       \/ Synced(t) \/ Populated(t) \/ NonceKnown(t) \/ Respond(t)
       \/ SendUserOp(t) \/ SenderReady(t) \/ Submit(t) \/ Sent(t) \/ MinedLocally(t)
       \/ ListenerSteps(t)
       \/ \E c \in calls[t] : ListenerFails(t, c)
  \/ \E c \in Txs \cup Reads : SyncAccount(c) \/ AddressKnown(c) \/ CodeKnown(c)
  \/ \E c \in Calls : Throws(c)
  \/ \E o \in pool : Mine(o)
  \/ OtherBlock
  \/ \E a \in Accounts : OtherClient(a)

Spec == Init /\ [][Next]_vars

(* The node answers, the subscription delivers and the timer fires. *)
Fairness == \A t \in Txs : WF_vars(ListenerSteps(t))

FairSpec == Spec /\ Fairness

---------------------------------------------------------------------------
(***************************************************************************)
(* The signer's state is of the declared types, and the listener is off    *)
(* and the flag set exactly when the promise has settled.                  *)
(***************************************************************************)
TypeOK ==
  /\ account \in Accounts \cup {None} /\ isPhantom \in BOOLEAN
  /\ \A t \in Txs :
       /\ op[t].sender \in Accounts \cup {None} /\ op[t].nonce \in Nat
       /\ currentBlock[t] \in 0..MaxBlock \cup {None}
       /\ wait[t] \in {"waiting", "success", "failure"}
       /\ resolved[t] <=> wait[t] # "waiting"
       /\ resolved[t] => ~listening[t]

(***************************************************************************)
(* wait() tells the truth about its own operation: the receipt it returns  *)
(* says success, or failure, only if the operation was handled and ended   *)
(* that way, however many operations of this account are in flight.  And   *)
(* sendTransaction through localUserOpSender returns what was handled.     *)
(***************************************************************************)
ReceiptTruthful ==
  \A t \in Txs :
    /\ wait[t] # "waiting" =>
         \E e \in events : e.op = op[t] /\ e.success = (wait[t] = "success")
    /\ local /\ at[t] = "returned" => \E e \in events : e.op = op[t]

(***************************************************************************)
(* An operation handled after the block that the response starts from does *)
(* not go unnoticed, although subscription, timer and block number race:   *)
(* its wait() ends, unless a request of the listener fails.                *)
(***************************************************************************)
LaterEventSettles ==
  \A t \in Txs :
    (\E e \in EventsOf(t) : currentBlock[t] # None /\ e.block > currentBlock[t])
      ~> (resolved[t] \/ lost[t])

(***************************************************************************)
(* "once an account is deployed, it can no longer be a phantom" (comment   *)
(* in syncAccount).                                                        *)
(***************************************************************************)
NeverPhantomAgain == [][~isPhantom => ~isPhantom']_vars
===========================================================================

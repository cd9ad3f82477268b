---------------------------- MODULE UserOpQueue ----------------------------
(***************************************************************************)
(* src/AASigner.ts: queueUserOpSender and sendQueuedUserOps.               *)
(*                                                                         *)
(* A queue collects user operations, and a push, called by the queue's     *)
(* interval timer or by its owner, sends a bundle of them to handleOps.    *)
(* Code between two awaits is one step.  The flag `sending` is a variable  *)
(* of the file: all the queues of a process share it.                      *)
(*                                                                         *)
(* The node and the chain are seen as the code sees them: each request may *)
(* fail, and a transaction whose request failed may be mined all the same. *)
(***************************************************************************)
EXTENDS Wei, Sequences

CONSTANTS
  Queues,                 \* the objects made by queueUserOpSender
  Senders,                \* the accounts whose operations are queued
  BUNDLE_SIZE_IMMEDIATE,
  IDLE_TIME,              \* in units of the clock
  MaxOps                  \* bound: operations that a sender puts into a queue

ASSUME QueueAssumption ==
  /\ IsFiniteSet(Queues) /\ IsFiniteSet(Senders)
  /\ BUNDLE_SIZE_IMMEDIATE \in Nat /\ IDLE_TIME \in Nat /\ MaxOps \in Nat

VARIABLES
  queue,      \* queue[q][s]: the operations of s that wait in q, oldest first
  queueSize,
  age,        \* Date.now() - lastQueueUpdate, as far as IDLE_TIME can tell
  timer,      \* is the interval timer of the queue running?
  sending,
  pushes,     \* the pushes that wait for an answer: [ops, stage]
  pending,    \* the transactions on their way, in the order of their nonces
  numbered,   \* history: how many operations of s were put into q
  handled     \* history: the operations of s in q that the chain handled, in order

vars == <<queue, queueSize, age, timer, sending, pushes, pending, numbered, handled>>

Init ==
  /\ queue = [q \in Queues |-> [s \in Senders |-> <<>>]]
  /\ queueSize = [q \in Queues |-> 0]
  /\ age = [q \in Queues |-> IDLE_TIME]
  /\ timer = [q \in Queues |-> TRUE]
  /\ sending = FALSE
  /\ pushes = {}
  /\ pending = <<>>
  /\ numbered = [q \in Queues |-> [s \in Senders |-> 0]]
  /\ handled = [q \in Queues |-> [s \in Senders |-> <<>>]]

---------------------------------------------------------------------------
(* The queue's owner. *)

Enqueue(q, s) ==
  /\ numbered[q][s] < MaxOps
  /\ numbered' = [numbered EXCEPT ![q][s] = @ + 1]
  /\ queue' = [queue EXCEPT ![q][s] = Append(@, [queue |-> q, sender |-> s, seq |-> numbered'[q][s]])]
  /\ age' = [age EXCEPT ![q] = 0]
  /\ queueSize' = [queueSize EXCEPT ![q] = @ + 1]
  /\ UNCHANGED <<timer, sending, pushes, pending, handled>>

SetTimer(q, on) ==
  /\ timer' = [timer EXCEPT ![q] = on]
  /\ UNCHANGED <<queue, queueSize, age, sending, pushes, pending, numbered, handled>>

(* The clock moves on. *)
Wait ==
  /\ age' = [q \in Queues |-> IF age[q] < IDLE_TIME THEN age[q] + 1 ELSE IDLE_TIME]
  /\ UNCHANGED <<queue, queueSize, timer, sending, pushes, pending, numbered, handled>>

---------------------------------------------------------------------------
(* sendQueuedUserOps, up to its first await. *)

(* Mutant: a sender's newest operation is taken. *)
TakenFromTheEnd(waiting) ==
  [op |-> waiting[Len(waiting)], rest |-> SubSeq(waiting, 1, Len(waiting) - 1)]

(* shift() *)
Taken(waiting) == [op |-> Head(waiting), rest |-> Tail(waiting)]

(* Mutant: another push does not hold this one off. *)
ReadyUnlocked(q) == queueSize[q] >= BUNDLE_SIZE_IMMEDIATE /\ age[q] >= IDLE_TIME

Ready(q) ==
  /\ ~sending
  /\ queueSize[q] >= BUNDLE_SIZE_IMMEDIATE
  /\ age[q] >= IDLE_TIME

(* Mutant: one operation less, whatever the bundle's size. *)
SizeLessOne(q, ops) == [queueSize EXCEPT ![q] = @ - 1]

SizeWithout(q, ops) == [queueSize EXCEPT ![q] = @ - Cardinality(ops)]

(* A push that is not ready, or finds no operation, leaves no trace. *)
Push(q) ==
  LET waiting == {s \in Senders : queue[q][s] # <<>>}
      ops == {Taken(queue[q][s]).op : s \in waiting}
  IN  /\ Ready(q)
      /\ ops # {}
      /\ sending' = TRUE
      /\ queue' = [queue EXCEPT ![q] =
                     [s \in Senders |-> IF s \in waiting THEN Taken(@[s]).rest ELSE @[s]]]
      /\ queueSize' = SizeWithout(q, ops)
      /\ pushes' = pushes \cup {[ops |-> ops, stage |-> "signer"]}
      /\ UNCHANGED <<age, timer, pending, numbered, handled>>

---------------------------------------------------------------------------
(* The rest of it, one step for each answer. *)

SignerAnswers(p) ==
  /\ p.stage = "signer"
  /\ pushes' = (pushes \ {p}) \cup {[p EXCEPT !.stage = "handleOps"]}
  /\ UNCHANGED <<queue, queueSize, age, timer, sending, pending, numbered, handled>>

HandleOpsSent(p) ==
  /\ p.stage = "handleOps"
  /\ pushes' = (pushes \ {p}) \cup {[p EXCEPT !.stage = "wait"]}
  /\ pending' = Append(pending, p.ops)
  /\ UNCHANGED <<queue, queueSize, age, timer, sending, numbered, handled>>

(* ret.wait() resolves or rejects once the transaction is mined. *)
WaitEnds(p) ==
  /\ p.stage = "wait"
  /\ \A j \in DOMAIN pending : pending[j] # p.ops
  /\ sending' = FALSE
  /\ pushes' = pushes \ {p}
  /\ UNCHANGED <<queue, queueSize, age, timer, pending, numbered, handled>>

(* Mutant: the flag is reset on success only. *)
PushFailsSending(p) ==
  /\ pushes' = pushes \ {p}
  /\ \/ UNCHANGED pending
     \/ p.stage = "handleOps" /\ pending' = Append(pending, p.ops)
  /\ UNCHANGED <<queue, queueSize, age, timer, sending, numbered, handled>>

(* An answer is an error: the bundle's operations are not queued again.  If *)
(* it was handleOps', the node may have the transaction nevertheless.       *)
PushFails(p) ==
  /\ sending' = FALSE
  /\ pushes' = pushes \ {p}
  /\ \/ UNCHANGED pending
     \/ p.stage = "handleOps" /\ pending' = Append(pending, p.ops)
  /\ UNCHANGED <<queue, queueSize, age, timer, numbered, handled>>

(* The next transaction is mined: handleOps handles all of it or reverts. *)
Mine ==
  /\ pending # <<>>
  /\ pending' = Tail(pending)
  /\ \/ handled' = [q \in Queues |-> [s \in Senders |->
                      LET of == {o \in Head(pending) : o.queue = q /\ o.sender = s}
                      IN  handled[q][s] \o [j \in 1..Cardinality(of) |-> CHOOSE o \in of : TRUE]]]
     \/ UNCHANGED handled
  /\ UNCHANGED <<queue, queueSize, age, timer, sending, pushes, numbered>>

---------------------------------------------------------------------------
Answers(p) == SignerAnswers(p) \/ HandleOpsSent(p) \/ WaitEnds(p) \/ PushFails(p)

Next ==
  \/ \E q \in Queues, s \in Senders : Enqueue(q, s)
  \/ \E q \in Queues, on \in BOOLEAN : SetTimer(q, on)
  \/ \E q \in Queues : Push(q)
  \/ \E p \in pushes : Answers(p)
  \/ Mine \/ Wait

Spec == Init /\ [][Next]_vars

(* The timer's tick, the clock, the node's answers and the miners go on. *)
FairSpec ==
  /\ Spec
  /\ \A q \in Queues : WF_vars(timer[q] /\ Push(q))
  /\ WF_vars(\E p \in pushes : Answers(p))
  /\ WF_vars(Mine)
  /\ WF_vars(Wait)

---------------------------------------------------------------------------
(***************************************************************************)
(* The queues, pushes and transactions hold operations; queueSize, which   *)
(* Enqueue and Push count by themselves, is what the queues really hold.   *)
(***************************************************************************)
TypeOK ==
  LET Ops == [queue : Queues, sender : Senders, seq : 1..MaxOps]
  IN  /\ queue \in [Queues -> [Senders -> Seq(Ops)]]
      /\ \A q \in Queues : queueSize[q] = Total([s \in Senders |-> Len(queue[q][s])])
      /\ age \in [Queues -> 0..IDLE_TIME] /\ timer \in [Queues -> BOOLEAN]
      /\ sending \in BOOLEAN
      /\ pushes \subseteq [ops : SUBSET Ops, stage : {"signer", "handleOps", "wait"}]
      /\ pending \in Seq(SUBSET Ops)
      /\ handled \in [Queues -> [Senders -> Seq(Ops)]]

(***************************************************************************)
(* Two bundles are never sent at once, by one queue or by two of them, and *)
(* the flag that says so is held exactly while one is.                     *)
(***************************************************************************)
OneBundleAtATime == Cardinality(pushes) <= 1 /\ (sending <=> pushes # {})

(***************************************************************************)
(* The chain handles what a sender queued in the order it was queued, each *)
(* operation at most once, also when requests fail and their transactions  *)
(* are mined all the same.  Operations of a failed bundle are left out.    *)
(***************************************************************************)
HandledInOrder ==
  \A q \in Queues, s \in Senders :
    \A j, k \in DOMAIN handled[q][s] : j < k => handled[q][s][j].seq < handled[q][s][k].seq

(***************************************************************************)
(* A queue with BUNDLE_SIZE_IMMEDIATE operations is sent from, once it is  *)
(* left alone and unless its timer is stopped.                             *)
(***************************************************************************)
FullQueueSent ==
  \A q \in Queues :
    queueSize[q] >= BUNDLE_SIZE_IMMEDIATE ~> queueSize[q] < BUNDLE_SIZE_IMMEDIATE \/ ~timer[q]

(***************************************************************************)
(* "after that much time with no new TX, send whatever you can" (the       *)
(* comment of IDLE_TIME): an operation does not wait for ever in a queue   *)
(* that nothing is added to.                                               *)
(***************************************************************************)
IdleQueueSent ==
  \A q \in Queues : queueSize[q] > 0 ~> queueSize[q] = 0 \/ ~timer[q]
===========================================================================

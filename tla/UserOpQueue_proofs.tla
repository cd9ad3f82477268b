------------------------ MODULE UserOpQueue_proofs ------------------------
(***************************************************************************)
(* The lock and the order of the operation queues, for any number of       *)
(* queues, senders and operations.                                         *)
(*                                                                         *)
(* An operation is in one of four places on its way: in its queue, in a    *)
(* bundle that a push has not sent, in a transaction that is not mined, or *)
(* handled.  The chain handles a sender's operations in order because, of  *)
(* any two places, what is in the later one was queued earlier.  The lock  *)
(* is part of the invariant: with two pushes under way, the bundle taken   *)
(* second might be sent first.                                             *)
(***************************************************************************)
EXTENDS UserOpQueue, Wei_proofs, SequenceTheorems

Ops == [queue : Queues, sender : Senders, seq : 1..MaxOps]

Stages == {"signer", "handleOps", "wait"}

(* The four places. *)
Queued(o) == \E j \in DOMAIN queue[o.queue][o.sender] : queue[o.queue][o.sender][j] = o
Unsent(o) == \E p \in pushes : p.stage # "wait" /\ o \in p.ops
Sent(o) == \E i \in DOMAIN pending : o \in pending[i]
Done(o) == \E j \in DOMAIN handled[o.queue][o.sender] : handled[o.queue][o.sender][j] = o

Same(o, p) == o.queue = p.queue /\ o.sender = p.sender

Earlier(o, p) == Same(o, p) => o.seq < p.seq

Sorted(s) == \A j, k \in DOMAIN s : j < k => s[j].seq < s[k].seq

OnePerSender(B) == \A o, p \in B : Same(o, p) => o = p

Types ==
  /\ queue \in [Queues -> [Senders -> Seq(Ops)]]
  /\ handled \in [Queues -> [Senders -> Seq(Ops)]]
  /\ numbered \in [Queues -> [Senders -> 0..MaxOps]]
  /\ pushes \subseteq [ops : SUBSET Ops, stage : Stages]
  /\ pending \in Seq(SUBSET Ops)
  /\ sending \in BOOLEAN

Lock == (\A p1, p2 \in pushes : p1 = p2) /\ (sending <=> pushes # {})

(* A queue, and what is handled of it, hold its own operations. *)
Placed ==
  \A q \in Queues, s \in Senders :
    /\ \A j \in DOMAIN queue[q][s] : queue[q][s][j].queue = q /\ queue[q][s][j].sender = s
    /\ \A j \in DOMAIN handled[q][s] : handled[q][s][j].queue = q /\ handled[q][s][j].sender = s

Numbered ==
  \A o \in Ops :
    Queued(o) \/ Unsent(o) \/ Sent(o) \/ Done(o) => o.seq <= numbered[o.queue][o.sender]

InOrder ==
  \A o, p \in Ops :
    /\ Queued(p) /\ (Unsent(o) \/ Sent(o) \/ Done(o)) => Earlier(o, p)
    /\ Unsent(p) /\ (Sent(o) \/ Done(o)) => Earlier(o, p)
    /\ Sent(p) /\ Done(o) => Earlier(o, p)

Bundles ==
  /\ \A p \in pushes : OnePerSender(p.ops)
  /\ \A i \in DOMAIN pending : OnePerSender(pending[i])

SortedInside ==
  /\ \A q \in Queues, s \in Senders : Sorted(queue[q][s]) /\ Sorted(handled[q][s])
  /\ \A i, j \in DOMAIN pending : i < j => \A o \in pending[i], p \in pending[j] : Earlier(o, p)

Inv == Types /\ Lock /\ Placed /\ Numbered /\ InOrder /\ Bundles /\ SortedInside

---------------------------------------------------------------------------
(* Nothing has been queued. *)
LEMMA InitInv == Init => Inv
<1> SUFFICES ASSUME Init PROVE Inv
  OBVIOUS
<1>1. Types
  <2>1. /\ queue \in [Queues -> [Senders -> Seq(Ops)]]
        /\ handled \in [Queues -> [Senders -> Seq(Ops)]]
    BY DEF Init
  <2>2. numbered \in [Queues -> [Senders -> 0..MaxOps]]
    BY QueueAssumption DEF Init, QueueAssumption
  <2>3. pushes = {} /\ pending \in Seq(SUBSET Ops) /\ sending \in BOOLEAN
    <3>1. pushes = {} /\ pending = <<>> /\ sending = FALSE
      BY DEF Init
    <3>2. <<>> \in Seq(SUBSET Ops)
      BY EmptySeq
    <3>3. QED  BY <3>1, <3>2
  <2>4. QED  BY <2>1, <2>2, <2>3 DEF Types
<1>2. /\ \A q \in Queues, s \in Senders : queue[q][s] = <<>> /\ handled[q][s] = <<>>
      /\ pushes = {} /\ pending = <<>> /\ ~sending
  BY DEF Init
<1>3. Lock /\ Placed /\ Bundles /\ SortedInside
  BY <1>2 DEF Lock, Placed, Bundles, SortedInside, Sorted
<1>4. \A o \in Ops : ~Queued(o) /\ ~Unsent(o) /\ ~Sent(o) /\ ~Done(o)
  BY <1>2 DEF Ops, Queued, Unsent, Sent, Done
<1>5. Numbered /\ InOrder
  BY <1>4 DEF Numbered, InOrder
<1>6. QED  BY <1>1, <1>3, <1>5 DEF Inv

(* A new operation has a number above all others of its sender. *)
LEMMA EnqueueInv ==
  ASSUME Inv, NEW q \in Queues, NEW s \in Senders, Enqueue(q, s)
  PROVE  Inv'
<1> DEFINE w == queue[q][s]
           k == numbered[q][s] + 1
           new == [queue |-> q, sender |-> s, seq |-> k]
<1>1. /\ w \in Seq(Ops) /\ k \in 1..MaxOps /\ new \in Ops
      /\ numbered[q][s] < k
  <2>1. w \in Seq(Ops) /\ numbered[q][s] \in 0..MaxOps
    BY DEF Inv, Types
  <2>2. numbered[q][s] < MaxOps
    BY DEF Enqueue
  <2>3. k \in 1..MaxOps /\ numbered[q][s] < k
    BY <2>1, <2>2, QueueAssumption DEF QueueAssumption
  <2> HIDE DEF k
  <2>4. new \in Ops
    BY <2>3 DEF Ops
  <2>5. QED  BY <2>1, <2>3, <2>4
<1>2. /\ numbered' = [numbered EXCEPT ![q][s] = k]
      /\ queue' = [queue EXCEPT ![q][s] = Append(w, new)]
      /\ UNCHANGED <<sending, pushes, pending, handled>>
  BY DEF Enqueue, Inv, Types
<1> HIDE DEF k
<1>3. Append(w, new) \in Seq(Ops) /\ Types'
  BY <1>1, <1>2 DEF Inv, Types
<1>4. /\ DOMAIN Append(w, new) = 1..(Len(w) + 1) /\ DOMAIN w = 1..Len(w) /\ Len(w) \in Nat
      /\ \A j \in 1..Len(w) : Append(w, new)[j] = w[j]
      /\ Append(w, new)[Len(w) + 1] = new
  BY <1>1
<1>5. queue'[q][s] = Append(w, new)
  BY <1>2 DEF Inv, Types
<1>6. \A r \in Queues, t \in Senders : r # q \/ t # s => queue'[r][t] = queue[r][t]
  BY <1>2 DEF Inv, Types
<1> HIDE DEF w
<1>7. \A o \in Ops : Queued(o)' => Queued(o) \/ o = new
  <2> SUFFICES ASSUME NEW o \in Ops, Queued(o)' PROVE Queued(o) \/ o = new
    OBVIOUS
  <2>1. CASE o.queue = q /\ o.sender = s
    BY <2>1, <1>4, <1>5 DEF Queued, w
  <2>2. CASE ~(o.queue = q /\ o.sender = s)
    BY <2>2, <1>6 DEF Queued, Ops
  <2>3. QED  BY <2>1, <2>2
<1>8. \A o \in Ops : (Unsent(o)' <=> Unsent(o)) /\ (Sent(o)' <=> Sent(o)) /\ (Done(o)' <=> Done(o))
  BY <1>2 DEF Unsent, Sent, Done
<1>9. \A o \in Ops : Same(o, new) /\ (Queued(o) \/ Unsent(o) \/ Sent(o) \/ Done(o)) => o.seq < k
  <2> SUFFICES ASSUME NEW o \in Ops, Same(o, new), Queued(o) \/ Unsent(o) \/ Sent(o) \/ Done(o)
               PROVE  o.seq < k
    OBVIOUS
  <2>1. o.seq <= numbered[q][s]
    BY DEF Inv, Numbered, Same
  <2>2. QED  BY SMTT(30), <2>1, <1>1 DEF Inv, Types, Ops
<1>10. Lock' /\ Bundles'
  BY <1>2 DEF Inv, Lock, Bundles
<1>11. Placed'
  BY <1>2, <1>4, <1>5, <1>6 DEF Inv, Placed, w
<1>12. InOrder'
  BY <1>7, <1>8, <1>9 DEF Inv, InOrder, Earlier, Same
<1>13. Numbered'
  <2> SUFFICES ASSUME NEW o \in Ops, (Queued(o) \/ Unsent(o) \/ Sent(o) \/ Done(o))'
               PROVE  o.seq <= numbered'[o.queue][o.sender]
    BY DEF Numbered
  <2>1. o = new \/ Queued(o) \/ Unsent(o) \/ Sent(o) \/ Done(o)
    BY <1>7, <1>8
  <2>2. CASE o.queue = q /\ o.sender = s
    <3>1. numbered'[q][s] = k
      BY <1>2 DEF Inv, Types
    <3>2. o.seq <= k
      BY <1>1, <1>9, <2>1, <2>2 DEF Same, Ops
    <3>3. QED  BY <3>1, <3>2, <2>2
  <2>3. CASE ~(o.queue = q /\ o.sender = s)
    <3>1. numbered'[o.queue][o.sender] = numbered[o.queue][o.sender]
      BY <1>2, <2>3 DEF Inv, Types, Ops
    <3>2. QED  BY <2>1, <2>3, <3>1 DEF Inv, Numbered
  <2>4. QED  BY <2>2, <2>3
<1>14. SortedInside'
  <2>1. Sorted(queue'[q][s])
    <3> SUFFICES ASSUME NEW i \in 1..(Len(w) + 1), NEW j \in 1..(Len(w) + 1), i < j
                 PROVE  Append(w, new)[i].seq < Append(w, new)[j].seq
      BY <1>4, <1>5 DEF Sorted
    <3>1. i \in 1..Len(w) /\ Append(w, new)[i] = w[i] /\ w[i] \in Ops
      BY <1>1, <1>4
    <3>2. CASE j = Len(w) + 1
      <4>1. i \in DOMAIN queue[q][s] /\ w[i] = queue[q][s][i]
        BY <3>1, <1>4 DEF w
      <4>2. w[i].queue = q /\ w[i].sender = s
        BY <4>1 DEF Inv, Placed
      <4>3. Queued(w[i]) /\ Same(w[i], new)
        BY <4>1, <4>2 DEF Queued, Same
      <4>4. QED  BY <4>3, <3>1, <3>2, <1>4, <1>9
    <3>3. CASE j # Len(w) + 1
      <4>1. Sorted(w)
        BY DEF Inv, SortedInside, w
      <4>2. j \in 1..Len(w) /\ Append(w, new)[j] = w[j]
        BY <3>3, <1>4
      <4>3. QED  BY <3>1, <4>1, <4>2, <1>4 DEF Sorted
    <3>4. QED  BY <3>2, <3>3
  <2>2. \A r \in Queues, t \in Senders : Sorted(queue'[r][t])
    BY <2>1, <1>6 DEF Inv, SortedInside
  <2>3. QED  BY <1>2, <2>2 DEF Inv, SortedInside
<1>15. QED  BY <1>3, <1>10, <1>11, <1>12, <1>13, <1>14 DEF Inv

(* A push takes the oldest operation of each sender, when no other is under way. *)
LEMMA PushInv ==
  ASSUME Inv, NEW q \in Queues, Push(q)
  PROVE  Inv'
<1> DEFINE waiting == {s \in Senders : queue[q][s] # <<>>}
           ops == {Taken(queue[q][s]).op : s \in waiting}
<1>1. /\ pushes = {} /\ sending' = TRUE
      /\ pushes' = {[ops |-> ops, stage |-> "signer"]}
      /\ UNCHANGED <<pending, numbered, handled>>
      /\ queue' = [queue EXCEPT ![q] =
                     [s \in Senders |-> IF s \in waiting THEN Taken(queue[q][s]).rest ELSE queue[q][s]]]
  BY DEF Push, Ready, Inv, Lock
<1>2. ASSUME NEW s \in waiting
      PROVE  /\ Taken(queue[q][s]).op = queue[q][s][1] /\ queue[q][s] \in Seq(Ops)
             /\ queue[q][s][1] \in Ops /\ queue[q][s] # <<>>
             /\ queue[q][s][1].queue = q /\ queue[q][s][1].sender = s
  <2>1. queue[q][s] \in Seq(Ops) /\ queue[q][s] # <<>>
    BY DEF Inv, Types
  <2>2. 1 \in DOMAIN queue[q][s] /\ queue[q][s][1] \in Ops
    BY <2>1
  <2>3. queue[q][s][1].queue = q /\ queue[q][s][1].sender = s
    BY <2>2 DEF Inv, Placed
  <2>4. QED  BY <2>1, <2>2, <2>3 DEF Taken
<1>3. ASSUME NEW o \in ops
      PROVE  /\ o \in Ops /\ o.queue = q /\ o.sender \in waiting
             /\ o = queue[q][o.sender][1] /\ Queued(o)
  <2>1. PICK s \in waiting : o = Taken(queue[q][s]).op
    OBVIOUS
  <2>2. 1 \in DOMAIN queue[q][s]
    BY <1>2
  <2>3. QED  BY <1>2, <2>1, <2>2 DEF Queued
<1>4. OnePerSender(ops)
  BY <1>3 DEF OnePerSender, Same
<1>5. ASSUME NEW s \in waiting
      PROVE  /\ queue'[q][s] \in Seq(Ops)
             /\ Len(queue'[q][s]) = Len(queue[q][s]) - 1
             /\ \A j \in DOMAIN queue'[q][s] :
                  /\ j + 1 \in DOMAIN queue[q][s] /\ j \in Nat \ {0}
                  /\ queue'[q][s][j] = queue[q][s][j + 1]
  <2>1. queue'[q][s] = Tail(queue[q][s])
    BY <1>1 DEF Inv, Types, Taken
  <2> DEFINE w == queue[q][s]
  <2>2. w \in Seq(Ops) /\ w # <<>>
    BY <1>2
  <2> HIDE DEF w
  <2>3. /\ Tail(w) \in Seq(Ops) /\ Len(Tail(w)) = Len(w) - 1
        /\ \A j \in 1..Len(Tail(w)) : Tail(w)[j] = w[j + 1]
    BY <2>2, HeadTailProperties
  <2>4. DOMAIN w = 1..Len(w) /\ Len(w) \in Nat /\ DOMAIN Tail(w) = 1..Len(Tail(w))
    BY <2>2, <2>3
  <2>5. \A j \in DOMAIN Tail(w) : j + 1 \in DOMAIN w /\ j \in Nat \ {0} /\ Tail(w)[j] = w[j + 1]
    BY <2>3, <2>4
  <2>6. QED  BY <2>1, <2>3, <2>5 DEF w
<1>6. ASSUME NEW r \in Queues, NEW s \in Senders, r # q \/ s \notin waiting
      PROVE  queue'[r][s] = queue[r][s]
  BY <1>1, <1>6 DEF Inv, Types
<1>7. \A o \in Ops : Queued(o)' => Queued(o)
  <2> SUFFICES ASSUME NEW o \in Ops, Queued(o)' PROVE Queued(o)
    OBVIOUS
  <2>1. o.queue \in Queues /\ o.sender \in Senders
    BY DEF Ops
  <2>2. CASE o.queue = q /\ o.sender \in waiting
    BY <2>2, <1>5 DEF Queued
  <2>3. CASE o.queue # q \/ o.sender \notin waiting
    BY <2>1, <2>3, <1>6 DEF Queued
  <2>4. QED  BY <2>2, <2>3
<1>8. \A o \in ops, p \in Ops : Queued(p)' => Earlier(o, p)
  <2> SUFFICES ASSUME NEW o \in ops, NEW p \in Ops, Queued(p)', Same(o, p)
               PROVE  o.seq < p.seq
    BY DEF Earlier
  <2> DEFINE w == queue[q][o.sender]
  <2>1. p.queue = q /\ p.sender = o.sender /\ o.sender \in waiting /\ o = w[1]
    BY <1>3 DEF Same
  <2>2. PICK j \in DOMAIN queue'[q][o.sender] : queue'[q][o.sender][j] = p
    BY <2>1 DEF Queued
  <2>3. j + 1 \in DOMAIN w /\ j \in Nat \ {0} /\ p = w[j + 1]
    BY <2>1, <2>2, <1>5
  <2>4. Sorted(w) /\ 1 \in DOMAIN w
    BY <2>1, <1>2 DEF Inv, SortedInside
  <2>5. QED  BY <2>1, <2>3, <2>4 DEF Sorted
<1>9. \A o \in Ops : /\ ~Unsent(o) /\ (Unsent(o)' => o \in ops)
                     /\ (Sent(o)' <=> Sent(o)) /\ (Done(o)' <=> Done(o))
  BY <1>1 DEF Unsent, Sent, Done
<1> HIDE DEF waiting, ops
<1>10. Types'
  <2>1. queue' \in [Queues -> [Senders -> Seq(Ops)]]
    <3>1. ASSUME NEW s \in Senders
          PROVE  (IF s \in waiting THEN Taken(queue[q][s]).rest ELSE queue[q][s]) \in Seq(Ops)
      <4>1. CASE s \in waiting
        <5>1. queue'[q][s] = Taken(queue[q][s]).rest
          BY <4>1, <1>1 DEF Inv, Types
        <5>2. QED  BY <4>1, <5>1, <1>5
      <4>2. CASE s \notin waiting
        BY <4>2 DEF Inv, Types
      <4>3. QED  BY <4>1, <4>2
    <3>2. QED  BY <1>1, <3>1 DEF Inv, Types
  <2>2. ops \subseteq Ops
    BY <1>3
  <2>3. pushes' \subseteq [ops : SUBSET Ops, stage : Stages]
    BY <1>1, <2>2 DEF Stages
  <2>4. QED  BY <1>1, <2>1, <2>3 DEF Inv, Types
<1>11. Lock' /\ Bundles'
  BY <1>1, <1>4 DEF Inv, Lock, Bundles
<1>12. Placed'
  <2>1. ASSUME NEW r \in Queues, NEW s \in Senders, NEW j \in DOMAIN queue'[r][s]
        PROVE  queue'[r][s][j].queue = r /\ queue'[r][s][j].sender = s
    <3>1. CASE r = q /\ s \in waiting
      <4>1. j + 1 \in DOMAIN queue[q][s] /\ queue'[q][s][j] = queue[q][s][j + 1]
        BY <3>1, <2>1, <1>5
      <4>2. QED  BY <3>1, <4>1 DEF Inv, Placed
    <3>2. CASE r # q \/ s \notin waiting
      BY <3>2, <1>6 DEF Inv, Placed
    <3>3. QED  BY <3>1, <3>2
  <2>2. QED  BY <1>1, <2>1 DEF Inv, Placed
<1>13. Numbered'
  BY <1>1, <1>3, <1>7, <1>9 DEF Inv, Numbered
<1>14. InOrder'
  BY <1>3, <1>7, <1>8, <1>9 DEF Inv, InOrder, Earlier, Same
<1>15. SortedInside'
  <2>1. ASSUME NEW r \in Queues, NEW s \in Senders
        PROVE  Sorted(queue'[r][s])
    <3>1. Sorted(queue[r][s])
      BY DEF Inv, SortedInside
    <3>2. CASE r = q /\ s \in waiting
      <4> SUFFICES ASSUME NEW i \in DOMAIN queue'[q][s], NEW j \in DOMAIN queue'[q][s], i < j
                   PROVE  queue'[q][s][i].seq < queue'[q][s][j].seq
        BY <3>2 DEF Sorted
      <4>1. /\ i + 1 \in DOMAIN queue[q][s] /\ queue'[q][s][i] = queue[q][s][i + 1]
            /\ j + 1 \in DOMAIN queue[q][s] /\ queue'[q][s][j] = queue[q][s][j + 1]
            /\ i + 1 < j + 1
        BY <3>2, <1>5
      <4>2. QED  BY <3>1, <3>2, <4>1 DEF Sorted
    <3>3. CASE r # q \/ s \notin waiting
      BY <3>1, <3>3, <1>6
    <3>4. QED  BY <3>2, <3>3
  <2>2. QED  BY <1>1, <2>1 DEF Inv, SortedInside
<1>16. QED  BY <1>10, <1>11, <1>12, <1>13, <1>14, <1>15 DEF Inv

(* An answer moves the one push on, or ends it, and its bundle may become a transaction. *)
LEMMA AnswerInv ==
  ASSUME Inv, NEW p \in pushes, UNCHANGED <<queue, handled, numbered>>,
         \/ pushes' = {} /\ sending' = FALSE
         \/ \E t \in Stages : /\ pushes' = {[p EXCEPT !.stage = t]} /\ sending' = sending
                              /\ p.stage = "wait" \/ pending' # pending => t = "wait",
         \/ pending' = pending
         \/ p.stage # "wait" /\ pending' = Append(pending, p.ops)
  PROVE  Inv'
<1>1. /\ p \in [ops : SUBSET Ops, stage : Stages] /\ pushes = {p} /\ sending
      /\ OnePerSender(p.ops) /\ pending \in Seq(SUBSET Ops)
  BY DEF Inv, Types, Lock, Bundles
<1>2. /\ Lock'
      /\ pushes' \subseteq [ops : SUBSET Ops, stage : Stages] /\ sending' \in BOOLEAN
      /\ \A r \in pushes' : OnePerSender(r.ops)
  <2>1. CASE pushes' = {} /\ sending' = FALSE
    BY <2>1 DEF Lock
  <2>2. CASE \E t \in Stages : pushes' = {[p EXCEPT !.stage = t]} /\ sending' = sending
    <3>1. PICK t \in Stages : pushes' = {[p EXCEPT !.stage = t]} /\ sending' = sending
      BY <2>2
    <3>2. [p EXCEPT !.stage = t] \in [ops : SUBSET Ops, stage : Stages] /\ [p EXCEPT !.stage = t].ops = p.ops
      BY <1>1
    <3>3. QED  BY <1>1, <3>1, <3>2 DEF Lock
  <2>3. QED  BY <2>1, <2>2
<1>3. \A o \in Ops : (Queued(o)' <=> Queued(o)) /\ (Done(o)' <=> Done(o))
  BY DEF Queued, Done
<1>4. Placed' /\ \A r \in Queues, s \in Senders : Sorted(queue'[r][s]) /\ Sorted(handled'[r][s])
  BY DEF Inv, Placed, SortedInside
<1>5. CASE pending' = pending
  <2>1. \A o \in Ops : (Unsent(o)' => Unsent(o)) /\ (Sent(o)' <=> Sent(o))
    <3>1. \A r \in pushes' : r.ops = p.ops /\ (r.stage # "wait" => p.stage # "wait")
      BY <1>1
    <3>2. QED  BY <1>1, <1>5, <3>1 DEF Unsent, Sent
  <2>2. Types' /\ Bundles' /\ SortedInside'
    BY <1>2, <1>4, <1>5 DEF Inv, Types, Bundles, SortedInside
  <2>3. Numbered' /\ InOrder'
    BY <1>3, <2>1 DEF Inv, Numbered, InOrder
  <2>4. QED  BY <1>2, <1>4, <2>2, <2>3 DEF Inv
<1>6. CASE pending' # pending
  <2>1. /\ p.stage # "wait" /\ pending' = Append(pending, p.ops)
        /\ \A r \in pushes' : r.stage = "wait"
    BY <1>1, <1>6
  <2>2. /\ pending' \in Seq(SUBSET Ops) /\ Len(pending) \in Nat
        /\ DOMAIN pending = 1..Len(pending) /\ DOMAIN pending' = 1..(Len(pending) + 1)
        /\ \A i \in 1..Len(pending) : pending'[i] = pending[i]
        /\ pending'[Len(pending) + 1] = p.ops
    BY <1>1, <2>1
  <2>3. \A o \in Ops : o \in p.ops => Unsent(o)
    BY <1>1, <2>1 DEF Unsent
  <2>4. \A o \in Ops : ~Unsent(o)' /\ (Sent(o)' => Sent(o) \/ o \in p.ops)
    <3>1. ASSUME NEW o \in Ops PROVE ~Unsent(o)'
      BY <2>1 DEF Unsent
    <3>2. ASSUME NEW o \in Ops, Sent(o)' PROVE Sent(o) \/ o \in p.ops
      <4>1. PICK i \in 1..(Len(pending) + 1) : o \in pending'[i]
        BY <3>2, <2>2 DEF Sent
      <4>2. i \in 1..Len(pending) \/ i = Len(pending) + 1
        BY <4>1, <2>2
      <4>3. QED  BY <4>1, <4>2, <2>2 DEF Sent
    <3>3. QED  BY <3>1, <3>2
  <2>5. Types' /\ Bundles'
    <3>1. Types'
      BY <1>2, <2>2 DEF Inv, Types
    <3>2. ASSUME NEW i \in 1..(Len(pending) + 1) PROVE OnePerSender(pending'[i])
      <4>1. i \in 1..Len(pending) \/ i = Len(pending) + 1
        BY <2>2
      <4>2. QED  BY <1>1, <2>2, <4>1 DEF Inv, Bundles
    <3>3. Bundles'
      BY <1>2, <2>2, <3>2 DEF Bundles
    <3>4. QED  BY <3>1, <3>3
  <2>6. Numbered' /\ InOrder'
    BY <1>3, <2>3, <2>4 DEF Inv, Numbered, InOrder
  <2>7. ASSUME NEW i \in DOMAIN pending', NEW j \in DOMAIN pending', i < j,
               NEW o \in pending'[i], NEW r \in pending'[j]
        PROVE  Earlier(o, r)
    <3>1. i \in DOMAIN pending /\ o \in pending[i] /\ o \in Ops /\ Sent(o)
      BY <2>7, <2>2, <1>1 DEF Sent
    <3>2. CASE j = Len(pending) + 1
      BY <3>1, <3>2, <2>2, <2>3, <1>1 DEF Inv, InOrder
    <3>3. CASE j # Len(pending) + 1
      BY <2>7, <3>1, <3>3, <2>2 DEF Inv, SortedInside
    <3>4. QED  BY <3>2, <3>3
  <2>8. SortedInside'
    BY <1>4, <2>7 DEF SortedInside
  <2>9. QED  BY <1>2, <1>4, <2>5, <2>6, <2>8 DEF Inv
<1>7. QED  BY <1>5, <1>6

(* A mined transaction is handled, at the end of what was handled before, or reverts. *)
LEMMA MineInv ==
  ASSUME Inv, Mine
  PROVE  Inv'
<1> DEFINE B == Head(pending)
           of(q, s) == {o \in B : o.queue = q /\ o.sender = s}
           more(q, s) == [j \in 1..Cardinality(of(q, s)) |-> CHOOSE o \in of(q, s) : TRUE]
<1>1. /\ UNCHANGED <<queue, numbered, pushes, sending>>
      /\ pending \in Seq(SUBSET Ops) /\ pending # <<>> /\ pending' = Tail(pending)
      /\ \/ handled' = [q \in Queues |-> [s \in Senders |-> handled[q][s] \o more(q, s)]]
         \/ handled' = handled
  BY DEF Mine, Inv, Types
<1> HIDE DEF more
<1>2. /\ pending' \in Seq(SUBSET Ops) /\ DOMAIN pending = 1..Len(pending) /\ Len(pending) \in Nat \ {0}
      /\ \A i \in DOMAIN pending' : /\ i \in Nat \ {0} /\ i + 1 \in DOMAIN pending
                                    /\ pending'[i] = pending[i + 1]
      /\ B = pending[1] /\ 1 \in DOMAIN pending
  <2>1. /\ pending' \in Seq(SUBSET Ops) /\ Len(pending') = Len(pending) - 1
        /\ \A i \in 1..Len(pending') : pending'[i] = pending[i + 1]
    BY <1>1, HeadTailProperties
  <2>2. DOMAIN pending = 1..Len(pending) /\ Len(pending) \in Nat \ {0} /\ B = pending[1]
    BY <1>1, EmptySeq
  <2>3. DOMAIN pending' = 1..Len(pending')
    BY <2>1
  <2>4. QED  BY <2>1, <2>2, <2>3
<1>3. B \subseteq Ops /\ OnePerSender(B) /\ \A o \in B : Sent(o)
  BY <1>1, <1>2 DEF Inv, Bundles, Sent
<1> HIDE DEF B
<1>4. ASSUME NEW q \in Queues, NEW s \in Senders
      PROVE  /\ handled'[q][s] \in Seq(Ops)
             /\ \A i \in 1..Len(handled[q][s]) : handled'[q][s][i] = handled[q][s][i]
             /\ \/ Len(handled'[q][s]) = Len(handled[q][s])
                \/ /\ Len(handled'[q][s]) = Len(handled[q][s]) + 1
                   /\ handled'[q][s][Len(handled[q][s]) + 1] \in of(q, s)
  <2> DEFINE h == handled[q][s]
             m == more(q, s)
  <2>1. h \in Seq(Ops) /\ Len(h) \in Nat
    BY DEF Inv, Types
  <2>2. CASE handled' = handled
    BY <2>1, <2>2
  <2>3. CASE handled'[q][s] = h \o m
    <3>1. of(q, s) = {} \/ \E o : of(q, s) = {o}
      BY <1>3 DEF OnePerSender, Same
    <3>2. CASE of(q, s) = {}
      <4>1. Cardinality(of(q, s)) = 0
        BY <3>2, FS_EmptySet
      <4> DEFINE e == CHOOSE x \in of(q, s) : TRUE
      <4>2. m = <<>>
        <5>1. m = [j \in 1..Cardinality(of(q, s)) |-> e]
          BY DEF more
        <5> HIDE DEF e, of, m
        <5>2. m = [j \in 1..0 |-> e]
          BY <4>1, <5>1
        <5>3. QED  BY <5>2
      <4>3. QED  BY <2>1, <2>3, <4>2, ConcatEmptySeq
    <3>3. CASE \E o : of(q, s) = {o}
      <4>1. PICK o : of(q, s) = {o}
        BY <3>3
      <4>2. o \in Ops /\ o \in of(q, s)
        BY <4>1, <1>3
      <4>3. Cardinality(of(q, s)) = 1
        BY <4>1, FS_Singleton
      <4>4. (CHOOSE x \in of(q, s) : TRUE) = o
        BY <4>1
      <4> HIDE DEF of
      <4>5. m = <<o>>
        BY <4>3, <4>4 DEF more
      <4>6. <<o>> \in Seq(Ops) /\ Len(<<o>>) = 1 /\ <<o>>[1] = o
        BY <4>2
      <4> HIDE DEF h, m
      <4>7. /\ h \o m \in Seq(Ops) /\ Len(h \o m) = Len(h) + 1
            /\ \A i \in 1..(Len(h) + 1) : (h \o m)[i] = IF i <= Len(h) THEN h[i] ELSE m[i - Len(h)]
        BY <2>1, <4>5, <4>6, ConcatProperties
      <4>8. (h \o m)[Len(h) + 1] = o /\ \A i \in 1..Len(h) : (h \o m)[i] = h[i]
        BY <2>1, <4>5, <4>6, <4>7
      <4>9. QED  BY <2>3, <4>2, <4>7, <4>8 DEF h
    <3>4. QED  BY <3>1, <3>2, <3>3
  <2>4. handled' = handled \/ handled'[q][s] = h \o m
    BY <1>1
  <2>5. QED  BY <2>2, <2>3, <2>4
<1>5. handled' \in [Queues -> [Senders -> Seq(Ops)]]
  <2>1. CASE handled' = handled
    BY <2>1 DEF Inv, Types
  <2>2. CASE handled' = [q \in Queues |-> [s \in Senders |-> handled[q][s] \o more(q, s)]]
    <3>1. \A q \in Queues, s \in Senders : handled[q][s] \o more(q, s) \in Seq(Ops)
      BY <1>4, <2>2
    <3>2. QED  BY <2>2, <3>1
  <2>3. QED  BY <1>1, <2>1, <2>2
<1>6. ASSUME NEW q \in Queues, NEW s \in Senders, NEW j \in DOMAIN handled'[q][s]
      PROVE  \/ j \in DOMAIN handled[q][s] /\ handled'[q][s][j] = handled[q][s][j]
             \/ j = Len(handled[q][s]) + 1 /\ handled'[q][s][j] \in of(q, s)
  <2>1. handled[q][s] \in Seq(Ops) /\ handled'[q][s] \in Seq(Ops)
    BY <1>4 DEF Inv, Types
  <2>2. DOMAIN handled[q][s] = 1..Len(handled[q][s]) /\ j \in 1..Len(handled'[q][s])
    BY <2>1
  <2>3. QED  BY <2>1, <2>2, <1>4
<1>7. \A o \in Ops : /\ (Queued(o)' <=> Queued(o)) /\ (Unsent(o)' <=> Unsent(o))
                     /\ (Sent(o)' => Sent(o)) /\ (Done(o)' => Done(o) \/ o \in B)
  <2>1. ASSUME NEW o \in Ops PROVE (Queued(o)' <=> Queued(o)) /\ (Unsent(o)' <=> Unsent(o))
    BY <1>1 DEF Queued, Unsent
  <2>2. ASSUME NEW o \in Ops, Sent(o)' PROVE Sent(o)
    BY <2>2, <1>2 DEF Sent
  <2>3. ASSUME NEW o \in Ops, Done(o)' PROVE Done(o) \/ o \in B
    <3>1. o.queue \in Queues /\ o.sender \in Senders
      BY DEF Ops
    <3>2. PICK j \in DOMAIN handled'[o.queue][o.sender] : handled'[o.queue][o.sender][j] = o
      BY <2>3 DEF Done
    <3>3. QED  BY <3>1, <3>2, <1>6 DEF Done
  <2>4. QED  BY <2>1, <2>2, <2>3
<1>8. \A o \in B, p \in Ops : Sent(p)' => Earlier(o, p)
  <2> SUFFICES ASSUME NEW o \in B, NEW p \in Ops, Sent(p)' PROVE Earlier(o, p)
    OBVIOUS
  <2>1. PICK i \in DOMAIN pending' : p \in pending'[i]
    BY DEF Sent
  <2>2. i + 1 \in DOMAIN pending /\ p \in pending[i + 1] /\ 1 < i + 1 /\ 1 \in DOMAIN pending /\ o \in pending[1]
    BY <2>1, <1>2
  <2>3. QED  BY <2>2 DEF Inv, SortedInside
<1>9. Types' /\ Lock'
  BY <1>1, <1>2, <1>5 DEF Inv, Types, Lock
<1>10. Placed'
  <2>1. ASSUME NEW q \in Queues, NEW s \in Senders, NEW j \in DOMAIN handled'[q][s]
        PROVE  handled'[q][s][j].queue = q /\ handled'[q][s][j].sender = s
    BY <1>6 DEF Inv, Placed
  <2>2. QED  BY <1>1, <2>1 DEF Inv, Placed
<1>11. Numbered'
  BY <1>1, <1>3, <1>7 DEF Inv, Numbered
<1>12. InOrder'
  BY <1>3, <1>7, <1>8 DEF Inv, InOrder
<1>13. Bundles'
  BY <1>1, <1>2 DEF Inv, Bundles
<1>14. SortedInside'
  <2>1. ASSUME NEW q \in Queues, NEW s \in Senders
        PROVE  Sorted(handled'[q][s])
    <3> DEFINE h == handled[q][s]
               g == handled'[q][s]
    <3> SUFFICES ASSUME NEW i \in DOMAIN g, NEW j \in DOMAIN g, i < j
                 PROVE  g[i].seq < g[j].seq
      BY DEF Sorted
    <3>1. h \in Seq(Ops) /\ g \in Seq(Ops) /\ DOMAIN h = 1..Len(h) /\ DOMAIN g = 1..Len(g)
          /\ Len(h) \in Nat /\ (Len(g) = Len(h) \/ Len(g) = Len(h) + 1)
      BY <1>4 DEF Inv, Types
    <3>2. i \in DOMAIN h /\ g[i] = h[i]
      BY <3>1, <1>4
    <3>3. CASE j \in DOMAIN h
      <4>1. g[j] = h[j] /\ Sorted(h)
        BY <3>1, <3>3, <1>4 DEF Inv, SortedInside
      <4>2. QED  BY <3>2, <3>3, <4>1 DEF Sorted
    <3>4. CASE g[j] \in of(q, s)
      <4>1. h[i] \in Ops /\ h[i].queue = q /\ h[i].sender = s
        BY <3>1, <3>2 DEF Inv, Placed
      <4>2. Done(h[i])
        BY <3>2, <4>1 DEF Done
      <4>3. g[j] \in Ops /\ Sent(g[j]) /\ Same(h[i], g[j])
        BY <3>4, <4>1, <1>3 DEF Same
      <4>4. Earlier(h[i], g[j])
        BY <4>1, <4>2, <4>3 DEF Inv, InOrder
      <4>5. QED  BY <3>2, <4>3, <4>4 DEF Earlier
    <3>5. QED  BY <3>3, <3>4, <1>6
  <2>2. ASSUME NEW i \in DOMAIN pending', NEW j \in DOMAIN pending', i < j,
               NEW o \in pending'[i], NEW p \in pending'[j]
        PROVE  Earlier(o, p)
    <3>1. /\ i + 1 \in DOMAIN pending /\ pending'[i] = pending[i + 1]
          /\ j + 1 \in DOMAIN pending /\ pending'[j] = pending[j + 1] /\ i + 1 < j + 1
      BY <2>2, <1>2
    <3>2. QED  BY <2>2, <3>1 DEF Inv, SortedInside
  <2>3. QED  BY <1>1, <2>1, <2>2 DEF Inv, SortedInside
<1>15. QED  BY <1>9, <1>10, <1>11, <1>12, <1>13, <1>14 DEF Inv

LEMMA NextInv == Inv /\ [Next]_vars => Inv'
<1> SUFFICES ASSUME Inv, [Next]_vars PROVE Inv'
  OBVIOUS
<1>1. ASSUME UNCHANGED <<queue, sending, pushes, pending, numbered, handled>>
      PROVE  Inv'
  BY <1>1 DEF Inv, Types, Lock, Placed, Numbered, InOrder, Bundles, SortedInside,
              Queued, Unsent, Sent, Done
<1>2. ASSUME NEW q \in Queues, NEW s \in Senders, Enqueue(q, s) PROVE Inv'
  BY <1>2, EnqueueInv
<1>3. ASSUME NEW q \in Queues, NEW on \in BOOLEAN, SetTimer(q, on) PROVE Inv'
  BY <1>1, <1>3 DEF SetTimer
<1>4. ASSUME NEW q \in Queues, Push(q) PROVE Inv'
  BY <1>4, PushInv
<1>5. ASSUME NEW p \in pushes, Answers(p) PROVE Inv'
  <2>1. p \in [ops : SUBSET Ops, stage : Stages] /\ pushes = {p} /\ pushes \ {p} = {}
    BY DEF Inv, Types, Lock
  <2>2. CASE SignerAnswers(p)
    <3>1. pushes' = {[p EXCEPT !.stage = "handleOps"]} /\ p.stage # "wait"
      BY <2>1, <2>2 DEF SignerAnswers
    <3>2. UNCHANGED <<queue, handled, numbered, sending, pending>> /\ "handleOps" \in Stages
      BY <2>2 DEF SignerAnswers, Stages
    <3>3. QED  BY <3>1, <3>2, AnswerInv
  <2>3. CASE HandleOpsSent(p)
    <3>1. pushes' = {[p EXCEPT !.stage = "wait"]} /\ p.stage # "wait"
      BY <2>1, <2>3 DEF HandleOpsSent
    <3>2. UNCHANGED <<queue, handled, numbered, sending>> /\ pending' = Append(pending, p.ops)
          /\ "wait" \in Stages
      BY <2>3 DEF HandleOpsSent, Stages
    <3>3. QED  BY <3>1, <3>2, AnswerInv
  <2>4. CASE WaitEnds(p)
    BY <2>1, <2>4, AnswerInv DEF WaitEnds
  <2>5. CASE PushFails(p)
    BY <2>1, <2>5, AnswerInv DEF PushFails
  <2>6. QED  BY <1>5, <2>2, <2>3, <2>4, <2>5 DEF Answers
<1>6. CASE Mine
  BY <1>6, MineInv
<1>7. CASE Wait
  BY <1>1, <1>7 DEF Wait
<1>8. CASE UNCHANGED vars
  BY <1>1, <1>8 DEF vars
<1>9. QED
  BY <1>2, <1>3, <1>4, <1>5, <1>6, <1>7, <1>8 DEF Next

(* The inductive invariant: the lock, and the order between the four places. *)
THEOREM Invariance == Spec => []Inv
BY InitInv, NextInv, PTL DEF Spec

(* The file's flag `sending` lets one push at a time send, whatever the queues are. *)
THEOREM LockHolds == Spec => []OneBundleAtATime
<1>1. Inv => OneBundleAtATime
  <2> SUFFICES ASSUME Inv PROVE OneBundleAtATime
    OBVIOUS
  <2>1. pushes = {} \/ \E p : pushes = {p}
    BY DEF Inv, Lock
  <2>2. Cardinality(pushes) \in {0, 1}
    BY <2>1, FS_EmptySet, FS_Singleton
  <2>3. QED  BY <2>2 DEF OneBundleAtATime, Inv, Lock
<1>2. QED  BY <1>1, Invariance, PTL

(* What a sender queued is handled in that order, whichever requests fail. *)
THEOREM OrderKept == Spec => []HandledInOrder
<1>1. Inv => HandledInOrder
  BY DEF Inv, SortedInside, Sorted, HandledInOrder
<1>2. QED  BY <1>1, Invariance, PTL

---------------------------------------------------------------------------
(***************************************************************************)
(* queueSize, which the code counts by itself, against the queues.         *)
(***************************************************************************)
Lengths(q) == [s \in Senders |-> Len(queue[q][s])]

Counted ==
  /\ queueSize \in [Queues -> Nat]
  /\ \A q \in Queues : queueSize[q] = Total(Lengths(q))

Clocks == age \in [Queues -> 0..IDLE_TIME] /\ timer \in [Queues -> BOOLEAN]

LEMMA LengthsType ==
  ASSUME NEW u \in [Senders -> Seq(Ops)]
  PROVE  LET f == [s \in Senders |-> Len(u[s])] IN f \in [Senders -> Nat] /\ Total(f) \in Nat
<1> DEFINE f == [s \in Senders |-> Len(u[s])]
<1>1. \A s \in Senders : Len(u[s]) \in Nat
  OBVIOUS
<1>2. f \in [Senders -> Nat]
  BY <1>1
<1> HIDE DEF f
<1>3. f \in [Senders -> Nat] /\ Total(f) \in Nat
  BY <1>2, TotalType, QueueAssumption DEF QueueAssumption
<1>4. QED  BY <1>3 DEF f

LEMMA EnqueueCounted ==
  ASSUME Inv, Inv', Counted, NEW q \in Queues, NEW s \in Senders, Enqueue(q, s)
  PROVE  Counted'
<1> DEFINE f == Lengths(q)
           g == Lengths(q)'
<1>1. /\ queueSize' = [queueSize EXCEPT ![q] = @ + 1]
      /\ queue[q][s] \in Seq(Ops) /\ \A t \in Senders : t # s => queue'[q][t] = queue[q][t]
      /\ \A r \in Queues : r # q => queue'[r] = queue[r]
  BY DEF Enqueue, Inv, Types
<1>2. Len(queue'[q][s]) = Len(queue[q][s]) + 1
  <2>1. PICK o : queue'[q][s] = Append(queue[q][s], o)
    BY DEF Enqueue, Inv, Types
  <2>2. QED  BY <1>1, <2>1
<1>3. f \in [Senders -> Nat] /\ g \in [Senders -> Nat] /\ Total(f) \in Nat
  <2>1. queue[q] \in [Senders -> Seq(Ops)] /\ queue'[q] \in [Senders -> Seq(Ops)]
    BY DEF Inv, Types
  <2>2. QED  BY <2>1, LengthsType DEF Lengths
<1>4. g[s] = f[s] + 1 /\ \A t \in Senders : t # s => g[t] = f[t]
  BY <1>1, <1>2 DEF Lengths
<1>5. \A r \in Queues : r # q => Lengths(r)' = Lengths(r)
  BY <1>1 DEF Lengths
<1> HIDE DEF f, g
<1>6. Total(g) = Total(f) - f[s] + g[s]
  BY <1>3, <1>4, TotalUpdate, QueueAssumption DEF QueueAssumption
<1>7. Total(g) = Total(f) + 1
  BY <1>3, <1>4, <1>6
<1>8. queueSize'[q] = Total(g) /\ queueSize' \in [Queues -> Nat]
  BY <1>1, <1>7 DEF Counted, f
<1>9. QED  BY <1>1, <1>5, <1>8 DEF Counted, g

LEMMA PushCounted ==
  ASSUME Inv, Inv', Counted, NEW q \in Queues, Push(q)
  PROVE  Counted'
<1> DEFINE waiting == {s \in Senders : queue[q][s] # <<>>}
           op(s) == Taken(queue[q][s]).op
           ops == {op(s) : s \in waiting}
           f == Lengths(q)
           g == Lengths(q)'
<1>1. /\ queueSize' = [queueSize EXCEPT ![q] = @ - Cardinality(ops)]
      /\ queue' = [queue EXCEPT ![q] =
                     [s \in Senders |-> IF s \in waiting THEN Taken(queue[q][s]).rest ELSE queue[q][s]]]
  BY DEF Push, SizeWithout, Inv, Types
<1>2. ASSUME NEW s \in waiting
      PROVE  op(s).sender = s /\ Len(queue[q][s]) # 0 /\ Len(queue'[q][s]) = Len(queue[q][s]) - 1
  <2>1. queue[q][s] \in Seq(Ops) /\ queue[q][s] # <<>>
    BY DEF Inv, Types
  <2>2. 1 \in DOMAIN queue[q][s] /\ op(s) = queue[q][s][1]
    BY <2>1 DEF Taken
  <2>3. queue'[q][s] = Tail(queue[q][s])
    BY <1>1 DEF Inv, Types, Taken
  <2>4. Len(Tail(queue[q][s])) = Len(queue[q][s]) - 1 /\ Len(queue[q][s]) # 0
    BY <2>1
  <2>5. QED  BY <2>2, <2>3, <2>4 DEF Inv, Placed
<1>3. \A s \in Senders \ waiting : queue'[q][s] = queue[q][s]
  BY <1>1 DEF Inv, Types
<1>4. IsFiniteSet(waiting) /\ Cardinality(ops) = Cardinality(waiting)
  <2> DEFINE first == [s \in waiting |-> op(s)]
  <2>1. first \in [waiting -> ops] /\ \A o \in ops : \E s \in waiting : first[s] = o
    OBVIOUS
  <2>2. \A s, t \in waiting : first[s] = first[t] => s = t
    BY <1>2
  <2>3. IsFiniteSet(waiting)
    BY FS_Subset, QueueAssumption DEF QueueAssumption
  <2> HIDE DEF first, ops, waiting
  <2>4. ExistsBijection(waiting, ops)
    BY <2>1, <2>2 DEF ExistsBijection, Bijection, Injection, Surjection, IsInjective
  <2>5. QED  BY <2>3, <2>4, FS_Bijection
<1>5. f \in [Senders -> Nat] /\ g \in [Senders -> Nat] /\ Total(f) \in Nat /\ Total(g) \in Nat
  <2>1. queue[q] \in [Senders -> Seq(Ops)] /\ queue'[q] \in [Senders -> Seq(Ops)]
    BY DEF Inv, Types
  <2>2. QED  BY <2>1, LengthsType DEF Lengths
<1>6. /\ \A s \in waiting : f[s] # 0 /\ g[s] = f[s] - 1
      /\ \A s \in Senders \ waiting : g[s] = f[s]
  BY <1>2, <1>3 DEF Lengths
<1>7. \A r \in Queues : r # q => Lengths(r)' = Lengths(r)
  BY <1>1 DEF Lengths, Inv, Types
<1>8. waiting \in SUBSET Senders
  OBVIOUS
<1> HIDE DEF f, g, waiting, ops
<1>9. Total(g) = Total(f) - Cardinality(waiting)
  BY <1>5, <1>6, <1>8, TotalOneLess, QueueAssumption DEF QueueAssumption
<1>10. queueSize'[q] = Total(g) /\ queueSize' \in [Queues -> Nat]
  <2>1. queueSize[q] = Total(f)
    BY DEF Counted, f
  <2>2. queueSize[q] - Cardinality(ops) = Total(g)
    BY <1>4, <1>9, <2>1
  <2>3. QED  BY <1>1, <1>5, <2>2 DEF Counted
<1>11. QED  BY <1>1, <1>7, <1>10 DEF Counted, g

LEMMA InitCounted == Init => Counted /\ Clocks
<1> SUFFICES ASSUME Init PROVE Counted /\ Clocks
  OBVIOUS
<1>1. IDLE_TIME \in Nat
  BY QueueAssumption DEF QueueAssumption
<1>2. Clocks
  BY <1>1 DEF Init, Clocks
<1>3. ASSUME NEW q \in Queues PROVE Total(Lengths(q)) = 0
  <2>1. Lengths(q) \in [Senders -> Nat] /\ \A s \in Senders : Lengths(q)[s] = 0
    BY DEF Init, Lengths
  <2>2. QED  BY <2>1, TotalZero
<1>4. Counted
  BY <1>3 DEF Init, Counted
<1>5. QED  BY <1>2, <1>4

LEMMA NextCounted == Inv /\ Inv' /\ Counted /\ Clocks /\ [Next]_vars => Counted' /\ Clocks'
<1> SUFFICES ASSUME Inv, Inv', Counted, Clocks, [Next]_vars PROVE Counted' /\ Clocks'
  OBVIOUS
<1>1. IDLE_TIME \in Nat
  BY QueueAssumption DEF QueueAssumption
<1>2. ASSUME UNCHANGED <<queue, queueSize>> PROVE Counted'
  BY <1>2 DEF Counted, Lengths
<1>3. ASSUME UNCHANGED <<age, timer>> PROVE Clocks'
  BY <1>3 DEF Clocks
<1>4. ASSUME NEW q \in Queues, NEW s \in Senders, Enqueue(q, s) PROVE Counted' /\ Clocks'
  <2>1. Counted'
    BY <1>4, EnqueueCounted
  <2>2. age' = [age EXCEPT ![q] = 0] /\ timer' = timer
    BY <1>4 DEF Enqueue
  <2>3. QED  BY <1>1, <2>1, <2>2 DEF Clocks
<1>5. ASSUME NEW q \in Queues, NEW on \in BOOLEAN, SetTimer(q, on) PROVE Counted' /\ Clocks'
  BY <1>2, <1>5 DEF SetTimer, Clocks
<1>6. ASSUME NEW q \in Queues, Push(q) PROVE Counted' /\ Clocks'
  <2>1. Counted'
    BY <1>6, PushCounted
  <2>2. UNCHANGED <<age, timer>>
    BY <1>6 DEF Push
  <2>3. QED  BY <1>3, <2>1, <2>2
<1>7. ASSUME NEW p \in pushes, Answers(p) PROVE Counted' /\ Clocks'
  BY <1>2, <1>3, <1>7 DEF Answers, SignerAnswers, HandleOpsSent, WaitEnds, PushFails
<1>8. CASE Mine
  BY <1>2, <1>3, <1>8 DEF Mine
<1>9. CASE Wait
  <2>1. UNCHANGED <<queue, queueSize, timer>>
        /\ age' = [q \in Queues |-> IF age[q] < IDLE_TIME THEN age[q] + 1 ELSE IDLE_TIME]
    BY <1>9 DEF Wait
  <2>2. age' \in [Queues -> 0..IDLE_TIME]
    BY <1>1, <2>1 DEF Clocks
  <2>3. QED  BY <1>2, <2>1, <2>2 DEF Clocks
<1>10. CASE UNCHANGED vars
  BY <1>2, <1>3, <1>10 DEF vars
<1>11. QED
  BY <1>4, <1>5, <1>6, <1>7, <1>8, <1>9, <1>10 DEF Next

(***************************************************************************)
(* queueSize is the number of the operations that wait, for any number of  *)
(* queues and senders, whichever pushes fail; and the types.               *)
(***************************************************************************)
THEOREM SizeExact == Spec => []TypeOK
<1>1. Inv /\ Counted /\ Clocks => TypeOK
  BY DEF Inv, Types, Counted, Clocks, Lengths, Ops, Stages, TypeOK
<1>2. Init => Inv /\ Counted /\ Clocks
  BY InitInv, InitCounted
<1>3. Inv /\ Counted /\ Clocks /\ [Next]_vars => (Inv /\ Counted /\ Clocks)'
  BY NextInv, NextCounted
<1>4. QED  BY <1>1, <1>2, <1>3, PTL DEF Spec
===========================================================================

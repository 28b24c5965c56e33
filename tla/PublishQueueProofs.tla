-------------------------- MODULE PublishQueueProofs --------------------------
(***************************************************************************)
(* Proofs about PublishQueue, for any number of messages and publish tasks *)
(* and any size of a task's buffer.                                        *)
(***************************************************************************)
EXTENDS PublishQueue, QueueLemmas

Taking(t) == Range(buffer[t])

\* What a task holds was published before what is in the store, and after
\* what the task has handed over.
Ordered ==
    /\ Increasing(queue)
    /\ \A t \in Tasks :
          /\ Increasing(buffer[t])
          /\ \A m \in Taking(t) \cup Range(queue) : last[t] < m
          /\ \A m \in Taking(t), n \in Range(queue) : m < n

\* Messages are published in order; what is late or was handed over was
\* published.
PublishedInOrder ==
    /\ \A m, n \in Messages : outcome[m] = "idle" /\ m < n => outcome[n] = "idle"
    /\ \A m \in Messages : m <= late => outcome[m] # "idle"
    /\ \A t \in Tasks : last[t] \in Messages => outcome[last[t]] # "idle"

\* A task holds messages only to send them.
BuffersAreSent == \A t \in Tasks : buffer[t] # <<>> <=> pc[t] = "send"

\* The inductive invariant.  That no message is held twice depends on the
\* order: the expired ones are where the store looks for them.
IInv ==
    /\ TypeOK
    /\ PendingIsHeld
    /\ NoLostWakeup
    /\ Ordered
    /\ PublishedInOrder
    /\ BuffersAreSent

-----------------------------------------------------------------------------
(* The store.                                                              *)

LEMMA MessageNumbers ==
  /\ Messages \subseteq Nat \ {0} /\ Seq(Messages) \subseteq Seq(Nat)
  /\ 0..NumMessages = Messages \cup {0}
<1>1. Messages \subseteq Nat \ {0} /\ 0..NumMessages = Messages \cup {0}
  BY QueueAssumption DEF Messages
<1> QED
  BY <1>1, SeqMonotonic

\* Only what is expired is popped, and all of it.
LEMMA PrunedQueue ==
  ASSUME NEW q \in Seq(Messages), Increasing(q), late \in Nat
  PROVE  /\ Pruned(q) \in Seq(Messages) /\ Increasing(Pruned(q))
         /\ Range(Pruned(q)) = {m \in Range(q) : ~Expired(m)}
<1> DEFINE live == {i \in DOMAIN q : ~Expired(q[i])}
<1>1. /\ Len(q) \in Nat /\ DOMAIN q = 1..Len(q) /\ q \in Seq(Nat)
      /\ \A i \in DOMAIN q : q[i] \in Nat
  BY LenProperties, MessageNumbers, ElementOfSeq
<1>2. CASE live = {}
  <2>1. Pruned(q) = <<>>
    BY <1>2 DEF Pruned
  <2>2. {m \in Range(q) : ~Expired(m)} = {}
    BY <1>2 DEF Range
  <2>3. <<>> \in Seq(Messages) /\ Increasing(<<>>) /\ Range(<<>>) = {}
    BY DEF Increasing, Range
  <2> QED
    BY <2>1, <2>2, <2>3
<1>3. CASE live # {}
  <2> DEFINE i == Min(live)
             n == i - 1
             a == SubSeq(q, 1, n)
             b == SubSeq(q, n + 1, Len(q))
  <2>1. i \in live /\ \A j \in live : i <= j
    <3>1. live \subseteq Nat
      BY <1>1
    <3> HIDE DEF live
    <3> QED
      BY <1>3, <3>1, LeastOf
  <2>2. n \in 0..Len(q) /\ n + 1 = i
    BY <1>1, <2>1
  <2>3. Pruned(q) = b
    BY <1>3, <2>2 DEF Pruned
  <2> HIDE DEF i
  <2>4. b \in Seq(Messages) /\ Increasing(b)
    BY <1>1, <2>2, CutAt, IncreasingCut
  <2>5. Range(q) = Range(a) \cup Range(b)
    BY <2>2, CutAt
  <2>6. \A m \in Range(a) : Expired(m)
    <3>1. ASSUME NEW j \in 1..n PROVE j \in DOMAIN q /\ j \notin live /\ a[j] = q[j]
      <4>1. j \in DOMAIN q /\ a[j] = q[j]
        BY <2>2, CutAt
      <4>2. ~(i <= j)
        BY <1>1, <2>1, <2>2
      <4> QED
        BY <2>1, <4>1, <4>2
    <3>2. DOMAIN a = 1..n
      BY <2>2, CutAt
    <3> QED
      BY <3>1, <3>2 DEF Range
  <2>7. \A m \in Range(b) : ~Expired(m)
    <3>1. ASSUME NEW j \in DOMAIN b PROVE ~Expired(b[j])
      <4>1. n + j \in DOMAIN q /\ b[j] = q[n + j] /\ n + j \notin 1..n
        BY <2>2, CutAt
      <4>2. n + j = i \/ i < n + j
        BY <1>1, <2>1, <2>2, <4>1
      <4>3. q[n + j] = q[i] \/ q[i] < q[n + j]
        BY <2>1, <4>1, <4>2 DEF Increasing
      <4>4. ~(q[i] <= late) /\ q[i] \in Nat /\ q[n + j] \in Nat
        BY <1>1, <2>1, <4>1 DEF Expired
      <4>5. \A x, y, l \in Nat : ~(x <= l) /\ (y = x \/ x < y) => ~(y <= l)
        OBVIOUS
      <4>6. ~(q[n + j] <= late)
        BY <4>3, <4>4, <4>5
      <4> QED
        BY <4>1, <4>6 DEF Expired
    <3> QED
      BY <3>1 DEF Range
  <2> QED
    BY <2>3, <2>4, <2>5, <2>6, <2>7
<1> QED
  BY <1>2, <1>3

\* A message that is published is greater than all there is.
LEMMA PublishedIsLast ==
  ASSUME IInv, NEW m \in Messages, outcome[m] = "idle"
  PROVE  /\ \A n \in Range(queue) : n < m
         /\ \A t \in Tasks : last[t] < m /\ \A n \in Taking(t) : n < m
         /\ late < m
<1>1. \A n \in Messages : outcome[n] # "idle" => n < m
  BY MessageNumbers DEF IInv, PublishedInOrder
<1>2. \A n \in Range(queue) : n \in Messages /\ outcome[n] # "idle"
  BY RangeOfSeq DEF IInv, PendingIsHeld, TypeOK
<1>3. \A t \in Tasks : \A n \in Taking(t) : n \in Messages /\ outcome[n] # "idle"
  BY RangeOfSeq DEF IInv, PendingIsHeld, TypeOK, Taking
<1>4. m \in Nat \ {0}
  BY MessageNumbers
<1>5. ASSUME NEW t \in Tasks PROVE last[t] < m
  <2>1. last[t] \in Messages \/ last[t] = 0
    BY MessageNumbers DEF IInv, TypeOK
  <2>2. last[t] \in Messages => outcome[last[t]] # "idle"
    BY DEF IInv, PublishedInOrder
  <2>3. CASE last[t] \in Messages
    BY <1>1, <2>2, <2>3
  <2>4. CASE last[t] = 0
    BY <1>4, <2>4
  <2> QED
    BY <2>1, <2>3, <2>4
<1>6. late < m
  <2>1. late \in 0..NumMessages
    BY DEF IInv, TypeOK
  <2>2. ~(m <= late)
    BY DEF IInv, PublishedInOrder
  <2> QED
    BY <1>4, <2>1, <2>2, QueueAssumption
<1> QED
  BY <1>1, <1>2, <1>3, <1>5, <1>6

-----------------------------------------------------------------------------
(* The invariant: what leaves the messages where they are.                 *)

LEMMA InitIInv == Init => IInv
<1> SUFFICES ASSUME Init PROVE IInv
  OBVIOUS
<1>1. \A t \in Tasks : Taking(t) = {} /\ buffer[t] = <<>>
  BY DEF Init, Taking, Range
<1>2. Range(queue) = {} /\ queue = <<>>
  BY DEF Init, Range
<1>3. TypeOK
  <2>1. 0 \in 0..NumMessages /\ 0 <= Capacity
    BY QueueAssumption
  <2>2. <<>> \in Seq(Messages) /\ Len(<<>>) = 0
    BY EmptySeq
  <2>3. \A t \in Tasks : Len(buffer[t]) <= Capacity
    BY <1>1, <2>1, <2>2
  <2> HIDE QueueAssumption
  <2> QED
    BY <2>1, <2>2, <2>3 DEF Init, TypeOK
<1>4. PendingIsHeld /\ NoLostWakeup /\ BuffersAreSent
  BY <1>1, <1>2 DEF Init, PendingIsHeld, NoLostWakeup, BuffersAreSent, Taking
<1>5. Ordered
  BY <1>1, <1>2 DEF Ordered, Increasing
<1>6. PublishedInOrder
  BY QueueAssumption DEF Init, PublishedInOrder, Messages
<1> QED
  BY <1>3, <1>4, <1>5, <1>6 DEF IInv

\* Nothing moves; a task that is over forgets what it has handed over.
LEMMA NothingMoves ==
  ASSUME IInv, UNCHANGED <<queue, buffer, outcome, late>>,
         \A t \in Tasks : last'[t] \in {last[t], 0}
  PROVE  PendingIsHeld' /\ Ordered' /\ PublishedInOrder'
<1>1. PendingIsHeld'
  BY DEF IInv, PendingIsHeld
<1>2. \A t \in Tasks : \A m \in Taking(t) \cup Range(queue) : 0 < m
  <2>1. \A t \in Tasks : Taking(t) \subseteq Messages
    BY RangeOfSeq DEF IInv, TypeOK, Taking
  <2>2. Range(queue) \subseteq Messages
    BY RangeOfSeq DEF IInv, TypeOK
  <2>3. \A m \in Messages : 0 < m
    BY MessageNumbers
  <2> QED
    BY <2>1, <2>2, <2>3
<1>3. Ordered'
  BY <1>2 DEF IInv, Ordered, Taking
<1>4. PublishedInOrder'
  <2>1. 0 \notin Messages
    BY MessageNumbers
  <2> QED
    BY <2>1 DEF IInv, PublishedInOrder
<1> QED
  BY <1>1, <1>3, <1>4

\* What a task leaves behind.
LEMMA EndedTask ==
  ASSUME TypeOK, NEW t \in Tasks, TaskEnds(t)
  PROVE  /\ pc' \in [Tasks -> {"idle", "start", "fill", "wait", "send"}]
         /\ signal' \in [Tasks -> BOOLEAN]
         /\ link' \in [Tasks -> {"live", "lost"}]
         /\ last' \in [Tasks -> 0..NumMessages]
         /\ \A u \in Tasks : last'[u] \in {last[u], 0}
<1>1. 0 \in 0..NumMessages
  BY MessageNumbers
<1> QED
  BY <1>1 DEF TypeOK, TaskEnds

\* The actions of which this is true.
LEMMA QuietStep ==
  ASSUME IInv,
         \/ OpenStore
         \/ \E t \in Tasks : \/ SpawnTask(t) \/ LinkLost(t)
                             \/ Reset(t) \/ Wake(t) \/ Retire(t)
  PROVE  IInv'
<1>1. CASE OpenStore
  <2>1. queue' = queue
    BY <1>1 DEF OpenStore, Kept, IInv, TypeOK
  <2>2. PendingIsHeld' /\ Ordered' /\ PublishedInOrder'
    BY <1>1, <2>1, NothingMoves DEF OpenStore
  <2>3. TypeOK' /\ NoLostWakeup' /\ BuffersAreSent'
    BY <1>1, <2>1 DEF OpenStore, IInv, TypeOK, NoLostWakeup, BuffersAreSent
  <2> QED
    BY <2>2, <2>3 DEF IInv
<1>2. ASSUME NEW t \in Tasks, SpawnTask(t) PROVE IInv'
  <2>1. PendingIsHeld' /\ Ordered' /\ PublishedInOrder'
    BY <1>2, NothingMoves DEF SpawnTask, store
  <2>2. TypeOK'
    BY <1>2 DEF SpawnTask, store, IInv, TypeOK
  <2>3. NoLostWakeup' /\ BuffersAreSent'
    BY <1>2 DEF SpawnTask, store, IInv, TypeOK, NoLostWakeup, BuffersAreSent
  <2> QED
    BY <2>1, <2>2, <2>3 DEF IInv
<1>3. ASSUME NEW t \in Tasks, LinkLost(t) PROVE IInv'
  <2>1. PendingIsHeld' /\ Ordered' /\ PublishedInOrder'
    BY <1>3, NothingMoves DEF LinkLost, store
  <2>2. TypeOK'
    BY <1>3 DEF LinkLost, store, IInv, TypeOK
  <2>3. NoLostWakeup' /\ BuffersAreSent'
    BY <1>3 DEF LinkLost, store, IInv, NoLostWakeup, BuffersAreSent
  <2> QED
    BY <2>1, <2>2, <2>3 DEF IInv
<1>4. ASSUME NEW t \in Tasks, Wake(t) PROVE IInv'
  <2>1. PendingIsHeld' /\ Ordered' /\ PublishedInOrder'
    BY <1>4, NothingMoves DEF Wake, store
  <2>2. TypeOK'
    BY <1>4 DEF Wake, store, IInv, TypeOK
  <2>3. NoLostWakeup' /\ BuffersAreSent'
    BY <1>4 DEF Wake, store, IInv, TypeOK, NoLostWakeup, BuffersAreSent
  <2> QED
    BY <2>1, <2>2, <2>3 DEF IInv
<1>5. ASSUME NEW t \in Tasks, Retire(t) PROVE IInv'
  <2>1. PendingIsHeld' /\ Ordered' /\ PublishedInOrder'
    BY <1>5, NothingMoves DEF Retire, TaskEnds, store, IInv, TypeOK
  <2>2. TypeOK'
    BY <1>5, EndedTask DEF Retire, store, IInv, TypeOK
  <2>3. NoLostWakeup' /\ BuffersAreSent'
    BY <1>5 DEF Retire, TaskEnds, store, IInv, TypeOK, NoLostWakeup, BuffersAreSent
  <2> QED
    BY <2>1, <2>2, <2>3 DEF IInv
<1>6. ASSUME NEW t \in Tasks, Reset(t) PROVE IInv'
  <2>1. PendingIsHeld' /\ Ordered' /\ PublishedInOrder'
    BY <1>6, NothingMoves DEF Reset, TaskEnds, IInv, TypeOK
  <2>2. TypeOK'
    <3>1. CASE isOpen /\ listener' = t /\ UNCHANGED <<signal, link, last>>
      BY <1>6, <3>1 DEF Reset, IInv, TypeOK
    <3>2. CASE ~isOpen /\ TaskEnds(t) /\ UNCHANGED listener
      BY <1>6, <3>2, EndedTask DEF Reset, IInv, TypeOK
    <3> QED
      BY <1>6, <3>1, <3>2 DEF Reset
  <2>3. NoLostWakeup' /\ BuffersAreSent'
    BY <1>6 DEF Reset, TaskEnds, IInv, TypeOK, NoLostWakeup, BuffersAreSent
  <2> QED
    BY <2>1, <2>2, <2>3 DEF IInv
<1> QED
  BY <1>1, <1>2, <1>3, <1>4, <1>5, <1>6

-----------------------------------------------------------------------------
(* The invariant: messages on their way.                                   *)

LEMMA ElapseStep == ASSUME IInv, Elapse PROVE IInv'
<1>1. /\ PendingIsHeld' /\ NoLostWakeup' /\ Ordered' /\ BuffersAreSent'
  BY DEF Elapse, store, IInv, PendingIsHeld, NoLostWakeup, Ordered, Taking,
         BuffersAreSent
<1>2. /\ late' \in 0..NumMessages
      /\ \A m \in Messages : m <= late' => m <= late \/ m = late + 1
  <2>1. late \in 0..NumMessages
    BY DEF IInv, TypeOK
  <2>2. late < NumMessages /\ late' = late + 1
    BY DEF Elapse
  <2> QED
    BY <2>1, <2>2, QueueAssumption DEF Messages
<1>3. TypeOK'
  BY <1>2 DEF Elapse, store, IInv, TypeOK
<1>4. PublishedInOrder'
  BY <1>2 DEF Elapse, store, IInv, PublishedInOrder
<1> QED
  BY <1>1, <1>3, <1>4 DEF IInv

LEMMA CloseStoreStep == ASSUME IInv, CloseStore PROVE IInv'
<1>1. Range(queue') = {} /\ Increasing(queue') /\ queue' = <<>>
  BY DEF CloseStore, Range, Increasing
<1>2. Range(queue) \subseteq Messages
  BY RangeOfSeq DEF IInv, TypeOK
<1>3. \A m \in Messages :
         outcome'[m] = IF m \in Range(queue) THEN "dropped" ELSE outcome[m]
  BY DEF CloseStore, Become
<1>4. TypeOK'
  <2>1. outcome' \in [Messages -> {"idle", "pending", "Timeout", "Closed",
                                   "dropped", "handed over"}]
    BY DEF CloseStore, Become, IInv, TypeOK
  <2>2. queue' \in Seq(Messages)
    BY <1>1, EmptySeq
  <2> QED
    BY <1>1, <2>1, <2>2 DEF CloseStore, IInv, TypeOK
<1>5. PendingIsHeld'
  BY <1>1, <1>3 DEF CloseStore, IInv, PendingIsHeld
<1>6. NoLostWakeup' /\ BuffersAreSent'
  BY <1>1 DEF CloseStore, IInv, NoLostWakeup, BuffersAreSent
<1>7. Ordered'
  BY <1>1 DEF CloseStore, IInv, Ordered, Taking
<1>8. PublishedInOrder'
  <2>1. \A m \in Messages : outcome'[m] = "idle" <=> outcome[m] = "idle"
    BY <1>3 DEF IInv, PendingIsHeld
  <2> QED
    BY <2>1 DEF CloseStore, IInv, PublishedInOrder
<1> QED
  BY <1>4, <1>5, <1>6, <1>7, <1>8 DEF IInv

\* What a publish() does to the queue of an open store.
LEMMA PublishedQueue ==
  ASSUME IInv, NEW m \in Messages, outcome[m] = "idle"
  PROVE  /\ Pruned(Append(queue, m)) \in Seq(Messages)
         /\ Increasing(Pruned(Append(queue, m)))
         /\ Range(Pruned(Append(queue, m))) =
               (Range(queue) \ ExpiredIn(queue)) \cup {m}
         /\ m \notin Range(queue)
<1>1. /\ queue \in Seq(Messages) /\ Increasing(queue) /\ late \in Nat
      /\ queue \in Seq(Nat) /\ m \in Nat
  <2>1. queue \in Seq(Messages) /\ late \in 0..NumMessages /\ Increasing(queue)
    BY DEF IInv, TypeOK, Ordered
  <2>2. queue \in Seq(Nat) /\ m \in Nat
    BY <2>1, MessageNumbers
  <2> QED
    BY <2>1, <2>2, QueueAssumption
<1>2. /\ Append(queue, m) \in Seq(Messages)
      /\ Range(Append(queue, m)) = Range(queue) \cup {m}
  BY <1>1, AppendTo
<1>3. Increasing(Append(queue, m))
  BY <1>1, PublishedIsLast, IncreasingAppend
<1>4. ~Expired(m) /\ m \notin Range(queue)
  <2>1. late < m /\ \A n \in Range(queue) : n < m
    BY PublishedIsLast
  <2> QED
    BY <1>1, <2>1 DEF Expired
<1> QED
  BY <1>1, <1>2, <1>3, <1>4, PrunedQueue DEF ExpiredIn

LEMMA PublishStep ==
  ASSUME IInv, NEW m \in Messages, Publish(m)
  PROVE  IInv'
<1>1. outcome[m] = "idle" /\ \A n \in 1..(m - 1) : outcome[n] # "idle"
  BY DEF Publish
<1>2. \A n \in Messages : n < m => outcome[n] # "idle"
  BY <1>1 DEF Messages
<1>3. UNCHANGED <<isOpen, listener, late, pc, buffer, link, last>>
  BY DEF Publish
<1>4. ASSUME outcome'[m] # "idle",
             \A n \in Messages : n # m => (outcome'[n] = "idle" <=> outcome[n] = "idle")
      PROVE  PublishedInOrder'
  <2>1. ASSUME NEW i \in Messages, NEW n \in Messages, outcome'[i] = "idle", i < n
        PROVE  outcome'[n] = "idle"
    <3>1. i # m /\ outcome[i] = "idle" /\ outcome[n] = "idle"
      BY <1>4, <2>1 DEF IInv, PublishedInOrder
    <3>2. n # m
      BY <1>2, <2>1, <3>1
    <3> QED
      BY <1>4, <3>1, <3>2
  <2> QED
    BY <1>3, <1>4, <2>1 DEF IInv, PublishedInOrder
<1>5. \A t \in Tasks : m \notin Taking(t)
  BY <1>1 DEF IInv, PendingIsHeld, Taking
<1>6. CASE /\ isOpen
           /\ queue' = Pruned(Append(queue, m))
           /\ outcome' = [Become(ExpiredIn(queue), "Timeout") EXCEPT ![m] = "pending"]
           /\ signal' = Signalled
  <2>1. /\ queue' \in Seq(Messages) /\ Increasing(queue')
        /\ Range(queue') = (Range(queue) \ ExpiredIn(queue)) \cup {m}
        /\ m \notin Range(queue)
    BY <1>1, <1>6, PublishedQueue
  <2>2. /\ outcome'[m] = "pending"
        /\ \A n \in Messages : n # m =>
              outcome'[n] = IF n \in ExpiredIn(queue) THEN "Timeout" ELSE outcome[n]
    BY <1>6 DEF Become
  <2>3. TypeOK'
    <3>1. outcome' \in [Messages -> {"idle", "pending", "Timeout", "Closed",
                                     "dropped", "handed over"}]
      BY <1>6 DEF Become, IInv, TypeOK
    <3>2. signal' \in [Tasks -> BOOLEAN]
      BY <1>6 DEF Signalled, IInv, TypeOK
    <3> QED
      BY <1>3, <1>6, <2>1, <3>1, <3>2 DEF IInv, TypeOK
  <2>4. PendingIsHeld'
    <3>1. \A n \in ExpiredIn(queue) :
             n \in Range(queue) /\ \A t \in Tasks : n \notin Taking(t)
      BY DEF ExpiredIn, IInv, PendingIsHeld, Taking
    <3>2. \A n \in Messages : outcome'[n] = "pending" <=>
             n \in Range(queue') \/ \E t \in Tasks : n \in Taking(t)
      BY <1>5, <2>1, <2>2, <3>1 DEF IInv, PendingIsHeld, Taking
    <3> QED
      BY <1>3, <1>5, <2>1, <3>2 DEF IInv, PendingIsHeld, Taking
  <2>5. NoLostWakeup'
    BY <1>3, <1>6 DEF Signalled, NoLostWakeup, IInv, TypeOK
  <2>6. Ordered'
    <3>1. \A t \in Tasks : last[t] < m /\ \A n \in Taking(t) : n < m
      BY <1>1, PublishedIsLast
    <3> QED
      BY <1>3, <2>1, <3>1 DEF IInv, Ordered, Taking
  <2>7. PublishedInOrder'
    <3>1. \A n \in ExpiredIn(queue) : n \in Messages => outcome[n] = "pending"
      BY DEF ExpiredIn, IInv, PendingIsHeld
    <3> QED
      BY <1>4, <2>2, <3>1
  <2>8. BuffersAreSent'
    BY <1>3 DEF IInv, BuffersAreSent
  <2> QED
    BY <2>3, <2>4, <2>5, <2>6, <2>7, <2>8 DEF IInv
<1>7. CASE ~isOpen /\ outcome' = Become({m}, "Closed") /\ UNCHANGED <<queue, signal>>
  <2>1. /\ outcome'[m] = "Closed"
        /\ \A n \in Messages : n # m => outcome'[n] = outcome[n]
    BY <1>7 DEF Become
  <2>2. TypeOK'
    BY <1>3, <1>7 DEF Become, IInv, TypeOK
  <2>3. PendingIsHeld'
    BY <1>1, <1>3, <1>7, <2>1 DEF IInv, PendingIsHeld
  <2>4. Ordered' /\ NoLostWakeup' /\ BuffersAreSent'
    BY <1>3, <1>7 DEF IInv, Ordered, Taking, NoLostWakeup, BuffersAreSent
  <2>5. PublishedInOrder'
    BY <1>4, <2>1
  <2> QED
    BY <2>2, <2>3, <2>4, <2>5 DEF IInv
<1> QED
  BY <1>6, <1>7 DEF Publish

\* The two parts of a queue that a task takes from.
LEMMA FilledBuffer ==
  ASSUME NEW q \in Seq(Messages), Increasing(q)
  PROVE  LET n == Taken(q)
             a == SubSeq(q, 1, n)
             b == SubSeq(q, n + 1, Len(q))
         IN  /\ n \in Nat /\ Len(a) = n /\ n <= Capacity
             /\ n = 0 => b = <<>>
             /\ a \in Seq(Messages) /\ Increasing(a)
             /\ b \in Seq(Messages) /\ Increasing(b)
             /\ Range(q) = Range(a) \cup Range(b)
             /\ \A m \in Range(a), k \in Range(b) : m < k
<1> DEFINE n == Taken(q)
<1>1. Len(q) \in Nat /\ q \in Seq(Nat)
  BY LenProperties, MessageNumbers
<1>2. n \in 0..Len(q) /\ n <= Capacity /\ (n = 0 => Len(q) = 0)
  BY <1>1, QueueAssumption DEF Taken
<1> HIDE DEF n
<1>3. n = 0 => SubSeq(q, n + 1, Len(q)) = <<>>
  BY <1>1, <1>2, SubSeqEmpty
<1> QED
  BY <1>1, <1>2, <1>3, CutAt, IncreasingCut DEF n

LEMMA FillStep ==
  ASSUME IInv, NEW t \in Tasks, Fill(t)
  PROVE  IInv'
<1>1. pc[t] = "fill" /\ buffer[t] = <<>> /\ UNCHANGED <<isOpen, listener, late>>
  BY DEF Fill, IInv, BuffersAreSent
<1>2. CASE ~isOpen /\ TaskEnds(t) /\ UNCHANGED <<buffer, queue, outcome>>
  <2>1. PendingIsHeld' /\ Ordered' /\ PublishedInOrder'
    BY <1>1, <1>2, EndedTask, NothingMoves DEF IInv
  <2>2. TypeOK'
    BY <1>1, <1>2, EndedTask DEF IInv, TypeOK
  <2>3. NoLostWakeup' /\ BuffersAreSent'
    BY <1>1, <1>2 DEF TaskEnds, IInv, TypeOK, NoLostWakeup, BuffersAreSent
  <2> QED
    BY <2>1, <2>2, <2>3 DEF IInv
<1>3. CASE isOpen /\ ~(~isOpen /\ TaskEnds(t) /\ UNCHANGED <<buffer, queue, outcome>>)
  <2> DEFINE live == Pruned(queue)
             n == Taken(live)
             a == SubSeq(live, 1, n)
             b == SubSeq(live, n + 1, Len(live))
  <2>1. /\ buffer' = [buffer EXCEPT ![t] = a]
        /\ queue' = b
        /\ pc' = [pc EXCEPT ![t] = IF n = 0 THEN "wait" ELSE "send"]
        /\ outcome' = Become(ExpiredIn(queue), "Timeout")
        /\ UNCHANGED <<signal, link, last>>
    BY <1>3 DEF Fill
  <2>2. live \in Seq(Messages) /\ Increasing(live)
        /\ Range(live) = Range(queue) \ ExpiredIn(queue)
    <3>1. queue \in Seq(Messages) /\ Increasing(queue) /\ late \in 0..NumMessages
      BY DEF IInv, TypeOK, Ordered
    <3> QED
      BY <3>1, QueueAssumption, PrunedQueue DEF ExpiredIn
  <2> HIDE DEF live
  <2>3. /\ n \in Nat /\ Len(a) = n /\ n <= Capacity
        /\ n = 0 => b = <<>>
        /\ a \in Seq(Messages) /\ Increasing(a)
        /\ b \in Seq(Messages) /\ Increasing(b)
        /\ Range(live) = Range(a) \cup Range(b)
        /\ \A m \in Range(a), k \in Range(b) : m < k
    BY <2>2, FilledBuffer
  <2> HIDE DEF n, a, b
  <2>4. /\ buffer'[t] = a /\ \A u \in Tasks : u # t => buffer'[u] = buffer[u]
        /\ buffer' \in [Tasks -> Seq(Messages)]
    BY <2>1, <2>3 DEF IInv, TypeOK
  <2>5. Range(a) \cup Range(b) = Range(queue) \ ExpiredIn(queue)
    BY <2>2, <2>3
  <2>6. Range(a) \cap Range(b) = {}
    <3>1. Range(a) \subseteq Nat
      BY <2>3, RangeOfSeq, MessageNumbers
    <3> QED
      BY <2>3, <3>1
  <2>7. TypeOK'
    <3>1. outcome' \in [Messages -> {"idle", "pending", "Timeout", "Closed",
                                     "dropped", "handed over"}]
      BY <2>1 DEF Become, IInv, TypeOK
    <3>2. pc' \in [Tasks -> {"idle", "start", "fill", "wait", "send"}]
      BY <2>1 DEF IInv, TypeOK
    <3>3. \A u \in Tasks : Len(buffer'[u]) <= Capacity
      BY <2>3, <2>4 DEF IInv, TypeOK
    <3>4. isOpen'
      BY <1>1, <1>3
    <3> QED
      BY <1>1, <2>1, <2>3, <2>4, <3>1, <3>2, <3>3, <3>4 DEF IInv, TypeOK
  <2>8. PendingIsHeld'
    <3>1. \A m \in Messages :
             outcome'[m] = IF m \in ExpiredIn(queue) THEN "Timeout" ELSE outcome[m]
      BY <2>1 DEF Become
    <3>2. Taking(t) = {}
      BY <1>1 DEF Taking, Range
    <3>3. \A u \in Tasks : Taking(u) \cap Range(queue) = {}
      BY DEF IInv, PendingIsHeld, Taking
    <3>4. ExpiredIn(queue) \subseteq Range(queue)
      BY DEF ExpiredIn
    <3>5. \A u \in Tasks : Range(buffer'[u]) = IF u = t THEN Range(a) ELSE Taking(u)
      BY <2>4 DEF Taking
    <3>6. \A m \in Messages : outcome[m] = "pending" <=>
             m \in Range(queue) \/ \E u \in Tasks : m \in Taking(u)
      BY DEF IInv, PendingIsHeld, Taking
    <3>7. \A u, v \in Tasks : u # v => Taking(u) \cap Taking(v) = {}
      BY DEF IInv, PendingIsHeld, Taking
    <3>8. \A m \in Messages : outcome'[m] = "pending" <=>
             m \in Range(b) \/ \E u \in Tasks : m \in Range(buffer'[u])
      <4> SUFFICES ASSUME NEW m \in Messages
                   PROVE  outcome'[m] = "pending" <=>
                            m \in Range(b) \/ \E u \in Tasks : m \in Range(buffer'[u])
        OBVIOUS
      <4>1. (\E u \in Tasks : m \in Range(buffer'[u])) <=>
               m \in Range(a) \/ \E u \in Tasks : m \in Taking(u)
        BY <3>2, <3>5
      <4>2. (\E u \in Tasks : m \in Taking(u)) => m \notin Range(queue)
        BY <3>3
      <4> QED
        BY <2>5, <3>1, <3>4, <3>6, <4>1, <4>2
    <3>9. \A u \in Tasks : Range(buffer'[u]) \cap Range(b) = {}
      BY <2>5, <2>6, <3>3, <3>5
    <3>10. \A u, v \in Tasks : u # v => Range(buffer'[u]) \cap Range(buffer'[v]) = {}
      BY <2>5, <3>3, <3>5, <3>7
    <3> QED
      BY <2>1, <3>8, <3>9, <3>10 DEF PendingIsHeld
  <2>9. NoLostWakeup'
    <3> SUFFICES ASSUME b # <<>>, listener # NoTask, pc'[listener] = "wait"
                 PROVE  signal[listener]
      BY <1>1, <2>1 DEF NoLostWakeup
    <3>1. listener \in Tasks
      BY DEF IInv, TypeOK
    <3>2. listener # t /\ pc[listener] = "wait"
      BY <2>1, <2>3, <3>1 DEF IInv, TypeOK
    <3>3. queue # <<>>
      <4>1. CASE queue = <<>>
        <5>1. Range(b) = {}
          BY <2>5, <4>1 DEF Range
        <5>2. Head(b) \in Range(b)
          BY <2>3, TailOf
        <5> QED
          BY <5>1, <5>2
      <4> QED
        BY <4>1
    <3> QED
      BY <3>2, <3>3 DEF IInv, NoLostWakeup
  <2>10. Ordered'
    <3>1. Range(a) \subseteq Range(queue) /\ Range(b) \subseteq Range(queue)
      BY <2>5
    <3>2. \A u \in Tasks : Increasing(buffer'[u])
      BY <2>3, <2>4 DEF IInv, Ordered
    <3>3. \A u \in Tasks : \A m \in Range(buffer'[u]) \cup Range(b) : last[u] < m
      BY <2>4, <3>1 DEF IInv, Ordered, Taking
    <3>4. \A u \in Tasks : \A m \in Range(buffer'[u]), k \in Range(b) : m < k
      BY <2>3, <2>4, <3>1 DEF IInv, Ordered, Taking
    <3> QED
      BY <2>1, <2>3, <3>2, <3>3, <3>4 DEF Ordered, Taking
  <2>11. PublishedInOrder'
    <3>1. \A m \in ExpiredIn(queue) : m \in Messages => outcome[m] = "pending"
      BY DEF ExpiredIn, IInv, PendingIsHeld
    <3>2. \A m \in Messages : outcome'[m] = "idle" <=> outcome[m] = "idle"
      BY <2>1, <3>1 DEF Become
    <3> QED
      BY <1>1, <2>1, <3>2 DEF IInv, PublishedInOrder
  <2>12. BuffersAreSent'
    <3>1. a # <<>> <=> n # 0
      BY <2>3, EmptySeq, LenProperties
    <3>2. buffer'[t] # <<>> <=> pc'[t] = "send"
      BY <2>1, <2>4, <3>1 DEF IInv, TypeOK
    <3>3. \A u \in Tasks : u # t => (buffer'[u] # <<>> <=> pc'[u] = "send")
      BY <2>1, <2>4 DEF IInv, TypeOK, BuffersAreSent
    <3> QED
      BY <3>2, <3>3 DEF BuffersAreSent
  <2> QED
    BY <2>7, <2>8, <2>9, <2>10, <2>11, <2>12 DEF IInv
<1> QED
  BY <1>2, <1>3 DEF Fill

LEMMA HandOverStep ==
  ASSUME IInv, NEW t \in Tasks, HandOver(t)
  PROVE  IInv'
<1> DEFINE m == Head(buffer[t])
           rest == Tail(buffer[t])
<1>1. /\ pc[t] = "send" /\ buffer[t] # <<>>
      /\ buffer' = [buffer EXCEPT ![t] = rest]
      /\ pc' = [pc EXCEPT ![t] = IF Len(buffer[t]) = 1 THEN "fill" ELSE "send"]
      /\ UNCHANGED <<isOpen, queue, listener, late, signal, link>>
  BY DEF HandOver, AfterSend, store, IInv, BuffersAreSent
<1>2. \/ outcome' = Become({m}, "handed over") /\ last' = [last EXCEPT ![t] = m]
      \/ outcome' = Become({m}, "dropped") /\ UNCHANGED last
  BY DEF HandOver
<1>3. /\ buffer[t] \in Seq(Messages) /\ buffer[t] \in Seq(Nat)
      /\ Increasing(buffer[t]) /\ Len(buffer[t]) <= Capacity
  <2>1. buffer[t] \in Seq(Messages) /\ Increasing(buffer[t]) /\ Len(buffer[t]) <= Capacity
    BY DEF IInv, TypeOK, Ordered
  <2> QED
    BY <2>1, MessageNumbers
<1>4. /\ rest \in Seq(Messages) /\ m \in Messages
      /\ Taking(t) = {m} \cup Range(rest)
      /\ Increasing(rest) /\ \A n \in Range(rest) : m < n
      /\ Len(rest) = Len(buffer[t]) - 1 /\ Len(buffer[t]) \in Nat
  BY <1>1, <1>3, TailOf, IncreasingTail, HeadTailProperties, LenProperties DEF Taking
<1> HIDE DEF m, rest
<1>5. m \in Nat \ {0} /\ m \in 0..NumMessages /\ m \notin Range(rest)
  <2>1. m \in Nat \ {0} /\ m \in 0..NumMessages
    BY <1>4, MessageNumbers
  <2> QED
    BY <1>4, <2>1
<1>6. /\ buffer'[t] = rest /\ \A u \in Tasks : u # t => buffer'[u] = buffer[u]
      /\ \A u \in Tasks : Range(buffer'[u]) = IF u = t THEN Range(rest) ELSE Taking(u)
  BY <1>1 DEF IInv, TypeOK, Taking
<1>7. /\ outcome'[m] \in {"handed over", "dropped"}
      /\ \A n \in Messages : n # m => outcome'[n] = outcome[n]
  BY <1>2, <1>4 DEF Become
<1>8. TypeOK'
  <2>1. outcome' \in [Messages -> {"idle", "pending", "Timeout", "Closed",
                                   "dropped", "handed over"}]
    BY <1>2 DEF Become, IInv, TypeOK
  <2>2. last' \in [Tasks -> 0..NumMessages]
    BY <1>2, <1>5 DEF IInv, TypeOK
  <2>3. pc' \in [Tasks -> {"idle", "start", "fill", "wait", "send"}]
    BY <1>1 DEF IInv, TypeOK
  <2>4. buffer' \in [Tasks -> Seq(Messages)]
    BY <1>1, <1>4 DEF IInv, TypeOK
  <2>5. Len(rest) <= Capacity
    BY <1>3, <1>4, QueueAssumption
  <2>6. \A u \in Tasks : Len(buffer'[u]) <= Capacity
    BY <1>6, <2>5 DEF IInv, TypeOK
  <2> QED
    BY <1>1, <2>1, <2>2, <2>3, <2>4, <2>6 DEF IInv, TypeOK
<1>9. PendingIsHeld'
  <2>1. m \notin Range(queue) /\ \A u \in Tasks : u # t => m \notin Taking(u)
    BY <1>4 DEF IInv, PendingIsHeld, Taking
  <2>2. \A n \in Messages : outcome'[n] = "pending" <=>
           n \in Range(queue) \/ \E u \in Tasks : n \in Range(buffer'[u])
    <3> SUFFICES ASSUME NEW n \in Messages
                 PROVE  outcome'[n] = "pending" <=>
                          n \in Range(queue) \/ \E u \in Tasks : n \in Range(buffer'[u])
      OBVIOUS
    <3>1. CASE n = m
      BY <1>5, <1>6, <1>7, <2>1, <3>1
    <3>2. CASE n # m
      <4>1. (\E u \in Tasks : n \in Range(buffer'[u])) <=> \E u \in Tasks : n \in Taking(u)
        BY <1>4, <1>6, <3>2
      <4> QED
        BY <1>7, <3>2, <4>1 DEF IInv, PendingIsHeld, Taking
    <3> QED
      BY <3>1, <3>2
  <2>3. \A u \in Tasks : Range(buffer'[u]) \subseteq Taking(u)
    BY <1>4, <1>6
  <2> QED
    BY <1>1, <2>2, <2>3 DEF IInv, PendingIsHeld, Taking
<1>10. NoLostWakeup'
  BY <1>1 DEF IInv, TypeOK, NoLostWakeup
<1>11. Ordered'
  <2>1. \A u \in Tasks : Increasing(buffer'[u])
    BY <1>4, <1>6 DEF IInv, Ordered
  <2>2. \A n \in Range(queue) : m < n
    BY <1>4 DEF IInv, Ordered
  <2>3. \A u \in Tasks : \A n \in Range(buffer'[u]) \cup Range(queue) : last'[u] < n
    <3>1. CASE last' = [last EXCEPT ![t] = m]
      <4>1. last'[t] = m /\ \A u \in Tasks : u # t => last'[u] = last[u]
        BY <3>1 DEF IInv, TypeOK
      <4> QED
        BY <1>4, <1>6, <2>2, <4>1 DEF IInv, Ordered
    <3>2. CASE last' = last
      BY <1>4, <1>6, <3>2 DEF IInv, Ordered
    <3> QED
      BY <1>2, <3>1, <3>2
  <2>4. \A u \in Tasks : \A n \in Range(buffer'[u]), k \in Range(queue) : n < k
    BY <1>4, <1>6 DEF IInv, Ordered
  <2> QED
    BY <1>1, <2>1, <2>3, <2>4 DEF IInv, Ordered, Taking
<1>12. PublishedInOrder'
  <2>1. outcome[m] = "pending"
    BY <1>4 DEF IInv, PendingIsHeld, Taking
  <2>2. \A n \in Messages : outcome'[n] = "idle" <=> outcome[n] = "idle"
    BY <1>7, <2>1
  <2>3. \A u \in Tasks : last'[u] = last[u] \/ last'[u] = m
    BY <1>2 DEF IInv, TypeOK
  <2> QED
    BY <1>1, <1>4, <2>1, <2>2, <2>3 DEF IInv, PublishedInOrder
<1>13. BuffersAreSent'
  <2>1. rest # <<>> <=> Len(buffer[t]) # 1
    <3>1. rest = <<>> <=> Len(rest) = 0
      BY <1>4, EmptySeq
    <3> QED
      BY <1>4, <3>1
  <2>2. buffer'[t] # <<>> <=> pc'[t] = "send"
    BY <1>1, <1>6, <2>1 DEF IInv, TypeOK
  <2> QED
    BY <1>1, <1>6, <2>2 DEF IInv, TypeOK, BuffersAreSent
<1> QED
  BY <1>8, <1>9, <1>10, <1>11, <1>12, <1>13 DEF IInv

LEMMA AbortStep ==
  ASSUME IInv, NEW t \in Tasks, Abort(t)
  PROVE  IInv'
<1>1. /\ TaskEnds(t)
      /\ outcome' = Become(Taking(t), "dropped")
      /\ buffer' = [buffer EXCEPT ![t] = <<>>]
      /\ listener' = IF listener = t THEN NoTask ELSE listener
      /\ UNCHANGED <<isOpen, queue, late>>
  BY DEF Abort, Taking
<1>2. /\ \A u \in Tasks : buffer'[u] = IF u = t THEN <<>> ELSE buffer[u]
      /\ \A u \in Tasks : Range(buffer'[u]) = IF u = t THEN {} ELSE Taking(u)
  <2>1. \A u \in Tasks : buffer'[u] = IF u = t THEN <<>> ELSE buffer[u]
    BY <1>1 DEF IInv, TypeOK
  <2>2. Range(<<>>) = {}
    BY DEF Range
  <2> QED
    BY <2>1, <2>2 DEF Taking
<1>3. \A m \in Messages :
         outcome'[m] = IF m \in Taking(t) THEN "dropped" ELSE outcome[m]
  BY <1>1 DEF Become
<1>4. \A u \in Tasks : last'[u] \in {last[u], 0}
  BY <1>1, EndedTask DEF IInv
<1>5. TypeOK'
  <2>1. outcome' \in [Messages -> {"idle", "pending", "Timeout", "Closed",
                                   "dropped", "handed over"}]
    BY <1>1 DEF Become, IInv, TypeOK
  <2>2. buffer' \in [Tasks -> Seq(Messages)]
    BY <1>1, EmptySeq DEF IInv, TypeOK
  <2>3. Len(<<>>) <= Capacity
    BY EmptySeq, QueueAssumption
  <2>4. \A u \in Tasks : Len(buffer'[u]) <= Capacity
    BY <1>1, <2>3 DEF IInv, TypeOK
  <2> QED
    BY <1>1, <2>1, <2>2, <2>4, EndedTask DEF IInv, TypeOK
<1>6. PendingIsHeld'
  <2>1. \A m \in Taking(t) : m \notin Range(queue) /\ \A u \in Tasks : u # t => m \notin Taking(u)
    BY DEF IInv, PendingIsHeld, Taking
  <2>2. \A m \in Messages : outcome[m] = "pending" <=>
           m \in Range(queue) \/ \E u \in Tasks : m \in Taking(u)
    BY DEF IInv, PendingIsHeld, Taking
  <2>3. \A m \in Messages : outcome'[m] = "pending" <=>
           m \in Range(queue) \/ \E u \in Tasks : m \in Range(buffer'[u])
    BY <1>2, <1>3, <2>1, <2>2
  <2>4. \A u \in Tasks : Range(buffer'[u]) \subseteq Taking(u)
    BY <1>2
  <2> QED
    BY <1>1, <2>3, <2>4 DEF IInv, PendingIsHeld, Taking
<1>7. NoLostWakeup'
  BY <1>1 DEF TaskEnds, IInv, TypeOK, NoLostWakeup
<1>8. Ordered'
  <2>1. \A u \in Tasks : Increasing(buffer'[u])
    <3>1. Increasing(<<>>)
      BY DEF Increasing
    <3> QED
      BY <1>2, <3>1 DEF IInv, Ordered
  <2>2. \A u \in Tasks : \A m \in Taking(u) \cup Range(queue) : 0 < m
    <3>1. \A u \in Tasks : Taking(u) \subseteq Messages
      BY RangeOfSeq DEF IInv, TypeOK, Taking
    <3>2. Range(queue) \subseteq Messages
      BY RangeOfSeq DEF IInv, TypeOK
    <3>3. \A m \in Messages : 0 < m
      BY MessageNumbers
    <3> QED
      BY <3>1, <3>2, <3>3
  <2> QED
    BY <1>1, <1>2, <1>4, <2>1, <2>2 DEF IInv, Ordered, Taking
<1>9. PublishedInOrder'
  <2>1. \A m \in Messages : outcome'[m] = "idle" <=> outcome[m] = "idle"
    BY <1>3 DEF IInv, PendingIsHeld, Taking
  <2>2. 0 \notin Messages
    BY MessageNumbers
  <2> QED
    BY <1>1, <1>4, <2>1, <2>2 DEF IInv, PublishedInOrder
<1>10. BuffersAreSent'
  BY <1>1 DEF TaskEnds, IInv, TypeOK, BuffersAreSent
<1> QED
  BY <1>5, <1>6, <1>7, <1>8, <1>9, <1>10 DEF IInv

LEMMA NextKeepsIInv == IInv /\ [Next]_vars => IInv'
<1> SUFFICES ASSUME IInv, [Next]_vars PROVE IInv'
  OBVIOUS
<1>1. CASE UNCHANGED vars
  <2>1. PendingIsHeld' /\ Ordered' /\ PublishedInOrder'
    BY <1>1, NothingMoves DEF vars, store
  <2>2. TypeOK' /\ NoLostWakeup' /\ BuffersAreSent'
    BY <1>1 DEF vars, store, IInv, TypeOK, NoLostWakeup, BuffersAreSent
  <2> QED
    BY <2>1, <2>2 DEF IInv
<1>2. CASE Next
  BY <1>2, QuietStep, ElapseStep, CloseStoreStep, PublishStep, FillStep,
     HandOverStep, AbortStep DEF Next, TaskStep
<1> QED
  BY <1>1, <1>2

-----------------------------------------------------------------------------
(* The theorems.                                                           *)

LEMMA Invariance == Spec => []IInv
<1>1. Init => IInv
  BY InitIInv
<1>2. IInv /\ [Next]_vars => IInv'
  BY NextKeepsIInv
<1> QED
  BY <1>1, <1>2, PTL DEF Spec

\* The types; a store that is gone holds nothing, and no task takes more than
\* MAX_CAPACITY messages at a time.
THEOREM TypeCorrect == Spec => []TypeOK
<1>1. IInv => TypeOK
  BY DEF IInv
<1> QED
  BY <1>1, Invariance, PTL

\* A message that is not answered is held once, in the store or by one publish
\* task: none is lost or sent twice (MessageStore, publish_task).
THEOREM PendingHeld == Spec => []PendingIsHeld
<1>1. IInv => PendingIsHeld
  BY DEF IInv
<1> QED
  BY <1>1, Invariance, PTL

\* The task that listens to the store does not sleep on a message: no ()
\* of the activity channel is lost (MessageStore::send, reset_channel).
THEOREM NoWakeupLost == Spec => []NoLostWakeup
<1>1. IInv => NoLostWakeup
  BY DEF IInv
<1> QED
  BY <1>1, Invariance, PTL

\* Each publish task hands messages over in the order of their publication.
THEOREM InOrder == Spec => []HandedOverInOrder
<1>1. IInv => HandedOverInOrder
  <2> SUFFICES ASSUME IInv, NEW t \in Tasks
               PROVE  LET line == buffer[t] \o queue
                      IN  /\ \A i \in DOMAIN line : last[t] < line[i]
                          /\ \A i, j \in DOMAIN line : i < j => line[i] < line[j]
    BY DEF HandedOverInOrder
  <2> DEFINE line == buffer[t] \o queue
  <2>1. /\ buffer[t] \in Seq(Messages) /\ queue \in Seq(Messages)
        /\ Increasing(buffer[t]) /\ Increasing(queue)
        /\ \A m \in Taking(t) \cup Range(queue) : last[t] < m
        /\ \A m \in Range(buffer[t]), n \in Range(queue) : m < n
    BY DEF IInv, TypeOK, Ordered, Taking
  <2>2. Increasing(line) /\ \A i \in DOMAIN line : line[i] \in Taking(t) \cup Range(queue)
    BY <2>1, MessageNumbers, IncreasingConcat DEF Taking
  <2> HIDE DEF line
  <2>3. /\ \A i \in DOMAIN line : last[t] < line[i]
        /\ \A i, j \in DOMAIN line : i < j => line[i] < line[j]
    BY <2>1, <2>2 DEF Increasing
  <2> QED
    BY <2>3 DEF line
<1> QED
  BY <1>1, Invariance, PTL

\* As long as its owner does not close it, a message leaves the store only for
\* a task's buffer or because it has expired (move_to_connecting keeps the
\* store there is).
THEOREM QueueIsKept == Spec => ReconnectKeepsQueue
<1> DEFINE Keeps == \A m \in Range(queue) :
                      isOpen' => \/ m \in Range(queue') \/ m <= late'
                                 \/ \E t \in Tasks : m \in Range(buffer'[t])
<1>1. IInv /\ [Next]_vars => [Keeps]_vars
  <2> SUFFICES ASSUME IInv, Next, isOpen', NEW m \in Range(queue)
               PROVE  \/ m \in Range(queue') \/ m <= late'
                      \/ \E t \in Tasks : m \in Range(buffer'[t])
    OBVIOUS
  <2>1. CASE UNCHANGED queue
    BY <2>1
  <2>2. CASE OpenStore
    BY <2>2 DEF OpenStore, Kept, IInv, TypeOK
  <2>3. CASE CloseStore
    BY <2>3 DEF CloseStore
  <2>4. ASSUME NEW n \in Messages, Publish(n), queue' # queue
        PROVE  m \in Range(queue') \/ m <= late'
    <3>1. /\ queue' = Pruned(Append(queue, n)) /\ outcome[n] = "idle"
          /\ late' = late
      BY <2>4 DEF Publish
    <3>2. Range(queue') = (Range(queue) \ ExpiredIn(queue)) \cup {n}
      BY <3>1, PublishedQueue
    <3> QED
      BY <3>1, <3>2 DEF ExpiredIn, Expired
  <2>5. ASSUME NEW t \in Tasks, Fill(t), queue' # queue
        PROVE  m \in Range(queue') \/ m <= late' \/ m \in Range(buffer'[t])
    <3> DEFINE live == Pruned(queue)
               n == Taken(live)
    <3>1. /\ buffer' = [buffer EXCEPT ![t] = SubSeq(live, 1, n)]
          /\ queue' = SubSeq(live, n + 1, Len(live)) /\ late' = late
      BY <2>5 DEF Fill
    <3>2. /\ live \in Seq(Messages) /\ Increasing(live)
          /\ Range(live) = Range(queue) \ ExpiredIn(queue)
      <4>1. queue \in Seq(Messages) /\ Increasing(queue) /\ late \in 0..NumMessages
        BY DEF IInv, TypeOK, Ordered
      <4> QED
        BY <4>1, QueueAssumption, PrunedQueue DEF ExpiredIn
    <3> HIDE DEF live
    <3>3. Range(live) = Range(SubSeq(live, 1, n)) \cup Range(SubSeq(live, n + 1, Len(live)))
      BY <3>2, FilledBuffer
    <3>4. buffer'[t] = SubSeq(live, 1, n)
      BY <3>1 DEF IInv, TypeOK
    <3>5. m \in Range(live) \/ m <= late
      BY <3>2 DEF ExpiredIn, Expired
    <3> QED
      BY <3>1, <3>3, <3>4, <3>5
  <2>6. CASE Elapse
    BY <2>6 DEF Elapse, store
  <2>7. ASSUME NEW t \in Tasks,
               \/ SpawnTask(t) \/ LinkLost(t) \/ Abort(t) \/ Reset(t)
               \/ Wake(t) \/ Retire(t) \/ HandOver(t)
        PROVE  UNCHANGED queue
    BY <2>7 DEF SpawnTask, LinkLost, Abort, Reset, Wake, Retire, HandOver, store
  <2> QED
    BY <2>1, <2>2, <2>3, <2>4, <2>5, <2>6, <2>7 DEF Next, TaskStep
<1> QED
  BY <1>1, Invariance, PTL DEF Spec, ReconnectKeepsQueue

=============================================================================

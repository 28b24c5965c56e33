---------------------------- MODULE PublishQueue ----------------------------
(***************************************************************************)
(* A queue of publishes and rpcs: a MessageStore (client.rs), the calls    *)
(* that put messages into it, and the publish tasks that take them out.    *)
(* The client has one store, each subscription another; this module is     *)
(* about one of either kind.                                               *)
(*                                                                         *)
(* The store is created when its owner starts to connect (or subscribe),   *)
(* and dropped when it disconnects (or unsubscribes), whatever the publish *)
(* tasks do meanwhile.  A session starts a publish task for it; the task   *)
(* of an earlier session, or of an earlier subscribe(), may still be       *)
(* there, and looks for the store anew each time it locks the mutex.       *)
(*                                                                         *)
(* Messages are numbered in the order in which they are published.  All    *)
(* have the same timeout, so they expire in that order too.  A message     *)
(* handed over to the control channel is WebSocketHandler's.               *)
(***************************************************************************)
EXTENDS Naturals, SequencesExt

CONSTANTS
    NumMessages,   \* bound: the messages of the queue's life
    Capacity,      \* most messages a task takes at a time (MAX_CAPACITY, 32)
    Tasks,         \* slots: the publish tasks alive at the same time
    NoTask         \* the absent task

ASSUME QueueAssumption ==
    /\ NumMessages \in Nat
    /\ Capacity \in Nat \ {0}
    /\ NoTask \notin Tasks

Messages == 1..NumMessages

VARIABLES
    isOpen,     \* pub_ch_write.is_some()
    queue,      \* MessageStore.messages
    listener,   \* the task that has the receiver of MessageStore.activity
    late,       \* the deadlines of messages 1..late are over
    outcome,    \* what has become of each message
    pc,         \* where each task stands
    buffer,     \* its buffer
    signal,     \* a () waits in its pub_ch_read
    link,       \* its session: "live", or "lost" once the handler has ended
    last        \* the last message it handed over (for properties only)

store == <<isOpen, queue, listener>>
vars == <<store, late, outcome, pc, buffer, signal, link, last>>

TypeOK ==
    /\ isOpen \in BOOLEAN
    /\ queue \in Seq(Messages)
    /\ listener \in Tasks \cup {NoTask}
    /\ late \in 0..NumMessages
    /\ outcome \in [Messages -> {"idle", "pending", "Timeout", "Closed",
                                 "dropped", "handed over"}]
    /\ pc \in [Tasks -> {"idle", "start", "fill", "wait", "send"}]
    /\ buffer \in [Tasks -> Seq(Messages)]
    /\ signal \in [Tasks -> BOOLEAN]
    /\ link \in [Tasks -> {"live", "lost"}]
    /\ last \in [Tasks -> 0..NumMessages]
    /\ isOpen \/ (queue = <<>> /\ listener = NoTask)
    /\ \A t \in Tasks : Len(buffer[t]) <= Capacity

Init ==
    /\ isOpen = FALSE
    /\ queue = <<>>
    /\ listener = NoTask
    /\ late = 0
    /\ outcome = [m \in Messages |-> "idle"]
    /\ pc = [t \in Tasks |-> "idle"]
    /\ buffer = [t \in Tasks |-> <<>>]
    /\ signal = [t \in Tasks |-> FALSE]
    /\ link = [t \in Tasks |-> "lost"]
    /\ last = [t \in Tasks |-> 0]

\* Every message of S comes to o.
Become(S, o) == [m \in Messages |-> IF m \in S THEN o ELSE outcome[m]]

-----------------------------------------------------------------------------
(* MessageStore.                                                           *)

Expired(m) == m <= late

\* check_expiration on the messages at the front: those that are expired.
ExpiredIn(q) == {m \in Range(q) : Expired(m)}

\* A faulty send() that puts the message it has looked at back at the end.
Rotated(q) ==
    LET live == SelectSeq(q, LAMBDA m : ~Expired(m))
    IN  IF live = <<>> THEN live ELSE Tail(live) \o <<Head(live)>>

\* The front of the queue is popped until a message is not expired, which is
\* put back.  (The deadlines are in order: no other message is expired.)
Pruned(q) ==
    LET live == {i \in DOMAIN q : ~Expired(q[i])}
    IN  IF live = {} THEN <<>> ELSE SubSeq(q, Min(live), Len(q))

\* A faulty send() that tells nobody.
NoSignal == signal

\* activity.try_send(()): one () fits in; without a receiver it fails.
Signalled == [t \in Tasks |-> signal[t] \/ t = listener]

-----------------------------------------------------------------------------
(* The owner of the store, and those who publish.                          *)

\* A faulty owner that makes a new store each time.
Fresh == <<>>

\* pub_ch_write is filled in only if it is none.
Kept == IF isOpen THEN queue ELSE <<>>

\* move_to_connecting, move_to_subscribing.  The receiver that comes with a
\* new store is dropped at once.
OpenStore ==
    /\ isOpen' = TRUE
    /\ queue' = Kept
    /\ UNCHANGED <<listener, late, outcome, pc, buffer, signal, link, last>>

\* move_to_disconnected, move_to_unsubscribed: the store is dropped, and with
\* it the reply senders and the sender of its activity channel.
CloseStore ==
    /\ isOpen
    /\ isOpen' = FALSE
    /\ queue' = <<>>
    /\ listener' = NoTask
    /\ outcome' = Become(Range(queue), "dropped")
    /\ UNCHANGED <<late, pc, buffer, signal, link, last>>

\* publish() and rpc(), of the client or of a subscription.
Publish(m) ==
    /\ outcome[m] = "idle"
    /\ \A n \in 1..(m - 1) : outcome[n] # "idle"
    /\ \/ /\ isOpen
          /\ queue' = Pruned(Append(queue, m))
          /\ outcome' = [Become(ExpiredIn(queue), "Timeout")
                           EXCEPT ![m] = "pending"]
          /\ signal' = Signalled
       \/ /\ ~isOpen
          /\ outcome' = Become({m}, "Closed")
          /\ UNCHANGED <<queue, signal>>
    /\ UNCHANGED <<isOpen, listener, late, pc, buffer, link, last>>

\* Time passes, for the oldest message that was published.
Elapse ==
    /\ late < NumMessages /\ outcome[late + 1] # "idle"
    /\ late' = late + 1
    /\ UNCHANGED <<store, outcome, pc, buffer, signal, link, last>>

-----------------------------------------------------------------------------
(* A publish task.                                                         *)

\* A session begins, or a subscribe() was replied to: a task is spawned.
SpawnTask(t) ==
    /\ pc[t] = "idle"
    /\ pc' = [pc EXCEPT ![t] = "start"]
    /\ link' = [link EXCEPT ![t] = "live"]
    /\ UNCHANGED <<store, late, outcome, buffer, signal, last>>

\* The task is over, and with it its receiver.
TaskEnds(t) ==
    /\ pc' = [pc EXCEPT ![t] = "idle"]
    /\ link' = [link EXCEPT ![t] = "lost"]
    /\ signal' = [signal EXCEPT ![t] = FALSE]
    /\ last' = [last EXCEPT ![t] = 0]

\* reset_channel: the store signals this task from now on, and no other.
Reset(t) ==
    /\ pc[t] = "start"
    /\ \/ /\ isOpen
          /\ listener' = t
          /\ pc' = [pc EXCEPT ![t] = "fill"]
          /\ UNCHANGED <<signal, link, last>>
       \/ /\ ~isOpen
          /\ TaskEnds(t)
          /\ UNCHANGED listener
    /\ UNCHANGED <<isOpen, queue, late, outcome, buffer>>

\* A faulty loop that goes one round too far.
TakenOneMore(q) == IF Len(q) <= Capacity THEN Len(q) ELSE Capacity + 1

\* for _ in 0..MAX_CAPACITY, until get_next has nothing more
Taken(q) == IF Len(q) < Capacity THEN Len(q) ELSE Capacity

\* The buffer is filled under the mutex, from whatever store there is.
Fill(t) ==
    /\ pc[t] = "fill"
    /\ \/ /\ isOpen
          /\ LET live == Pruned(queue)
                 n == Taken(live)
             IN  /\ buffer' = [buffer EXCEPT ![t] = SubSeq(live, 1, n)]
                 /\ queue' = SubSeq(live, n + 1, Len(live))
                 /\ pc' = [pc EXCEPT ![t] = IF n = 0 THEN "wait" ELSE "send"]
          /\ outcome' = Become(ExpiredIn(queue), "Timeout")
          /\ UNCHANGED <<signal, link, last>>
       \/ /\ ~isOpen
          /\ TaskEnds(t)
          /\ UNCHANGED <<buffer, queue, outcome>>
    /\ UNCHANGED <<isOpen, listener, late>>

\* pub_ch_read.recv(): a () that is there comes before the channel's end.
Wake(t) ==
    /\ pc[t] = "wait"
    /\ signal[t]
    /\ signal' = [signal EXCEPT ![t] = FALSE]
    /\ pc' = [pc EXCEPT ![t] = "fill"]
    /\ UNCHANGED <<store, late, outcome, buffer, link, last>>

\* Its sender is gone, with the store or because another task has reset it.
Retire(t) ==
    /\ pc[t] = "wait"
    /\ ~signal[t] /\ listener # t
    /\ TaskEnds(t)
    /\ UNCHANGED <<store, late, outcome, buffer>>

\* A faulty task that sleeps once its buffer is sent.
SleepAfterSend == "wait"

\* After its buffer the task looks for more.
AfterSend == "fill"

\* control_write.send(..).await for the next message.  When the handler has
\* ended, it fails, and the message is dropped.
HandOver(t) ==
    /\ pc[t] = "send"
    /\ LET m == Head(buffer[t]) IN
          \/ /\ link[t] = "live"
             /\ outcome' = Become({m}, "handed over")
             /\ last' = [last EXCEPT ![t] = m]
          \/ /\ link[t] = "lost"
             /\ outcome' = Become({m}, "dropped")
             /\ UNCHANGED last
    /\ buffer' = [buffer EXCEPT ![t] = Tail(@)]
    /\ pc' = [pc EXCEPT ![t] =
                IF Len(buffer[t]) = 1 THEN AfterSend ELSE "send"]
    /\ UNCHANGED <<store, late, signal, link>>

\* The handler of the task's session has ended.
LinkLost(t) ==
    /\ pc[t] # "idle" /\ link[t] = "live"
    /\ link' = [link EXCEPT ![t] = "lost"]
    /\ UNCHANGED <<store, late, outcome, pc, buffer, signal, last>>

\* The session's JoinSet is dropped, which aborts the task, with its buffer
\* and its receiver.
Abort(t) ==
    /\ pc[t] # "idle" /\ link[t] = "lost"
    /\ TaskEnds(t)
    /\ outcome' = Become(Range(buffer[t]), "dropped")
    /\ buffer' = [buffer EXCEPT ![t] = <<>>]
    /\ listener' = IF listener = t THEN NoTask ELSE listener
    /\ UNCHANGED <<isOpen, queue, late>>

-----------------------------------------------------------------------------

TaskStep(t) == Reset(t) \/ Fill(t) \/ Wake(t) \/ Retire(t) \/ HandOver(t)

Next ==
    \/ OpenStore
    \/ CloseStore
    \/ \E m \in Messages : Publish(m)
    \/ Elapse
    \/ \E t \in Tasks : TaskStep(t) \/ SpawnTask(t) \/ LinkLost(t) \/ Abort(t)

\* A task that can run is run, and the handler, while it runs, makes room in
\* the control channel.
Fairness == \A t \in Tasks : WF_vars(TaskStep(t))

Spec == Init /\ [][Next]_vars /\ Fairness

-----------------------------------------------------------------------------
(* Properties.                                                             *)

\* A message nobody has answered is in the store or in the buffer of one
\* task, and only there: it is neither forgotten nor sent twice, even when
\* the tasks of two sessions empty the same store.
PendingIsHeld ==
    /\ \A m \in Messages :
          outcome[m] = "pending" <=>
              \/ m \in Range(queue)
              \/ \E t \in Tasks : m \in Range(buffer[t])
    /\ \A t \in Tasks :
          /\ Range(buffer[t]) \cap Range(queue) = {}
          /\ \A u \in Tasks \ {t} : Range(buffer[t]) \cap Range(buffer[u]) = {}

\* The task that listens to the store does not sleep on a message: no signal
\* is lost between its look at the queue and its wait, and none goes to a
\* task that was replaced.
NoLostWakeup ==
    queue # <<>> /\ listener # NoTask =>
        pc[listener] # "wait" \/ signal[listener]

\* Each task hands messages over in the order of their publication, over
\* every store it may come upon, and leaves none behind that is older.
HandedOverInOrder ==
    \A t \in Tasks :
        LET line == buffer[t] \o queue
        IN  /\ \A i \in DOMAIN line : last[t] < line[i]
            /\ \A i, j \in DOMAIN line : i < j => line[i] < line[j]

\* As long as its owner does not close the store, a message leaves it only
\* for a task's buffer or because it has expired: reconnecting keeps it.
ReconnectKeepsQueue ==
    [][\A m \in Range(queue) :
          isOpen' => \/ m \in Range(queue') \/ m <= late'
                     \/ \E t \in Tasks : m \in Range(buffer'[t])]_vars

\* A store that a task listens to does not keep messages: they are taken, in
\* order, until none is left, or the listener is gone.
StoreIsEmptied ==
    \A t \in Tasks :
        queue # <<>> /\ listener = t ~> queue = <<>> \/ listener # t

=============================================================================

-------------------------- MODULE WebSocketHandler --------------------------
(***************************************************************************)
(* websocket_handler (client_handler.rs): one established websocket, its   *)
(* reader and writer tasks, the timer task of each request, and the reply  *)
(* map they share.  It runs from the handshake to the end of the           *)
(* connection; ClientConnection sees only the boolean it returns.          *)
(*                                                                         *)
(* The r-th request put into the control channel is the number r, which    *)
(* also stands for its id on the wire: ids are distinct as long as fewer   *)
(* than 2^32 are in use.  Encoding is left out but for its failure, and so *)
(* are panics, pushes and the callbacks.                                   *)
(***************************************************************************)
EXTENDS FiniteSets, Naturals, SequencesExt

CONSTANTS
    NumRequests,   \* bound: the requests of this connection
    ControlCap,    \* capacity of the control channel (32)
    BatchMax       \* most messages recv_many takes at a time (32)

ASSUME BoundsAssumption ==
    /\ NumRequests \in Nat
    /\ ControlCap \in Nat \ {0}
    /\ BatchMax \in Nat \ {0}

Requests == 1..NumRequests

\* A request's timeout: already over, some time, or Duration::MAX.
Timeouts == {"zero", "finite", "never"}

\* Ok(reply), the ReplyErrors, and a oneshot sender dropped without a word.
Answers == {"reply", "Timeout", "Closed", "InappropriateProtocol", "dropped"}

Verdicts == {"reconnect", "stop"}

VARIABLES
    timeout,     \* each request's timeout, fixed when it is sent
    outcome,     \* what each request's reply channel has delivered
    control,     \* control_ch: messages sent and not yet received
    senders,     \* some sender of control_ch is alive
    batch,       \* the writer's `batch'
    commands,    \* the writer's `commands'
    flight,      \* the message that write_ws.send is busy with
    wire,        \* the commands written so far
    replyMap,    \* the keys of reply_map
    timer,       \* each request's timer task
    pingSlot,    \* a message waits in the ping channel
    closer,      \* the closer channel
    reader,      \* "running", or the verdict the reader task returned
    writer,      \* where the writer task stands
    returned     \* the handler has returned

vars == <<timeout, outcome, control, senders, batch, commands, flight, wire,
          replyMap, timer, pingSlot, closer, reader, writer, returned>>

writerVars == <<batch, commands, flight, wire, writer>>
channelVars == <<timeout, control, senders, closer>>

TypeOK ==
    /\ timeout \in [Requests -> Timeouts]
    /\ outcome \in [Requests -> {"idle", "pending"} \cup Answers]
    /\ control \in Seq(Requests)
    /\ senders \in BOOLEAN
    /\ batch \in Seq(Requests)
    /\ commands \in Seq(Requests)
    /\ flight \in Seq(Requests)
    /\ wire \in Seq(Requests)
    /\ replyMap \subseteq Requests
    /\ timer \in [Requests -> {"none", "armed", "missed"}]
    /\ pingSlot \in BOOLEAN
    /\ closer \in Verdicts \cup {"empty", "closed"}
    /\ reader \in Verdicts \cup {"running"}
    /\ writer \in {"select", "batch", "insert", "sending", "done"}
    /\ returned \in BOOLEAN

Init ==
    /\ timeout = [r \in Requests |-> "finite"]
    /\ outcome = [r \in Requests |-> "idle"]
    /\ control = <<>>
    /\ senders = TRUE
    /\ batch = <<>>
    /\ commands = <<>>
    /\ flight = <<>>
    /\ wire = <<>>
    /\ replyMap = {}
    /\ timer = [r \in Requests |-> "none"]
    /\ pingSlot = FALSE
    /\ closer = "empty"
    /\ reader = "running"
    /\ writer = "select"
    /\ returned = FALSE

\* Every request of S is answered a; an answered one keeps its answer, since
\* its sender is gone.
Answered(S, a) == [r \in Requests |-> IF r \in S THEN a ELSE outcome[r]]

-----------------------------------------------------------------------------
(* Those who use the handler.                                              *)

\* The next request: control_write.send(..).await, which waits for room.  The
\* channel closes when the writer task, which owns the receiver, is done; the
\* message, and the reply sender in it, are then dropped.
Submit(r) ==
    /\ senders
    /\ outcome[r] = "idle"
    /\ \A q \in 1..(r - 1) : outcome[q] # "idle"
    /\ \/ /\ writer # "done"
          /\ Len(control) < ControlCap
          /\ control' = Append(control, r)
          /\ \E t \in Timeouts : timeout' = [timeout EXCEPT ![r] = t]
          /\ outcome' = Answered({r}, "pending")
       \/ /\ writer = "done"
          /\ outcome' = Answered({r}, "dropped")
          /\ UNCHANGED <<control, timeout>>
    /\ UNCHANGED <<senders, replyMap, timer, pingSlot, closer, reader,
                   returned, writerVars>>

\* The last sender of the control channel is dropped, while there still is a
\* receiver to notice.
SendersGone ==
    /\ senders
    /\ writer # "done"
    /\ senders' = FALSE
    /\ UNCHANGED <<timeout, outcome, control, replyMap, timer, pingSlot,
                   closer, reader, returned, writerVars>>

\* The client says something on the closer channel, or drops its sender.  Once
\* the reader task has returned, nobody listens.
CloserSpeaks(m) ==
    /\ reader = "running"
    /\ closer = "empty"
    /\ closer' = m
    /\ UNCHANGED <<timeout, outcome, control, senders, replyMap, timer,
                   pingSlot, reader, returned, writerVars>>

-----------------------------------------------------------------------------
(* The reader task.                                                        *)

\* A faulty reader without the unwrap_or(false).
CloserMessage == closer

\* What the closer channel yields; a closed one means "don't reconnect".
CloserVerdict == IF closer = "closed" THEN "stop" ELSE closer

\* The closer branch comes first.
ReaderCloses ==
    /\ reader = "running"
    /\ closer # "empty"
    /\ reader' = CloserVerdict
    /\ closer' = "empty"
    /\ UNCHANGED <<outcome, replyMap, timer, pingSlot, returned, timeout,
                   control, senders, writerVars>>

\* An error, the end of the stream, or a Close frame whose code says whether
\* to reconnect.
RemoteEnds ==
    /\ reader = "running"
    /\ closer = "empty"
    /\ reader' \in Verdicts
    /\ UNCHANGED <<outcome, replyMap, timer, pingSlot, returned, channelVars,
                   writerVars>>

\* Reply::Empty is a ping; the writer is told, unless it has been already.
ReadPing ==
    /\ reader = "running"
    /\ closer = "empty"
    /\ pingSlot' = (pingSlot \/ writer # "done")
    /\ UNCHANGED <<outcome, replyMap, timer, reader, returned, channelVars,
                   writerVars>>

\* A faulty reader that leaves the entry it has answered in the map.
Peeked(r) == replyMap

\* map.remove(&id)
Taken(r) == replyMap \ {r}

\* The reply to a request that was written.  The server has it before the
\* writer knows that it is written.  An id that is not in the map (a second
\* reply, or one after the timeout) is only reported.
ReadReply(r) ==
    /\ reader = "running"
    /\ closer = "empty"
    /\ r \in Range(flight) \cup Range(wire)
    /\ r \in replyMap
    /\ replyMap' = Taken(r)
    /\ outcome' = Answered({r}, "reply")
    /\ timer' = [timer EXCEPT ![r] = "none"]
    /\ UNCHANGED <<pingSlot, reader, returned, channelVars, writerVars>>

-----------------------------------------------------------------------------
(* The timer task of a request.                                            *)

\* The sleep is over.  It may be over before the writer, which has spawned
\* the task, inserts the entry: the task then finds nothing and is gone.
TimerElapses(r) ==
    /\ timer[r] = "armed"
    /\ timer' = [timer EXCEPT ![r] =
                    IF r \in replyMap THEN "none" ELSE "missed"]
    /\ replyMap' = Taken(r)
    /\ outcome' = Answered({r} \cap replyMap, "Timeout")
    /\ UNCHANGED <<pingSlot, reader, returned, channelVars, writerVars>>

-----------------------------------------------------------------------------
(* The writer task.                                                        *)

\* The task is over: it drops its vectors, and the control channel's receiver
\* with all that waits in it.
WriterDone ==
    /\ writer' = "done"
    /\ commands' = <<>>
    /\ outcome' = Answered(Range(control), "dropped")
    /\ control' = <<>>
    /\ flight' = <<>>
    /\ pingSlot' = FALSE

\* The ping branch comes first: a pong, which is written or is not.
WriterPong ==
    /\ writer = "select"
    /\ pingSlot
    /\ \/ /\ pingSlot' = FALSE
          /\ UNCHANGED <<outcome, control, commands, flight, writer>>
       \/ WriterDone
    /\ UNCHANGED <<timeout, senders, closer, reader, returned, replyMap,
                   timer, batch, wire>>

\* A faulty reader that keeps its end of the ping channel.
PingChannelKept == FALSE

\* The reader is done and has dropped its end of the ping channel.
PingChannelClosed == reader # "running" /\ ~pingSlot

WriterFollowsReader ==
    /\ writer = "select"
    /\ PingChannelClosed
    /\ WriterDone
    /\ UNCHANGED <<timeout, senders, closer, reader, returned, replyMap,
                   timer, batch, wire>>

\* recv_many: what there is, up to BatchMax; nothing once all senders are gone.
WriterReceives ==
    /\ writer = "select"
    /\ ~pingSlot /\ reader = "running"
    /\ \/ /\ control # <<>>
          /\ LET n == IF Len(control) < BatchMax THEN Len(control) ELSE BatchMax
             IN  /\ batch' = SubSeq(control, 1, n)
                 /\ control' = SubSeq(control, n + 1, Len(control))
          /\ writer' = "batch"
          /\ UNCHANGED <<outcome, commands, flight, pingSlot>>
       \/ /\ control = <<>> /\ ~senders
          /\ WriterDone
          /\ UNCHANGED batch
    /\ UNCHANGED <<timeout, senders, closer, reader, returned, replyMap,
                   timer, wire>>

\* A message whose time is over is answered, and the loop starts again: the
\* rest of the batch is dropped with its iterator, and the commands prepared
\* before it wait for the next batch.
WriterExpired ==
    /\ writer = "batch"
    /\ batch # <<>>
    /\ timeout[Head(batch)] = "zero"
    /\ outcome' = [r \in Requests |->
                     CASE r = Head(batch)              -> "Timeout"
                       [] r \in Range(Tail(batch))     -> "dropped"
                       [] OTHER                        -> outcome[r]]
    /\ batch' = <<>>
    /\ writer' = "select"
    /\ UNCHANGED <<channelVars, reader, returned, replyMap, timer, pingSlot,
                   commands, flight, wire>>

\* A faulty writer that spawns no timer.
NoTimer(r) == "none"

\* Duration::MAX has no timer.
TimerOf(r) == IF timeout[r] = "finite" THEN "armed" ELSE "none"

\* The timer task of the next message is spawned.
WriterArms ==
    /\ writer = "batch"
    /\ batch # <<>>
    /\ timeout[Head(batch)] # "zero"
    /\ timer' = [timer EXCEPT ![Head(batch)] = TimerOf(Head(batch))]
    /\ writer' = "insert"
    /\ UNCHANGED <<channelVars, outcome, reader, returned, replyMap, pingSlot,
                   batch, commands, flight, wire>>

\* Its entry is inserted and its command prepared.
WriterInserts ==
    /\ writer = "insert"
    /\ replyMap' = replyMap \cup {Head(batch)}
    /\ commands' = Append(commands, Head(batch))
    /\ batch' = Tail(batch)
    /\ writer' = "batch"
    /\ UNCHANGED <<channelVars, outcome, reader, returned, timer, pingSlot,
                   flight, wire>>

\* The elements of s that are not bad, in their order.
Without(s, bad) ==
    LET kept == {i \in DOMAIN s : s[i] \notin bad}
        Rank(i) == Cardinality({j \in kept : j <= i})
    IN  [k \in 1..Cardinality(kept) |-> s[CHOOSE i \in kept : Rank(i) = k]]

\* A faulty writer that does not clear its commands.
WriterEncodesAgain ==
    /\ writer = "batch"
    /\ batch = <<>>
    /\ \E bad \in SUBSET Range(commands) :
          /\ outcome' = Answered(bad \cap replyMap, "InappropriateProtocol")
          /\ replyMap' = replyMap \ bad
          /\ timer' = [r \in Requests |-> IF r \in bad \cap replyMap
                                          THEN "none" ELSE timer[r]]
          /\ flight' = Without(commands, bad)
    /\ writer' = IF flight' = <<>> THEN "select" ELSE "sending"
    /\ UNCHANGED <<channelVars, reader, returned, pingSlot, batch, commands,
                   wire>>

\* encode_frames: some commands can't be encoded and are answered, if their
\* time is not over; what can is written, if there is any.
WriterEncodes ==
    /\ writer = "batch"
    /\ batch = <<>>
    /\ \E bad \in SUBSET Range(commands) :
          /\ outcome' = Answered(bad \cap replyMap, "InappropriateProtocol")
          /\ replyMap' = replyMap \ bad
          /\ timer' = [r \in Requests |-> IF r \in bad \cap replyMap
                                          THEN "none" ELSE timer[r]]
          /\ flight' = Without(commands, bad)
    /\ commands' = <<>>
    /\ writer' = IF flight' = <<>> THEN "select" ELSE "sending"
    /\ UNCHANGED <<channelVars, reader, returned, pingSlot, batch, wire>>

\* write_ws.send has come to an end, good or bad.
WriterSends ==
    /\ writer = "sending"
    /\ \/ /\ wire' = wire \o flight
          /\ flight' = <<>>
          /\ writer' = "select"
          /\ UNCHANGED <<outcome, control, commands, pingSlot>>
       \/ /\ WriterDone
          /\ UNCHANGED wire
    /\ UNCHANGED <<timeout, senders, closer, reader, returned, replyMap,
                   timer, batch>>

-----------------------------------------------------------------------------
(* The end of the handler.                                                 *)

\* A faulty end that does not wait for the writer.
ReaderJoined == reader # "running"

\* tokio::join!(reader_task, writer_task)
Joined == reader # "running" /\ writer = "done"

\* Both tasks are done: every request left in the map is answered.
HandlerReturns ==
    /\ ~returned
    /\ Joined
    /\ returned' = TRUE
    /\ outcome' = Answered(replyMap, "Closed")
    /\ timer' = [r \in Requests |-> IF r \in replyMap THEN "none" ELSE timer[r]]
    /\ replyMap' = {}
    /\ UNCHANGED <<channelVars, pingSlot, reader, writerVars>>

-----------------------------------------------------------------------------

Writer ==
    \/ WriterPong
    \/ WriterFollowsReader
    \/ WriterReceives
    \/ WriterExpired
    \/ WriterArms
    \/ WriterInserts
    \/ WriterEncodes
    \/ WriterSends

Next ==
    \/ \E r \in Requests : Submit(r) \/ ReadReply(r) \/ TimerElapses(r)
    \/ SendersGone
    \/ \E m \in Verdicts \cup {"closed"} : CloserSpeaks(m)
    \/ ReaderCloses
    \/ RemoteEnds
    \/ ReadPing
    \/ Writer
    \/ HandlerReturns

\* The tasks run when they can, a sleep ends, and so does a write: the peer
\* reads, or TCP gives up.  The server's pings, seconds apart, don't keep the
\* writer, which prefers them, from the control channel for ever.  Nothing
\* else is owed by the users of the handler, the server or the network.
Fairness ==
    /\ WF_vars(Writer)
    /\ SF_vars(WriterReceives)
    /\ WF_vars(ReaderCloses)
    /\ WF_vars(HandlerReturns)
    /\ \A r \in Requests : WF_vars(TimerElapses(r))

Spec == Init /\ [][Next]_vars /\ Fairness

-----------------------------------------------------------------------------
(* Properties.                                                             *)

\* A pending request's reply sender is in one place: in the control channel,
\* in the batch, or in the map.  A request that was answered is in none, so
\* no second answer is ever attempted.
PendingIsHeld ==
    /\ \A r \in Requests :
          outcome[r] = "pending" <=>
              r \in Range(control) \cup Range(batch) \cup replyMap
    /\ Range(control) \cap (Range(batch) \cup replyMap) = {}
    /\ Range(batch) \cap replyMap = {}

\* Each request is answered once, and the handler does not return before the
\* last one is.
Promise == INSTANCE RequestReply WITH open <- ~returned

PromiseKept == Promise!Spec

\* Requests reach the wire in the order in which they were sent, whatever is
\* dropped, expires, fails to encode or waits over several batches.
WireInOrder ==
    LET line == wire \o flight \o commands \o batch \o control
    IN  \A i, j \in DOMAIN line : i < j => line[i] < line[j]

\* As long as no request reached the writer after its time, a writer that is
\* waiting for messages has written all it was given, and while it runs no
\* request is dropped without an answer.
NothingStranded ==
    (\A r \in Requests : timeout[r] = "zero" => outcome[r] # "Timeout") =>
        /\ writer = "select" => commands = <<>>
        /\ writer # "done" => \A r \in Requests : outcome[r] # "dropped"

\* A timer missed the entry it was spawned for.
Missed(r) == r \in replyMap /\ timer[r] = "missed"

\* A request with a timeout is answered, even when the writer is dead or the
\* server silent, unless its timer was over before its entry was there.
TimedRequestResolves ==
    \A r \in Requests :
        outcome[r] = "pending" /\ timeout[r] # "never" ~>
            outcome[r] # "pending" \/ Missed(r)

\* Once the reader has stopped, for whatever reason, the handler returns.
HandlerEnds == reader # "running" ~> returned

=============================================================================

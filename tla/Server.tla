-------------------------------- MODULE Server --------------------------------
(***************************************************************************)
(* Server::serve and ServerSession (server.rs): one connection of the      *)
(* server, from the accepted websocket to the return of serve().           *)
(*                                                                         *)
(* The reader task decodes frames and processes their commands one after   *)
(* the other; calls of user handlers and subscriptions run in tasks of     *)
(* their own, limited by permits; all of them send replies and pushes into *)
(* one bounded channel, which the writer task empties into the socket.     *)
(* Two timers of the reader send pings and expect pongs.                   *)
(*                                                                         *)
(* The i-th command of the connection is the number i, also as its id and  *)
(* as the name of the task it may spawn.  Its kind and channel, which the  *)
(* client has chosen, appear when the reader gets to it.  Contents, the    *)
(* routers and panics of user handlers are left out.                       *)
(***************************************************************************)
EXTENDS FiniteSets, Functions, Naturals, Sequences

CONSTANTS
    Params,            \* the ServeParams: encoding, and the timers wanted
    Channels,          \* the channels the client may name
    NumCommands,       \* bound: the commands of this connection
    IncomingMax,       \* bound: commands that have arrived and are unread
    MaxRequests,       \* MAX_CONCURRENT_REQUESTS (10)
    MaxSubscriptions,  \* MAX_SUBSCRIPTION_COUNT (128)
    ReplyCap,          \* capacity of the reply channel (64)
    BatchMax,          \* most messages recv_many takes at a time (32)
    PingInterval,      \* ServeParams.ping_interval, in ticks
    PongTimeout        \* ServeParams.pong_timeout, in ticks

\* The encoding, and which of ping_interval and pong_timeout there are.
ServeParams == [json : BOOLEAN, ping : BOOLEAN, pong : BOOLEAN]

ASSUME ServerAssumption ==
    /\ Params \subseteq ServeParams
    /\ Channels # {}
    /\ {NumCommands, IncomingMax} \subseteq Nat
    /\ {MaxRequests, MaxSubscriptions, ReplyCap, BatchMax} \subseteq Nat \ {0}
    /\ {PingInterval, PongTimeout} \subseteq Nat \ {0}

Commands == 1..NumCommands

\* Command::Empty among the commands of a frame.
Pong == 0

\* No task is named so.
NoTask == 0

\* A timer that is not armed: it elapses in thirty years or more.
Far == PingInterval + PongTimeout + 1

\* The DisconnectErrorCodes that serve() uses, and one that on_connect may.
ConnectionClosed      == 3000
ServerError           == 3004
WriteError            == 3009
NoPong                == 3012
InvalidToken          == 3500
BadRequest            == 3501
Stale                 == 3502
InappropriateProtocol == 3506

Codes == {ConnectionClosed, ServerError, WriteError, NoPong, InvalidToken,
          BadRequest, Stale, InappropriateProtocol}

\* What the code tells the client to do.
should_reconnect(code) == code \notin 3500..3999 \cup 4500..4999

\* The messages of the reply channel: a reply to a command, a push or a ping,
\* and the error that ends the connection.
Answer(i)   == [id |-> i, code |-> 0]
Push        == [id |-> 0, code |-> 0]
Error(code) == [id |-> 0, code |-> code]
Message     == [id : 0..NumCommands, code : Codes \cup {0}]

VARIABLES
    params,         \* ServeParams
    session,        \* ServerSession.state
    kind,           \* the kind of each command processed so far
    chan,           \* the channel of each Subscribe
    outcome,        \* what each command has come to
    subscriptions,  \* for each channel, the task of its Subscription
    task,           \* where each command's task stands
    aborted,        \* tasks told to abort, and not yet gone
    replyCh,        \* reply_ch
    incoming,       \* commands that have arrived and are not yet read
    inbox,          \* commands of the current frame left to process
    reader,         \* where the reader task stands
    sending,        \* the message it is about to send
    pingIn,         \* ticks until timer_send_ping elapses
    pongIn,         \* ticks until timer_expect_pong elapses
    pinged,         \* a ping was sent since the timers were last reset
    writer,         \* where the writer task stands
    flight,         \* the replies that write_ws.send is busy with, each at
                    \* its place in the batch
    failure,        \* the error the writer ends with after this batch, or 0
    closeCode,      \* the code of the Close frame, or 0
    returned        \* serve() has returned

commandVars == <<kind, chan, outcome>>
taskVars    == <<subscriptions, task, aborted>>
timerVars   == <<pingIn, pongIn, pinged>>
readerVars  == <<incoming, inbox, reader, sending>>
writerVars  == <<writer, flight, failure, closeCode>>

vars == <<params, session, commandVars, taskVars, replyCh, readerVars,
          timerVars, writerVars, returned>>

-----------------------------------------------------------------------------
(* Tasks.                                                                  *)

\* A subscription's task has an entry in `subscriptions'.
Entered == {"handler", "answer", "stream", "publish", "refuse", "closing"}

\* It is at an .await, where an abort can take effect.
Awaiting == {"handler", "answer", "stream", "publish", "refused", "goodbye"}

Live == Entered \cup Awaiting

Running(t) == task[t] \in Live

Subscribing(t) == kind[t] = "subscribe"

\* A faulty subscription that keeps its permit while it lasts.
HoldsPermitForever(t) == Running(t)

\* drop(permit) comes after the reply.
HoldsPermit(t) == task[t] \in {"handler", "answer", "refuse", "refused"}

Permits == {t \in Commands : HoldsPermit(t)}

\* The channels with an entry.
Entries == {c \in Channels : subscriptions[c] # NoTask}

PermitFree == Cardinality(Permits) < MaxRequests

\* The values the variables take.
SessionTypes ==
    /\ params \in Params
    /\ session \in {"Initial", "Connected"}
    /\ kind \in [Commands -> {"none", "connect", "call", "subscribe", "other"}]
    /\ chan \in [Commands -> Channels]
    /\ outcome \in [Commands -> {"idle", "pending", "reply", "dropped", "again"}]
    /\ returned \in BOOLEAN

TaskTypes ==
    /\ subscriptions \in [Channels -> Commands \cup {NoTask}]
    /\ task \in [Commands -> Live \cup {"none", "done"}]
    /\ aborted \subseteq {t \in Commands : Running(t)}

QueueTypes ==
    /\ replyCh \in Seq(Message)
    /\ incoming \in Seq(Commands \cup {Pong})
    /\ inbox \in Seq(Commands \cup {Pong})

ReaderTypes ==
    /\ reader \in {"ready", "on_connect", "permit", "send", "closing", "done"}
    /\ sending \in Message
    /\ pingIn \in 0..Far /\ pongIn \in 0..Far
    /\ pinged \in BOOLEAN

WriterTypes ==
    /\ writer \in {"recv", "sending", "closing", "done"}
    /\ flight \in [DOMAIN flight -> Message]
    /\ failure \in Codes \cup {0}
    /\ closeCode \in Codes \cup {0}

Types == SessionTypes /\ TaskTypes /\ QueueTypes /\ ReaderTypes /\ WriterTypes

\* The values the variables take, and the limits of the reply channel,
\* permits and subscriptions.
TypeOK ==
    /\ Types
    /\ Len(replyCh) <= ReplyCap
    /\ Cardinality(Permits) <= MaxRequests
    /\ Cardinality(Entries) <= MaxSubscriptions

Init ==
    /\ params \in Params
    /\ session = "Initial"
    /\ kind = [i \in Commands |-> "none"]
    /\ chan = [i \in Commands |-> CHOOSE c \in Channels : TRUE]
    /\ outcome = [i \in Commands |-> "idle"]
    /\ subscriptions = [c \in Channels |-> NoTask]
    /\ task = [i \in Commands |-> "none"]
    /\ aborted = {}
    /\ replyCh = <<>>
    /\ incoming = <<>>
    /\ inbox = <<>>
    /\ reader = "ready"
    /\ sending = Push
    /\ pingIn = Far
    /\ pongIn = Far
    /\ pinged = FALSE
    /\ writer = "recv"
    /\ flight = <<>>
    /\ failure = 0
    /\ closeCode = 0
    /\ returned = FALSE

\* A faulty channel without a bound.
SentAnyway(m) ==
    /\ replyCh' = Append(replyCh, m)
    /\ UNCHANGED outcome

\* These messages will not be written, and the replies among them are lost.
Discarded(messages) ==
    outcome' = [i \in Commands |-> IF Answer(i) \in messages THEN "dropped"
                                                            ELSE outcome[i]]

\* reply_ch.send(m).await: it waits for room, and fails at once when the
\* writer, which owns the receiver, is gone; nobody looks at the failure.
Sent(m) ==
    \/ writer = "done" /\ Discarded({m}) /\ UNCHANGED replyCh
    \/ /\ writer # "done" /\ Len(replyCh) < ReplyCap
       /\ replyCh' = Append(replyCh, m)
       /\ UNCHANGED outcome

\* An abort that finds the task gone does nothing.
Aborted(S) == aborted \cup {t \in S : Running(t)}

\* A faulty Subscription without its Drop.
EntryForgotten(c) ==
    /\ subscriptions' = [subscriptions EXCEPT ![c] = NoTask]
    /\ UNCHANGED aborted

\* A faulty Subscription that aborts the whole JoinSet.
AllAborted(c) ==
    /\ subscriptions' = [subscriptions EXCEPT ![c] = NoTask]
    /\ aborted' = Aborted(Commands)

\* subscriptions.remove(c): the drop of the Subscription aborts its task,
\* whichever that is; the task goes on until it next has to wait.
EntryRemoved(c) ==
    /\ subscriptions' = [subscriptions EXCEPT ![c] = NoTask]
    /\ aborted' = Aborted({subscriptions[c]} \ {NoTask})

\* The task is over.
Gone(t) ==
    /\ task' = [task EXCEPT ![t] = "done"]
    /\ aborted' = aborted \ {t}

\* f(..).await has a result: data, a stream, or an error.
HandlerEnds(t) ==
    /\ task[t] = "handler"
    /\ \E next \in {"answer"} \cup (IF Subscribing(t) THEN {"refuse"} ELSE {}) :
          task' = [task EXCEPT ![t] = next]
    /\ UNCHANGED <<params, session, commandVars, subscriptions, aborted, replyCh,
                   readerVars, timerVars, writerVars, returned>>

\* The subscription's stream yields a publication, or ends.
StreamYields(t) ==
    /\ task[t] = "stream"
    /\ \E next \in {"publish", "closing"} : task' = [task EXCEPT ![t] = next]
    /\ UNCHANGED <<params, session, commandVars, subscriptions, aborted, replyCh,
                   readerVars, timerVars, writerVars, returned>>

\* The task of a subscription that is refused, or over, removes the entry of
\* its channel, under the lock.  It is not asked whose entry that is.
TaskRemovesEntry(t) ==
    /\ task[t] \in {"refuse", "closing"}
    /\ EntryRemoved(chan[t])
    /\ task' = [task EXCEPT ![t] = IF @ = "refuse" THEN "refused" ELSE "goodbye"]
    /\ UNCHANGED <<params, session, commandVars, replyCh, readerVars, timerVars,
                   writerVars, returned>>

\* The task sends its reply, a publication, or the last Unsubscribe push.
TaskSends(t) ==
    /\ \/ /\ task[t] \in {"answer", "refused"}
          /\ Sent(Answer(t))
       \/ /\ task[t] \in {"publish", "goodbye"}
          /\ Sent(Push)
    /\ \/ /\ \/ task[t] = "publish"
             \/ task[t] = "answer" /\ Subscribing(t)
          /\ task' = [task EXCEPT ![t] = "stream"]
          /\ UNCHANGED aborted
       \/ /\ \/ task[t] \in {"refused", "goodbye"}
             \/ task[t] = "answer" /\ ~Subscribing(t)
          /\ Gone(t)
    /\ UNCHANGED <<params, session, kind, chan, subscriptions, readerVars,
                   timerVars, writerVars, returned>>

\* An aborted task has to wait, and is cancelled, with what it had to say.
TaskCancelled(t) ==
    /\ t \in aborted /\ task[t] \in Awaiting
    /\ Gone(t)
    /\ outcome' = [outcome EXCEPT ![t] =
                     IF HoldsPermit(t) THEN "dropped" ELSE @]
    /\ UNCHANGED <<params, session, kind, chan, subscriptions, replyCh,
                   readerVars, timerVars, writerVars, returned>>

-----------------------------------------------------------------------------
(* Timers.                                                                 *)

\* From now on, when the ping is due.
PingDelay == IF params.ping THEN PingInterval ELSE Far

\* A faulty timer that expects a pong whatever the params say.
PongDelayAnyway == PingInterval + PongTimeout

\* From now on, when the pong is due that answers that ping.
PongDelay == IF params.ping /\ params.pong THEN PingInterval + PongTimeout
                                           ELSE Far

\* A faulty pong that puts off the next ping only.
ResetPingOnly ==
    /\ pingIn' = PingDelay
    /\ pinged' = FALSE
    /\ UNCHANGED pongIn

\* Both timers start anew: at the first Connect, and at each pong.
ResetTimers ==
    /\ pingIn' = PingDelay
    /\ pongIn' = PongDelay
    /\ pinged' = FALSE

Elapsed(n) == IF n \in {0, Far} THEN n ELSE n - 1

\* Time passes, whatever the tasks are doing, as long as it matters.
Tick ==
    /\ reader \notin {"closing", "done"}
    /\ pingIn' = Elapsed(pingIn)
    /\ pongIn' = Elapsed(pongIn)
    /\ UNCHANGED <<params, session, commandVars, taskVars, replyCh, readerVars,
                   pinged, writerVars, returned>>

-----------------------------------------------------------------------------
(* The reader task: its select!, whose branches are tried in their order.  *)

Selecting == reader = "ready" /\ inbox = <<>>

\* A faulty writer that ends without a word to the reader.
CloserForgotten == FALSE

\* The writer is done with the socket, or with everything.
CloserReady == writer \in {"closing", "done"}

\* The loop ends with an error.
Break(code) ==
    /\ reader' = "closing"
    /\ sending' = Error(code)

CloserFires ==
    /\ Selecting /\ CloserReady
    /\ Break(ConnectionClosed)
    /\ UNCHANGED <<params, session, commandVars, taskVars, replyCh, incoming,
                   inbox, timerVars, writerVars, returned>>

\* The ping timer starts anew once the ping is sent (see ReaderSends); a
\* session that is not Connected is sent none.
PingFires ==
    /\ Selecting /\ ~CloserReady /\ pingIn = 0
    /\ \/ /\ session = "Connected"
          /\ reader' = "send"
          /\ sending' = Push
          /\ pinged' = TRUE
          /\ UNCHANGED pingIn
       \/ /\ session = "Initial"
          /\ pingIn' = PongDelay
          /\ UNCHANGED <<reader, sending, pinged>>
    /\ UNCHANGED <<params, session, commandVars, taskVars, replyCh, incoming,
                   inbox, pongIn, writerVars, returned>>

\* decode_frames: the commands before the first one that can't be decoded.
Decoded(frame) == {SubSeq(frame, 1, n) : n \in 0..Len(frame)}

\* A message: some of the commands that have arrived.
ReadMessage ==
    /\ Selecting /\ ~CloserReady /\ pingIn # 0
    /\ \E n \in 1..Len(incoming) :
          /\ inbox' \in Decoded(SubSeq(incoming, 1, n))
          /\ incoming' = SubSeq(incoming, n + 1, Len(incoming))
          /\ outcome' = [i \in Commands |->
                           IF i \in Range(SubSeq(incoming, 1, n)) \ Range(inbox')
                           THEN "dropped" ELSE outcome[i]]
    /\ UNCHANGED <<params, session, kind, chan, taskVars, replyCh, reader,
                   sending, timerVars, writerVars, returned>>

\* An error, the end of the stream, or a Close frame.
RemoteEnds ==
    /\ Selecting /\ ~CloserReady /\ pingIn # 0
    /\ Break(ConnectionClosed)
    /\ UNCHANGED <<params, session, commandVars, taskVars, replyCh, incoming,
                   inbox, timerVars, writerVars, returned>>

\* Nothing else is ready.
PongOverdue == pingIn # 0 /\ incoming = <<>> /\ pongIn = 0

\* A faulty timeout that does not look at the session.
AlwaysStale == Stale

TimeoutCode == IF session = "Initial" THEN Stale ELSE NoPong

PongTimerFires ==
    /\ Selecting /\ ~CloserReady /\ PongOverdue
    /\ Break(TimeoutCode)
    /\ UNCHANGED <<params, session, commandVars, taskVars, replyCh, incoming,
                   inbox, timerVars, writerVars, returned>>

-----------------------------------------------------------------------------
(* The reader task: process_command.                                       *)

\* Command i is next.
Processing(i) == reader = "ready" /\ inbox # <<>> /\ Head(inbox) = i

\* The command is done with, but for the message to be sent.
Replies(m) ==
    /\ inbox' = Tail(inbox)
    /\ reader' = "send"
    /\ sending' = m

\* An error that ends the connection takes the place of the reply.
RepliesError(i, code) ==
    /\ Replies(Error(code))
    /\ outcome' = [outcome EXCEPT ![i] = "dropped"]

Known(i, k) == kind' = [kind EXCEPT ![i] = k]

\* Command::Empty never reaches the session.
ProcessPong ==
    /\ Processing(Pong)
    /\ ResetTimers
    /\ inbox' = Tail(inbox)
    /\ UNCHANGED <<params, session, commandVars, taskVars, replyCh, incoming,
                   reader, sending, writerVars, returned>>

\* The first Connect, or the next one after a rejected one: the timers start
\* before on_connect(..).await.
ProcessConnect(i) ==
    /\ Processing(i) /\ session = "Initial"
    /\ Known(i, "connect")
    /\ ResetTimers
    /\ reader' = "on_connect"
    /\ UNCHANGED <<params, session, chan, outcome, taskVars, replyCh, incoming,
                   inbox, sending, writerVars, returned>>

\* on_connect has an answer.  A rejected Connect leaves the session Initial,
\* and the reader goes on with the frame.
ConnectSettled(i) ==
    /\ reader = "on_connect" /\ Head(inbox) = i
    /\ \/ /\ session' = "Connected"
          /\ Replies(Answer(i))
          /\ UNCHANGED outcome
       \/ /\ \E code \in {ServerError, InvalidToken} : RepliesError(i, code)
          /\ UNCHANGED session
    /\ UNCHANGED <<params, kind, chan, taskVars, replyCh, incoming, timerVars,
                   writerVars, returned>>

\* A command before Connect, or a second Connect.
ProcessUnexpected(i) ==
    /\ Processing(i)
    /\ IF session = "Connected" THEN Known(i, "connect")
       ELSE \E k \in {"call", "subscribe", "other"} : Known(i, k)
    /\ RepliesError(i, BadRequest)
    /\ UNCHANGED <<params, session, chan, taskVars, replyCh, incoming,
                   timerVars, writerVars, returned>>

\* Rpc, Publish and Subscribe need a permit, and the reader waits for it.
ProcessLimited(i) ==
    /\ Processing(i) /\ session = "Connected"
    /\ \/ Known(i, "call") /\ UNCHANGED chan
       \/ /\ Known(i, "subscribe")
          /\ \E c \in Channels : chan' = [chan EXCEPT ![i] = c]
    /\ reader' = "permit"
    /\ UNCHANGED <<params, session, outcome, taskVars, replyCh, incoming, inbox,
                   sending, timerVars, writerVars, returned>>

Permitted(i) == reader = "permit" /\ Head(inbox) = i /\ PermitFree

\* A faulty spawn after which the reader answers as well.
SpawnedAndAnswered(i) ==
    /\ task' = [task EXCEPT ![i] = "handler"]
    /\ Replies(Answer(i))

\* A task is spawned for command i, and the reader goes on.
Spawned(i) ==
    /\ task' = [task EXCEPT ![i] = "handler"]
    /\ inbox' = Tail(inbox)
    /\ reader' = "ready"
    /\ UNCHANGED sending

\* Rpc and Publish, which differ in their routers: the user's handler runs in
\* a task, or there is none, and that is an error.
ProcessCall(i) ==
    /\ Permitted(i) /\ kind[i] = "call"
    /\ \/ Spawned(i)
       \/ Replies(Answer(i)) /\ UNCHANGED task
    /\ UNCHANGED <<params, session, commandVars, subscriptions, aborted,
                   replyCh, incoming, timerVars, writerVars, returned>>

\* Neither AlreadySubscribed nor LimitExceeded.
MaySubscribe(c) ==
    /\ subscriptions[c] = NoTask
    /\ Cardinality(Entries) < MaxSubscriptions

\* Subscribe: under the lock, the checks, the task and its entry, or an error
\* (also for an unknown channel).
ProcessSubscribe(i) ==
    /\ Permitted(i) /\ kind[i] = "subscribe"
    /\ \/ /\ MaySubscribe(chan[i])
          /\ Spawned(i)
          /\ subscriptions' = [subscriptions EXCEPT ![chan[i]] = i]
       \/ /\ Replies(Answer(i))
          /\ UNCHANGED <<subscriptions, task>>
    /\ UNCHANGED <<params, session, commandVars, aborted, replyCh, incoming,
                   timerVars, writerVars, returned>>

\* Unsubscribe removes the entry, if there is one.
ProcessUnsubscribe(i, c) ==
    /\ Processing(i) /\ session = "Connected"
    /\ Known(i, "other")
    /\ EntryRemoved(c)
    /\ Replies(Answer(i))
    /\ UNCHANGED <<params, session, chan, outcome, task, replyCh, incoming,
                   timerVars, writerVars, returned>>

\* Any other command is NotAvailable.
ProcessOther(i) ==
    /\ Processing(i) /\ session = "Connected"
    /\ Known(i, "other")
    /\ Replies(Answer(i))
    /\ UNCHANGED <<params, session, chan, outcome, taskVars, replyCh, incoming,
                   timerVars, writerVars, returned>>

\* The reader's own send is done; after a ping, the next is due when its pong
\* is overdue.
ReaderSends ==
    /\ reader = "send"
    /\ Sent(sending)
    /\ reader' = "ready" /\ sending' = Push
    /\ pingIn' = IF sending = Push THEN PongDelay ELSE pingIn
    /\ UNCHANGED <<params, session, kind, chan, taskVars, incoming, inbox,
                   pongIn, pinged, writerVars, returned>>

\* The loop is over.  The task drops its timers and what is unread, and the
\* session, which tells its tasks to abort.
ReaderEnds ==
    /\ reader = "closing"
    /\ Sent(sending)
    /\ reader' = "done"
    /\ aborted' = Aborted(Commands)
    /\ incoming' = <<>> /\ sending' = Push
    /\ pingIn' = Far /\ pongIn' = Far /\ pinged' = FALSE
    /\ UNCHANGED <<params, session, kind, chan, subscriptions, task, inbox,
                   writerVars, returned>>

-----------------------------------------------------------------------------
(* The writer task.                                                        *)

BatchSize == IF Len(replyCh) < BatchMax THEN Len(replyCh) ELSE BatchMax

\* A faulty writer that does not drain its batch.
NotDrained == replyCh

\* What recv_many leaves in the channel.
Remaining == SubSeq(replyCh, BatchSize + 1, Len(replyCh))

\* The first n messages of a batch are its replies: an error follows, which
\* drops the rest, or nothing does.
Replied(batch, n) ==
    /\ \A k \in 1..n : batch[k].code = 0
    /\ n < Len(batch) => batch[n + 1].code # 0

Failed(batch, n) == IF n = Len(batch) THEN 0 ELSE batch[n + 1].code

\* encode_frames: replies whose data is not JSON are left out.
Encoded(replies) ==
    IF params.json THEN {Restrict(replies, kept) : kept \in SUBSET DOMAIN replies}
                   ELSE {replies}

\* A faulty encoder that leaves replies out without an error.
FailedOnly(batch, n, kept) == Failed(batch, n)

\* The error to end with after this batch, if any: that of the batch, or that
\* of the encoding of its first n messages, which comes later.
Verdict(batch, n, kept) ==
    IF kept = SubSeq(batch, 1, n) THEN Failed(batch, n)
                                  ELSE InappropriateProtocol

\* recv_many and encode_frames.  What follows an error in the batch is lost,
\* and so is what can't be encoded.
WriterReceives ==
    /\ writer = "recv" /\ replyCh # <<>>
    /\ LET batch == SubSeq(replyCh, 1, BatchSize)
       IN  \E n \in 0..Len(batch) :
             /\ Replied(batch, n)
             /\ flight' \in Encoded(SubSeq(batch, 1, n))
             /\ failure' = Verdict(batch, n, flight')
             /\ Discarded(Range(batch) \ Range(flight'))
    /\ replyCh' = Remaining
    /\ writer' = "sending"
    /\ UNCHANGED <<params, session, kind, chan, taskVars, readerVars, timerVars,
                   closeCode, returned>>

\* The reply to command i is not the first thing it comes to, or is in flight
\* twice.
Repeated(i) ==
    \/ outcome[i] # "pending"
    \/ \E j, k \in DOMAIN flight :
          j # k /\ flight[j] = Answer(i) /\ flight[k] = Answer(i)

\* The replies are written, unless there are none; or the write fails, and
\* they count as lost.
WriterSends ==
    /\ writer = "sending"
    /\ \/ /\ outcome' = [i \in Commands |->
                           IF Answer(i) \notin Range(flight) THEN outcome[i]
                           ELSE IF Repeated(i) THEN "again" ELSE "reply"]
          /\ closeCode' = failure
       \/ /\ ~(params.json /\ flight = <<>>)
          /\ Discarded(Range(flight))
          /\ closeCode' = WriteError
    /\ writer' = IF closeCode' = 0 THEN "recv" ELSE "closing"
    /\ flight' = <<>>
    /\ failure' = 0
    /\ UNCHANGED <<params, session, kind, chan, taskVars, replyCh, readerVars,
                   timerVars, returned>>

\* The Close frame is written, or is not; the receiver is dropped.
WriterEnds ==
    /\ writer = "closing"
    /\ writer' = "done"
    /\ Discarded(Range(replyCh))
    /\ replyCh' = <<>>
    /\ UNCHANGED <<params, session, kind, chan, taskVars, readerVars, timerVars,
                   flight, failure, closeCode, returned>>

-----------------------------------------------------------------------------

\* A command arrives from the client, or a pong, which changes nothing when
\* there are no timers.
Arrives ==
    /\ reader # "done" /\ Len(incoming) < IncomingMax
    /\ \/ /\ \E i \in Commands :
                /\ outcome[i] = "idle"
                /\ \A j \in 1..(i - 1) : outcome[j] # "idle"
                /\ outcome' = [outcome EXCEPT ![i] = "pending"]
                /\ incoming' = Append(incoming, i)
       \/ /\ params.ping
          /\ incoming' = Append(incoming, Pong)
          /\ UNCHANGED outcome
    /\ UNCHANGED <<params, session, kind, chan, taskVars, replyCh, inbox, reader,
                   sending, timerVars, writerVars, returned>>

\* tokio::join!(reader_task, writer_task): what is pending now will not be
\* answered any more.
ServeReturns ==
    /\ ~returned /\ reader = "done" /\ writer = "done"
    /\ returned' = TRUE
    /\ outcome' = [i \in Commands |->
                     IF outcome[i] = "pending" THEN "dropped" ELSE outcome[i]]
    /\ UNCHANGED <<params, session, kind, chan, taskVars, replyCh, readerVars,
                   timerVars, writerVars>>

\* What a task does at most once.
TaskAdvances(t) ==
    \/ HandlerEnds(t)
    \/ TaskRemovesEntry(t)
    \/ TaskCancelled(t)

TaskStep(t) == TaskAdvances(t) \/ StreamYields(t) \/ TaskSends(t)

Select ==
    \/ CloserFires
    \/ PingFires
    \/ ReadMessage
    \/ PongTimerFires

Process(i) ==
    \/ ProcessConnect(i)
    \/ ConnectSettled(i)
    \/ ProcessUnexpected(i)
    \/ ProcessLimited(i)
    \/ ProcessCall(i)
    \/ ProcessSubscribe(i)
    \/ \E c \in Channels : ProcessUnsubscribe(i, c)
    \/ ProcessOther(i)

Reader ==
    \/ Select
    \/ ProcessPong
    \/ \E i \in Commands : Process(i)
    \/ ReaderSends
    \/ ReaderEnds

Writer == WriterReceives \/ WriterSends \/ WriterEnds

Next ==
    \/ Reader
    \/ RemoteEnds
    \/ Writer
    \/ \E t \in Commands : TaskStep(t)
    \/ Arrives
    \/ Tick
    \/ ServeReturns

\* The tasks run when they can, the user's handlers and on_connect come to an
\* end, and so do writes: the peer reads, or TCP gives up.  Time passes.
\* Those who wait for room in the reply channel get it in the order in which
\* they came (tokio's semaphore is fair), so that a busy stream keeps nobody
\* out.  tokio's cooperative budget makes an aborted task wait in the end,
\* however busy its stream.  The intervals are long enough for the reader to
\* come past its ping branch, and the client pauses now and then, so that the
\* last branch of the select! is reached.  Streams may be silent for ever, and
\* the client owes no answer.
Fairness ==
    /\ WF_vars(Reader) /\ SF_vars(ReaderSends \/ ReaderEnds)
    /\ SF_vars(ReadMessage) /\ SF_vars(PongTimerFires)
    /\ WF_vars(Writer)
    /\ WF_vars(\E t \in Commands : TaskAdvances(t))
    /\ SF_vars(\E t \in Commands : task[t] # "publish" /\ TaskSends(t))
    /\ WF_vars(Tick)
    /\ WF_vars(ServeReturns)

Spec == Init /\ [][Next]_vars /\ Fairness

-----------------------------------------------------------------------------
(* Properties.                                                             *)

\* The entries of `subscriptions' and the tasks that were not told to abort
\* are the same subscriptions: no task serves a channel without an entry,
\* and no entry is left without its task, even when a late task has removed
\* the entry of its successor.
EntriesMatchTasks ==
    /\ \A c \in Channels : subscriptions[c] # NoTask /\ reader # "done" =>
          LET t == subscriptions[c]
          IN  chan[t] = c /\ Subscribing(t) /\ task[t] \in Entered
                /\ t \notin aborted
    /\ \A t \in Commands :
          Subscribing(t) /\ task[t] \in Entered /\ t \notin aborted =>
              subscriptions[chan[t]] = t

\* Each command is answered at most once ("again" is no answer), not after it
\* was given up, and not after the end.
Promise == INSTANCE RequestReply
             WITH Requests <- Commands, Answers <- {"reply", "dropped"},
                  open <- ~returned

PromiseKept == Promise!Spec

\* The writer has an error to end the connection with, or will meet one.
Doomed ==
    \/ closeCode # 0 \/ failure # 0
    \/ \E m \in Range(replyCh) \cup {sending} : m.code # 0

\* No command is lost in silence: when one that was decoded, and is not a
\* Subscribe, will not be answered any more (its reply can't be encoded,
\* follows an error in its batch, finds the writer gone, or its task was
\* aborted), then the connection has an error to end with, so that the client
\* sees it end.
NoSilentLoss ==
    \A i \in Commands :
        outcome[i] = "dropped" /\ kind[i] \notin {"none", "subscribe"} => Doomed

\* NoPong only if a ping was sent since the last sign of the client, and only
\* if the server was told to expect an answer.
NoPongMeansSilence ==
    reader = "closing" /\ sending = Error(NoPong) =>
        pinged /\ params.ping /\ params.pong

\* The client sent Connect first and only once.
Lawful ==
    \A i \in Commands : kind[i] # "none" =>
        (kind[i] = "connect" <=> \A j \in 1..(i - 1) : kind[j] = "none")

\* A client that was let in, sends lawful commands and is sent data that can
\* be encoded is never told to stay away, whichever task ends the connection.
StayAwayIsDeserved ==
    ~params.json /\ Lawful /\ session = "Connected" /\ closeCode # 0 =>
        should_reconnect(closeCode)

\* Every command is answered, dropped with its subscription, or outlived by
\* the connection: neither permits, nor the bounded channel, nor both
\* together block the reader for ever.  (The commands are finite in number,
\* and none becomes pending again, so this says it of each of them.)
CommandsAnswered ==
    []<>(\A i \in Commands : outcome[i] # "pending")

\* A ping is followed by a pong, or by the end.
PingsAreAnswered ==
    pinged /\ params.pong ~> ~pinged \/ closeCode # 0

\* When reader or writer ends, so do the other, serve() and all tasks.  (What
\* has ended stays so, and "again and again" is "in the end" here.)
Ending == reader \in {"closing", "done"} \/ writer \in {"closing", "done"}

ServeEnds ==
    []<>(Ending => returned /\ \A t \in Commands : ~Running(t))

=============================================================================

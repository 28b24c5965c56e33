-------------------------- MODULE ClientConnection --------------------------
(***************************************************************************)
(* The connection life cycle of the client (client.rs): the public calls   *)
(* connect() and disconnect(), and the background tasks that run           *)
(* do_connection_cycle.  All shared state is ClientInner, behind one mutex; *)
(* an action of this module is one critical section of that mutex, or one  *)
(* await that completes between two of them.                               *)
(*                                                                         *)
(* Every call to move_to_connecting spawns one more task, and nothing ties *)
(* a task to the call that spawned it: the tasks of an earlier connect()   *)
(* may still be running when a later one starts.  That is why `state' is   *)
(* read again after every await, and why this module has several cycles.   *)
(*                                                                         *)
(* Left out: active_tasks (a counter nothing reads), the user's event      *)
(* callbacks, the reconnect delay's length, and what flows through an open *)
(* socket (module WebSocketHandler).                                       *)
(***************************************************************************)
EXTENDS FiniteSets, Naturals

CONSTANTS
    Cycles,     \* task slots: at most this many connection cycles at a time
    Callers,    \* slots for futures that connect() and disconnect() returned
    NoCycle     \* the absent cycle

ASSUME CyclesAssumption == NoCycle \notin Cycles

VARIABLES
    state,        \* ClientInner.state
    closerWrite,  \* ClientInner.closer_write: whose current channel it feeds
    serverInfo,   \* ClientInner.server_info: the cycle that last filled it in
    pubStore,     \* ClientInner.pub_ch_write.is_some()
    future,       \* what each caller's last future has come to
    poisoned,     \* a task panicked while it held the mutex
    pc,           \* where each cycle stands in do_connection_cycle
    result,       \* the attempt's Result<_, bool>, then `need_reconnect'
    closerMsg,    \* the message waiting in the attempt's closer channel
    sock          \* the attempt's websocket_handler: running, or its result

client == <<state, closerWrite, serverInfo, pubStore, future, poisoned>>
tasks  == <<pc, result, closerMsg, sock>>
vars   == <<client, tasks>>

States   == {"Disconnected", "Connecting", "Connected"}
Verdicts == {"reconnect", "stop"}          \* the booleans true and false

-----------------------------------------------------------------------------
(* What a cycle's position says.                                           *)

\* pc of a cycle that is in the attempt loop and has not settled it yet.
Attempting == {"begin", "check", "delay", "dial", "handshake", "closing",
               "settle"}

Positions == Attempting \cup {"idle", "enter", "connected", "end"}

\* The attempt's own clone of closer_write is alive until do_handshake, which
\* owns it, completes: the channel can't close before.
HoldsCloser(c) == pc[c] \in {"check", "delay", "dial", "handshake", "closing"}

CloserClosed(c) == closerWrite # c /\ ~HoldsCloser(c)

\* The reader's biased select takes the closer first.
CloserReady(c) == closerMsg[c] # "empty" \/ CloserClosed(c)

\* A caller holds an unresolved future: its sender is in on_connected_ch
\* ("connect") or in on_disconnected_ch ("disconnect").
Pending(u) == future[u] \in {"connect", "disconnect"}

\* A slot is free when its task is done and no detached reader is left in it.
Free(c) == pc[c] = "idle" /\ sock[c] # "open"

TypeOK ==
    /\ state \in States
    /\ closerWrite \in Cycles \cup {NoCycle}
    /\ serverInfo \in Cycles \cup {NoCycle}
    /\ pubStore \in BOOLEAN
    /\ future \in [Callers -> {"none", "connect", "disconnect",
                               "ok", "err", "done"}]
    /\ poisoned \in BOOLEAN
    /\ pc \in [Cycles -> Positions]
    /\ result \in [Cycles -> Verdicts \cup {"none", "ok"}]
    /\ closerMsg \in [Cycles -> Verdicts \cup {"empty"}]
    /\ sock \in [Cycles -> Verdicts \cup {"none", "open"}]

\* Client::new
Init ==
    /\ state = "Disconnected"
    /\ closerWrite = NoCycle
    /\ serverInfo = NoCycle
    /\ pubStore = FALSE
    /\ future = [u \in Callers |-> "none"]
    /\ poisoned = FALSE
    /\ pc = [c \in Cycles |-> "idle"]
    /\ result = [c \in Cycles |-> "none"]
    /\ closerMsg = [c \in Cycles |-> "empty"]
    /\ sock = [c \in Cycles |-> "none"]

-----------------------------------------------------------------------------
(* The transitions of ClientInner.  Each is called with the mutex held.    *)

\* start_connecting runs the new task in slot c.
move_to_connecting(c) ==
    /\ state' = "Connecting"
    /\ pubStore' = TRUE
    /\ pc' = [pc EXCEPT ![c] = "begin"]
    /\ result' = [result EXCEPT ![c] = "none"]
    /\ sock' = [sock EXCEPT ![c] = "none"]
    /\ closerMsg' = [closerMsg EXCEPT ![c] = "empty"]

\* A faulty transition that keeps the connection's closer.
move_keeping_closer ==
    /\ state' = "Disconnected"
    /\ pubStore' = FALSE
    /\ UNCHANGED closerWrite

move_to_disconnected ==
    /\ state' = "Disconnected"
    /\ closerWrite' = NoCycle
    /\ pubStore' = FALSE

\* A faulty drain that answers nobody when the attempt failed.
DrainOnSuccess(answer) ==
    future' = [u \in Callers |->
                 IF future[u] = "connect" /\ answer = "ok" THEN "ok"
                                                           ELSE future[u]]

\* on_connected_ch.drain(..), every sender given the same answer
DrainConnected(answer) ==
    future' = [u \in Callers |->
                 IF future[u] = "connect" THEN answer ELSE future[u]]

\* on_disconnected_ch.drain(..)
DrainDisconnected ==
    future' = [u \in Callers |->
                 IF future[u] = "disconnect" THEN "done" ELSE future[u]]

-----------------------------------------------------------------------------
(* The application.                                                        *)

\* A faulty connect() that joins the queue of an attempt under way.
QueueWhileConnecting(u) ==
    future' = [future EXCEPT ![u] = IF state = "Connecting" THEN "connect"
                                                            ELSE "ok"]

\* A connect() that finds the client not Disconnected resolves at once.
ResolveConnect(u) == future' = [future EXCEPT ![u] = "ok"]

\* Client::connect.  Bound: it is called only when a slot is free.
Connect(u) ==
    /\ ~poisoned
    /\ ~Pending(u)
    /\ \/ /\ state = "Disconnected"
          /\ future' = [future EXCEPT ![u] = "connect"]
          /\ \E c \in Cycles : Free(c) /\ move_to_connecting(c)
          /\ UNCHANGED <<closerWrite, serverInfo, poisoned>>
       \/ /\ state # "Disconnected"
          /\ ResolveConnect(u)
          /\ UNCHANGED <<state, closerWrite, serverInfo, pubStore, poisoned,
                         tasks>>

\* A faulty disconnect() that resolves before its cycle has ended.
ResolveAtOnce(u) == future' = [future EXCEPT ![u] = "done"]

\* A disconnect() that has something to end waits in on_disconnected_ch.
QueueDisconnect(u) == future' = [future EXCEPT ![u] = "disconnect"]

\* Client::disconnect
Disconnect(u) ==
    /\ ~poisoned
    /\ ~Pending(u)
    /\ \/ /\ state # "Disconnected"
          /\ QueueDisconnect(u)
          /\ move_to_disconnected
          /\ UNCHANGED <<serverInfo, poisoned, tasks>>
       \/ /\ state = "Disconnected"
          /\ future' = [future EXCEPT ![u] = "done"]
          /\ UNCHANGED <<state, closerWrite, serverInfo, pubStore, poisoned,
                         tasks>>

\* The application drops a future it holds.  The sender stays behind in its
\* vector, where sending to it does nothing.
DropFuture(u) ==
    /\ ~poisoned
    /\ Pending(u)
    /\ future' = [future EXCEPT ![u] = "none"]
    /\ UNCHANGED <<state, closerWrite, serverInfo, pubStore, poisoned, tasks>>

-----------------------------------------------------------------------------
(* One attempt of a cycle: the body of the reconnect loop.                 *)

\* The steps that touch only the cycle's own state.
Private(c) ==
    /\ ~poisoned
    /\ UNCHANGED client

\* The attempt's async block ends with r.
AttemptEnds(c, r) ==
    /\ pc' = [pc EXCEPT ![c] = "settle"]
    /\ result' = [result EXCEPT ![c] = r]

\* A new closer channel, whatever the client's state is by now.
BeginAttempt(c) ==
    /\ ~poisoned
    /\ pc[c] = "begin"
    /\ closerWrite' = c
    /\ closerMsg' = [closerMsg EXCEPT ![c] = "empty"]
    /\ sock' = [sock EXCEPT ![c] = "none"]
    /\ pc' = [pc EXCEPT ![c] = "check"]
    /\ UNCHANGED <<state, serverInfo, pubStore, future, poisoned, result>>

\* do_check_state(Connecting)?, then on to position `next'
CheckConnecting(c, next) ==
    \/ /\ state = "Connecting"
       /\ pc' = [pc EXCEPT ![c] = next]
       /\ UNCHANGED result
    \/ /\ state # "Connecting"
       /\ AttemptEnds(c, "stop")

CheckState(c) ==
    /\ pc[c] = "check"
    /\ CheckConnecting(c, "delay")
    /\ UNCHANGED <<closerMsg, sock>>
    /\ Private(c)

\* do_delay's sleep ends.  Its other branch, the closer, can't be taken: the
\* attempt itself holds a sender of that channel and nobody sends on it.
DelayElapsed(c) ==
    /\ pc[c] = "delay"
    /\ CheckConnecting(c, "dial")
    /\ UNCHANGED <<closerMsg, sock>>
    /\ Private(c)

\* do_connect yields a stream; do_handshake starts websocket_handler on it.
DialSucceeded(c) ==
    /\ pc[c] = "dial"
    /\ CheckConnecting(c, "handshake")
    /\ sock' = [sock EXCEPT ![c] =
                  IF state = "Connecting" THEN "open" ELSE "none"]
    /\ UNCHANGED closerMsg
    /\ Private(c)

\* connect_async fails: no reconnect for a bad URL, or once disconnected
DialFailed(c) ==
    /\ pc[c] = "dial"
    /\ \E r \in Verdicts :
          /\ state # "Connecting" => r = "stop"
          /\ AttemptEnds(c, r)
    /\ UNCHANGED <<closerMsg, sock>>
    /\ Private(c)

\* The server's Connect reply arrives before the handler's end does.
HandshakeAccepted(c) ==
    /\ pc[c] = "handshake"
    /\ sock[c] = "open"
    /\ AttemptEnds(c, "ok")
    /\ UNCHANGED <<closerMsg, sock>>
    /\ Private(c)

\* An error reply (err.temporary says which), an unexpected reply ("stop") or
\* a timeout ("reconnect"): tell the handler to close, and wait for its end.
HandshakeRefused(c) ==
    /\ pc[c] = "handshake"
    /\ sock[c] = "open"
    /\ \E r \in Verdicts : closerMsg' = [closerMsg EXCEPT ![c] = r]
    /\ pc' = [pc EXCEPT ![c] = "closing"]
    /\ UNCHANGED <<result, sock>>
    /\ Private(c)

\* handler_future is ready while the handshake waits
HandshakeEnds(c) ==
    /\ pc[c] \in {"handshake", "closing"}
    /\ sock[c] \in Verdicts
    /\ AttemptEnds(c, sock[c])
    /\ UNCHANGED <<closerMsg, sock>>
    /\ Private(c)

-----------------------------------------------------------------------------
(* The websocket_handler of an attempt, seen from outside.                 *)

\* A faulty reader without the unwrap_or(false) of a closed channel.
CloserMessage(c) == closerMsg[c]

\* What the closer channel yields: the message in it, or `false' once closed.
CloserVerdict(c) == IF closerMsg[c] = "empty" THEN "stop" ELSE closerMsg[c]

\* The reader task leaves its loop because of the closer channel.
SocketCloser(c) ==
    /\ sock[c] = "open"
    /\ CloserReady(c)
    /\ sock' = [sock EXCEPT ![c] = CloserVerdict(c)]
    /\ closerMsg' = [closerMsg EXCEPT ![c] = "empty"]
    /\ UNCHANGED <<pc, result>>
    /\ Private(c)

\* The server closes, with or without a code that forbids reconnecting, or
\* the connection breaks.
SocketRemoteEnd(c) ==
    /\ sock[c] = "open"
    /\ ~CloserReady(c)
    /\ \E r \in Verdicts : sock' = [sock EXCEPT ![c] = r]
    /\ UNCHANGED <<pc, result, closerMsg>>
    /\ Private(c)

-----------------------------------------------------------------------------
(* The end of an attempt, and of a cycle.                                  *)

\* After an attempt: answer the waiting connect() calls, then go on, try
\* again or give up.  A cycle that gives up here leaves `state' as it is.  It
\* drops the handler's future; the tasks inside it, detached, keep running.
Settle(c) ==
    /\ ~poisoned
    /\ pc[c] = "settle"
    /\ \/ /\ state # "Connecting"
          /\ pc' = [pc EXCEPT ![c] = "end"]
          /\ UNCHANGED future
       \/ /\ state = "Connecting"
          /\ DrainConnected(IF result[c] = "ok" THEN "ok" ELSE "err")
          /\ pc' = [pc EXCEPT ![c] =
                      CASE result[c] = "ok"        -> "enter"
                        [] result[c] = "reconnect" -> "begin"
                        [] OTHER                   -> "end"]
    /\ UNCHANGED <<state, closerWrite, serverInfo, pubStore, poisoned,
                   result, closerMsg, sock>>

\* A faulty entry without the assertion.
NoAssertion == TRUE

\* assert_eq!(self.state, State::Connecting)
EntryAssertion == state = "Connecting"

\* The critical section that makes the client Connected.  It is not the one
\* that looked at `state' in Settle; move_to_connected asserts what it found.
\* The panic of a failed assertion poisons the mutex and kills the task.
EnterConnected(c) ==
    /\ ~poisoned
    /\ pc[c] = "enter"
    /\ serverInfo' = c
    /\ \/ /\ EntryAssertion
          /\ state' = "Connected"
          /\ pc' = [pc EXCEPT ![c] = "connected"]
          /\ UNCHANGED poisoned
       \/ /\ ~EntryAssertion
          /\ poisoned' = TRUE
          /\ pc' = [pc EXCEPT ![c] = "idle"]
          /\ UNCHANGED state
    /\ UNCHANGED <<closerWrite, pubStore, future, result, closerMsg, sock>>

\* need_reconnect: what the main task returned, or `false' after giving up
NeedReconnect(c) == pc[c] = "connected" /\ sock[c] = "reconnect"

CycleOver(c) == pc[c] = "end" \/ (pc[c] = "connected" /\ sock[c] \in Verdicts)

\* The task returns.  A reader that Settle detached stays in the slot.
TaskEnds(c) ==
    /\ pc' = [pc EXCEPT ![c] = "idle"]
    /\ result' = [result EXCEPT ![c] = "none"]
    /\ sock' = [sock EXCEPT ![c] = IF @ = "open" THEN "open" ELSE "none"]
    /\ UNCHANGED closerMsg

\* The connection was lost: a fresh task, which takes over the slot, is to
\* reconnect.
CycleReconnects(c) ==
    /\ NeedReconnect(c)
    /\ state = "Connected"
    /\ move_to_connecting(c)
    /\ UNCHANGED <<closerWrite, future>>

\* It was lost and the client has moved on.  Nobody is told.
CycleYields(c) ==
    /\ NeedReconnect(c)
    /\ state # "Connected"
    /\ TaskEnds(c)
    /\ UNCHANGED <<state, closerWrite, pubStore, future>>

\* A cycle that does not want to reconnect ends the connection, be it its own
\* or not, and answers the disconnect() calls.
CycleStops(c) ==
    /\ ~NeedReconnect(c)
    /\ \/ state = "Connected" /\ move_to_disconnected
       \/ state # "Connected" /\ UNCHANGED <<state, closerWrite, pubStore>>
    /\ DrainDisconnected
    /\ TaskEnds(c)

\* The last critical section of do_connection_cycle.
EndCycle(c) ==
    /\ ~poisoned
    /\ CycleOver(c)
    /\ CycleReconnects(c) \/ CycleYields(c) \/ CycleStops(c)
    /\ UNCHANGED <<serverInfo, poisoned>>

-----------------------------------------------------------------------------

\* The steps of a cycle's task that its scheduler owes it.
CycleStep(c) ==
    \/ BeginAttempt(c)
    \/ CheckState(c)
    \/ DelayElapsed(c)
    \/ DialSucceeded(c)
    \/ DialFailed(c)
    \/ HandshakeAccepted(c)
    \/ HandshakeRefused(c)
    \/ HandshakeEnds(c)
    \/ Settle(c)
    \/ EnterConnected(c)
    \/ EndCycle(c)

System ==
    \E c \in Cycles : CycleStep(c) \/ SocketCloser(c) \/ SocketRemoteEnd(c)

\* Any use of the API.
Next ==
    \/ System
    \/ \E u \in Callers : Connect(u) \/ Disconnect(u) \/ DropFuture(u)

\* The most careful use an application can make of it: it awaits every
\* disconnect() before it calls connect() again.
SerialConnect(u) ==
    /\ \A v \in Callers : future[v] # "disconnect"
    /\ Connect(u)

SerialNext ==
    \/ System
    \/ \E u \in Callers : SerialConnect(u) \/ Disconnect(u)

\* Tasks that can run are run, a delay elapses, a dial ends (the operating
\* system bounds it) and a handshake ends (read_timeout bounds it).  No
\* fairness for the server, the network or the application.
Fairness ==
    \A c \in Cycles : WF_vars(CycleStep(c)) /\ WF_vars(SocketCloser(c))

Spec       == Init /\ [][Next]_vars /\ Fairness
SerialSpec == Init /\ [][SerialNext]_vars /\ Fairness

-----------------------------------------------------------------------------
(* Properties of any use of the API.                                       *)

\* A Connected client has a cycle that watches its socket: the one that wrote
\* server_info and sub_ch_write.  So a lost connection is always noticed, and
\* no stale cycle (lines 694-709) can take the state or the cycle alone.
ConnectedIsOwned ==
    state = "Connected" /\ ~poisoned =>
        /\ serverInfo \in Cycles
        /\ pc[serverInfo] = "connected"
        /\ pubStore

\* Every socket that a Disconnected client still has open has been told to
\* close, or belongs to a handshake that is going to find the client
\* Disconnected: no disconnect() leaves a connection behind for good,
\* whichever cycle overwrote closer_write in between.
DisconnectedSocketsClosing ==
    \A c \in Cycles :
        state = "Disconnected" /\ sock[c] = "open" =>
            CloserReady(c) \/ (HoldsCloser(c) /\ closerWrite # c)

\* While the client is Connecting, a connect() call that waits has an attempt
\* under way that will settle it, even if the attempt is not its own.
PendingConnectIsServed ==
    state = "Connecting" /\ (\E u \in Callers : future[u] = "connect") =>
        \E c \in Cycles : pc[c] \in Attempting

\* Once the client stays Disconnected, every task and every socket ends: the
\* delays, dials and handshakes that a disconnect() can't interrupt do end.
Quiesces ==
    <>[](state = "Disconnected")
        => <>[](poisoned \/ \A c \in Cycles : Free(c))

\* A connect() call is settled, by its own attempt or another one's, or the
\* client comes to be Disconnected (or is dead): as long as neither happens, it
\* can't wait for ever.
ConnectResolves ==
    \A u \in Callers :
        future[u] = "connect" ~>
            (future[u] # "connect" \/ state = "Disconnected" \/ poisoned)

-----------------------------------------------------------------------------
(* Properties of careful (serial) use.                                     *)

Live(c) == pc[c] # "idle"

\* One cycle at a time: awaiting disconnect() is enough to keep the tasks of
\* successive connects apart.
SingleCycle == \A c, d \in Cycles : Live(c) /\ Live(d) => c = d

\* disconnect() can reach the socket of a Connected client.
CloserReachesSocket ==
    state = "Connected" /\ ~poisoned => closerWrite = serverInfo

\* No connect() call still waits once the client is Connected.
ConnectFuturesSettled ==
    state = "Connected" => \A u \in Callers : future[u] # "connect"

-----------------------------------------------------------------------------
(* What makes the invariants above inductive.                              *)

\* The publish queue exists exactly while the client is not Disconnected.
StoreKept == pubStore <=> state # "Disconnected"

\* A Disconnected client's closer_write, if a late attempt has put one there,
\* never feeds an open socket.
CloserMatches ==
    \A c \in Cycles :
        state = "Disconnected" /\ closerWrite = c => sock[c] # "open"

IInv ==
    /\ TypeOK
    /\ StoreKept
    /\ ConnectedIsOwned
    /\ CloserMatches
    /\ PendingConnectIsServed

\* Careful use.  A disconnect() call that waits keeps the client Disconnected;
\* when none waits, a Disconnected client has no task left.
DisconnectWaits ==
    /\ \A u \in Callers : future[u] = "disconnect" => state = "Disconnected"
    /\ state = "Disconnected" /\ (\A u \in Callers : future[u] # "disconnect")
            => \A c \in Cycles : ~Live(c)

\* While the client wants a connection, closer_write is the running attempt's.
CloserIsCurrent ==
    \A c \in Cycles :
        state # "Disconnected" /\ pc[c] \notin {"idle", "begin", "end"}
            => closerWrite = c

\* Between an attempt's success and the entry to Connected no connect() call
\* can join the queue: connect() waits only on a Disconnected client.
NoneWaitsAtEntry ==
    \A c \in Cycles :
        pc[c] = "enter" /\ state # "Disconnected"
            => \A u \in Callers : future[u] # "connect"

SerialInv ==
    /\ SingleCycle
    /\ DisconnectWaits
    /\ CloserIsCurrent
    /\ NoneWaitsAtEntry
    /\ ConnectFuturesSettled

-----------------------------------------------------------------------------
(* Claims of the code's comments and assertions that do not hold.          *)

\* assert_eq!(self.state, State::Connecting) in move_to_connected holds.
NoPanic == ~poisoned

\* "Connecting, Connected -> Disconnected: ... terminal condition met": an
\* attempt loop that gave up takes the client to Disconnected.
ConnectingIsServed ==
    state = "Connecting" => \E c \in Cycles : Live(c)

\* "this is a regular future which you can poll to get result"
DisconnectResolves ==
    \A u \in Callers :
        future[u] = "disconnect" ~> (future[u] # "disconnect" \/ poisoned)

=============================================================================

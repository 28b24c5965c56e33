----------------------- MODULE ClientConnectionProofs -----------------------
(***************************************************************************)
(* Proofs about ClientConnection, for any number of tasks and callers.     *)
(***************************************************************************)
EXTENDS ClientConnection, TLAPS

\* Every step keeps the types.
LEMMA TypeStep ==
    ASSUME TypeOK, [Next]_vars PROVE TypeOK'
<1> USE DEF client, tasks, TypeOK, States, Verdicts, Positions, Attempting
<1>1. ASSUME NEW u \in Callers, Connect(u) PROVE TypeOK'
  BY <1>1 DEF Connect, ResolveConnect, move_to_connecting
<1>2. ASSUME NEW u \in Callers, Disconnect(u) PROVE TypeOK'
  BY <1>2 DEF Disconnect, QueueDisconnect, move_to_disconnected
<1>3. ASSUME NEW u \in Callers, DropFuture(u) PROVE TypeOK'
  BY <1>3 DEF DropFuture
<1>4. ASSUME NEW c \in Cycles, BeginAttempt(c) PROVE TypeOK'
  BY <1>4 DEF BeginAttempt
<1>5. ASSUME NEW c \in Cycles, CheckState(c) PROVE TypeOK'
  BY <1>5 DEF CheckState, CheckConnecting, AttemptEnds, Private
<1>6. ASSUME NEW c \in Cycles, DelayElapsed(c) PROVE TypeOK'
  BY <1>6 DEF DelayElapsed, CheckConnecting, AttemptEnds, Private
<1>7. ASSUME NEW c \in Cycles, DialSucceeded(c) PROVE TypeOK'
  BY <1>7 DEF DialSucceeded, CheckConnecting, AttemptEnds, Private
<1>8. ASSUME NEW c \in Cycles, DialFailed(c) PROVE TypeOK'
  BY <1>8 DEF DialFailed, AttemptEnds, Private
<1>9. ASSUME NEW c \in Cycles, HandshakeAccepted(c) PROVE TypeOK'
  BY <1>9 DEF HandshakeAccepted, AttemptEnds, Private
<1>10. ASSUME NEW c \in Cycles, HandshakeRefused(c) PROVE TypeOK'
  BY <1>10 DEF HandshakeRefused, Private
<1>11. ASSUME NEW c \in Cycles, HandshakeEnds(c) PROVE TypeOK'
  BY <1>11 DEF HandshakeEnds, AttemptEnds, Private
<1>12. ASSUME NEW c \in Cycles, SocketCloser(c) PROVE TypeOK'
  BY <1>12 DEF SocketCloser, CloserVerdict, Private
<1>13. ASSUME NEW c \in Cycles, SocketRemoteEnd(c) PROVE TypeOK'
  BY <1>13 DEF SocketRemoteEnd, Private
<1>14. ASSUME NEW c \in Cycles, Settle(c) PROVE TypeOK'
  BY <1>14 DEF Settle, DrainConnected
<1>15. ASSUME NEW c \in Cycles, EnterConnected(c) PROVE TypeOK'
  BY <1>15 DEF EnterConnected, EntryAssertion
<1>16. ASSUME NEW c \in Cycles, EndCycle(c) PROVE TypeOK'
  <2>1. CASE CycleReconnects(c)
    BY <1>16, <2>1 DEF EndCycle, CycleReconnects, CycleOver, NeedReconnect,
                     move_to_connecting
  <2>2. CASE CycleYields(c)
    BY <1>16, <2>2 DEF EndCycle, CycleYields, CycleOver, NeedReconnect, TaskEnds
  <2>3. CASE CycleStops(c)
    BY <1>16, <2>3 DEF EndCycle, CycleStops, CycleOver, NeedReconnect, TaskEnds,
                     move_to_disconnected, DrainDisconnected
  <2>4. QED
    BY <1>16, <2>1, <2>2, <2>3 DEF EndCycle
<1>17. CASE UNCHANGED vars
  BY <1>17 DEF vars
<1>18. QED
  BY <1>1, <1>2, <1>3, <1>4, <1>5, <1>6, <1>7, <1>8, <1>9, <1>10, <1>11,
     <1>12, <1>13, <1>14, <1>15, <1>16, <1>17 DEF Next, System, CycleStep

\* The publish queue comes and goes with the state.
LEMMA StoreStep ==
    ASSUME TypeOK, StoreKept, [Next]_vars PROVE StoreKept'
<1> USE DEF client, tasks, TypeOK, StoreKept
<1>1. ASSUME NEW u \in Callers, Connect(u) PROVE StoreKept'
  BY <1>1 DEF Connect, ResolveConnect, move_to_connecting
<1>2. ASSUME NEW u \in Callers, Disconnect(u) PROVE StoreKept'
  BY <1>2 DEF Disconnect, QueueDisconnect, move_to_disconnected
<1>3. ASSUME NEW u \in Callers, DropFuture(u) PROVE StoreKept'
  BY <1>3 DEF DropFuture
<1>4. ASSUME NEW c \in Cycles, BeginAttempt(c) PROVE StoreKept'
  BY <1>4 DEF BeginAttempt
<1>5. ASSUME NEW c \in Cycles, CheckState(c) PROVE StoreKept'
  BY <1>5 DEF CheckState, CheckConnecting, AttemptEnds, Private
<1>6. ASSUME NEW c \in Cycles, DelayElapsed(c) PROVE StoreKept'
  BY <1>6 DEF DelayElapsed, CheckConnecting, AttemptEnds, Private
<1>7. ASSUME NEW c \in Cycles, DialSucceeded(c) PROVE StoreKept'
  BY <1>7 DEF DialSucceeded, CheckConnecting, AttemptEnds, Private
<1>8. ASSUME NEW c \in Cycles, DialFailed(c) PROVE StoreKept'
  BY <1>8 DEF DialFailed, AttemptEnds, Private
<1>9. ASSUME NEW c \in Cycles, HandshakeAccepted(c) PROVE StoreKept'
  BY <1>9 DEF HandshakeAccepted, AttemptEnds, Private
<1>10. ASSUME NEW c \in Cycles, HandshakeRefused(c) PROVE StoreKept'
  BY <1>10 DEF HandshakeRefused, Private
<1>11. ASSUME NEW c \in Cycles, HandshakeEnds(c) PROVE StoreKept'
  BY <1>11 DEF HandshakeEnds, AttemptEnds, Private
<1>12. ASSUME NEW c \in Cycles, SocketCloser(c) PROVE StoreKept'
  BY <1>12 DEF SocketCloser, CloserVerdict, Private
<1>13. ASSUME NEW c \in Cycles, SocketRemoteEnd(c) PROVE StoreKept'
  BY <1>13 DEF SocketRemoteEnd, Private
<1>14. ASSUME NEW c \in Cycles, Settle(c) PROVE StoreKept'
  BY <1>14 DEF Settle, DrainConnected
<1>15. ASSUME NEW c \in Cycles, EnterConnected(c) PROVE StoreKept'
  BY <1>15 DEF EnterConnected, EntryAssertion
<1>16. ASSUME NEW c \in Cycles, EndCycle(c) PROVE StoreKept'
  <2>1. CASE CycleReconnects(c)
    BY <1>16, <2>1 DEF EndCycle, CycleReconnects, CycleOver, NeedReconnect,
                     move_to_connecting
  <2>2. CASE CycleYields(c)
    BY <1>16, <2>2 DEF EndCycle, CycleYields, CycleOver, NeedReconnect, TaskEnds
  <2>3. CASE CycleStops(c)
    BY <1>16, <2>3 DEF EndCycle, CycleStops, CycleOver, NeedReconnect, TaskEnds,
                     move_to_disconnected, DrainDisconnected
  <2>4. QED
    BY <1>16, <2>1, <2>2, <2>3 DEF EndCycle
<1>17. CASE UNCHANGED vars
  BY <1>17 DEF vars
<1>18. QED
  BY <1>1, <1>2, <1>3, <1>4, <1>5, <1>6, <1>7, <1>8, <1>9, <1>10, <1>11,
     <1>12, <1>13, <1>14, <1>15, <1>16, <1>17 DEF Next, System, CycleStep

\* A Connected client keeps a cycle that watches its socket.
LEMMA OwnedStep ==
    ASSUME TypeOK, StoreKept, ConnectedIsOwned, [Next]_vars PROVE ConnectedIsOwned'
<1> USE DEF client, tasks, TypeOK, StoreKept, ConnectedIsOwned
<1>1. ASSUME NEW u \in Callers, Connect(u) PROVE ConnectedIsOwned'
  BY <1>1 DEF Connect, ResolveConnect, move_to_connecting
<1>2. ASSUME NEW u \in Callers, Disconnect(u) PROVE ConnectedIsOwned'
  BY <1>2 DEF Disconnect, QueueDisconnect, move_to_disconnected
<1>3. ASSUME NEW u \in Callers, DropFuture(u) PROVE ConnectedIsOwned'
  BY <1>3 DEF DropFuture
<1>4. ASSUME NEW c \in Cycles, BeginAttempt(c) PROVE ConnectedIsOwned'
  BY <1>4 DEF BeginAttempt
<1>5. ASSUME NEW c \in Cycles, CheckState(c) PROVE ConnectedIsOwned'
  BY <1>5 DEF CheckState, CheckConnecting, AttemptEnds, Private
<1>6. ASSUME NEW c \in Cycles, DelayElapsed(c) PROVE ConnectedIsOwned'
  BY <1>6 DEF DelayElapsed, CheckConnecting, AttemptEnds, Private
<1>7. ASSUME NEW c \in Cycles, DialSucceeded(c) PROVE ConnectedIsOwned'
  BY <1>7 DEF DialSucceeded, CheckConnecting, AttemptEnds, Private
<1>8. ASSUME NEW c \in Cycles, DialFailed(c) PROVE ConnectedIsOwned'
  BY <1>8 DEF DialFailed, AttemptEnds, Private
<1>9. ASSUME NEW c \in Cycles, HandshakeAccepted(c) PROVE ConnectedIsOwned'
  BY <1>9 DEF HandshakeAccepted, AttemptEnds, Private
<1>10. ASSUME NEW c \in Cycles, HandshakeRefused(c) PROVE ConnectedIsOwned'
  BY <1>10 DEF HandshakeRefused, Private
<1>11. ASSUME NEW c \in Cycles, HandshakeEnds(c) PROVE ConnectedIsOwned'
  BY <1>11 DEF HandshakeEnds, AttemptEnds, Private
<1>12. ASSUME NEW c \in Cycles, SocketCloser(c) PROVE ConnectedIsOwned'
  BY <1>12 DEF SocketCloser, CloserVerdict, Private
<1>13. ASSUME NEW c \in Cycles, SocketRemoteEnd(c) PROVE ConnectedIsOwned'
  BY <1>13 DEF SocketRemoteEnd, Private
<1>14. ASSUME NEW c \in Cycles, Settle(c) PROVE ConnectedIsOwned'
  BY <1>14 DEF Settle, DrainConnected
<1>15. ASSUME NEW c \in Cycles, EnterConnected(c) PROVE ConnectedIsOwned'
  BY <1>15 DEF EnterConnected, EntryAssertion
<1>16. ASSUME NEW c \in Cycles, EndCycle(c) PROVE ConnectedIsOwned'
  <2>1. CASE CycleReconnects(c)
    BY <1>16, <2>1 DEF EndCycle, CycleReconnects, CycleOver, NeedReconnect,
                     move_to_connecting
  <2>2. CASE CycleYields(c)
    BY <1>16, <2>2 DEF EndCycle, CycleYields, CycleOver, NeedReconnect, TaskEnds
  <2>3. CASE CycleStops(c)
    BY <1>16, <2>3 DEF EndCycle, CycleStops, CycleOver, NeedReconnect, TaskEnds,
                     move_to_disconnected, DrainDisconnected
  <2>4. QED
    BY <1>16, <2>1, <2>2, <2>3 DEF EndCycle
<1>17. CASE UNCHANGED vars
  BY <1>17 DEF vars
<1>18. QED
  BY <1>1, <1>2, <1>3, <1>4, <1>5, <1>6, <1>7, <1>8, <1>9, <1>10, <1>11,
     <1>12, <1>13, <1>14, <1>15, <1>16, <1>17 DEF Next, System, CycleStep

\* A Disconnected client's closer_write feeds no open socket.
LEMMA CloserStep ==
    ASSUME TypeOK, CloserMatches, [Next]_vars PROVE CloserMatches'
<1> USE CyclesAssumption DEF client, tasks, TypeOK, CloserMatches
<1>1. ASSUME NEW u \in Callers, Connect(u) PROVE CloserMatches'
  BY <1>1 DEF Connect, ResolveConnect, move_to_connecting
<1>2. ASSUME NEW u \in Callers, Disconnect(u) PROVE CloserMatches'
  BY <1>2 DEF Disconnect, QueueDisconnect, move_to_disconnected
<1>3. ASSUME NEW u \in Callers, DropFuture(u) PROVE CloserMatches'
  BY <1>3 DEF DropFuture
<1>4. ASSUME NEW c \in Cycles, BeginAttempt(c) PROVE CloserMatches'
  BY <1>4 DEF BeginAttempt
<1>5. ASSUME NEW c \in Cycles, CheckState(c) PROVE CloserMatches'
  BY <1>5 DEF CheckState, CheckConnecting, AttemptEnds, Private
<1>6. ASSUME NEW c \in Cycles, DelayElapsed(c) PROVE CloserMatches'
  BY <1>6 DEF DelayElapsed, CheckConnecting, AttemptEnds, Private
<1>7. ASSUME NEW c \in Cycles, DialSucceeded(c) PROVE CloserMatches'
  BY <1>7 DEF DialSucceeded, CheckConnecting, AttemptEnds, Private
<1>8. ASSUME NEW c \in Cycles, DialFailed(c) PROVE CloserMatches'
  BY <1>8 DEF DialFailed, AttemptEnds, Private
<1>9. ASSUME NEW c \in Cycles, HandshakeAccepted(c) PROVE CloserMatches'
  BY <1>9 DEF HandshakeAccepted, AttemptEnds, Private
<1>10. ASSUME NEW c \in Cycles, HandshakeRefused(c) PROVE CloserMatches'
  BY <1>10 DEF HandshakeRefused, Private
<1>11. ASSUME NEW c \in Cycles, HandshakeEnds(c) PROVE CloserMatches'
  BY <1>11 DEF HandshakeEnds, AttemptEnds, Private
<1>12. ASSUME NEW c \in Cycles, SocketCloser(c) PROVE CloserMatches'
  BY <1>12 DEF SocketCloser, CloserVerdict, Private
<1>13. ASSUME NEW c \in Cycles, SocketRemoteEnd(c) PROVE CloserMatches'
  BY <1>13 DEF SocketRemoteEnd, Private
<1>14. ASSUME NEW c \in Cycles, Settle(c) PROVE CloserMatches'
  BY <1>14 DEF Settle, DrainConnected
<1>15. ASSUME NEW c \in Cycles, EnterConnected(c) PROVE CloserMatches'
  BY <1>15 DEF EnterConnected, EntryAssertion
<1>16. ASSUME NEW c \in Cycles, EndCycle(c) PROVE CloserMatches'
  <2>1. CASE CycleReconnects(c)
    BY <1>16, <2>1 DEF EndCycle, CycleReconnects, CycleOver, NeedReconnect,
                     move_to_connecting
  <2>2. CASE CycleYields(c)
    BY <1>16, <2>2 DEF EndCycle, CycleYields, CycleOver, NeedReconnect, TaskEnds
  <2>3. CASE CycleStops(c)
    BY <1>16, <2>3 DEF EndCycle, CycleStops, CycleOver, NeedReconnect, TaskEnds,
                     move_to_disconnected, DrainDisconnected
  <2>4. QED
    BY <1>16, <2>1, <2>2, <2>3 DEF EndCycle
<1>17. CASE UNCHANGED vars
  BY <1>17 DEF vars
<1>18. QED
  BY <1>1, <1>2, <1>3, <1>4, <1>5, <1>6, <1>7, <1>8, <1>9, <1>10, <1>11,
     <1>12, <1>13, <1>14, <1>15, <1>16, <1>17 DEF Next, System, CycleStep

\* A waiting connect() keeps an attempt under way.
LEMMA ServedStep ==
    ASSUME TypeOK, PendingConnectIsServed, [Next]_vars PROVE PendingConnectIsServed'
<1> USE DEF client, tasks, TypeOK, PendingConnectIsServed, Attempting
<1>1. ASSUME NEW u \in Callers, Connect(u) PROVE PendingConnectIsServed'
  BY <1>1 DEF Connect, ResolveConnect, move_to_connecting
<1>2. ASSUME NEW u \in Callers, Disconnect(u) PROVE PendingConnectIsServed'
  BY <1>2 DEF Disconnect, QueueDisconnect, move_to_disconnected
<1>3. ASSUME NEW u \in Callers, DropFuture(u) PROVE PendingConnectIsServed'
  BY <1>3 DEF DropFuture
<1>4. ASSUME NEW c \in Cycles, BeginAttempt(c) PROVE PendingConnectIsServed'
  BY <1>4 DEF BeginAttempt
<1>5. ASSUME NEW c \in Cycles, CheckState(c) PROVE PendingConnectIsServed'
  BY <1>5 DEF CheckState, CheckConnecting, AttemptEnds, Private
<1>6. ASSUME NEW c \in Cycles, DelayElapsed(c) PROVE PendingConnectIsServed'
  BY <1>6 DEF DelayElapsed, CheckConnecting, AttemptEnds, Private
<1>7. ASSUME NEW c \in Cycles, DialSucceeded(c) PROVE PendingConnectIsServed'
  BY <1>7 DEF DialSucceeded, CheckConnecting, AttemptEnds, Private
<1>8. ASSUME NEW c \in Cycles, DialFailed(c) PROVE PendingConnectIsServed'
  BY <1>8 DEF DialFailed, AttemptEnds, Private
<1>9. ASSUME NEW c \in Cycles, HandshakeAccepted(c) PROVE PendingConnectIsServed'
  BY <1>9 DEF HandshakeAccepted, AttemptEnds, Private
<1>10. ASSUME NEW c \in Cycles, HandshakeRefused(c) PROVE PendingConnectIsServed'
  BY <1>10 DEF HandshakeRefused, Private
<1>11. ASSUME NEW c \in Cycles, HandshakeEnds(c) PROVE PendingConnectIsServed'
  BY <1>11 DEF HandshakeEnds, AttemptEnds, Private
<1>12. ASSUME NEW c \in Cycles, SocketCloser(c) PROVE PendingConnectIsServed'
  BY <1>12 DEF SocketCloser, CloserVerdict, Private
<1>13. ASSUME NEW c \in Cycles, SocketRemoteEnd(c) PROVE PendingConnectIsServed'
  BY <1>13 DEF SocketRemoteEnd, Private
<1>14. ASSUME NEW c \in Cycles, Settle(c) PROVE PendingConnectIsServed'
  BY <1>14 DEF Settle, DrainConnected
<1>15. ASSUME NEW c \in Cycles, EnterConnected(c) PROVE PendingConnectIsServed'
  BY <1>15 DEF EnterConnected, EntryAssertion
<1>16. ASSUME NEW c \in Cycles, EndCycle(c) PROVE PendingConnectIsServed'
  <2>1. CASE CycleReconnects(c)
    BY <1>16, <2>1 DEF EndCycle, CycleReconnects, CycleOver, NeedReconnect,
                     move_to_connecting
  <2>2. CASE CycleYields(c)
    BY <1>16, <2>2 DEF EndCycle, CycleYields, CycleOver, NeedReconnect, TaskEnds
  <2>3. CASE CycleStops(c)
    BY <1>16, <2>3 DEF EndCycle, CycleStops, CycleOver, NeedReconnect, TaskEnds,
                     move_to_disconnected, DrainDisconnected
  <2>4. QED
    BY <1>16, <2>1, <2>2, <2>3 DEF EndCycle
<1>17. CASE UNCHANGED vars
  BY <1>17 DEF vars
<1>18. QED
  BY <1>1, <1>2, <1>3, <1>4, <1>5, <1>6, <1>7, <1>8, <1>9, <1>10, <1>11,
     <1>12, <1>13, <1>14, <1>15, <1>16, <1>17 DEF Next, System, CycleStep

\* The inductive invariant holds of a new client.
LEMMA InitIInv == Init => IInv
<1> SUFFICES ASSUME Init PROVE IInv
  OBVIOUS
<1>1. TypeOK
  BY DEF Init, TypeOK, States, Verdicts, Positions, Attempting
<1>2. StoreKept
  BY DEF Init, StoreKept
<1>3. ConnectedIsOwned /\ CloserMatches /\ PendingConnectIsServed
  BY DEF Init, ConnectedIsOwned, CloserMatches, PendingConnectIsServed
<1>4. QED
  BY <1>1, <1>2, <1>3 DEF IInv

\* The inductive invariant of any use.
THEOREM Invariance == Spec => []IInv
<1>1. IInv /\ [Next]_vars => IInv'
  BY TypeStep, StoreStep, OwnedStep, CloserStep, ServedStep DEF IInv
<1>2. QED
  BY InitIInv, <1>1, PTL DEF Spec

\* ClientInner's fields, and every task's locals, keep to their types.
THEOREM TypeCorrect == Spec => []TypeOK
BY Invariance, PTL DEF IInv

\* A Connected client always has the cycle that watches its socket, whatever
\* stale cycles do.
THEOREM OwnedWhileConnected == Spec => []ConnectedIsOwned
BY Invariance, PTL DEF IInv

\* Whatever order calls and tasks come in, a Disconnected client leaves no
\* socket open that has not been told to close.
THEOREM NoSocketLeft == Spec => []DisconnectedSocketsClosing
<1>1. IInv => DisconnectedSocketsClosing
  BY DEF IInv, CloserMatches, DisconnectedSocketsClosing, CloserReady,
         CloserClosed
<1>2. QED
  BY <1>1, Invariance, PTL

\* While the client is Connecting, a waiting connect() has an attempt under
\* way that will answer it.
THEOREM ConnectIsServed == Spec => []PendingConnectIsServed
BY Invariance, PTL DEF IInv

-----------------------------------------------------------------------------
(* Careful use.                                                            *)

\* Awaiting every disconnect() keeps the tasks apart.
LEMMA SerialStep ==
    ASSUME TypeOK, ConnectedIsOwned, SerialInv, [SerialNext]_vars
    PROVE  SerialInv'
<1> USE DEF TypeOK, ConnectedIsOwned, SerialInv, SingleCycle, Live,
            DisconnectWaits, CloserIsCurrent, NoneWaitsAtEntry,
            ConnectFuturesSettled, client, tasks
<1>1. ASSUME NEW u \in Callers, SerialConnect(u) PROVE SerialInv'
  <2> USE DEF SerialConnect
  <2>1. CASE state = "Disconnected"
    <3>1. PICK c \in Cycles : Free(c) /\ move_to_connecting(c)
      BY <1>1, <2>1 DEF Connect, ResolveConnect
    <3>2. \A d \in Cycles : pc[d] = "idle"
      BY <1>1, <2>1
    <3>3. /\ \A d \in Cycles : pc'[d] = IF d = c THEN "begin" ELSE "idle"
          /\ state' = "Connecting"
      BY <3>1, <3>2 DEF move_to_connecting
    <3>4. \A v \in Callers : future'[v] # "disconnect"
      BY <1>1, <2>1 DEF Connect, ResolveConnect
    <3>5. QED
      BY <3>3, <3>4
  <2>2. CASE state # "Disconnected"
    BY <1>1, <2>2 DEF Connect, ResolveConnect
  <2>3. QED
    BY <2>1, <2>2
<1>2. ASSUME NEW u \in Callers, Disconnect(u) PROVE SerialInv'
  <2>1. CASE state = "Disconnected"
    BY <1>2, <2>1 DEF Disconnect, Pending
  <2>2. CASE state # "Disconnected"
    <3>1. /\ state' = "Disconnected"
          /\ pc' = pc
          /\ future' = [future EXCEPT ![u] = "disconnect"]
      BY <1>2, <2>2 DEF Disconnect, QueueDisconnect, move_to_disconnected
    <3>2. QED
      BY <3>1
  <2>3. QED
    BY <2>1, <2>2
<1>3. ASSUME NEW c \in Cycles, BeginAttempt(c) PROVE SerialInv'
  BY <1>3 DEF BeginAttempt
<1>4. ASSUME NEW c \in Cycles, CheckState(c) PROVE SerialInv'
  BY <1>4 DEF CheckState, CheckConnecting, AttemptEnds, Private
<1>5. ASSUME NEW c \in Cycles, DelayElapsed(c) PROVE SerialInv'
  BY <1>5 DEF DelayElapsed, CheckConnecting, AttemptEnds, Private
<1>6. ASSUME NEW c \in Cycles, DialSucceeded(c) PROVE SerialInv'
  BY <1>6 DEF DialSucceeded, CheckConnecting, AttemptEnds, Private
<1>7. ASSUME NEW c \in Cycles, DialFailed(c) PROVE SerialInv'
  BY <1>7 DEF DialFailed, AttemptEnds, Private
<1>8. ASSUME NEW c \in Cycles, HandshakeAccepted(c) PROVE SerialInv'
  BY <1>8 DEF HandshakeAccepted, AttemptEnds, Private
<1>9. ASSUME NEW c \in Cycles, HandshakeRefused(c) PROVE SerialInv'
  BY <1>9 DEF HandshakeRefused, Private
<1>10. ASSUME NEW c \in Cycles, HandshakeEnds(c) PROVE SerialInv'
  BY <1>10 DEF HandshakeEnds, AttemptEnds, Private
<1>11. ASSUME NEW c \in Cycles, SocketCloser(c) PROVE SerialInv'
  BY <1>11 DEF SocketCloser, CloserVerdict, Private
<1>12. ASSUME NEW c \in Cycles, SocketRemoteEnd(c) PROVE SerialInv'
  BY <1>12 DEF SocketRemoteEnd, Private
<1>13. ASSUME NEW c \in Cycles, Settle(c) PROVE SerialInv'
  BY <1>13 DEF Settle, DrainConnected
<1>14. ASSUME NEW c \in Cycles, EnterConnected(c) PROVE SerialInv'
  BY <1>14 DEF EnterConnected, EntryAssertion
<1>15. ASSUME NEW c \in Cycles, EndCycle(c) PROVE SerialInv'
  <2>1. CASE CycleReconnects(c)
    BY <1>15, <2>1 DEF EndCycle, CycleReconnects, CycleOver, NeedReconnect,
                     move_to_connecting
  <2>2. CASE CycleYields(c)
    BY <1>15, <2>2 DEF EndCycle, CycleYields, CycleOver, NeedReconnect, TaskEnds
  <2>3. CASE CycleStops(c)
    BY <1>15, <2>3 DEF EndCycle, CycleStops, CycleOver, NeedReconnect, TaskEnds,
                     move_to_disconnected, DrainDisconnected
  <2>4. QED
    BY <1>15, <2>1, <2>2, <2>3 DEF EndCycle
<1>16. CASE UNCHANGED vars
  BY <1>16 DEF vars
<1>17. QED
  BY <1>1, <1>2, <1>3, <1>4, <1>5, <1>6, <1>7, <1>8, <1>9, <1>10, <1>11,
     <1>12, <1>13, <1>14, <1>15, <1>16 DEF SerialNext, SerialConnect, System,
     CycleStep

\* Careful use is a use, so what holds of any use holds of it.
THEOREM SerialUse == SerialSpec => [](IInv /\ SerialInv)
<1>1. Init => IInv
  BY InitIInv
<1>2. Init => SerialInv
  BY DEF Init, SerialInv, SingleCycle, Live, DisconnectWaits,
         CloserIsCurrent, NoneWaitsAtEntry, ConnectFuturesSettled
<1>3. SerialNext => Next
  BY DEF SerialNext, SerialConnect, Next
<1>4. IInv /\ [SerialNext]_vars => IInv'
  BY <1>3, TypeStep, StoreStep, OwnedStep, CloserStep, ServedStep DEF IInv
<1>5. IInv /\ SerialInv /\ [SerialNext]_vars => SerialInv'
  BY SerialStep DEF IInv
<1>6. QED
  BY <1>1, <1>2, <1>4, <1>5, PTL DEF SerialSpec

\* An application that awaits disconnect() before it connects again never has
\* two connection cycles at a time.
THEOREM OneCycle == SerialSpec => []SingleCycle
BY SerialUse, PTL DEF SerialInv

\* ... and its disconnect() always reaches the socket of a Connected client.
THEOREM CloserReaches == SerialSpec => []CloserReachesSocket
<1>1. IInv /\ SerialInv => CloserReachesSocket
  BY DEF IInv, SerialInv, ConnectedIsOwned, CloserIsCurrent,
         CloserReachesSocket
<1>2. QED
  BY <1>1, SerialUse, PTL

\* ... and no connect() call of it still waits once the client is Connected.
THEOREM FuturesSettled == SerialSpec => []ConnectFuturesSettled
BY SerialUse, PTL DEF SerialInv

=============================================================================

\* Any use of the API: overlapping connect() and disconnect() calls.
\* The real system stops where it panics (NoPanic), so deadlock is not checked.
CONSTANTS
    c1 = c1
    c2 = c2
    u1 = u1
    u2 = u2
    NoCycle = NoCycle
    Cycles = {c1, c2}
    Callers = {u1, u2}
SPECIFICATION Spec
INVARIANTS
    TypeOK
    ConnectedIsOwned
    DisconnectedSocketsClosing
    PendingConnectIsServed
PROPERTIES
    Quiesces
    ConnectResolves
CHECK_DEADLOCK FALSE

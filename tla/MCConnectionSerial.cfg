\* Careful use of the API: every disconnect() is awaited.
\* The real system stops where it panics (NoPanic), so deadlock is not checked.
CONSTANTS
    c1 = c1
    c2 = c2
    u1 = u1
    u2 = u2
    NoCycle = NoCycle
    Cycles = {c1, c2}
    Callers = {u1, u2}
SPECIFICATION SerialSpec
INVARIANTS
    SingleCycle
    CloserReachesSocket
    ConnectFuturesSettled
CHECK_DEADLOCK FALSE

\* The assertion of move_to_connected, under careful use.
CONSTANTS
    c1 = c1
    c2 = c2
    u1 = u1
    u2 = u2
    NoCycle = NoCycle
    Cycles = {c1, c2}
    Callers = {u1, u2}
SPECIFICATION SerialSpec
INVARIANT
    NoPanic
CHECK_DEADLOCK FALSE

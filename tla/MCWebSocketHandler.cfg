CONSTANTS
    NumRequests = 3
    ControlCap = 2
    BatchMax = 2
SPECIFICATION Spec
INVARIANTS
    TypeOK
    PendingIsHeld
    WireInOrder
   
PROPERTIES
    PromiseKept
    TimedRequestResolves
    HandlerEnds
CHECK_DEADLOCK FALSE

\* Two publish tasks at a time, three messages, two taken at once.
CONSTANTS
    NumMessages = 3
    Capacity = 2
    Tasks = {1, 2}
    NoTask = 0
SPECIFICATION Spec
INVARIANTS
    TypeOK
    PendingIsHeld
    NoLostWakeup
    HandedOverInOrder
PROPERTIES
    ReconnectKeepsQueue
    StoreIsEmptied
CHECK_DEADLOCK FALSE

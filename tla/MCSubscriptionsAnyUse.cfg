CONSTANTS
    Subs = {1, 2}
    ChannelOf <- OneChannel
    Slots = {t1, t2}
    QueueBound = 2
    MaxSessions = 2
    Faults = {"refuse", "silence", "kick"}
SPECIFICATION Spec
INVARIANTS
    TypeOK
    SubscribingIsKnown
SYMMETRY AnySlot
CHECK_DEADLOCK FALSE

CONSTANTS
    Subs = {1, 2, 3}
    ChannelOf <- TwoChannels
    Slots = {t1, t2, t3}
    QueueBound = 3
    MaxSessions = 1
    Faults = {}
SPECIFICATION PatientSpec
INVARIANTS
    Agreement
    NoDoubleSubscribe
    ServedIsOnRecord
PROPERTIES
    PromiseKept
    SubscribeResolves
    UnsubscribeResolves
CHECK_DEADLOCK FALSE

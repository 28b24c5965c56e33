CONSTANTS
    Subs = {1, 2}
    ChannelOf <- OneChannel
    Slots = {t1, t2, t3}
    QueueBound = 3
    MaxSessions = 1
    Faults = {"refuse"}
SPECIFICATION PatientSpec
PROPERTIES
    SubscribeResolves
CHECK_DEADLOCK FALSE

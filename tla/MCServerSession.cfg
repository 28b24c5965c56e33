SPECIFICATION Spec
CONSTANTS
    Params <- NoTimers
    Channels = {a}
    NumCommands = 4
    IncomingMax = 2
    MaxRequests = 1
    MaxSubscriptions = 1
    ReplyCap = 1
    BatchMax = 2
    PingInterval = 1
    PongTimeout = 1
INVARIANTS TypeOK EntriesMatchTasks NoSilentLoss
PROPERTIES PromiseKept CommandsAnswered ServeEnds
CHECK_DEADLOCK FALSE

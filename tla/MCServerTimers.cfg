SPECIFICATION Spec
CONSTANTS
    Params <- Timers
    Channels = {a}
    NumCommands = 2
    IncomingMax = 1
    MaxRequests = 1
    MaxSubscriptions = 1
    ReplyCap = 2
    BatchMax = 2
    PingInterval = 1
    PongTimeout = 1
INVARIANTS NoSilentLoss NoPongMeansSilence StayAwayIsDeserved
PROPERTIES PromiseKept PingsAreAnswered
CHECK_DEADLOCK FALSE

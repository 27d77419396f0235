SPECIFICATION SystemSpec
CONSTANTS
    h1 = h1
    h2 = h2
    f1 = f1
    Heaters = {h1, h2}
    watched = h1
    NoHeater = NoHeater
    Fds = {f1}
    NoFd = NoFd
    States = {"COMFORT"}
    MaxBacklog = 1
    MaxIdle = 0
    REQUEST_STATE_FAILURE_THRESHOLD = 1
INVARIANTS
    PinsFollowTarget
    NoLongDisobedience
PROPERTIES
    StatesAreCurrent
CONSTRAINTS
    NeighboursInDefrost
    NeighboursWait
    GoodSettings
    CallbacksBetweenRequests

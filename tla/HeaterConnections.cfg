SPECIFICATION FairSpec
CONSTANTS
    h1 = h1
    f1 = f1
    f2 = f2
    Heaters = {h1}
    Fds = {f1, f2}
    NoHeater = NoHeater
    NoFd = NoFd
    States = {}
    MaxBacklog = 1
    MaxIdle = 0
INVARIANTS
    TypeOK
    DescriptorsAccounted
    ReadReturns
PROPERTIES
    DescriptorsReturn
    RequestsAnswered

SPECIFICATION FairSpec
CONSTANTS
    a = a
    b = b
    p = p
    q = q
    Names = {a, b}
    InvalidName = InvalidName
    Senders = {p}
    ValidNumbers = {p}
    InvalidNumber = InvalidNumber
    NoPhone = NoPhone
    BASE_STATION_PIN <- Pin
    Commands <- PolicyCommands
    MODULE_3G_ERROR_THRESHOLD = 2
    DAEMON_ERROR_THRESHOLD = 1
    ModemStates = {"absent", "unregistered", "registered"}
    StorageMayFail = TRUE
    MaxCommands = 1
INVARIANTS
    TypeOK
PROPERTIES
    PolicySpec
    OutagesFallBack
    ModemNoticeIsTrue

SPECIFICATION Spec
CONSTANTS
    a = a
    b = b
    p = p
    q = q
    Names = {}
    InvalidName = InvalidName
    Senders = {p, q}
    ValidNumbers = {p, q}
    InvalidNumber = InvalidNumber
    NoPhone = NoPhone
    BASE_STATION_PIN <- Pin
    Commands <- AccessCommands
    MODULE_3G_ERROR_THRESHOLD = 1
    DAEMON_ERROR_THRESHOLD = 1
    ModemStates = {"absent", "unregistered", "registered"}
    StorageMayFail = FALSE
    MaxCommands = 1
PROPERTIES
    AnyPhoneCanUnlock

SPECIFICATION FairSpec
CONSTANTS
    a = a
    b = b
    p = p
    q = q
    Names = {a}
    InvalidName = InvalidName
    Senders = {p, q}
    ValidNumbers = {p, q}
    InvalidNumber = InvalidNumber
    NoPhone = NoPhone
    BASE_STATION_PIN <- Pin
    Commands <- AccessCommands
    MODULE_3G_ERROR_THRESHOLD = 1
    DAEMON_ERROR_THRESHOLD = 1
    ModemStates = {"registered"}
    StorageMayFail = FALSE
    MaxCommands = 2
INVARIANTS
    LockedHasKeyholder
    SavedWhenIdle
PROPERTIES
    OnlyKeyholdersCommand
    OnlyUnlockEndsLock
    UnlockWaits
    AcknowledgedIsSaved
    KeyholderCanUnlock

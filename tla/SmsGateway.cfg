SPECIFICATION FairSpec
CONSTANTS
    MaxSms = 2
    Writes = 2
    EventsPerRead = 2
    Pids = {1}
    NoPid = 0
    SMS_TOO_OLD = 1
    CLEANUP_SMS_PERIOD = 2
    MaxCounter = 2
    DebugLogs = {1}
    MaxReplies = 2
INVARIANTS
    TypeOK
    NoSmsReplaced
    AnswersAreOwed
PROPERTIES
    DeliverySpec
    YoungSmsStay
    FirstStaysFirst
    FirstIsUnderstood

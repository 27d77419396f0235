SPECIFICATION FairSpec
CONSTANTS
    Devices = {1}
    NoDevice = 0
    States = {"DEFROST", "COMFORT"}
    Boots = {0, 1}
    BootSpan = 4
    Modulus = 32
    RebootThreshold = 1
    MaxSent = 2
    DEVICE_LOST_THRESHOLD = 2
    CHECK_LOST_DEVICES_PERIOD = 1
    MaxJump = 1
    WIFI_ERROR_THRESHOLD = 2
INVARIANTS
    TypeOK
    ListedAreFresh
    PageShowsAnswers
PROPERTIES
    RebootNoticeIsTrue
    RebootNoticed
    LostIsSilent
    WifiLossToldOnce
    WifiLossIsTold

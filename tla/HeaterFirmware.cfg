SPECIFICATION FairSpec
CONSTANT
    REQUEST_STATE_FAILURE_THRESHOLD = 15
INVARIANTS
    TypeOK
    FailuresMeanDefrost
    WireCarriesState
    RunsOnWholeSettings
PROPERTIES
    StartKeepsSettings
    FailingRequestsFallBack

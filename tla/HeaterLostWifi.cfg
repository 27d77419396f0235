SPECIFICATION FairSpec
CONSTANT
    REQUEST_STATE_FAILURE_THRESHOLD = 15
PROPERTY
    LostWifiFallsBack

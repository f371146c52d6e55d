SPECIFICATION Spec
CONSTANTS
    V2_MAX_PAYLOAD_LEN = 20
    Messages <- SmallMessages
    MaxSent = 2
    ForeignBytes = {3}
    INITIAL_SNAPSHOT_TIMEOUT = 3
    ARTWORK_GRACE_PERIOD = 1
    HELPER_RESPONSE_TIMEOUT = 6
    HELPER_ERROR_LIMIT = 2
    ExpectedPixels = 2
    MaxFaults = 1
CHECK_DEADLOCK FALSE
INVARIANTS
    EveryByteAccounted
    LoadedFrameIsWhole
    PollingBeatsDeadline
PROPERTIES
    SentIsReceived
    LoadReturns

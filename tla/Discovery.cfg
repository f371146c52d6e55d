SPECIFICATION FairSpec
CONSTANTS
    mac = mac
    other = other
    Hosts = {mac, other}
    Ports = {5581, 5583}
    PROBE_COUNT = 2
    PROBE_WINDOW = 2
    Targets = 1
    MaxAttempts = 2
    MaxRestarts = 2
CHECK_DEADLOCK FALSE
INVARIANTS
    EndpointIsOfThisAttempt
    AmbiguityIsRefused
PROPERTIES
    AttemptEnds

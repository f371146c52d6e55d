SPECIFICATION FairSpec
CONSTANTS
    Viewports = {portrait, landscape}
    FrameViewports = {portrait}
    OUTBOUND_QUEUE_CAPACITY = 1
    MaxConnections = 3
    MaxInputs = 1
INVARIANTS
    PendingFrameFits
    DropReleasesEverything
PROPERTIES
    DropReturns
    LostConnectionIsReplaced

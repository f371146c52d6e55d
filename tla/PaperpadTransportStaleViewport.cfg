SPECIFICATION Spec
CONSTANTS
    Viewports = {portrait, landscape}
    FrameViewports = {}
    OUTBOUND_QUEUE_CAPACITY = 2
    MaxConnections = 2
    MaxInputs = 2
INVARIANTS
    PointersUseAnnouncedViewport

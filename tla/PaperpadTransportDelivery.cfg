SPECIFICATION Spec
CONSTANTS
    Viewports = {portrait, landscape}
    FrameViewports = {}
    OUTBOUND_QUEUE_CAPACITY = 1
    MaxConnections = 2
    MaxInputs = 3
SYMMETRY ViewportSymmetry
INVARIANTS
    PointersFollowViewport
PROPERTIES
    DeliversInOrder

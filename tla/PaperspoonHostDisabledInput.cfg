SPECIFICATION Spec
CONSTANTS
    portrait = portrait
    landscape = landscape
    b1 = b1
    Viewports = {portrait, landscape}
    Oversized = {}
    HelloFormats <- BackendFormats
    ImageKinds = {"jpeg"}
    Buttons = {b1}
    MaxConnections = 1
    MaxCommands = 1
    MaxMessages = 2
CHECK_DEADLOCK FALSE
INVARIANT InputFollowsApplicationFrame

SPECIFICATION Spec
SYMMETRY ViewportSymmetry
CONSTANTS
    portrait = portrait
    landscape = landscape
    oversized = oversized
    b1 = b1
    Viewports = {portrait, landscape, oversized}
    Oversized = {oversized}
    HelloFormats <- BackendFormats
    ImageKinds = {"jpeg"}
    Buttons = {b1}
    MaxConnections = 2
    MaxCommands = 2
    MaxMessages = 2
CHECK_DEADLOCK FALSE
INVARIANTS
    FrameIdsAreDense
    AuthoritativeIsLastSent
    FormatsAreAdvertised
    SkippedFrameIsShown
    ServedPaperPadHasFrame
PROPERTIES
    InputNeedsApplicationFrame
    NothingFollowsTornFrame
    ImagesFitReportedViewport

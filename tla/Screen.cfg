SPECIFICATION ScreenSpec
CONSTANTS
    MAX_COORDINATE = 17
    MAX_SIZE = 19
    SYSTEM_UI_HEIGHT = 3
    CELL_MARGIN = 1
    CONNECTION_INDICATOR_DIAMETER = 3
    GRID_TOP_INSET = 1
    STATUS_BAR_HEIGHT = 1
    V2_MAX_PAYLOAD_LEN = 1000
    MonoBits = {0, 3, 5}
    GrayShifts = {1}
    InkLevels = 256
    MaxDrawings = 3
    MaxFaults = 1
    Kernels <- MCKernels
    MARKERS = 3
    BORDER_THICKNESS = 1
    GLYPH_WIDTH = 1
    GLYPH_HEIGHT = 1
    MAX_GLYPH_SCALE = 1
    EXIT_GLYPHS <- MCExitGlyphs
    XServers <- MCXServers
    DrawnSizes <- MCDrawnSizes
CHECK_DEADLOCK FALSE
INVARIANTS
    OneOwner
    CancelPointMisses
    OneButton
    PictureIsShown
    StripIsShown
PROPERTY
    StripsStayApart

SPECIFICATION Spec
SYMMETRY Symmetry
CONSTANTS
    portrait = portrait
    landscape = landscape
    b1 = b1
    b2 = b2
    Sizes = {portrait, landscape}
    Buttons = {b1, b2}
    QueueCapacity = 1
    MaxTouches = 4
    MaxResets = 1
    MaxSessions = 2
CHECK_DEADLOCK FALSE
INVARIANTS
    ExitIsATap
    ExitSendsNothing
    PairsPreserved
    ActionsHaveBothPhases

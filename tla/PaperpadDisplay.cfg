SPECIFICATION FairSpec
CONSTANTS
    portrait = portrait
    landscape = landscape
    Sizes = {portrait, landscape}
    MaxFrames = 2
    MaxDamages = 3
    MaxFaults = 1
CHECK_DEADLOCK FALSE
INVARIANTS
    RetainedIsShown
    IdleScreenIsCurrent
PROPERTIES
    IndicatorFollowsConnection

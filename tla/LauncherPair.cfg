SPECIFICATION FairSpec
CONSTANTS
    l1 = l1
    l2 = l2
    Launchers = {l1, l2}
    MaxCrashes = 1
    MaxFailures = 1
CHECK_DEADLOCK FALSE
INVARIANTS
    
    NothingLeftBehind
    DeadlineIsReported
PROPERTIES
    RunKeepsItsRule
    

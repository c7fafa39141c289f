SPECIFICATION FairSpec
CONSTANTS
    N = 3
    Entry <- MCEntry
    NoGroup = "none"
    Listening = {"a"}
    MaxEntries = 2
    MaxClock = 2
INVARIANTS
    ReloadInv
    GroupsCurrent
    LostOnlyThatSecond
PROPERTIES
    ClosedOnlyIfGone
    RequestServed
CHECK_DEADLOCK FALSE

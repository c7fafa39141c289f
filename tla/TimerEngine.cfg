SPECIFICATION Spec
CONSTANTS
    Capacity = 5
    PerSecond = 2
    IntMax = 6
    Intervals = {0, 1}
    MaxTime = 2
    MaxAhead = 1
    MaxAgain = 0
    MaxAdds = 5
    MaxPerms = 1
INVARIANTS
    TreeInv
    LookupsRight
    CleanUnlessEarlier
    TimersKept
PROPERTY
    ImplementsTimers
CHECK_DEADLOCK FALSE

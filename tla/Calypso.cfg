SPECIFICATION CalypsoSpec
CONSTANTS
    N = 3
    FdBase = 1
    MaxFired = 2
    MaxRecover = 2
    MaxCheck = 3
    MinRest = 0
    ConnTimeout = 1
    MaxIdle = 1
    MaxConf = 2
    Followed = {0}
INVARIANTS
    DescriptorsAgree
    UsedAreWatched
    EventsReachLinks
    SlotsAccounted
    AnswersMatch
    ReusedAfterAllOthers
PROPERTY
    HealthyUntouched

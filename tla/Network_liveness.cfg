SPECIFICATION FairSpec
CONSTANTS
    N = 3
    FdBase = 1
    MaxFired = 1
    MaxRecover = 3
    MaxCheck = 3
    MinRest = 1
    ConnTimeout = 2
    MaxIdle = 2
    MaxConf = 1
PROPERTIES
    ConnectEnds
    ErrorRetried
    IdleReclaimed

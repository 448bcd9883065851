SPECIFICATION FairSpec
CONSTANTS
    MaxVersion = 3
    Retain = 1
    PendingFor = 3
    MaxWait = 4
    Cooldown = 1
    JobLength = 1
    Interval = 1
    RestartGap = 4
    MaxMishaps = 2
INVARIANT NothingStranded
 
 
PROPERTY UpdaterHandedOver
CHECK_DEADLOCK FALSE

SPECIFICATION FairSpec
CONSTANTS
    Jobs = {1}
    Hosts = {"h1", "h2"}
    Keys = {"a", "b", "c"}
    Answers <- StreamAnswers
    Handles = {1, 2}
    Limit = 2
    PageMax = 1
    MaxJobs = 1
    MaxCursors = 1
    MaxBytes = 20
    StoreMaxBytes = 20
    Ttl = 1
    MaxTelemetry = 1
    TelemetryAge = 2
    IoFaults = TRUE
    MaxClock = 1
    MaxRestarts = 1
    Absent = Absent
INVARIANTS
    TypeOK
    NoZombie
    CompleteNeverLost
    DeliveredIsPrefix
    FollowerComplete
PROPERTY
    RunningEnds

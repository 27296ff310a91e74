SPECIFICATION Spec
CONSTANTS
    Jobs = {1, 2, 3}
    Hosts = {"h1"}
    Keys = {"a", "b"}
    Answers <- StoreAnswers
    Handles = {}
    Limit = 2
    PageMax = 1
    MaxJobs = 2
    MaxCursors = 0
    MaxBytes = 2
    StoreMaxBytes = 2
    Ttl = 2
    MaxTelemetry = 1
    TelemetryAge = 2
    IoFaults = FALSE
    MaxClock = 0
    MaxRestarts = 1
    Absent = Absent
INVARIANTS
    StoreWithinBudget
    
    

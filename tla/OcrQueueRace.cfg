SPECIFICATION Spec
CONSTANTS
    Images = {"a"}
    Texts = {}
    MetadataOnly = {}
    MaxVersion = 3
    ZeroBytes = {}
    Oversize = {}
    MaxDeferred = 1
    MaxFailures = 1
    MaxParallel = 1
    MaxFaults = 0
    MaxOutages = 0
    MaxRestarts = 0
INVARIANT
    EmptyAckKeepsNewer
CHECK_DEADLOCK FALSE

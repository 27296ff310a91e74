SPECIFICATION Spec
CONSTANTS
    Images = {"a", "b"}
    Texts = {}
    MetadataOnly = {}
    MaxVersion = 2
    ZeroBytes = {}
    Oversize = {}
    MaxDeferred = 1
    MaxFailures = 2
    MaxParallel = 1
    MaxFaults = 1
    MaxOutages = 0
    MaxRestarts = 1
INVARIANTS
    TypeOK
    OwedIsCovered
    OwedIsDurable
    ResultIsOfItsVersion
CHECK_DEADLOCK FALSE

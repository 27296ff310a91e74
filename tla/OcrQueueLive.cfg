SPECIFICATION FairSpec
CONSTANTS
    Images = {"a", "b"}
    Texts = {}
    MetadataOnly = {}
    MaxVersion = 1
    ZeroBytes = {}
    Oversize = {}
    MaxDeferred = 1
    MaxFailures = 2
    MaxParallel = 1
    MaxFaults = 1
    MaxOutages = 1
    MaxRestarts = 1
INVARIANT
    RecognitionBudget

    
CHECK_DEADLOCK FALSE

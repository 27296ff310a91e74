SPECIFICATION Spec
CONSTANTS
    Images = {"a"}
    Texts = {"t"}
    MetadataOnly = {"m"}
    MaxVersion = 3
    ZeroBytes = {2}
    Oversize = {3}
    MaxDeferred = 1
    MaxFailures = 1
    MaxParallel = 1
    MaxFaults = 1
    MaxOutages = 0
    MaxRestarts = 0
PROPERTY
    NoRegression
CHECK_DEADLOCK FALSE

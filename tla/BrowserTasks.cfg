SPECIFICATION Spec
CONSTANTS
    MaxLines = 2
    MaxBytes = 5
    MaxFileBytes = 20
    ReadLimit = 12
    Files <- MCFiles
    Batches <- MCBatches
    Callers = {1, 2}
    MaxHandles = 2
    HandleTtl = 1
    MaxReceipts = 1
    ReceiptTtl = 2
    MaxReconnects = 1
    MaxIssued = 3
    MaxSearches = 1
    MaxCalls = 2
    MaxRestarts = 1
INVARIANTS SubmittedOnce HandedOutUsable PreviewHonest
PROPERTY CallsEnd
CHECK_DEADLOCK FALSE

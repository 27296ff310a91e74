SPECIFICATION Spec
CONSTANTS
    Convs = {1, 2}
    Atts = {3, 4}
    Skipped = {4}
    MaxMessages = 3
    Size <- MCSize
    TailBudget = 1
    ArchiveBudget = 2
    MaxWrites = 1
    MaxAttempts = 1
    MaxChanges = 3
    MaxFaults = 1
INVARIANTS SplitWhole
PROPERTIES CacheConverges QuietPollWritesNothing

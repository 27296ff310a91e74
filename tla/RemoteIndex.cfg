SPECIFICATION FairSpec
CONSTANTS
    Paths = {1, 2}
    Docs = {"a", "b"}
    Oversized = {"b"}
    None = None
    MaxChanges = 2
    MaxFaults = 2
    MaxEpoch = 2
INVARIANTS
    TypeOK
    LedgerExact
PROPERTIES
    Converges
    IsMirror

SPECIFICATION FairSpec
CONSTANTS
    quick = quick
    slow = slow
    Clients = {c1, c2}
    Indexes = {x1}
    Workers = {w1}
    Peers = {w1}
    Cuda = {w1}
    Inputs = {quick, slow}
    Large = {slow}
    Slow = {slow}
    Calls = {k1, k2}
    NoCall = NoCall
    RetainedCount = 2
    RetainedBytes = 3
    Weight <- MCWeight
    MaxTrouble = 1
INVARIANTS
    OneInference
    SlotsExact
    RetainedSound
    ClaimsExact
PROPERTIES
    SlowAnswered
CHECK_DEADLOCK FALSE

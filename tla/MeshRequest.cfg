SPECIFICATION FairSpec
CONSTANTS
    Peers = {1, 2}
    Listed = {1}
    Static <- MCStatic
    MaxRefreshes = 1
    Cloud = {2}
    Tools = {"search", "duplicates", "locations", "status", "read", "directory"}
    MaxAsked = 2
    MaxForgets = 1
INVARIANTS
    HonestAnswer
    AtMostOnce
PROPERTIES
    
    CallsEnd
CHECK_DEADLOCK FALSE

SPECIFICATION Spec
CONSTANTS
    Lines <- MCLines
    Indexes <- MCIndexes
    Colons <- MCColons
    RequestedRoots <- MCRoots
    Grants <- MCGrants
    Limits = {1, 3}
    RemoteRows = {2}
    Tools = {"text", "paths", "duplicates", "listed"}
    MaxComplaints = 2
    MaxChanges = 1
CHECK_DEADLOCK FALSE
INVARIANTS  NoOrphan WithinRequest
PROPERTY SearchEnds

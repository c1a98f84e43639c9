\* One settings request at a time, each sent once the watch has applied the previous one
CONSTANTS
    c1 = c1  c2 = c2  None = None
    Clients <- MCClients
    Fields = {"f"}
    Types = {"value", "hash"}
    Reqs <- MCReqs
    Serialized = TRUE
    WaitForWatch = TRUE
    MaxRequests = 4
    ReadErrors = FALSE
SPECIFICATION Spec
INVARIANT StoredFlagsConsistent
INVARIANT AckedUpdatesDurable
PROPERTY PartitionKeysNeverDropped
PROPERTY CachesCatchUp
CHECK_DEADLOCK FALSE

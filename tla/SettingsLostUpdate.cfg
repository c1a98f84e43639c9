\* One settings request at a time, sent without waiting for the watch to apply the previous one
CONSTANTS
    c1 = c1  c2 = c2  None = None
    Clients <- MCClients
    Fields = {"f"}
    Types = {"value", "hash"}
    Reqs <- MCReqs
    Serialized = TRUE
    WaitForWatch = FALSE
    MaxRequests = 4
    ReadErrors = FALSE
SPECIFICATION Spec
INVARIANT AckedUpdatesDurable
CHECK_DEADLOCK FALSE

\* Nodes of different clusters booting at the same time.
CONSTANTS
    a1 = a1
    a2 = a2
    b1 = b1
    ca = ca
    cb = cb
    none = none
    Nodes <- MCNodes
    Clusters <- MCClusters
    ClusterOf <- MCClusterOf
    NoCluster <- none
    Serialized = FALSE
    MaxCrashes = 3
    StoreErrors = TRUE
SPECIFICATION Spec
INVARIANT SingleSchedulerCluster
\* Start-up ends with every node running, standing by or failed.
CHECK_DEADLOCK FALSE

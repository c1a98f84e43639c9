\* Two clusters, one of them with two alert-manager nodes, booting one at
\* a time, with crashes and clusters leaving and rejoining the list.
CONSTANTS
    a1 = a1
    a2 = a2
    b1 = b1
    ca = ca
    cb = cb
    none = none
    Nodes <- MCNodes
    Clusters <- MCClusters
    ClusterOf <- MCClusterOf
    NoCluster <- none
    Serialized = TRUE
    MaxCrashes = 3
    StoreErrors = TRUE
SPECIFICATION FairSpec
INVARIANT TypeOK
INVARIANT SingleSchedulerCluster
PROPERTY SchedulerEventuallyRuns
\* Start-up ends with every node running, standing by or failed.
CHECK_DEADLOCK FALSE

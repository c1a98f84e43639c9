\* One stream; the node starts, may restart once, and the watch loop
\* handles events only after cache() has returned; the stream is an enrichment
\* table, and the warm-up waits for one querier, which may join and leave.
\* Any re-fetch of the watch loop may fail.
CONSTANTS
    k1 = k1
    None = None
    Keys <- MCKeys
    MaxTime = 3
    MaxWrites = 3
    WatchDuringLoad = FALSE
    MaxRestarts = 1
    EnrichmentKeys <- MCKeys
    ExpectQueriers = 1
    ReadErrors = TRUE
SPECIFICATION Spec
INVARIANT TypeOK
INVARIANT LoadCoherent
INVARIANT LoadedMatchesStore
INVARIANT LoadedSelectsActiveVersion
PROPERTY LatestNeverRegresses
PROPERTY Convergence
PROPERTY EnrichmentWarmupReturns
\* Once the bounded writers and restarts are spent, the watch loop waits on recv().
CHECK_DEADLOCK FALSE

\* One enrichment-table stream; the warm-up, then the watch loop, may meet its whole-stream delete.
CONSTANTS
    k1 = k1
    None = None
    Keys <- MCKeys
    MaxTime = 3
    MaxWrites = 3
    WatchDuringLoad = FALSE
    MaxRestarts = 1
    EnrichmentKeys <- MCKeys
    ExpectQueriers = 1
    ReadErrors = FALSE
SPECIFICATION Spec
INVARIANT EnrichmentFollowsCatalog
\* Once the bounded writers and restarts are spent, the watch loop waits on recv().
CHECK_DEADLOCK FALSE

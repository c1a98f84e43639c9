\* One stream, as in CatalogLoad.cfg, with re-fetches that may fail: spec
\* section 9 bounds the cache's lag behind a write to one reconciliation cycle.
CONSTANTS
    k1 = k1
    None = None
    Keys <- MCKeys
    MaxTime = 3
    MaxWrites = 3
    WatchDuringLoad = FALSE
    MaxRestarts = 1
    EnrichmentKeys <- MCKeys
    ExpectQueriers = 1
    ReadErrors = TRUE
SPECIFICATION Spec
INVARIANT CacheLagsAtMostOneCycle
\* Once the bounded writers and restarts are spent, the watch loop waits on recv().
CHECK_DEADLOCK FALSE

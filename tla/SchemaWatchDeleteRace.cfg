\* delete_stream's direct cache clearing racing the watch loop.
CONSTANTS
    k1 = k1
    k2 = k2
    None = None
    Keys <- MCKeys
    MaxTime = 3
    MaxWrites = 4
    LocalDeletes = TRUE
    ReadErrors = FALSE
SPECIFICATION Spec
INVARIANT CatalogCoherent
\* The watch loop blocks on events.recv() once the bounded writers stop.
CHECK_DEADLOCK FALSE

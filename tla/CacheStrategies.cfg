\* The LRU (re-inserts of held keys allowed) and the FIFO (behind a caller that checks contains_key).
CONSTANTS
    f1 = f1
    f2 = f2
    f3 = f3
    None = None
    MaxLen = 3
SPECIFICATION BothSpec
INVARIANT BothTypeOK
INVARIANT BothQueriesAgree
PROPERTY BothRefineCacheIndex

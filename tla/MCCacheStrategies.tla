------------------------- MODULE MCCacheStrategies -------------------------
(***************************************************************************)
(* Both strategies of CacheStrategy in one model: a cache is configured   *)
(* with one strategy when it is created, so a behaviour runs one of two   *)
(* instances. The LRU is configured by the name "lru" and called with     *)
(* keys it may already hold; the FIFO by the name "FIFO" and called only  *)
(* with keys it does not hold, as its owner must.                         *)
(***************************************************************************)
CONSTANTS f1, f2, f3, None, MaxLen

CacheKeys == {f1, f2, f3}
CacheSizes == {1, 2}

VARIABLES strategy,                 \* the strategy this cache was created with
          lruQueue, lruSet, lruOut, \* the LRU instance's state
          fifoQueue, fifoSet, fifoOut \* the FIFO instance's state

Lru == INSTANCE CacheStrategy WITH Keys <- CacheKeys, Sizes <- CacheSizes,
         Name <- "lru", CallerChecksContains <- FALSE,
         queue <- lruQueue, set <- lruSet, out <- lruOut

Fifo == INSTANCE CacheStrategy WITH Keys <- CacheKeys, Sizes <- CacheSizes,
         Name <- "FIFO", CallerChecksContains <- TRUE,
         queue <- fifoQueue, set <- fifoSet, out <- fifoOut

lruVars == <<lruQueue, lruSet, lruOut>>
fifoVars == <<fifoQueue, fifoSet, fifoOut>>
allVars == <<strategy, lruVars, fifoVars>>

BothInit == strategy \in {"lru", "fifo"} /\ Lru!Init /\ Fifo!Init

BothNext ==
    \/ strategy = "lru" /\ Lru!Next /\ UNCHANGED <<strategy, fifoVars>>
    \/ strategy = "fifo" /\ Fifo!Next /\ UNCHANGED <<strategy, lruVars>>

BothSpec == BothInit /\ [][BothNext]_allVars

(* Each strategy's type; for the LRU, each key is queued once.            *)
BothTypeOK == Lru!TypeOK /\ Fifo!TypeOK

(* contains_key and len of either strategy describe the entries it holds *)
(* (CacheStrategy's QueriesAgree).                                        *)
BothQueriesAgree == Lru!QueriesAgree /\ Fifo!QueriesAgree

(* Either strategy implements the abstract eviction index CacheIndex.    *)
BothRefineCacheIndex == Lru!RefinesCacheIndex /\ Fifo!RefinesCacheIndex
=============================================================================

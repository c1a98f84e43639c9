---------------------------- MODULE CacheStrategy ----------------------------
(***************************************************************************)
(* The eviction index of the file-data cache, enum CacheStrategy in      *)
(* src/infra/src/cache/file_data/mod.rs: either an unbounded LruCache    *)
(* from hashlink (a linked hash map, least recently inserted first) or a *)
(* FIFO made of a VecDeque of (key, size) and a HashSet of keys. Both    *)
(* are sequences of (key, size) here, the front evicted first; the set   *)
(* is used by the FIFO only.                                              *)
(*                                                                         *)
(* The owner (the memory and disk caches) calls insert after storing a   *)
(* file, remove to evict, remove_key to drop a file, and contains_key /  *)
(* len to decide. Whether it checks contains_key before insert is the    *)
(* constant CallerChecksContains.                                         *)
(***************************************************************************)
EXTENDS Naturals, Sequences, SequencesExt, FiniteSets

CONSTANTS
    Keys,                 \* file keys
    Sizes,                \* file sizes
    Name,                 \* the configured strategy name
    CallerChecksContains, \* insert is only called for keys not contained
    MaxLen,               \* bound on the number of queued entries
    None                  \* the Option::None returned by remove

ASSUME CallerChecksContains \in BOOLEAN /\ MaxLen \in Nat

VARIABLES
    queue,  \* LruCache entries / FIFO VecDeque, front evicted first
    set,    \* the FIFO's HashSet of keys
    out     \* what the last remove or remove_key returned

vars == <<queue, set, out>>

Record == [key: Keys, size: Sizes]

(* The answer of the last removing call, tagged with the call made       *)
Returned(op, r) == [op |-> op, ret |-> r]

(* str::to_lowercase on the names the configuration can carry            *)
Lowercase(n) ==
    CASE n \in {"LRU", "Lru"} -> "lru"
      [] n \in {"FIFO", "Fifo"} -> "fifo"
      [] OTHER -> n

(* CacheStrategy::new: "fifo" selects the FIFO, every other name the LRU *)
New(name) == IF Lowercase(name) = "fifo" THEN "fifo" ELSE "lru"

kind == New(Name)

QueueKeys == [i \in DOMAIN queue |-> queue[i].key]

Dropping(k) == SelectSeq(queue, LAMBDA e : e.key # k)

FirstIndexOf(k) ==
    CHOOSE i \in DOMAIN queue :
        queue[i].key = k /\ \A j \in 1..(i - 1) : queue[j].key # k

ContainsKey(k) == IF kind = "lru" THEN k \in Range(QueueKeys) ELSE k \in set

Length == Len(queue)

-----------------------------------------------------------------------------
(* Mutant: the LRU arm appending like the FIFO, keeping the old entry    *)
LruInsertAppend(k, v) ==
    queue' = Append(queue, [key |-> k, size |-> v]) /\ UNCHANGED set

(* LruCache::insert: the value is replaced and the entry moves to the    *)
(* back                                                                   *)
LruInsert(k, v) ==
    queue' = Append(Dropping(k), [key |-> k, size |-> v]) /\ UNCHANGED set

FifoInsert(k, v) ==
    /\ set' = set \cup {k}
    /\ queue' = Append(queue, [key |-> k, size |-> v])

Insert(k, v) ==
    /\ Len(queue) < MaxLen
    /\ CallerChecksContains => ~ContainsKey(k)
    /\ \/ kind = "lru" /\ LruInsert(k, v)
       \/ kind = "fifo" /\ FifoInsert(k, v)
    /\ UNCHANGED out

(* Mutant: evicting the most recently inserted entry                      *)
LruRemoveMru ==
    IF queue = << >> THEN out' = Returned("remove", None) /\ UNCHANGED queue
    ELSE out' = Returned("remove", Last(queue)) /\ queue' = Front(queue)

(* LruCache::remove_lru                                                   *)
LruRemove ==
    IF queue = << >> THEN out' = Returned("remove", None) /\ UNCHANGED queue
    ELSE out' = Returned("remove", Head(queue)) /\ queue' = Tail(queue)

(* Mutant: the popped key left in the set                                 *)
FifoRemoveKeepSet ==
    IF queue = << >> THEN out' = Returned("remove", None) /\ UNCHANGED <<queue, set>>
    ELSE /\ out' = Returned("remove", Head(queue))
         /\ queue' = Tail(queue)
         /\ UNCHANGED set

(* Mutant: pop_back instead of pop_front                                  *)
FifoRemoveBack ==
    IF queue = << >> THEN out' = Returned("remove", None) /\ UNCHANGED <<queue, set>>
    ELSE /\ out' = Returned("remove", Last(queue))
         /\ queue' = Front(queue)
         /\ set' = set \ {Last(queue).key}

FifoRemove ==
    IF queue = << >> THEN out' = Returned("remove", None) /\ UNCHANGED <<queue, set>>
    ELSE /\ out' = Returned("remove", Head(queue))
         /\ queue' = Tail(queue)
         /\ set' = set \ {Head(queue).key}

(* remove(): the entry at the front of the index, None when empty       *)
Evict ==
    \/ kind = "lru" /\ LruRemove /\ UNCHANGED set
    \/ kind = "fifo" /\ FifoRemove

(* LruCache::remove_entry                                                 *)
LruRemoveKey(k) ==
    IF k \notin Range(QueueKeys) THEN out' = Returned("remove_key", None) /\ UNCHANGED queue
    ELSE out' = Returned("remove_key", queue[FirstIndexOf(k)]) /\ queue' = Dropping(k)

(* The FIFO scans the queue from the front and removes the first entry   *)
(* for the key, and the key from the set.                                 *)
FifoRemoveKey(k) ==
    IF k \notin Range(QueueKeys) THEN out' = Returned("remove_key", None) /\ UNCHANGED <<queue, set>>
    ELSE /\ out' = Returned("remove_key", queue[FirstIndexOf(k)])
         /\ queue' = RemoveAt(queue, FirstIndexOf(k))
         /\ set' = set \ {k}

RemoveKey(k) ==
    \/ kind = "lru" /\ LruRemoveKey(k) /\ UNCHANGED set
    \/ kind = "fifo" /\ FifoRemoveKey(k)

Init == queue = << >> /\ set = {} /\ out = Returned("none", None)

Next ==
    \/ \E k \in Keys, v \in Sizes : Insert(k, v)
    \/ Evict
    \/ \E k \in Keys : RemoveKey(k)

Spec == Init /\ [][Next]_vars

-----------------------------------------------------------------------------
(* The LRU's linked hash map holds each key once.                         *)
TypeOK ==
    /\ queue \in Seq(Record) /\ Len(queue) <= MaxLen
    /\ set \subseteq Keys
    /\ out \in [op: {"none", "remove", "remove_key"}, ret: Record \cup {None}]
    /\ kind = "lru" => IsInjective(QueueKeys)

(* contains_key and len describe the entries the index really holds:     *)
(* a key is contained exactly when an entry for it is queued, and len    *)
(* counts the keys held. The owner skips storing a file it believes is   *)
(* cached and sizes its eviction loop by len, so a disagreement leaks or *)
(* double-counts cache space.                                             *)
QueriesAgree ==
    /\ \A k \in Keys : ContainsKey(k) <=> k \in Range(QueueKeys)
    /\ Length = Cardinality(Range(QueueKeys))

FirstSize(k) == queue[FirstIndexOf(k)].size

Abs == INSTANCE CacheIndex WITH
         order <- QueueKeys,
         size <- [k \in Range(QueueKeys) |-> FirstSize(k)],
         out <- out

(* Every sequence of insert, remove and remove_key calls is one the       *)
(* abstract index allows: each key tracked once, eviction of the entry   *)
(* inserted longest ago, and the size handed back the one tracked.       *)
RefinesCacheIndex == Abs!Spec
=============================================================================

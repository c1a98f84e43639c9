----------------------------- MODULE CacheIndex ------------------------------
(***************************************************************************)
(* What an eviction index of the file-data cache promises its owner      *)
(* (src/infra/src/cache/file_data/mod.rs, CacheStrategy): it tracks each *)
(* cached file once, with the size it was inserted with; remove() hands  *)
(* back the entry that has gone longest without being inserted, and      *)
(* remove_key(k) the entry of k. The owner subtracts the size it gets     *)
(* back from its running total, so the size returned must be the one the *)
(* index holds for that key.                                               *)
(***************************************************************************)
EXTENDS Sequences, SequencesExt, Functions

CONSTANTS Keys, Sizes, None

VARIABLES
    order,  \* the tracked keys, the next one to evict first
    size,   \* size[k]: the size tracked for key k
    out     \* what the last remove or remove_key returned

vars == <<order, size, out>>

Tracked == Range(order)

Entry(k) == [key |-> k, size |-> size[k]]

(* The answer of the last removing call, tagged with the call made       *)
Returned(op, r) == [op |-> op, ret |-> r]

Without(k) == SelectSeq(order, LAMBDA x : x # k)

Init == order = << >> /\ size = <<>> /\ out = Returned("none", None)

(* Inserting a key puts it last in eviction order with the new size,     *)
(* whether or not it was tracked before.                                  *)
Insert(k, v) ==
    /\ order' = Append(Without(k), k)
    /\ size' = (k :> v) @@ size
    /\ UNCHANGED out

(* remove(): the entry at the front of the index, None when empty       *)
Evict ==
    IF order = << >>
    THEN out' = Returned("remove", None) /\ UNCHANGED <<order, size>>
    ELSE /\ out' = Returned("remove", Entry(Head(order)))
         /\ order' = Tail(order)
         /\ size' = Restrict(size, Tracked \ {Head(order)})

RemoveKey(k) ==
    IF k \notin Tracked
    THEN out' = Returned("remove_key", None) /\ UNCHANGED <<order, size>>
    ELSE /\ out' = Returned("remove_key", Entry(k))
         /\ order' = Without(k)
         /\ size' = Restrict(size, Tracked \ {k})

Next ==
    \/ \E k \in Keys, v \in Sizes : Insert(k, v)
    \/ Evict
    \/ \E k \in Keys : RemoveKey(k)

Spec == Init /\ [][Next]_vars
=============================================================================

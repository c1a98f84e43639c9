--------------------------- MODULE SettingsUpdate ---------------------------
(***************************************************************************)
(* Updating the settings of one stream (src/service/stream.rs,            *)
(* update_stream_settings and save_stream_settings) against the event-    *)
(* sourced schema cache (src/service/db/schema.rs).                        *)
(*                                                                         *)
(* A request reads the stream's settings from the settings cache          *)
(* (infra::schema::get_settings), applies the optional flags and the      *)
(* add/remove lists of the request, validates, then reads the latest      *)
(* schema from the latest-schema cache (infra::schema::get) to merge the  *)
(* old partition keys into the new ones, and writes the settings into the *)
(* store's metadata (db::schema::update_setting). The caches are not      *)
(* touched by the write: the store emits a Put event, and the watch loop  *)
(* later re-reads the store and updates the settings cache, then the      *)
(* latest-schema cache, in two lock sections.                             *)
(*                                                                         *)
(* Settings are abstracted to the three indexing flags, the index_fields  *)
(* list (standing for every add/remove list of the request) and the       *)
(* partition keys as a function from field to {types, disabled}.         *)
(***************************************************************************)
EXTENDS Naturals, FiniteSets

CONSTANTS
    Clients,      \* HTTP requests in flight at once
    Fields,       \* stream fields
    Types,        \* partition types
    Reqs,         \* the UpdateStreamSettings bodies clients send
    Serialized,   \* TRUE: a request starts only when no other is in flight
    WaitForWatch, \* TRUE: a request starts only when the caches are current
    MaxRequests,  \* bound on the requests sent
    ReadErrors,   \* TRUE: the watch's re-read of the store may fail
    None          \* an absent Option

ASSUME Serialized \in BOOLEAN /\ WaitForWatch \in BOOLEAN /\ MaxRequests \in Nat
ASSUME ReadErrors \in BOOLEAN

Partition == [types: Types, disabled: BOOLEAN]

PartFns == UNION {[D -> Partition] : D \in SUBSET Fields}

Settings == [storeOrig: BOOLEAN, indexOrig: BOOLEAN, indexAll: BOOLEAN,
             index: SUBSET Fields, part: PartFns]

VARIABLES
    store,    \* the settings in the store's latest schema metadata
    cache,    \* STREAM_SETTINGS: the settings cache
    latest,   \* the settings inside STREAM_SCHEMAS_LATEST's schema
    pending,  \* Put events written and not yet taken by the watch
    wpc,      \* the watch loop: "idle", or between its two lock sections
    fetched,  \* the settings the watch read back from the store
    pc,       \* pc[c]: where request c is
    req,      \* req[c]: the body request c is handling
    local,    \* local[c]: the settings request c is building
    issued,   \* requests sent so far
    acked     \* acked[f]: the last acknowledged change of index field f

vars == <<store, cache, latest, pending, wpc, fetched, pc, req, local, issued, acked>>

Idle == {c \in Clients : pc[c] = "idle"}

-----------------------------------------------------------------------------
(* Mutant: the store_original_data forcing left out                        *)
UpdateFlagsNoForce(s, r) ==
    [s EXCEPT !.storeOrig = IF r.storeOrig = None THEN @ ELSE r.storeOrig,
              !.indexOrig = IF r.indexOrig = None THEN @ ELSE r.indexOrig,
              !.indexAll  = IF r.indexAll  = None THEN @ ELSE r.indexAll]

(* Option fields overwrite, then index_original_data forces              *)
(* store_original_data.                                                    *)
UpdateFlags(s, r) ==
    LET t == [s EXCEPT !.storeOrig = IF r.storeOrig = None THEN @ ELSE r.storeOrig,
                       !.indexOrig = IF r.indexOrig = None THEN @ ELSE r.indexOrig,
                       !.indexAll  = IF r.indexAll  = None THEN @ ELSE r.indexAll]
    IN  [t EXCEPT !.storeOrig = @ \/ t.indexOrig]

(* index_original_data and index_all_values may not both be on            *)
FlagsConflict(s) == s.indexOrig /\ s.indexAll

(* Mutant: the remove list ignored                                         *)
UpdateIndexFieldsNoRemove(s, r) == s \cup r.addIdx

(* index_fields: extend with add, then retain what remove does not name   *)
UpdateIndexFields(s, r) == (s \cup r.addIdx) \ r.rmIdx

(* partition_keys: extend with add, then retain the entries not equal to  *)
(* an entry of remove                                                      *)
UpdatePartitionKeys(p, r) ==
    LET q == [f \in DOMAIN r.addPart \cup DOMAIN p |->
                 IF f \in DOMAIN r.addPart THEN r.addPart[f] ELSE p[f]]
        kept == {f \in DOMAIN q : ~(f \in DOMAIN r.rmPart /\ r.rmPart[f] = q[f])}
    IN  [f \in kept |-> q[f]]

(* The body of update_stream_settings before it calls save               *)
ApplyUpdate(s, r) ==
    LET t == UpdateFlags(s, r)
    IN  [t EXCEPT !.index = UpdateIndexFields(s.index, r),
                  !.part = UpdatePartitionKeys(s.part, r)]

(* A partition type change of a key the old settings hold is refused    *)
TypeChanged(old, new) ==
    \E f \in DOMAIN old \cap DOMAIN new : old[f].types # new[f].types

(* Mutant: the new keys replace the old ones                              *)
MergePartitionKeysNewOnly(old, new) == new

(* Old keys are all disabled, a new key found among them sets its         *)
(* disabled flag, the others are pushed.                                  *)
MergePartitionKeys(old, new) ==
    [f \in DOMAIN old \cup DOMAIN new |->
        IF f \in DOMAIN new
        THEN IF f \in DOMAIN old THEN [old[f] EXCEPT !.disabled = new[f].disabled]
             ELSE new[f]
        ELSE [old[f] EXCEPT !.disabled = TRUE]]

-----------------------------------------------------------------------------
(* update_stream_settings: get_settings from the cache, apply the body,   *)
(* validate; a refused request answers 400 and ends.                      *)
ReadSettings(c, r) ==
    /\ pc[c] = "idle"
    /\ issued < MaxRequests
    /\ Serialized => Idle = Clients
    /\ WaitForWatch => pending = 0 /\ wpc = "idle"
    /\ issued' = issued + 1
    /\ LET s == ApplyUpdate(cache, r)
       IN  IF FlagsConflict(s)
           THEN UNCHANGED <<pc, req, local>>
           ELSE /\ pc' = [pc EXCEPT ![c] = "schema"]
                /\ req' = [req EXCEPT ![c] = r]
                /\ local' = [local EXCEPT ![c] = s]
    /\ UNCHANGED <<store, cache, latest, pending, wpc, fetched, acked>>

(* save_stream_settings: infra::schema::get reads the latest schema, the  *)
(* old partition keys are merged in, a type change answers 400.          *)
GetSchema(c) ==
    /\ pc[c] = "schema"
    /\ IF TypeChanged(latest.part, local[c].part)
       THEN /\ pc' = [pc EXCEPT ![c] = "idle"]
            /\ local' = [local EXCEPT ![c] = None]
       ELSE /\ pc' = [pc EXCEPT ![c] = "write"]
            /\ local' = [local EXCEPT ![c].part = MergePartitionKeys(latest.part, @)]
    /\ UNCHANGED <<store, cache, latest, pending, wpc, fetched, req, issued, acked>>

(* update_setting writes the settings into the store's metadata and the  *)
(* store emits a Put event; the request answers 200.                     *)
WriteSettings(c) ==
    /\ pc[c] = "write"
    /\ store' = local[c]
    /\ pending' = pending + 1
    /\ acked' = [f \in Fields |->
                    CASE f \in req[c].addIdx -> "add"
                      [] f \in req[c].rmIdx -> "remove"
                      [] OTHER -> acked[f]]
    /\ pc' = [pc EXCEPT ![c] = "idle"]
    /\ local' = [local EXCEPT ![c] = None]
    /\ UNCHANGED <<cache, latest, wpc, fetched, req, issued>>

(* Mutant: the settings cache written from the previous event's read      *)
WatchSettingsStale ==
    /\ wpc = "idle" /\ pending > 0
    /\ pending' = pending - 1
    /\ fetched' = store
    /\ cache' = fetched
    /\ wpc' = "latest"
    /\ UNCHANGED <<store, latest, pc, req, local, issued, acked>>

(* The watch takes a Put event and re-reads the stream from the store,   *)
(* then writes the settings cache ... A failed re-read is logged and the  *)
(* event dropped.                                                          *)
WatchSettings ==
    /\ wpc = "idle" /\ pending > 0
    /\ pending' = pending - 1
    /\ \/ /\ fetched' = store
          /\ cache' = store
          /\ wpc' = "latest"
       \/ ReadErrors /\ UNCHANGED <<fetched, cache, wpc>>
    /\ UNCHANGED <<store, latest, pc, req, local, issued, acked>>

(* ... and, in a second lock section, the latest schema.                 *)
WatchLatest ==
    /\ wpc = "latest"
    /\ latest' = fetched
    /\ wpc' = "idle"
    /\ UNCHANGED <<store, cache, pending, fetched, pc, req, local, issued, acked>>

Default == [storeOrig |-> FALSE, indexOrig |-> FALSE, indexAll |-> FALSE,
            index |-> {}, part |-> [f \in {} |-> None]]

Init ==
    /\ store = Default /\ cache = Default /\ latest = Default
    /\ pending = 0 /\ wpc = "idle" /\ fetched = Default
    /\ pc = [c \in Clients |-> "idle"]
    /\ req = [c \in Clients |-> None]
    /\ local = [c \in Clients |-> None]
    /\ issued = 0
    /\ acked = [f \in Fields |-> "none"]

Next ==
    \/ \E c \in Clients : \/ \E r \in Reqs : ReadSettings(c, r)
                          \/ GetSchema(c)
                          \/ WriteSettings(c)
    \/ WatchSettings
    \/ WatchLatest

(* The watch loop is one always-running task that blocks only on recv(),  *)
(* so its steps are weakly fair; the clients are not.                     *)
WatchStep == WatchSettings \/ WatchLatest

Spec == Init /\ [][Next]_vars /\ WF_vars(WatchStep)

-----------------------------------------------------------------------------
(* The stored settings never have index_original_data without             *)
(* store_original_data, nor index_original_data together with             *)
(* index_all_values: update_stream_settings forces the one and refuses    *)
(* the other on the settings it read, whatever those were.                *)
StoredFlagsConsistent ==
    /\ store.indexOrig => store.storeOrig
    /\ ~FlagsConflict(store)

(* An acknowledged change of an index field stays in the store: a field  *)
(* whose last acknowledged request added it is indexed, one whose last   *)
(* acknowledged request removed it is not.                                *)
AckedUpdatesDurable ==
    \A f \in Fields :
        /\ acked[f] = "add" => f \in store.index
        /\ acked[f] = "remove" => f \notin store.index

(* "we need to keep the old partition information, because the hash      *)
(* bucket num can't be changed": no write drops a stored partition key or *)
(* changes its types.                                                     *)
PartitionKeysNeverDropped ==
    [][\A f \in DOMAIN store.part :
          f \in DOMAIN store'.part /\ store'.part[f].types = store.part[f].types]_store

(* The caches are changed only by the watch loop applying the store's Put *)
(* events: once the requests stop, the settings cache and the latest      *)
(* schema eventually hold, and keep, the settings the store holds, as     *)
(* long as the watch's re-reads of the store succeed.                     *)
CachesCatchUp == <>[](cache = store /\ latest = store)
=============================================================================

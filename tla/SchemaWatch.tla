----------------------------- MODULE SchemaWatch -----------------------------
(***************************************************************************)
(* The schema catalog of one node (src/service/db/schema.rs): the backing *)
(* key-value store holding every stream's schema versions, the writers     *)
(* that change it, the watch loop `watch()` that rebuilds the node's four *)
(* caches from the store's event feed, and the HTTP `delete_stream` path   *)
(* (src/service/stream.rs) that also clears those caches directly.        *)
(*                                                                         *)
(* A schema snapshot is abstracted to the three things the catalog tells  *)
(* apart: which write produced it (id), whether its settings ask for      *)
(* original-data storage or indexing (orig), and its "end_dt" metadata.   *)
(* A stored version bucket is reduced to the last element of its list,    *)
(* the only element both `watch()` and `cache()` ever read.               *)
(***************************************************************************)
EXTENDS Naturals, Sequences, SequencesExt, Functions

CONSTANTS
    Keys,          \* stream keys "org/type/name"
    MaxTime,       \* start_dt values are 1..MaxTime
    MaxWrites,     \* bound on snapshot-producing writes (names snapshot ids)
    LocalDeletes,  \* TRUE: this node also serves delete_stream requests
    ReadErrors,    \* TRUE: a re-fetch from the store may fail
    None           \* absence in the cache maps

ASSUME MaxTime \in Nat \ {0} /\ MaxWrites \in Nat \ {0}
ASSUME LocalDeletes \in BOOLEAN /\ ReadErrors \in BOOLEAN

VARIABLES
    store,      \* store[k]: start_dt -> snapshot, the "/schema/k/start_dt" keys
    events,     \* the watch feed of "/schema/" as a FIFO of Put/Delete
    nWrites,    \* writes so far; the next snapshot id is nWrites + 1
    history,    \* STREAM_SCHEMAS: k -> <<[start, snap]>> (<<>> = absent)
    latest,     \* STREAM_SCHEMAS_LATEST: k -> snapshot or None
    settings,   \* STREAM_SETTINGS (and its atomic mirror): k -> settings or None
    recordId,   \* STREAM_RECORD_ID_GENERATOR: k -> generator present?
    wpc,        \* where the watch loop is in handling the current event
    wkey,       \* the event's stream key
    wfrom,      \* the re-fetch range's lower bound; 0 with wfull
    wfull,      \* ts_range = None: re-fetch every version of the key
    wfetched,   \* the versions read back from the store, ascending
    hpc         \* hpc[k]: where an HTTP delete_stream for k is

Times == 1..MaxTime
Snap == [id: 1..MaxWrites, orig: BOOLEAN, end: 0..MaxTime]
Entry == [start: Times, snap: Snap]
Event == [type: {"put", "delete"}, key: Keys, start: 0..MaxTime]
Settings == [id: 1..MaxWrites, orig: BOOLEAN]

storeVars == <<store, events, nWrites>>
cacheVars == <<history, latest, settings, recordId>>
watchVars == <<wpc, wkey, wfrom, wfull, wfetched>>
vars == <<storeVars, cacheVars, watchVars, hpc>>

(* Mutant: the whole metadata map, end_dt included, taken as settings     *)
SettingsOfMetadata(s) == [id |-> s.id, orig |-> s.orig, end |-> s.end]

(* unwrap_stream_settings: the settings blob kept in a snapshot's metadata *)
SettingsOf(s) == [id |-> s.id, orig |-> s.orig]

(* The versions of a stream in the store, as ascending (start_dt, snap)   *)
VersionsOf(f) ==
    SetToSortSeq({[start |-> t, snap |-> f[t]] : t \in DOMAIN f},
                 LAMBDA a, b : a.start < b.start)

StoreLatest(k) ==
    IF DOMAIN store[k] = {} THEN None ELSE Last(VersionsOf(store[k])).snap

Starts(s) == {s[i].start : i \in DOMAIN s}

(* Mutant: a version is taken when its end_dt is at or after the query's *)
RECURSIVE ScanEndDtInclusive(_, _, _)
ScanEndDtInclusive(h, endDt, i) ==
    IF i > Len(h) THEN Len(h)
    ELSE IF endDt <= h[i].snap.end THEN i
    ELSE ScanEndDtInclusive(h, endDt, i + 1)

(* The loop of filter_schema_version_id: the first version, from i on,   *)
(* whose end_dt metadata (0 when absent) is after the queried end_dt;    *)
(* the last version when there is none.                                  *)
RECURSIVE ScanEndDt(_, _, _)
ScanEndDt(h, endDt, i) ==
    IF i > Len(h) THEN Len(h)
    ELSE IF endDt < h[i].snap.end THEN i
    ELSE ScanEndDt(h, endDt, i + 1)

FilterSchemaVersionId(h, endDt) ==
    IF h = << >> THEN None ELSE ScanEndDt(h, endDt, 1)

-----------------------------------------------------------------------------
(* Writers. infra::schema::{merge, update_setting, delete_fields, delete} *)
(* are outside src/; their effect on the store and the event they raise   *)
(* are modelled from the spec (4.5 and 6).                                *)

NewSnap(orig) == [id |-> nWrites + 1, orig |-> orig, end |-> 0]

CanWrite(k) == nWrites < MaxWrites

Emit(type, k, t) == events' = Append(events, [type |-> type, key |-> k, start |-> t])

(* merge of a new stream: its first version starts at the batch's min_ts *)
MergeCreate(k) ==
    /\ CanWrite(k)
    /\ DOMAIN store[k] = {}
    /\ \E t \in Times :
        /\ store' = [store EXCEPT ![k] = t :> NewSnap(FALSE)]
        /\ Emit("put", k, t)
    /\ nWrites' = nWrites + 1

(* merge that evolves the current version in place (same start_dt)        *)
EvolveLatest(k) ==
    LET t == Last(VersionsOf(store[k])).start
        s == store[k][t]
    IN /\ store' = [store EXCEPT ![k][t] = [s EXCEPT !.id = nWrites + 1]]
       /\ Emit("put", k, t)
       /\ nWrites' = nWrites + 1

MergeEvolve(k) ==
    /\ CanWrite(k)
    /\ DOMAIN store[k] # {}
    /\ EvolveLatest(k)

(* merge that opens a new version: the old latest gets end_dt = t         *)
MergeNewVersion(k) ==
    /\ CanWrite(k)
    /\ DOMAIN store[k] # {}
    /\ LET old == Last(VersionsOf(store[k]))
       IN \E t \in Times :
            /\ t > old.start
            /\ store' = [store EXCEPT ![k] =
                            (t :> NewSnap(old.snap.orig))
                            @@ [store[k] EXCEPT ![old.start].end = t]]
            /\ Emit("put", k, t)
    /\ nWrites' = nWrites + 1

(* update_setting rewrites the settings blob of the current version; the  *)
(* event may or may not carry the start_dt (ev.start_dt is optional)      *)
UpdateSetting(k) ==
    /\ CanWrite(k)
    /\ DOMAIN store[k] # {}
    /\ LET t == Last(VersionsOf(store[k])).start
       IN \E orig \in BOOLEAN, evt \in {0, t} :
            /\ store' = [store EXCEPT ![k][t] =
                            [@ EXCEPT !.id = nWrites + 1, !.orig = orig]]
            /\ Emit("put", k, evt)
    /\ nWrites' = nWrites + 1

DeleteFields(k) ==
    /\ CanWrite(k)
    /\ DOMAIN store[k] # {}
    /\ EvolveLatest(k)

(* delete of the whole stream from the store, raised on another node     *)
RemoteDelete(k) ==
    /\ DOMAIN store[k] # {}
    /\ store' = [store EXCEPT ![k] = << >>]
    /\ Emit("delete", k, 0)
    /\ UNCHANGED nWrites

(* retention drops the oldest version, never the current one: a         *)
(* start_dt-qualified delete                                              *)
RetentionDeleteVersion(k) ==
    /\ Len(VersionsOf(store[k])) >= 2
    /\ LET t == Head(VersionsOf(store[k])).start
       IN /\ store' = [store EXCEPT ![k] = Restrict(@, DOMAIN @ \ {t})]
          /\ Emit("delete", k, t)
    /\ UNCHANGED nWrites

WriterNext ==
    /\ \E k \in Keys :
        \/ MergeCreate(k) \/ MergeEvolve(k) \/ MergeNewVersion(k)
        \/ UpdateSetting(k) \/ DeleteFields(k)
        \/ RemoteDelete(k) \/ RetentionDeleteVersion(k)
    /\ UNCHANGED <<cacheVars, watchVars, hpc>>

-----------------------------------------------------------------------------
(* The watch loop. One event is handled at a time; each lock section of  *)
(* the handler is one step, other tasks may run between them.            *)

(* Mutant: the previous start_dt read as 0 when fewer than two versions  *)
(* are cached, as the spec words step 2                                   *)
PutRecvPrevZero ==
    /\ wpc = "idle"
    /\ events # << >>
    /\ Head(events).type = "put"
    /\ LET ev == Head(events)
           h == history[ev.key]
           prev == IF Len(h) >= 2 THEN h[Len(h) - 1].start ELSE 0
       IN /\ wkey' = ev.key
          /\ wfull' = (ev.start = 0 /\ prev = 0)
          /\ wfrom' = IF ev.start = 0 /\ prev = 0 THEN 0
                      ELSE IF ev.start = 0 \/ (prev > 0 /\ ev.start > prev)
                           THEN prev ELSE ev.start
    /\ events' = Tail(events)
    /\ wpc' = "fetch"
    /\ UNCHANGED <<store, nWrites, cacheVars, wfetched, hpc>>

(* Put, up to the store read: the re-fetch range from the cached history *)
PutRecv ==
    /\ wpc = "idle"
    /\ events # << >>
    /\ Head(events).type = "put"
    /\ LET ev == Head(events)
           h == history[ev.key]
           prev == IF h = << >> THEN 0
                   ELSE IF Len(h) >= 2 THEN h[Len(h) - 1].start ELSE h[1].start
       IN /\ wkey' = ev.key
          /\ wfull' = (ev.start = 0 /\ prev = 0)
          /\ wfrom' = IF ev.start = 0 /\ prev = 0 THEN 0
                      ELSE IF ev.start = 0 \/ (prev > 0 /\ ev.start > prev)
                           THEN prev ELSE ev.start
    /\ events' = Tail(events)
    /\ wpc' = "fetch"
    /\ UNCHANGED <<store, nWrites, cacheVars, wfetched, hpc>>

(* list_values_by_start_dt, then up to the settings lock: skip if empty, *)
(* else create the record-id generator if the settings ask for it        *)
PutFetch ==
    /\ wpc = "fetch"
    /\ LET vs == SelectSeq(VersionsOf(store[wkey]),
                           LAMBDA e : wfull \/ e.start >= wfrom)
       IN IF vs = << >>
          THEN /\ wpc' = "idle"
               /\ UNCHANGED <<recordId, wfetched>>
          ELSE /\ wfetched' = vs
               /\ recordId' = [recordId EXCEPT ![wkey] = @ \/ Last(vs).snap.orig]
               /\ wpc' = "settings"
    /\ UNCHANGED <<storeVars, history, latest, settings, wkey, wfrom, wfull, hpc>>

(* list_values_by_start_dt returns an error: it is logged and the loop   *)
(* continues with the next event, so this Put is never applied.          *)
PutFetchFails ==
    /\ wpc = "fetch"
    /\ ReadErrors
    /\ wpc' = "idle"
    /\ UNCHANGED <<storeVars, cacheVars, wkey, wfrom, wfull, wfetched, hpc>>

PutSettings ==
    /\ wpc = "settings"
    /\ settings' = [settings EXCEPT ![wkey] = SettingsOf(Last(wfetched).snap)]
    /\ wpc' = "latest"
    /\ UNCHANGED <<storeVars, history, latest, recordId, wkey, wfrom, wfull, wfetched, hpc>>

(* Mutant: the first re-fetched version published instead of the last    *)
PutLatestFirst ==
    /\ wpc = "latest"
    /\ latest' = [latest EXCEPT ![wkey] = Head(wfetched).snap]
    /\ wpc' = "history"
    /\ UNCHANGED <<storeVars, history, settings, recordId, wkey, wfrom, wfull, wfetched, hpc>>

PutLatest ==
    /\ wpc = "latest"
    /\ latest' = [latest EXCEPT ![wkey] = Last(wfetched).snap]
    /\ wpc' = "history"
    /\ UNCHANGED <<storeVars, history, settings, recordId, wkey, wfrom, wfull, wfetched, hpc>>

(* Mutant: the re-fetched versions appended without dropping the cached  *)
(* entries they replace                                                   *)
MergeVersionsNoRetain(h, new) == h \o new

(* and_modify: drop cached entries whose start_dt was re-fetched, append *)
(* the re-fetched ones; or_insert when the key is absent                 *)
MergeVersions(h, new) ==
    SelectSeq(h, LAMBDA e : e.start \notin Starts(new)) \o new

PutHistory ==
    /\ wpc = "history"
    /\ history' = [history EXCEPT ![wkey] = MergeVersions(@, wfetched)]
    /\ wpc' = "idle"
    /\ UNCHANGED <<storeVars, latest, settings, recordId, wkey, wfrom, wfull, wfetched, hpc>>

(* Mutant: a start_dt-qualified delete handled as a whole-stream delete   *)
DeleteRecvAll ==
    /\ wpc = "idle"
    /\ events # << >>
    /\ Head(events).type = "delete"
    /\ history' = [history EXCEPT ![Head(events).key] = << >>]
    /\ wkey' = Head(events).key
    /\ wpc' = "dlatest"
    /\ events' = Tail(events)
    /\ UNCHANGED <<store, nWrites, latest, settings, recordId, wfrom, wfull, wfetched, hpc>>

(* Delete: a start_dt-qualified one is ignored; else drop the key        *)
DeleteRecv ==
    /\ wpc = "idle"
    /\ events # << >>
    /\ Head(events).type = "delete"
    /\ LET ev == Head(events)
       IN IF ev.start > 0
          THEN /\ wpc' = "idle"
               /\ UNCHANGED <<history, wkey>>
          ELSE /\ history' = [history EXCEPT ![ev.key] = << >>]
               /\ wkey' = ev.key
               /\ wpc' = "dlatest"
    /\ events' = Tail(events)
    /\ UNCHANGED <<store, nWrites, latest, settings, recordId, wfrom, wfull, wfetched, hpc>>

DeleteLatest ==
    /\ wpc = "dlatest"
    /\ latest' = [latest EXCEPT ![wkey] = None]
    /\ recordId' = [recordId EXCEPT ![wkey] = FALSE]
    /\ wpc' = "dsettings"
    /\ UNCHANGED <<storeVars, history, settings, wkey, wfrom, wfull, wfetched, hpc>>

(* settings removed and republished; stats, compaction offset and local  *)
(* enrichment files are best-effort collaborators                        *)
DeleteSettings ==
    /\ wpc = "dsettings"
    /\ settings' = [settings EXCEPT ![wkey] = None]
    /\ wpc' = "idle"
    /\ UNCHANGED <<storeVars, history, latest, recordId, wkey, wfrom, wfull, wfetched, hpc>>

WatchNext ==
    \/ PutRecv \/ PutFetch \/ PutFetchFails \/ PutSettings \/ PutLatest \/ PutHistory
    \/ DeleteRecv \/ DeleteLatest \/ DeleteSettings

-----------------------------------------------------------------------------
(* delete_stream on this node: the store delete, then stream_delete_inner *)
(* clears the caches directly, one lock section at a time. Deleting the  *)
(* related pipeline or alerts, or creating the retention job, may fail   *)
(* first and end the request before the caches are touched.              *)

HttpDelete(k) ==
    /\ LocalDeletes
    /\ hpc[k] = "idle"
    /\ DOMAIN store[k] # {}
    /\ store' = [store EXCEPT ![k] = << >>]
    /\ Emit("delete", k, 0)
    /\ \E innerRuns \in BOOLEAN :
        hpc' = [hpc EXCEPT ![k] = IF innerRuns THEN "schemas" ELSE "idle"]
    /\ UNCHANGED <<nWrites, cacheVars, watchVars>>

HttpDelSchemas(k) ==
    /\ hpc[k] = "schemas"
    /\ history' = [history EXCEPT ![k] = << >>]
    /\ hpc' = [hpc EXCEPT ![k] = "latest"]
    /\ UNCHANGED <<storeVars, latest, settings, recordId, watchVars>>

HttpDelLatest(k) ==
    /\ hpc[k] = "latest"
    /\ latest' = [latest EXCEPT ![k] = None]
    /\ hpc' = [hpc EXCEPT ![k] = "settings"]
    /\ UNCHANGED <<storeVars, history, settings, recordId, watchVars>>

HttpDelSettings(k) ==
    /\ hpc[k] = "settings"
    /\ settings' = [settings EXCEPT ![k] = None]
    /\ recordId' = [recordId EXCEPT ![k] = FALSE]
    /\ hpc' = [hpc EXCEPT ![k] = "idle"]
    /\ UNCHANGED <<storeVars, history, latest, watchVars>>

HttpNext ==
    \E k \in Keys :
        \/ HttpDelete(k) \/ HttpDelSchemas(k)
        \/ HttpDelLatest(k) \/ HttpDelSettings(k)

-----------------------------------------------------------------------------
Init ==
    /\ store = [k \in Keys |-> << >>]
    /\ events = << >>
    /\ nWrites = 0
    /\ history = [k \in Keys |-> << >>]
    /\ latest = [k \in Keys |-> None]
    /\ settings = [k \in Keys |-> None]
    /\ recordId = [k \in Keys |-> FALSE]
    /\ wpc = "idle"
    /\ wkey = CHOOSE k \in Keys : TRUE
    /\ wfrom = 0
    /\ wfull = FALSE
    /\ wfetched = << >>
    /\ hpc = [k \in Keys |-> "idle"]

Next == WriterNext \/ WatchNext \/ HttpNext

(* The watch loop is an always-running task and an accepted HTTP request *)
(* runs to its end; writers may stop at any time.                         *)
Spec == Init /\ [][Next]_vars /\ WF_vars(WatchNext) /\ WF_vars(HttpNext)

-----------------------------------------------------------------------------
TypeOK ==
    /\ \A k \in Keys : DOMAIN store[k] \subseteq Times
                       /\ \A t \in DOMAIN store[k] : store[k][t] \in Snap
    /\ events \in Seq(Event)
    /\ nWrites \in 0..MaxWrites
    /\ history \in [Keys -> Seq(Entry)]
    /\ latest \in [Keys -> Snap \cup {None}]
    /\ settings \in [Keys -> Settings \cup {None}]
    /\ recordId \in [Keys -> BOOLEAN]
    /\ wpc \in {"idle", "fetch", "settings", "latest", "history", "dlatest", "dsettings"}
    /\ wkey \in Keys /\ wfrom \in 0..MaxTime /\ wfull \in BOOLEAN
    /\ wfetched \in Seq(Entry)
    /\ hpc \in [Keys -> {"idle", "schemas", "latest", "settings"}]

Quiescent ==
    events = << >> /\ wpc = "idle" /\ \A k \in Keys : hpc[k] = "idle"

PendingDelete(k) ==
    \E i \in DOMAIN events : events[i] = [type |-> "delete", key |-> k, start |-> 0]

(* Between two events the four caches describe one and the same stream   *)
(* state: the version history is strictly ordered by start_dt, the latest *)
(* schema is its last entry, the settings are parsed from that schema,   *)
(* and a stream storing original data has its record-id generator. This  *)
(* is what the handler's lock sections, the retain-then-extend merge and *)
(* the delete path must together keep. A stream whose whole-stream delete *)
(* is still queued is exempt: a Put handled before it may merge versions *)
(* of the re-created stream into the old history, and the delete clears  *)
(* that.                                                                  *)
CatalogCoherent ==
    wpc = "idle" /\ (\A k \in Keys : hpc[k] = "idle") =>
      \A k \in Keys : ~PendingDelete(k) =>
        /\ IsSorted(history[k], LAMBDA a, b : a.start < b.start)
        /\ (history[k] = << >>) = (latest[k] = None)
        /\ (latest[k] = None) = (settings[k] = None)
        /\ latest[k] # None =>
              /\ latest[k] = Last(history[k]).snap
              /\ settings[k] = SettingsOf(latest[k])
              /\ (latest[k].orig => recordId[k])

(* The caches of stream k agree with the store: the latest schema is the *)
(* store's newest version, and every stored version is in the history    *)
(* with its current snapshot, the end_dt written into the superseded     *)
(* version included. Once every event is handled, this is what the       *)
(* re-fetch range of the Put handler (second-to-last cached start_dt)    *)
(* must achieve.                                                          *)
MatchesStore(k) ==
    /\ latest[k] = StoreLatest(k)
    /\ \A t \in DOMAIN store[k] :
          \E i \in DOMAIN history[k] :
              history[k][i] = [start |-> t, snap |-> store[k][t]]

(* The version of the stored stream that was authoritative at time t:    *)
(* the one with the greatest start_dt not after t.                       *)
StoreVersionAt(k, t) == Max({s \in DOMAIN store[k] : s <= t})

(* A time-ranged read of stream k over a time t the store still covers   *)
(* gets, from filter_schema_version_id on the cached history, the        *)
(* version that was authoritative at t. Once every event is handled, this*)
(* needs the end_dt stamps of superseded versions to have been re-read  *)
(* into the cache by the Put handler, even when the history has kept     *)
(* versions that retention has since removed from the store.            *)
SelectsActiveVersion(k) ==
    \A t \in 0..MaxTime :
        (DOMAIN store[k] # {} /\ t >= Min(DOMAIN store[k])) =>
           history[k][FilterSchemaVersionId(history[k], t)].start
              = StoreVersionAt(k, t)

(* The published latest schema of a stream only moves forward: it is      *)
(* replaced only by a snapshot written later than the one it replaces.    *)
LatestNeverRegresses ==
    [][\A k \in Keys :
         (latest[k] # None /\ latest'[k] # None /\ latest'[k] # latest[k])
            => latest'[k].id > latest[k].id]_latest
=============================================================================

----------------------------- MODULE CatalogLoad -----------------------------
(***************************************************************************)
(* A node's schema catalog from process start (src/service/db/schema.rs): *)
(* the bulk loader cache() lists every stored version, groups them by     *)
(* key, and installs each key's settings, latest schema and version       *)
(* history in three lock sections, with insert (replace) semantics; the  *)
(* watch loop of SchemaWatch, subscribed when the process starts, applies *)
(* the writes made from then on. The process may stop and start again:  *)
(* the caches live in memory only and are rebuilt by the next load.      *)
(*                                                                         *)
(* Whether the watch loop handles events while cache() is still running  *)
(* is decided by the process start-up, which is not under src/: the      *)
(* constant WatchDuringLoad.                                              *)
(***************************************************************************)
EXTENDS Naturals, Sequences, SequencesExt, Functions

CONSTANTS Keys, MaxTime, MaxWrites, None,
          WatchDuringLoad, \* TRUE: watch() runs while cache() installs keys
          MaxRestarts,     \* bound on process restarts
          EnrichmentKeys,  \* the keys of enrichment-table streams
          ExpectQueriers,  \* limit.starting_expect_querier_num
          ReadErrors       \* TRUE: the watch's re-fetch from the store may fail

ASSUME WatchDuringLoad \in BOOLEAN /\ MaxRestarts \in Nat
ASSUME EnrichmentKeys \subseteq Keys /\ ExpectQueriers \in Nat

VARIABLES store, events, nWrites, history, latest, settings, recordId,
          wpc, wkey, wfrom, wfull, wfetched, hpc,
          phase,     \* "down" or "up": the process
          lpc,       \* where cache() is: "off", "list", "next", "latest", "history", "done"
          listing,   \* the store as db::list("/schema/") returned it
          todo,      \* the keys of the listing not installed yet
          lkey,      \* the key being installed
          restarts,  \* restarts so far
          epc,       \* where cache_enrichment_tables is: "off", "scan", "wait", "fill", "done", "failed"
          etodo,     \* the tables it has collected and not filled yet
          enriched,  \* the keys of ENRICHMENT_TABLES
          online,    \* the online interactive querier nodes the cluster cache reports
          missed     \* history variable: missed[k] iff a re-fetch of k has
                     \* failed since the process started

SW == INSTANCE SchemaWatch WITH LocalDeletes <- FALSE

cacheVars == <<history, latest, settings, recordId>>
watchVars == <<wpc, wkey, wfrom, wfull, wfetched>>
loadVars == <<phase, lpc, listing, todo, lkey, restarts>>
enrichVars == <<epc, etodo, enriched>>
vars == <<store, events, nWrites, cacheVars, watchVars, hpc, loadVars, enrichVars, online, missed>>

(* The key's versions as cache() sorts them by start_dt                   *)
Listed(k) == SW!VersionsOf(listing[k])

-----------------------------------------------------------------------------
(* The process starts: the watch subscribes to "/schema/" (events raised *)
(* before are not delivered to it) and cache() begins.                   *)
Boot ==
    /\ phase = "down"
    /\ phase' = "up"
    /\ events' = << >>
    /\ lpc' = "list"
    /\ epc' = "scan"
    /\ missed' = [k \in Keys |-> FALSE]
    /\ UNCHANGED <<store, nWrites, cacheVars, watchVars, hpc, listing, todo, lkey, restarts,
                   etodo, enriched, online>>

(* The process stops; every cache and the watch loop's state are lost.   *)
Restart ==
    /\ phase = "up"
    /\ restarts < MaxRestarts
    /\ phase' = "down"
    /\ restarts' = restarts + 1
    /\ history' = [k \in Keys |-> << >>]
    /\ latest' = [k \in Keys |-> None]
    /\ settings' = [k \in Keys |-> None]
    /\ recordId' = [k \in Keys |-> FALSE]
    /\ wpc' = "idle" /\ wfetched' = << >>
    /\ lpc' = "off"
    /\ epc' = "off" /\ etodo' = {} /\ enriched' = {}
    /\ UNCHANGED <<store, events, nWrites, wkey, wfrom, wfull, hpc, listing, todo, lkey, online, missed>>

(* db::list("/schema/") grouped by key                                     *)
LoadList ==
    /\ lpc = "list"
    /\ listing' = store
    /\ todo' = {k \in Keys : DOMAIN store[k] # {}}
    /\ lpc' = "next"
    /\ UNCHANGED <<store, events, nWrites, cacheVars, watchVars, hpc, phase, lkey, restarts,
                   enrichVars, online, missed>>

(* Mutant: a key with a single version skipped, as if empty                *)
LoadNextSkipSingle ==
    /\ lpc = "next"
    /\ IF todo = {}
       THEN lpc' = "done" /\ UNCHANGED <<todo, lkey, settings, recordId>>
       ELSE \E k \in todo :
              /\ todo' = todo \ {k}
              /\ IF Len(Listed(k)) <= 1
                 THEN UNCHANGED <<lkey, settings, recordId, lpc>>
                 ELSE /\ lkey' = k
                      /\ recordId' = [recordId EXCEPT ![k] = @ \/ Last(Listed(k)).snap.orig]
                      /\ settings' = [settings EXCEPT ![k] = SW!SettingsOf(Last(Listed(k)).snap)]
                      /\ lpc' = "latest"
    /\ UNCHANGED <<store, events, nWrites, history, latest, watchVars, hpc, phase, listing, restarts, enrichVars, online, missed>>

(* The next key, in the HashMap's order: the last version of the sorted   *)
(* list gives the settings; the record-id generator is created if vacant *)
(* and the settings ask for original data; the settings are inserted.    *)
LoadNext ==
    /\ lpc = "next"
    /\ IF todo = {}
       THEN lpc' = "done" /\ UNCHANGED <<todo, lkey, settings, recordId>>
       ELSE \E k \in todo :
              /\ todo' = todo \ {k}
              /\ lkey' = k
              /\ recordId' = [recordId EXCEPT ![k] = @ \/ Last(Listed(k)).snap.orig]
              /\ settings' = [settings EXCEPT ![k] = SW!SettingsOf(Last(Listed(k)).snap)]
              /\ lpc' = "latest"
    /\ UNCHANGED <<store, events, nWrites, history, latest, watchVars, hpc, phase, listing, restarts, enrichVars, online, missed>>

(* Mutant: the latest schema taken from the first (oldest) bucket          *)
LoadLatestFirstBucket ==
    /\ lpc = "latest"
    /\ latest' = [latest EXCEPT ![lkey] = Head(Listed(lkey)).snap]
    /\ lpc' = "history"
    /\ UNCHANGED <<store, events, nWrites, history, settings, recordId, watchVars, hpc,
                   phase, listing, todo, lkey, restarts,
                   enrichVars, online, missed>>

LoadLatest ==
    /\ lpc = "latest"
    /\ latest' = [latest EXCEPT ![lkey] = Last(Listed(lkey)).snap]
    /\ lpc' = "history"
    /\ UNCHANGED <<store, events, nWrites, history, settings, recordId, watchVars, hpc,
                   phase, listing, todo, lkey, restarts,
                   enrichVars, online, missed>>

(* Mutant: only the latest bucket installed as history                     *)
LoadHistoryLatestOnly ==
    /\ lpc = "history"
    /\ history' = [history EXCEPT ![lkey] = << Last(Listed(lkey)) >>]
    /\ lpc' = "next"
    /\ UNCHANGED <<store, events, nWrites, latest, settings, recordId, watchVars, hpc,
                   phase, listing, todo, lkey, restarts,
                   enrichVars, online, missed>>

(* The last element of every bucket, in start_dt order, replaces the      *)
(* key's cached history.                                                   *)
LoadHistory ==
    /\ lpc = "history"
    /\ history' = [history EXCEPT ![lkey] = Listed(lkey)]
    /\ lpc' = "next"
    /\ UNCHANGED <<store, events, nWrites, latest, settings, recordId, watchVars, hpc,
                   phase, listing, todo, lkey, restarts,
                   enrichVars, online, missed>>

LoadNextStep == LoadList \/ LoadNext \/ LoadLatest \/ LoadHistory

(* The watch loop runs once the process is up, and, unless it may run     *)
(* during the load, once cache() has returned.                            *)
WatchStep ==
    /\ phase = "up"
    /\ WatchDuringLoad \/ lpc = "done"
    /\ \/ SW!PutFetchFails /\ missed' = [missed EXCEPT ![wkey] = TRUE]
       \/ SW!PutFetch /\ UNCHANGED missed
       \/ wpc # "fetch" /\ SW!WatchNext /\ UNCHANGED missed
    /\ UNCHANGED <<loadVars, enrichVars, online>>

Writers == SW!WriterNext /\ UNCHANGED <<loadVars, enrichVars, online, missed>>

-----------------------------------------------------------------------------
(* cache_enrichment_tables, started once cache() has returned: the keys of *)
(* the latest-schema cache of the enrichment-table type are collected      *)
(* under its read lock; with none, it returns at once.                     *)
EnrichScan ==
    /\ epc = "scan" /\ lpc = "done"
    /\ etodo' = {k \in EnrichmentKeys : latest[k] # None}
    /\ epc' = IF etodo' = {} THEN "done" ELSE "wait"
    /\ UNCHANGED <<store, events, nWrites, cacheVars, watchVars, hpc, loadVars, enriched, online, missed>>

(* Mutant: the wait ends only above the expected number of queriers       *)
EnrichWaitAbove ==
    /\ epc = "wait"
    /\ online > ExpectQueriers
    /\ epc' = "fill"
    /\ UNCHANGED <<store, events, nWrites, cacheVars, watchVars, hpc, loadVars, etodo, enriched, online, missed>>

(* The loop polls the online interactive queriers, sleeping a second      *)
(* between polls (a step that changes nothing), until at least            *)
(* starting_expect_querier_num of them are online.                         *)
EnrichWait ==
    /\ epc = "wait"
    /\ online >= ExpectQueriers
    /\ epc' = "fill"
    /\ UNCHANGED <<store, events, nWrites, cacheVars, watchVars, hpc, loadVars, etodo, enriched, online, missed>>

(* Each collected table, in the HashMap's order, is fetched and inserted; *)
(* a failed fetch returns the error and leaves the rest unfilled.         *)
EnrichFill ==
    /\ epc = "fill"
    /\ IF etodo = {}
       THEN epc' = "done" /\ UNCHANGED <<etodo, enriched>>
       ELSE \E k \in etodo :
              \/ /\ etodo' = etodo \ {k}
                 /\ enriched' = enriched \cup {k}
                 /\ UNCHANGED epc
              \/ /\ epc' = "failed"
                 /\ UNCHANGED <<etodo, enriched>>
    /\ UNCHANGED <<store, events, nWrites, cacheVars, watchVars, hpc, loadVars, online, missed>>

EnrichStep == EnrichScan \/ EnrichWait \/ EnrichFill

(* Querier nodes join and leave the cluster. Only the wait reads their    *)
(* number, so the model lets it change while the warm-up waits.          *)
QueriersChange ==
    /\ epc = "wait"
    /\ \E n \in 0..ExpectQueriers : online # n /\ online' = n
    /\ UNCHANGED <<store, events, nWrites, cacheVars, watchVars, hpc, loadVars, enrichVars, missed>>

Init ==
    /\ SW!Init
    /\ phase = "down" /\ lpc = "off"
    /\ listing = [k \in Keys |-> << >>]
    /\ todo = {} /\ lkey = CHOOSE k \in Keys : TRUE
    /\ restarts = 0
    /\ epc = "off" /\ etodo = {} /\ enriched = {}
    /\ online = 0
    /\ missed = [k \in Keys |-> FALSE]

Next == Writers \/ Boot \/ Restart \/ LoadNextStep \/ WatchStep \/ EnrichStep \/ QueriersChange

(* A stopped node is started again by its deployment, cache() and the     *)
(* watch loop and the enrichment warm-up run to completion of every step *)
(* they can take; writers, crashes and queriers are the environment's.   *)
Spec == Init /\ [][Next]_vars /\ WF_vars(Boot) /\ WF_vars(LoadNextStep) /\ WF_vars(WatchStep)
                               /\ WF_vars(EnrichStep)

-----------------------------------------------------------------------------
TypeOK ==
    /\ SW!TypeOK
    /\ phase \in {"down", "up"}
    /\ lpc \in {"off", "list", "next", "latest", "history", "done"}
    /\ todo \subseteq Keys /\ lkey \in Keys
    /\ restarts \in 0..MaxRestarts
    /\ epc \in {"off", "scan", "wait", "fill", "done", "failed"}
    /\ etodo \subseteq EnrichmentKeys /\ enriched \subseteq EnrichmentKeys
    /\ online \in 0..ExpectQueriers
    /\ missed \in [Keys -> BOOLEAN]

Loaded == phase = "up" /\ lpc = "done"

(* Between the loader's keys and the watch loop's events, the caches of a *)
(* running node are coherent in SchemaWatch's sense: the history ordered, *)
(* the latest schema its last entry, the settings parsed from it.        *)
LoadCoherent ==
    phase = "up" /\ lpc \notin {"latest", "history"} => SW!CatalogCoherent

(* Spec section 9: the cache may lag a write by one reconciliation cycle. *)
(* Once cache() has returned and every event is handled, the caches       *)
(* agree with the store for every stream: latest schema, and every stored *)
(* version in the history.                                                *)
CacheLagsAtMostOneCycle ==
    Loaded /\ SW!Quiescent => \A k \in Keys : SW!MatchesStore(k)

(* Once cache() has returned and every event is handled, the caches agree *)
(* with the store (latest schema, and every stored version in the         *)
(* history) for every stream none of whose re-fetches has failed since   *)
(* the process started: a failed store read is the only way the watch    *)
(* loop and the loader leave a stream behind.                            *)
LoadedMatchesStore ==
    Loaded /\ SW!Quiescent => \A k \in Keys : ~missed[k] => SW!MatchesStore(k)

(* Once cache() has returned and every event is handled, a time-ranged   *)
(* read of a stream none of whose re-fetches failed picks, from the      *)
(* cached history, the version the store says was authoritative at the    *)
(* queried time, whether that history was installed by the loader or     *)
(* merged by the watch loop.                                               *)
LoadedSelectsActiveVersion ==
    Loaded /\ SW!Quiescent => \A k \in Keys : ~missed[k] => SW!SelectsActiveVersion(k)

(* The published latest schema only moves to a newer snapshot, the       *)
(* loader's installs and a restart's empty caches included.               *)
LatestNeverRegresses == SW!LatestNeverRegresses

(* Across restarts, and once writes stop, every stream's published latest *)
(* schema eventually is, and stays, the store's newest version, unless    *)
(* a re-fetch of it has failed since the process started.                *)
Convergence ==
    <>[](Loaded /\ \A k \in Keys : ~missed[k] => latest[k] = SW!StoreLatest(k))

(* Once the cluster keeps starting_expect_querier_num interactive queriers *)
(* online, the last start's cache_enrichment_tables returns: its wait for *)
(* queriers ends and every fetch is made or one fails.                    *)
EnrichmentWarmupReturns ==
    <>[](online >= ExpectQueriers) => <>[](epc \in {"done", "failed"})

(* Spec section 2: an EnrichmentTable is destroyed together with its      *)
(* stream. Once cache() has returned and the watch loop has handled every *)
(* event, every table in ENRICHMENT_TABLES belongs to a stream the        *)
(* latest-schema cache holds; the watch's whole-stream delete and the     *)
(* warm-up's fill are the code that must keep it so.                      *)
EnrichmentFollowsCatalog ==
    Loaded /\ SW!Quiescent => enriched \subseteq {k \in Keys : latest[k] # None}
=============================================================================

# TLA+ models of OpenObserve's schema catalog and its neighbours

This directory holds TLA+ models of the Rust code under `src/src/`, the TLC
configurations that check them, and `PROJECT.json`. That file lists the
components, the runs, the mutants, the map from definitions to source lines,
the findings and the hazards.

## 1. The system's parts

**Schema catalog.** The catalog lives in `service/db/schema.rs`. Every node
keeps four process-wide caches of the cluster's stream schemas:

| cache | key | content |
|---|---|---|
| `STREAM_SCHEMAS` | `org/type/stream` | the version history: `(start_dt, schema)`, ascending |
| `STREAM_SCHEMAS_LATEST` | same | the newest schema, with its field map |
| `STREAM_SETTINGS` (and its atomic mirror) | same | the settings parsed from the newest schema's metadata |
| `STREAM_RECORD_ID_GENERATOR` | same | a generator per stream that stores original data |

The caches are filled in two ways:

- **The bulk loader** `cache()` runs at startup. It lists every stored
  version, groups them by key and installs each group.
- **The watch loop** `watch()` is a single task. It reads a `Put`/`Delete`
  feed from the cluster coordinator.
  - On `Put` it re-reads the stream's versions from a start point derived from
    the cached history. It then publishes settings, latest schema and history
    in three separate lock sections.
  - On `Delete` it ignores version-qualified deletes (`start_dt > 0`). It
    clears whole-stream deletes in three lock sections.

Time-ranged queries pick a version from the cached history with
`filter_schema_version_id`.

**Enrichment warm-up.** After the catalog is loaded,
`cache_enrichment_tables` collects the enrichment-table keys of the
latest-schema cache. If there are none, it returns. Otherwise it polls the
cluster's online interactive queriers once a second until
`starting_expect_querier_num` of them are online. It then fetches each table
into `ENRICHMENT_TABLES`, and the first failed fetch ends it with an error.
The caches live in memory only, so a process restart loses them; the next
start rebuilds them.

**Mutating operations.** `merge`, `update_setting`, `delete_fields` and
`delete` write the backing store (`infra::schema`, which is outside `src/`).
Each write raises a watch event. None of them touches the caches.

**Stream service.** The stream service is `service/stream.rs`.

- `delete_stream` deletes the store entry and some related resources.
  `stream_delete_inner` then removes the stream from the caches directly,
  again in three lock sections.
- `update_stream_settings` reads the current settings from the settings
  cache, applies the request, and calls `save_stream_settings`.
  `save_stream_settings` reads the latest schema to merge the old partition
  keys, then writes the settings through `update_setting`. The caches see the
  write only when the watch loop applies its `Put`.

**File-data cache eviction strategy.** `infra/src/cache/file_data/mod.rs`
defines `CacheStrategy`, the index the memory and disk caches evict from. It
is either an LRU (a hashlink `LruCache`) or a FIFO (a `VecDeque` plus a
`HashSet`), selected by name.

**PromQL aggregations.** `service/promql/aggregations/mod.rs` holds the
grouping core of the aggregation operators:

- `labels_to_include` and `labels_to_exclude`;
- `eval_arithmetic` with the `sum` handler;
- `eval_std_dev_var`;
- `eval_top` (topk/bottomk);
- `eval_count_values`.

**Alert-manager startup.** `job/alert_manager.rs` `run()` is executed by
every alert-manager node. In a super cluster it reads the recorded job
cluster. If another listed cluster holds it, the node stands by; otherwise it
records its own cluster and spawns the scheduler.

**Other parts.** The local object store wrapper, the organizations table and
the organization API types. Section 6 says why these are left out.

## 2. Modules

| module | models | state | actions |
|---|---|---|---|
| `SchemaWatch` | the store writers, the watch loop, the cache clearing of `stream_delete_inner`, and the version selector, on one node | `store`, `events`, the four caches, the watch loop's program counter and locals, `hpc` (the point a `delete_stream` request has reached) | writers: `MergeCreate`, `MergeEvolve`, `MergeNewVersion`, `UpdateSetting`, `DeleteFields`, `RemoteDelete`, `RetentionDeleteVersion`; watch loop: `PutRecv`, `PutFetch`, `PutFetchFails`, `PutSettings`, `PutLatest`, `PutHistory`, `DeleteRecv`, `DeleteLatest`, `DeleteSettings`; local delete: `HttpDelete`, `HttpDelSchemas`, `HttpDelLatest`, `HttpDelSettings`; operator `FilterSchemaVersionId` (RECURSIVE `ScanEndDt`) |
| `CatalogLoad` | a node from process start: `SchemaWatch`'s writers and watch loop (instantiated with `LocalDeletes <- FALSE`), the bulk loader `cache()`, the enrichment warm-up, and process restarts | `SchemaWatch`'s variables; `phase` (process down/up), the loader's `lpc`, `listing`, `todo`, `lkey`; `restarts`; the warm-up's `epc`, `etodo`, `enriched`; `online` queriers | `Boot`, `Restart`, `LoadList`, `LoadNext`, `LoadLatest`, `LoadHistory`, `WatchStep` (every `SchemaWatch` watch action), `Writers` (every `SchemaWatch` writer), `EnrichScan`, `EnrichWait`, `EnrichFill`, `QueriersChange` |
| `SettingsUpdate` | `update_stream_settings` and `save_stream_settings` for one stream, against a settings cache and a latest-schema cache fed by the watch | `store`, `cache`, `latest`, `pending` events, the watch's `wpc` and `fetched`, per request `pc`, `req`, `local`; `issued`; ghost `acked` | `ReadSettings`, `GetSchema`, `WriteSettings`, `WatchSettings`, `WatchLatest` (the last two are `WatchStep`) |
| `CacheIndex` | what an eviction index promises its owner (the abstract specification) | `order`, `size`, `out` | `Insert`, `Evict`, `RemoveKey` |
| `CacheStrategy` | both strategies of `CacheStrategy`; refines `CacheIndex` | `queue`, `set`, `out` | `Insert`, `Evict` (`remove`), `RemoveKey` |
| `MCCacheStrategies` | one cache created with either strategy: two instances of `CacheStrategy` (`Lru`, `Fifo`) with their own variables, one of which a behaviour runs | `strategy`, the `Lru` and `Fifo` instances' `queue`, `set`, `out` | `Lru!Next` or `Fifo!Next` |
| `PromAggregations` | the aggregation operators as TLA+ operators, each evaluated once on an enumerated input | `fn`, `modifier`, `param`, `data`, `result` | `Sum`, `StdDevVar`, `Top`, `CountValues` |
| `AlertManagerCluster` | `run()` on several nodes of several clusters, with crashes and cluster list changes | `jobCluster`, `listed`, `pc`, `seen`, `crashes` | `Boot`, `ReadJobCluster`, `ListClusters`, `Register`, `Crash`, `Leave`, `Join` |

Each `MC<Module>` module gives the model values and small sets TLC runs with.

### How `SchemaWatch` corresponds to the code

**Data abstraction.**

- A schema snapshot is a record `[id, orig, end]`:
  - `id` is a write counter, so a larger id is a newer schema;
  - `orig` is the `store_original_data` setting;
  - `end` is the `end_dt` metadata stamped on a superseded version.
- Fields and the rest of the settings do not affect any property, so they are
  abstracted away. `SettingsOf` is what `unwrap_stream_settings` keeps of this
  record.
- The store for a key is a function from `start_dt` to snapshot.
- `VersionsOf` lists that function ascending by `start_dt`, which is what
  `list_values_by_start_dt` returns.

**Watch loop.** Each lock section or await point of `watch()` is one action,
so other actors can interleave between them:

| action | source lines |
|---|---|
| `PutRecv` | 291-331: the `prev_start_dt` and range computation |
| `PutFetch` | 333-367: store read; empty result skipped; record-id insert-if-vacant |
| `PutFetchFails` | 333-339: the store read fails; the error is logged and the event dropped (`continue`). Enabled when the constant `ReadErrors` is `TRUE` |
| `PutSettings` | 368-371 |
| `PutLatest` | 372-377 |
| `PutHistory` | 378-415: retain-by-`start_dt` then extend, in `MergeVersions` |
| `DeleteRecv` | 417-434 |
| `DeleteLatest` | 435-442 |
| `DeleteSettings` | 443-472 |

**Writers.** These model `infra::schema` from the spec's description, because
that code is not under `src/`. Its calls are made from
`service/db/schema.rs` 53-168.

- A merge either creates a stream, evolves the latest version in place, or
  opens a new version at a later `start_dt`. A new version stamps `end_dt` on
  the old one and raises `Put(start_dt)`.
- `update_setting` rewrites the latest version and raises `Put` with either
  start 0 or the version's start. Both values occur in the code.
- A whole-stream delete raises `Delete(0)`.
- Retention drops the oldest version and raises `Delete(start_dt)`.

**Local delete.** `HttpDelete` is `delete_stream` up to the
`stream_delete_inner` call. It nondeterministically either reaches the cache
clearing or stops early at a failing step (lines 700-755).
`HttpDelSchemas`, `HttpDelLatest` and `HttpDelSettings` are the three lock
sections of `stream_delete_inner`. The constant `LocalDeletes` turns this
actor on. It models a node that serves the HTTP delete, as opposed to one that
learns of the delete only from the feed.

**Version selector.** `ScanEndDt` is the loop of `filter_schema_version_id`:
it scans ascending and returns the first version whose `end_dt` is strictly
greater than the query's end, else the last one. `FilterSchemaVersionId` adds
the empty-history case.

### How `CatalogLoad` corresponds to the code

`CatalogLoad` instantiates `SchemaWatch` (`SW == INSTANCE SchemaWatch`) and
shares its variables, so the writers and the watch loop are exactly the
actions described above. It adds the process and the two start-up tasks.

| action | source |
|---|---|
| `Boot` | process start (not under `src/`): `watch()` subscribes to `/schema/`, so events raised before are never delivered, and `cache()` begins |
| `Restart` | the process stops: the four caches, `ENRICHMENT_TABLES` and the watch loop's locals are lost |
| `LoadList` | schema.rs 480-499: `db::list("/schema/")`, grouped by key |
| `LoadNext` | 500-526: the next key; the last version of the sorted bucket list gives the settings; record-id insert-if-vacant; settings inserted |
| `LoadLatest` | 527-532: the latest schema inserted (replacing what the watch may have put there) |
| `LoadHistory` | 533-553: the last element of every bucket, in `start_dt` order, replaces the history |
| `EnrichScan` | 558-586: the enrichment-table keys of `STREAM_SCHEMAS_LATEST`, under its read lock; an empty set returns |
| `EnrichWait` | 588-598: the querier poll loop; a poll that finds too few queriers changes nothing and is a stutter step |
| `EnrichFill` | 600-614: each table fetched and inserted; a failed fetch (`?`) ends the warm-up with the rest unfilled |
| `QueriersChange` | the cluster's online querier count (`get_cached_online_querier_nodes`, not under `src/`) |

`CatalogLoad` adds a history variable, `missed`. `missed[k]` becomes `TRUE`
when a re-fetch of `k` fails (`PutFetchFails`) and stays `TRUE` until the next
`Boot`. A later successful `Put` does not undo the miss: it re-fetches from the
`start_dt` of what the cache already holds, so a version the failed re-fetch
should have added is never read again. `missed` changes nothing in the code's
state; the properties use it to say which keys they speak about.

`LoadList` leaves out the failure of `db::list` (line 481, `?`). That error
ends `cache()` before anything is installed, which is the same as a node
that never loaded.

Which code starts these tasks, and in which order, is not under `src/`. The
spec (§5) says the bulk loader "runs once, synchronously with startup, and
should complete before steady-state reconciliation is trusted to be live". The constant
`WatchDuringLoad` says whether the watch loop may apply events while `cache()`
is still installing keys. The warm-up starts once `cache()` has returned, as
the spec's EnrichmentTable entry says. Only the wait reads the number of
online queriers, so the model changes it only while the warm-up waits.

### How `SettingsUpdate` corresponds to the code

- **Settings.** A settings value keeps the three flags
  `store_original_data`, `index_original_data` and `index_all_values`, the
  `index_fields` list, and the partition keys. Partition keys are a function
  from field to `{types, disabled}`. `index_fields` stands for every add/remove
  list of the request (defined schema fields, bloom filter fields, extended
  retention days), which are all handled the same way.
- **`ReadSettings`** is `update_stream_settings` up to the `save` call
  (stream.rs 374-636). It reads the settings cache and applies `UpdateFlags`,
  `UpdateIndexFields` and `UpdatePartitionKeys`. `index_original_data` forces
  `store_original_data`, and the request is refused (400) if
  `index_original_data` and `index_all_values` would both be on. The
  partition-key remove list retains entries not *equal* to a removed entry, as
  `Vec::retain` with `contains` does.
- **`GetSchema`** is `save_stream_settings`' read of the latest schema through
  `infra::schema::get`, and the merge of its partition keys
  (`MergePartitionKeys`, lines 328-351). Old keys are all disabled, a new key
  found among them keeps the old key with the new `disabled`, and a type
  change is refused.
- **`WriteSettings`** is `update_setting`: the store takes the settings and a
  `Put` is pending. The request is acknowledged.
- **`WatchSettings` / `WatchLatest`** are the watch loop's `Put` handling
  reduced to what this module needs. It re-reads the store, writes the
  settings cache, then, in a second lock section, the latest schema.
  `SchemaWatch` checks this part in detail.
- **`infra::schema::get` and `get_settings`.** These are not under `src/`. The
  spec (§6) exposes `get_latest` and `get_settings` as reads of the caches, so
  both read the caches here.
- **Not modelled.** The checks of field names against the schema and reserved
  names depend on data, not state, so the enumerated requests all pass them.
  Also left out: `is_deleting_stream`, the distinct-value service calls, and
  the enterprise pattern associations. The `None` branch of `get_settings`
  (stream missing) cannot occur for the one existing stream.

### How `CacheStrategy` corresponds to the code, and the refinement

- Both strategies are a sequence of `(key, size)` with the front evicted
  first. For the LRU, this is the linked hash map's order. The FIFO also
  keeps `set`.
- `New(Name)` lowercases the configured name and selects the FIFO only for
  `"fifo"`.
- `Insert`, `Evict` and `RemoveKey` translate `insert`, `remove` and
  `remove_key` of each arm.
- `ContainsKey` and `Length` are the two queries.
- `CacheIndex` is what the owner needs: each key tracked once with its
  inserted size, eviction of the key inserted longest ago, and the size
  handed back the one tracked.
- `Abs == INSTANCE CacheIndex WITH order <- QueueKeys, size <- ...` maps the
  queue onto it. `RefinesCacheIndex == Abs!Spec` is checked as a temporal
  property.
- Every removing call records its answer tagged with the call made, so that a
  wrong entry handed back by `remove` cannot pass for a `remove_key`.
- `CallerChecksContains` says whether the owner calls `contains_key` before
  `insert`. The owners are outside `src/`.

### How `PromAggregations` corresponds to the code

- **Behaviours.** Each behaviour picks one function, one by/without clause,
  one parameter and one input vector. It then takes one step that evaluates
  the function with the operators that translate the code.
- **Samples.** A sample is a label set (a function from label names to values)
  and an integer or `NaN`.
- **Groups.** A group is keyed by its label set, taking the code's u64
  signature to be collision-free.
- **`eval_top`.** This is modelled with its stable sort, the `take(n)` of the
  `as usize` parameter (NaN and negatives saturate to 0), and the skipping of
  `NaN` samples.
- **`count_values`.** This labels each sample with `f64::to_string` of its
  value (`ToString`).
- **Reference definitions.** Each property compares the result with a
  reference definition written from the PromQL semantics: `RefGroup`, and
  set-based counts, sums and rankings.

### How `AlertManagerCluster` corresponds to the code

Each await of `run()`'s super-cluster branch is one action:

- `ReadJobCluster` (`get_job_cluster`);
- `ListClusters` (`list_by_role_group`, standing by if the recorded cluster is
  listed);
- `Register` (`register_job_cluster`, then the scheduler is spawned).

A store error ends `run()` (`failed`). `Crash`, `Leave` and `Join` are the
environment: a node's process stops, and a cluster whose nodes are all down
drops out of the cluster list and may come back. `Serialized` says whether
two nodes can be inside `run()` at once. `FairSpec` adds weak fairness on
each node's `Boot` and `Step`, for the liveness property.

## 3. Runs

| run | cfg | expect | properties | what it shows |
|---|---|---|---|---|
| `catalog_load` | `CatalogLoad.cfg` | pass | `TypeOK`, `LoadCoherent`, `LoadedMatchesStore`, `LoadedSelectsActiveVersion`, `LatestNeverRegresses`, `Convergence`, `EnrichmentWarmupReturns` | across a restart, with the watch held back until `cache()` returns and with re-fetches that may fail: the loader's installs and the watch's events keep the caches coherent; once loaded and caught up, every key with no failed re-fetch since boot holds every stored version with its `end_dt` (so time-ranged reads pick the version valid at their time); the latest schema never moves back; such keys settle once writes stop; and the enrichment warm-up returns once enough queriers stay online |
| `catalog_read_error` | `CatalogReadError.cfg` | violation | `CacheLagsAtMostOneCycle` | one failed re-fetch leaves the cache behind the store with no event left to repair it, against the one-cycle lag bound of spec §9 |
| `catalog_enrichment_stale` | `CatalogEnrichmentStale.cfg` | violation | `EnrichmentFollowsCatalog` | a table collected by the warm-up and then deleted is still fetched into `ENRICHMENT_TABLES`, and stays there after the watch loop removed the stream from every other cache |
| `schema_watch_delete_race` | `SchemaWatchDeleteRace.cfg` | violation | `CatalogCoherent` | the direct clearing races the loop's `Put` for a re-created stream and leaves history without latest schema or settings |
| `settings_update` | `SettingsUpdate.cfg` | pass | `StoredFlagsConsistent`, `AckedUpdatesDurable`, `PartitionKeysNeverDropped`, `CachesCatchUp` | with one request at a time, each sent after the watch applied the previous write, and with the watch's re-reads succeeding (`ReadErrors = FALSE`), the update keeps the flag rules, loses no acknowledged change and keeps every partition key; once requests stop, the caches reach the stored settings |
| `settings_lost_update` | `SettingsLostUpdate.cfg` | violation | `AckedUpdatesDurable` | a second request sent after the first was answered, but before the watch applied it, writes the first change away |
| `cache_strategies` | `CacheStrategies.cfg` | pass | `BothTypeOK`, `BothQueriesAgree`, `BothRefineCacheIndex` | the LRU (named `"lru"`), under any calls including re-inserts of held keys, and the FIFO (named `"FIFO"`), when insert is only called for keys not held, each implement the abstract index |
| `cache_strategy_fifo_duplicate` | `CacheStrategyFifoDuplicate.cfg` | violation | `QueriesAgree` | a FIFO insert of a held key queues it twice, so `len` counts the key twice; evicting one of the entries would leave `contains_key` denying a key still queued |
| `prom_aggregations` | `PromAggregations.cfg` | pass | `SumMatchesReference`, `StatisticsMatchReference`, `TopSelectsExtremes`, `CountValuesMatchesReference` | sum, stddev/stdvar, topk/bottomk (every parameter, NaN and negative included) and count_values without a clause agree with PromQL on every vector of up to three samples |
| `prom_count_values_by` | `PromCountValuesBy.cfg` | violation | `CountValuesMatchesReference` | count_values with `by` does not give each distinct value its own output series, as PromQL does |
| `alert_manager_serialized` | `AlertManagerCluster.cfg` | pass | `TypeOK`, `SingleSchedulerCluster`, `SchedulerEventuallyRuns` | nodes booting one at a time keep the scheduler in one cluster across crashes, store errors and clusters leaving and rejoining; once the cluster list settles, a scheduler eventually keeps running (or a store error is reported) |
| `alert_manager_race` | `AlertManagerRace.cfg` | violation | `SingleSchedulerCluster` | nodes of two clusters booting together both read an empty job cluster and both run the scheduler |

### The properties

**`SchemaWatch`**, checked through `CatalogLoad` (the names in brackets are
the ones the `catalog_load` run uses)

- **`CatalogCoherent`** (`LoadCoherent`, stated outside the loader's
  `latest` and `history` steps). When no step is half-done, every key without a queued
  whole-stream delete satisfies three conditions:
  - its history is strictly ordered by `start_dt`;
  - the history, the latest schema and the settings are either all present or
    all absent;
  - the latest schema is the last history entry, the settings are derived
    from it, and a stream storing original data has a record-id generator.

  Violating it takes a merge, a re-fetch and a publication in a particular
  order. It would also fail for a merge that does not drop superseded entries.
- **`MatchesStore(k)`** (`LoadedMatchesStore`: once `cache()` has
  returned and the feed is drained, for every key with no failed re-fetch
  since boot). The latest schema of `k`
  equals the store's newest version. Every stored version is in the history
  with its current content, including the `end_dt` stamp written into the
  previous version. This is what the second-to-last `prev_start_dt` rule buys.
- **`SelectsActiveVersion(k)`** (`LoadedSelectsActiveVersion`, for the
  same keys). Once the feed is drained, for every query
  time from the first version on, `filter_schema_version_id` over the cached
  history picks the version the store says was active at that time (the one
  with the greatest `start_dt` not after it). This relates the selector, the
  `end_dt` stamps written by the merge, and the watch loop's re-fetch.
- **`LatestNeverRegresses`.** This is an action property: a step that replaces
  one published latest schema with another always moves to a newer snapshot.
- **`Convergence`.** Under weak fairness of the process start, the loader
  and the watch loop, and once writes and restarts stop, the node is
  eventually always loaded, and every key with no failed re-fetch since boot
  has the latest schema equal to the store's newest version. A key with a
  failed re-fetch is excluded because the code does not repair it (see
  `catalog_read_error`).

**`CatalogLoad`**

- **`CacheLagsAtMostOneCycle`** (checked by the violation run). Spec §9 says
  the cache may lag a write by at most one reconciliation cycle: once the
  node is loaded and the feed is drained, every key matches the store. This
  is `LoadedMatchesStore` without the exemption for failed re-fetches.

- **`EnrichmentWarmupReturns`.** If the cluster eventually always has
  `starting_expect_querier_num` queriers online, the last start's warm-up
  eventually always has returned, with every table fetched or after a failed
  fetch. It fails for a wait that compares with `>`.
- **`EnrichmentFollowsCatalog`** (checked by the violation run). Once
  `cache()` has returned and the watch loop has handled every event, every
  table in `ENRICHMENT_TABLES` belongs to a stream in the latest-schema
  cache. This is the spec's "EnrichmentTable follows the same destruction
  trigger".

**`SettingsUpdate`**

- **`StoredFlagsConsistent`.** The stored settings never have
  `index_original_data` without `store_original_data`, nor
  `index_original_data` with `index_all_values`.
- **`AckedUpdatesDurable`.** An index field whose last acknowledged request
  added it is in the stored settings, and one whose last acknowledged request
  removed it is not.
- **`PartitionKeysNeverDropped`.** This is an action property: no write drops
  a stored partition key or changes its types. It is the code's own comment:
  "the hash bucket num can't be changed".
- Both runs of `SettingsUpdate` set `ReadErrors = FALSE`. With
  `ReadErrors = TRUE`, TLC violates `AckedUpdatesDurable` even when clients
  wait for the watch: a failed re-read leaves the settings cache stale, and
  the next request, sent after the watch is idle again, builds on it and
  writes the acknowledged change away. This is the same root cause as
  `settings_lost_update`, reached without concurrency.
- **`CachesCatchUp`.** Once requests stop, and as long as the watch's
  re-reads of the store succeed, the settings cache and the latest
  schema eventually hold, and keep, the stored settings. The caches change
  only when the watch loop applies a `Put`. This fails if the loop writes
  the settings cache from what it read for an earlier event.

**`CacheStrategy`**, checked for both strategies by `MCCacheStrategies`
(`BothQueriesAgree`, `BothRefineCacheIndex`, `BothTypeOK` are the
conjunctions over the two instances)

- **`QueriesAgree`.** `contains_key` holds exactly for the keys queued, and
  `len` is the number of keys held.
- **`RefinesCacheIndex`.** The abstract index above, via the refinement
  mapping.
- **`TypeOK`.** For the LRU, this also says each key is queued once.

**`PromAggregations`**

Each property compares the operator with its reference definition on every
enumerated input:

- sum: per group, the count and the NaN-absorbing sum;
- stddev/stdvar: per group, the values in input order, their count and sum;
- topk/bottomk: per group, `min(k, size)` extreme non-NaN samples, best
  first, each once;
- count_values: one output series per distinct value and group.

**`AlertManagerCluster`**

- **`SingleSchedulerCluster`.** Two nodes running the scheduler belong to the
  same cluster.
- **`SchedulerEventuallyRuns`.** If the cluster list eventually stays
  complete, then eventually, and from then on, some node runs the scheduler
  or has had `run()` return a store error. The job-cluster check never
  leaves every node standing by, whichever cluster was recorded, crashed or
  booted first. The premise matters: a node that stood by never re-checks.
  Without the premise, TLC finds this behaviour:
  1. `ca` is recorded;
  2. `b1` stands by;
  3. `ca`'s nodes go down and `ca` leaves the list for good.

  No scheduler then runs while `b1` stays up. This is the open hazard at
  `alert_manager.rs:52`.

### Bounds

- **`SchemaWatch`**
  - **One key.** Keys are independent in every action, so one key shows every
    interleaving.
  - **`MaxTime = 3`.** Three `start_dt` values allow a version, a newer
    version and a re-creation at an earlier time, and let the oldest version
    be retired while two remain. The selector is checked at every query time
    `0..MaxTime`.
  - **`MaxWrites = 4`** in the local-delete run. Four writes reach create →
    new version → setting update → delete/re-create, and every sequence that
    leaves two events queued while the loop is between lock sections.
- **`CatalogLoad`**
  - **`MaxWrites = 3`, `MaxRestarts = 1`, one key.** Three writes before,
    during and after a load reach: a stream listed and then deleted before
    its install, a new version written between the listing and the install,
    and a restart in the middle of the load or of an event, followed by a
    reload of what was written while the node was down. Four writes take
    more than two minutes without the warm-up, so the restart and the
    warm-up are paid for with the fourth write.
  - **Enrichment.** The one stream is an enrichment table, and one querier
    is expected. The warm-up therefore always has a table to fill, and a
    stream deleted or re-created around it.
  - **Read errors.** Any re-fetch may fail (`ReadErrors = TRUE`), so a
    failed `Put` before, during and after a restart is explored.
  - **Size.** About 1.44 million distinct states, in about two minutes and
    forty seconds.
- **`SettingsUpdate`**
  - **Clients and requests.** Two clients, one field, two partition types.
  - **Request bodies.** Eight bodies: index field add/remove, partition key
    add with each type, partition key remove, and the flag switches.
  - **`MaxRequests = 4`.** Four requests reach add → remove → add, a
    partition type change refused after a key was added, and the flag
    conflict after `index_original_data` was switched on.
  - **Size.** About 15,000 states.
- **`CacheStrategy`**
  - **Keys, sizes and length.** Three keys, two sizes, at most three entries.
  - **What they reach.** A re-insert of a key that is neither at the front nor
    at the back, and eviction after it, need three entries. Two sizes tell a
    stale size from the current one.
- **`PromAggregations`**
  - **Vectors.** Up to three samples over three label sets: two jobs, one with
    an extra `instance` label, all with `__name__`.
  - **Values and parameters.** Values `{1, 2, NaN}`. Parameters
    `{NaN, -1, 0, 1, 2}`, which cover saturation, `take(0)`, and `k` below,
    equal to and above a group's size.
  - **What they reach.** Ties, NaN in a group, and groups that differ only in
    a label excluded by `without`.
- **`AlertManagerCluster`**
  - **Nodes and clusters.** Three nodes in two clusters (`a1`, `a2` in `ca`,
    `b1` in `cb`). Two nodes of one cluster show that same-cluster nodes may
    both run the scheduler.
  - **`MaxCrashes = 3`.** This allows a whole cluster to go down, drop out of
    the list and come back.

### Fairness

- **`SchemaWatch`.**
  - The watch loop is a single always-running task that blocks only on
    `events.recv()`, so its actions are weakly fair.
  - A `delete_stream` request that has started runs to completion, so the
    `Http*` steps are weakly fair.
  - Writers are user and compactor traffic and are not fair.
- **`CatalogLoad`.**
  - `Boot` is weakly fair, because a stopped node is started again by its
    deployment.
  - `cache()` and the enrichment warm-up run to the end of every step they
    can take, so their steps are weakly fair.
  - The watch loop is weakly fair, as in `SchemaWatch`.
  - Writers, restarts and queriers joining or leaving belong to the
    environment and are not fair. The warm-up's liveness is therefore stated
    under the premise that enough queriers eventually stay online.
- **`SettingsUpdate`.** The watch loop's two steps are weakly fair, for the
  same reason as in `SchemaWatch`. Clients are not fair: a request may be
  abandoned at any point.
- **`AlertManagerCluster`.** `FairSpec` makes each node's `Boot` and
  `Step` weakly fair. A down node is restarted by its deployment, and
  `run()` runs each await to completion. Crashes, and clusters leaving or
  joining the list, are not fair. `alert_manager_race` uses the plain `Spec`.
- **Other modules.** They check safety only and assume no fairness.

`CHECK_DEADLOCK FALSE` is set where the system really stops:

- `SchemaWatch` and `CatalogLoad`: the loop waits forever on `recv()` once
  writes stop.
- `SettingsUpdate` and `AlertManagerCluster`: the request and crash bounds
  run out.
- `PromAggregations`: each behaviour is one evaluation.

### Mutants

Each property of a passing run is broken by a plausible bug in the mapped
code:

| property | mutant | bug |
|---|---|---|
| `CatalogLoad!TypeOK` | `SettingsOfMetadata` | settings parsed with the version metadata left in |
| `LoadCoherent` | `MergeVersionsNoRetain` | history extended without dropping superseded entries |
| `LoadCoherent` | `LoadLatestFirstBucket` | the loader's latest schema taken from the oldest bucket |
| `LoadedMatchesStore` | `PutRecvPrevZero` | the spec's `prev_start_dt = 0` for a one-version history, so `end_dt` stamps are not re-read |
| `LoadedMatchesStore` | `LoadHistoryLatestOnly` | the loader installing only the latest bucket as history |
| `LoadedSelectsActiveVersion` | `ScanEndDtInclusive` | `<=` instead of `<` in the selector's comparison |
| `LatestNeverRegresses` | `PutLatestFirst` | the first re-fetched version published instead of the last |
| `Convergence` | `DeleteRecvAll` | version-qualified deletes treated as whole-stream deletes |
| `Convergence` | `LoadNextSkipSingle` | the loader skipping a key with one version, as if empty |
| `EnrichmentWarmupReturns` | `EnrichWaitAbove` | the querier wait comparing with `>` instead of `>=` |
| `StoredFlagsConsistent` | `UpdateFlagsNoForce` | `index_original_data` not forcing `store_original_data` |
| `AckedUpdatesDurable` | `UpdateIndexFieldsNoRemove` | the remove list ignored |
| `PartitionKeysNeverDropped` | `MergePartitionKeysNewOnly` | the old partition keys not merged in |
| `CachesCatchUp` | `WatchSettingsStale` | the settings cache written from the previous event's read |
| `BothTypeOK`, `BothQueriesAgree` | `LruInsertAppend` | the LRU appending a re-inserted key like the FIFO |
| `BothRefineCacheIndex` | `LruRemoveMru` | the LRU evicting the most recent entry |
| `BothQueriesAgree` | `FifoRemoveKeepSet` | the FIFO's popped key left in the set |
| `BothRefineCacheIndex` | `FifoRemoveBack` | `pop_back` instead of `pop_front` |
| `SumMatchesReference` | `LabelsToExcludeKeepName` | `without` keeping `__name__` |
| `StatisticsMatchReference` | `StdDevVarProcessorNoPush` | the value counted but not kept |
| `TopSelectsExtremes` | `TopComparatorSwapped` | bottomk sorted like topk |
| `CountValuesMatchesReference` | `CountValuesLabelsUnset` | the value label not set |
| `AlertManagerCluster!TypeOK` | `RegisterNodeName` | the node's name recorded as the job cluster |
| `SingleSchedulerCluster` | `ListClustersInverted` | the membership test inverted |
| `SchedulerEventuallyRuns` | `ReadJobClusterAnyRecorded` | the node's own recorded cluster also sent to the membership test, so every node stands by |

## 4. Findings

**`catalog_enrichment_stale` (spec/code divergence, `service/db/schema.rs:604`).**

- The spec (§2) says an EnrichmentTable is destroyed together with its
  stream.
- In `src/`, `ENRICHMENT_TABLES` is only ever inserted into. The watch's
  whole-stream delete (lines 443-472) removes the local table files but not
  the cached table.
- TLC's trace:
  1. An enrichment table is created.
  2. The node boots, and `cache()` lists and installs it.
  3. The table is deleted; its `Delete` event is queued.
  4. `cache()` returns and the watch loop starts on the `Delete`.
  5. The warm-up's scan still sees the table in the latest-schema cache.
  6. The watch loop finishes the delete.
  7. The warm-up waits for a querier, then fetches and inserts the table.
- The end state has the stream gone from every schema cache and the store,
  while `ENRICHMENT_TABLES` still holds it. Deleting a table after the
  warm-up leaves it cached the same way.

**`schema_watch_delete_race` (spec/code divergence, `service/stream.rs:759`).**

- The spec (§4.5) says the caches change only through the watch feed. It says
  (§3) that history and latest schema are published together.
- `stream_delete_inner` clears the caches itself, in three lock sections.
- TLC's trace (with two workers TLC may report another interleaving with
  the same end state):
  1. A stream is created, and the loop receives its `Put`.
  2. `delete_stream` deletes the store entry.
  3. The stream is re-created at a later `start_dt`.
  4. The loop's re-fetch of the first `Put` finds nothing in its range and
     drops the event.
  5. The loop applies the `Delete`, while `stream_delete_inner` removes the
     history.
  6. The loop applies the new `Put`: settings, latest schema, history.
  7. `stream_delete_inner` removes the latest schema, then the settings.
- The end state has history but no latest schema and no settings, while the
  store holds the stream. No event remains to repair it.

**`settings_lost_update` (code bug, `service/stream.rs:382`).**

- `update_stream_settings` starts from `get_settings`, which reads the settings
  cache.
- The cache changes only when the watch applies the store's `Put` (spec §4.5).
- TLC's trace:
  1. A request adds an index field.
  2. The request is answered 200.
  3. The same client sends a second request before the watch has applied the
     first.
  4. The second request reads the old settings and writes them back with its
     own change.
- The field acknowledged in step 2 is gone.
- The same stale read in `save_stream_settings` (`infra::schema::get`, line
  295) can drop a partition key added by the previous request. This goes
  against the comment at line 328. Under `SettingsLostUpdate.cfg`, TLC
  violates `PartitionKeysNeverDropped` the same way.

**`cache_strategy_fifo_duplicate` (code bug, `file_data/mod.rs:56`).**

- The FIFO's `insert` pushes without consulting its set.
- A second insert of a held key queues it twice. The first eviction of it
  removes the key from the set while an entry is still queued, so:
  - `contains_key` says no for a cached file;
  - `len` counts it twice.
- The LRU has no such case. The FIFO is correct only if every owner checks
  `contains_key` first.

**`catalog_read_error` (spec gap, `service/db/schema.rs:337`).**

- Spec §9 bounds the cache's lag behind a write to one reconciliation cycle.
- `watch()` handles a failed store read by logging it and dropping the event
  (`continue`). Nothing re-reads the key later.
- TLC's trace (7 states):
  1. The node boots, and `cache()` lists the store while it is empty.
  2. A stream is created; its `Put` is queued.
  3. `cache()` finds no key left to install and returns.
  4. The watch receives the `Put` (`PutRecv`).
  5. The re-fetch fails, and the event is dropped.
- The feed is then drained while the stream is missing from every cache.
- Worse, the miss is not repaired by the next `Put` either. The loop
  re-fetches from the `start_dt` of what the cache holds; with nothing cached,
  a later version's `Put` reads only from that version's own start, so the
  first version never enters the history. Until the next restart, time-ranged
  queries before the second version pick the wrong schema.

**`prom_count_values_by` (code bug, `promql/aggregations/mod.rs:361`).**

- With a `by`/`without` clause, `eval_count_values` adds `label_name` to the
  list of grouping label names, but never sets it on the sample's labels.
- Samples of one group with different values therefore fall into one output
  series.
- PromQL gives one series per value.

**`alert_manager_race` (code bug, `job/alert_manager.rs:56`).**

- Reading the job cluster and registering are separate awaits.
- Nodes of two clusters that boot together both read an empty job cluster,
  both register, and both spawn the scheduler.

**Divergences met while modelling.** These are not separate runs:

- **The watch loop during `cache()`** (`schema.rs:547`). `cache()`
  installs a listing taken at its start, with replace semantics. With
  `WatchDuringLoad = TRUE`, TLC violates `LoadedMatchesStore`:
  1. a stream is created;
  2. the node boots and `cache()` lists it;
  3. the stream is deleted;
  4. the watch loop applies the `Delete`;
  5. `cache()` installs the listed stream.

  The deleted stream stays cached, and no event is left to remove it. The
  start-up order is not under `src/`. The checked run holds the watch back
  until `cache()` returns, which is what the spec asks.
- **A decode error aborts the whole load** (`schema.rs:510`). `cache()`
  parses each key's last bucket with `?`, so a malformed snapshot ends the
  load for every key not yet installed. The spec (§7) says the key is
  skipped. The model has no malformed snapshots.

- For a one-version history, `watch()` re-reads from that version's own
  `start_dt` (line 316), not from 0 as the spec says.
- The history merge drops entries by equal `start_dt`, not by equal schema
  value.
- Both the bulk loader and the watch loop take the **last** element of a
  bucket as the latest schema. The asymmetry described in spec §9 is not in
  the code.
- A node that stands by in `run()` never re-checks (`alert_manager.rs:52`).
  When the recorded cluster goes away, no cluster runs the scheduler until a
  node restarts. `SchedulerEventuallyRuns` holds only under the premise that
  the cluster list settles with every cluster in it. Without that premise
  TLC finds the permanent standby.
- With requests that do not wait for the watch, `PartitionKeysNeverDropped`
  is violated as well as `AckedUpdatesDurable` (7 steps). A second request
  builds its settings from the stale cache and the stale latest schema, so
  it writes back the partition-key map without the key the first request
  added. This has the same root cause as `settings_lost_update`, so it is
  not a separate run. It matters more, because the code's own comment says
  partition keys must be kept.

## 5. Hazards

`PROJECT.json` lists the hazards at their source lines, with the properties
that cover them. Two that the model exposed are covered by `CatalogCoherent`:

- Version-qualified deletes are ignored by the cache. If retention ever
  dropped a version other than the oldest, the next re-fetch would append
  after a newer retained entry and the history would be out of order. The
  model therefore lets retention drop only the oldest version, which is what
  retention does.
- A stream re-created at an earlier `start_dt` while an older `Put` is queued
  leaves the history out of order until the queued `Delete` is applied.
  `CatalogCoherent` therefore exempts keys with a pending whole-stream delete.

The open hazards, with no property yet:

- `now_micros()` at the end of the re-fetch range;
- `list()` answering from a cache that `cache()` is still filling;
- the retries of `Local::delete` and its metrics on short paths;
- `organizations::len()` turning a database error into 0;
- `get_streams` ignoring the permission list when no stream type is given;
- the alert-manager standby that never fails over once the recorded cluster
  is gone for good, which is outside `SchedulerEventuallyRuns`' premise;
- the settings cache and the latest schema written in separate lock sections
  (`schema.rs:368` and `:372`). `stream_delete_inner` (`stream.rs:762-775`)
  and `cache()` (`schema.rs:525-534`) also write them apart. Spec §5
  tolerates the skew, and no reader in `src/` combines the two reads in a way
  a property could tell apart;
- `list()`'s two reads of the latest-schema cache (`schema.rs:210` and
  `:175`). The cache can be emptied between them, for example when the
  watch applies a stream's whole-stream `Delete` while its re-creation is
  queued. `list()` then answers `[]`, although an atomic `list()` would have
  named the stream at either instant: from the cache at the first read, and
  from the store at the second.

## 6. Plan and what is not modelled

Done so far:

- `SchemaWatch`, including the version selector.
- `CatalogLoad`: the bulk loader, restarts and the enrichment warm-up,
  composed with `SchemaWatch`.
- `SettingsUpdate`, with the liveness of its caches.
- `CacheIndex` and `CacheStrategy`, with the refinement, both strategies in
  one run.
- `PromAggregations`: sum, stddev/stdvar, topk/bottomk, count_values.
- `AlertManagerCluster`: its safety, and the liveness of start-up under
  settled membership.

Next, in order:

1. **`CatalogView`**: an abstract catalog (one atomic map from key to version
   list). `SchemaWatch` refines it at quiescent points, which makes the
   three-lock-section skew visible as the gap between the two.
2. **Settings across nodes.** `SettingsUpdate` instantiated on two nodes with
   separate caches and one store.
3. **The listing functions**, as operators over the `SchemaWatch` caches.

Not modelled, with the reason:

- The stream read API (`get_stream`, `get_streams`, `stream_res`,
  `transform_stats`) is read-only response assembly. Its permission
  filtering is listed as a hazard; the callers that decide its arguments are
  HTTP handlers not under `src/`.
- The schema listing (`list`, `list_stream_schemas`,
  `list_organizations_from_cache`, `list_streams_from_cache`) reads the
  latest-schema cache. Once the node is loaded and caught up, that cache
  is what `LoadedMatchesStore` checks. The partial answer during a load
  needs two keys, which is beyond the time budget of `catalog_load`.
- The file-data tier dispatch and the local object store are I/O wrappers
  whose state lives outside `src/`.
- The organizations table is single SQL statements under one lock; its
  state is the database.
- The organization API types are data only.
- Super-cluster replication forwards the same writes to other regions.
- The per-function PromQL handlers (`avg`, `min`, `quantile`, ...) live in
  submodules that are not under `src/`; only their shared core in `mod.rs`
  is modelled.
- Statistics and logging are left out.

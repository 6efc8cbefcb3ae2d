# OnHighGround2: TLA+ verification of an evacuation navigation system

OnHighGround2 tells people in Japan where to go before a flood, a tsunami or a
landslide reaches them, and by which route. Its public server answers from
hazard files, shelters and tiles of `data_runtime/current`, a symlink to one
directory of `data_runtime/versions/`, and from live feeds (earthquakes,
warnings, rain, tides, traffic, railways). Operators take datasets through
upload, normalization, validation and deployment, build new versions, switch
`current`, roll back and delete old versions while requests are being served.

This directory models that program, model-checks it with TLC and proves the
main properties of its versioned store, of its pipeline and of its services with TLAPS.

## 1. Inventory

| Component | State | Operations | Hard because |
|---|---|---|---|
| Atomic publisher (`runtime_publish.py`) and writer lock (`runtime_atomic.py`), run by `activate_version.py` | `.staging/`, `versions/`, `current`, flock on `.publish.lock`, audit files | `new_staging_path`, `publish`, `rollback` | several operator processes, a kill or a power loss between any two system calls, failure after the switch |
| Lease coordinator (`runtime_lease.py`) | `locks/`, `retired/`, `active/`, flock on `coordination.lock` | `acquire_current`, `renew`, `release` | acquisition is six file operations that must exclude the collector; expiry; residue of killed processes |
| Versioned readers (`runtime_version_access.py`, start-up of `app_public.py`) | lease handle, open file, renewal clock | stream a file, hold a version root | slow clients, failing renewals, users that never renew |
| Version collector (`runtime_gc.py`, `runtime_gc_cli.py`) | `clock.state`, `.protected.json`, both locks | `run`, `_update_protected_list` | clocks that disagree, deletion that is not atomic, retention boundary |
| Staging validation (`runtime_dataset_validate.py`) | manifest in every version | schema and counts, reuse of earlier checks, disappearance | what it trusts was checked by an earlier run, under rules that may have changed |
| Staged deploy (`deploy_to_runtime_atomic.sh`, `deploy_to_runtime.sh`, `resolve_*.py`, `rebuild_from_sources.py`) | staging tree seeded from current | seed, fill by region, overlay the registries, retire, gate, publish | takes what other jobs have left in the data lake |
| Tile mirror (`reconcile_tile_mirror.py`, `sync_frontend_tiles_mirror.sh`, `apply_tile_retirements.py`, `rollback_runtime.sh`) | the flat tree that Martin serves, records of retirements | plan, apply, undo, verify, follow a rollback | many files, no lock, kills between any two |
| Job manager (`job_manager.py`) | one JSON file per job, running tasks | create, update, submit, cleanup at start | exceptions before the first update, restarts |
| Dataset pipeline and state (`pipeline_service.py`, `dataset_state_service.py`, `admin_datasets.py`, `admin_upload.py`) | one JSON object per dataset | ingest, normalize, validate, deploy | whole-object writes across awaits, restarts between steps |
| Chunked uploads (`admin_upload.py`, `upload-manager.js`) | `.part` files, open sessions, bundles being built | chunk, finish, finish-group, cancel | a chunk is repeated while the handler of its first try still writes; names that are shared |
| Flat deploy, rollback and routing engine (`pipeline_service.py`, `osrm_provenance.sh`, `docker-compose.yml`) | runtime files, backups, road file, index and its provenance | copy or replace, roll back, rebuild, restart the container | a retry over a torn file; an index built while its source changes |
| Acquisition history, source contract and console (`acquisition_history.py`, `acquisition_migration.py`, `source_*.py`, `provenance_validity.py`, `data_ops_service.py`) | one history per dataset, stored verdicts | record, activate, migrate, judge | two processes; verdicts that outlive what they judge |
| Source conversion (`scripts/normalize/`) | normalized file | GML, GeoJSON and table conversion | what cannot be read must not look like an area without danger |
| Reconciliation (`dataset_runtime_reconcile.py`) | none of its own | compare dataset state with `current` and its manifest | runs beside jobs |
| Earthquake feed (`earthquake_source_p2p_ws.py`, `earthquake_realtime_service.py`, `earthquake_event_bus.py`, `earthquakes_stream.py`) | connection state, last ids, subscriber queues | connect, back off, deduplicate, fan out | reconnection, bounded queues |
| Configuration (`config_state_service.py`, `config_change_notifier.py`, `admin_config.py`) | overrides, history, SSE queues | set, reset, roll back, broadcast | two files written in place |
| Operators (`operator_session.py`, `operator_auth.py`, `operator_audit_*.py`, `docker_operation_gateway.py`) | sessions, audit log | login, admit, run a docker command | an audit log that may fail at every write |
| Hazards, evacuation and shelters (`hazard_service.py`, `hazard_engine.py`, `app_public.py`, `tti_service.py`, `shelter_service.py`) | boxes, ring file, shelter list with TTL | load, assess, search destinations | indexes that must agree; cut lists; a list younger than its TTL |
| Hazard files for viewers (`api/hazards.py`, `hazard_dataset_service.py`) | none of its own | describe, withhold or stream the file of a hazard; name its tiles | places looked in one after another, each changing by itself between two looks |
| Route risk (`weather_risk_context_service.py`, `route_risk_scoring.py`, `route_comparison_service.py`) and alerts (`weather_alert_service.py`, `jma_weather_adapter.py`) | caches | combine warnings, rain, hazards | unknown is neither safe nor dangerous |
| Simulation (`simulation_service.py`) | none while running | score and rank routes under a scenario | computed apart from what it explains |
| Live adapters (`live_*_service.py`, `weather_service.py`, `tide_service.py`, `jartic_traffic_service.py`, ...) | module-level caches | fetch, join, summarize, cut | slow and failing sources, lists cut to the screen |
| Browser frontend, data preparation and release tools | | | not modelled, section 5 |

How they interact. An operator (or a job of the admin API, through the deploy
script) fills a staging tree and runs `activate_version.py`; it takes
`.publish.lock`, validates, moves the tree to `versions/` and renames a symlink
over `current`. A request takes `coordination.lock` exclusively for a moment,
resolves `current` and leaves an entry in `active/`; it then reads without any
lock, renews its entry and removes it. A collector takes `.publish.lock` and
`coordination.lock` together, drops expired entries, and deletes the versions
that neither `current`, an entry, the protected list nor the retention count
keeps. Between these processes there is no other channel than the file system.

The deploy script fills the staging tree from the data lake, which the jobs of
the backend write: dataset state, acquisition history and job logs say what of
it may be published. After the switch the script brings the tile mirror to what
`current` says. The public server loads hazards when it starts and shelters when
their list has aged or `current` has moved; the live adapters meet it only
through their caches. The operator backend starts and stops containers through
the docker gateway; the routing engine builds its index from the road file when
its container starts.

What makes it correct:

- publisher: no lost update, no replaced tree; no torn tree on the shelf and no
  activated version lost, also after a power loss; exit code 0 tells the truth (exit
  code 1 does not, finding 1); every invocation ends;
- leases and collector: a listed lease keeps its version whole; an unexpired
  lease stays listed; a removed lease never returns; `current` and the newest
  versions are whole, also after an interrupted collection; locks of leases in
  use are kept; limits hold; nobody blocks for ever;
- pipeline and jobs: the job files, which keep the next job out, tell what is at work;
  with one job at a time and the record verified, nothing is published whose coverage
  check has not succeeded; a dataset that may be deployed has a whole canonical file,
  also after an interruption; a started job ends;
- versions: what is published is what was verified, or what took its place before it was
  copied (which need not have been validated, finding 4); nothing that was served
  vanishes; a script that runs alone leaves in the mirror what `current` says, one file
  per tileset;
- flat deploys and routing: what is called deployed is whole, what is half done over a
  whole runtime can be undone; the engine serves one build, of the roads that are there,
  unless these were replaced while it was built;
- uploads: what was acknowledged is held, and what is ingested is what was sent, as long
  as no chunk is repeated beside its own first try and no name is used twice at a time;
- viewers: no viewer of a region is given what belongs to another, and none is told that
  there is no such hazard while what its answer rests on (the path of the active dataset,
  or, where files are given out, the file of that path) is there all along;
- sources: the active acquisition made the canonical file, unless an ingest failed or
  could not be recorded; what the console calls OK is; no area of a source is left
  blank on the map;
- answers: nothing covered by a hazard is called clear, a safer shelter is not
  hidden by anything but the length of the list, more danger never gives a safer
  verdict, a place or a route ahead whose inputs are unknown is not called free of risk
  (a comparison may be, see the disagreements in section 3), the gravest is on top, what
  is in force is listed, what is called fresh is so unless an adapter falls back without
  saying so, and nothing that a source reported is lost or moved;
- operators: history and audit account for what was done.

## 2. Modules

```
ActiveVersion            what readers of data_runtime/current may rely on
   ^  implements                 ^  implements
RuntimePublish           RuntimeGc  --EXTENDS-->  RuntimeLease
MCRuntimePublish         MCRuntimeGc              (readers)
RuntimePublishProofs     RuntimeGcProofs

DatasetPipeline <--EXTENDS-- DatasetRaces
MCDatasetPipeline            MCDatasetRaces
DatasetPipelineProofs

MCServices, with one component in focus in each behaviour:
  versions       StagingBuild  StagingValidation  TileMirror
  data           UploadSessions
                 SourceContract -> AcquisitionHistory -> DataConsole
                 GmlGeometry -> Normalizers -> MCLandslides <- HazardService
  operators      OperatorGateway  ConfigState  FileDeploy  RoutingEngine
  public server  HazardFiles  HazardService -> EvacuationSearch  ShelterRegistry
                 WeatherAlerts -> RouteRisk -> Simulation
  live           EarthquakeFeed  LiveCaches  LiveSections  LiveObservations

WrapperProofs    StagingBuild, StagingValidation, TileMirror
UploadProofs     UploadSessions, AcquisitionHistory
DeployProofs     FileDeploy, RoutingEngine
LiveProofs       EarthquakeFeed, LiveCaches, HazardFiles, HazardService, EvacuationSearch
ServiceProofs    OperatorGateway, ConfigState, DataConsole, WeatherAlerts, ShelterRegistry, RouteRisk,
                 Simulation, LiveSections
```

An arrow points from a module to one that builds on it.

**ActiveVersion** is the abstract specification: a register that names one
complete version, and a shelf of versions. A version appears whole in one step,
its content never changes, the register moves only to a version on the shelf,
and a version leaves the shelf only while the register does not name it.

**RuntimePublish** is `publish()`, `rollback()` and `WriterLock` with any number
of operator processes (`Writers`). `pc[w]` is the point between two system calls
of `w`; each action is the system call named in its comment. There are two
layers of state: what the kernel shows to every process (`tree`, `staged`,
`current`) and what is certainly on the disk (`landed`, `treeSynced`,
`stagedSynced`, `maybeCurrent`); `PowerLoss` chooses any state the second layer
permits. A process ends in two steps: `Leave` gives the flock back (`runtime_atomic.py:279`)
and settles how it will answer, `Exit` is the printed answer and the exit code
(`activate_version.py:178-191`); between the two another process may move `current`,
which `overtaken` records. A kill drops the flock at once (`Kill`). The content of a
tree is a member of `Valid`, or `Torn` for content that validation
rejects (also what an unsynced file can become). `activated` and `exit` are
histories for the properties.

**RuntimeLease** holds the readers. A reader is one request. `reader[r]` runs
through the critical section of `_acquire_once` (`Enter`, `Resolve` or `Refuse`,
`CreateLock`, `CreateTombstone`, `Stamp`, `PublishEntry`); `Abort` is an
exception or a kill in it. `StreamReaders` renew between chunks; `RootReaders`
(`leased_version_root`) never do. `renew()` and `release()` change one file by
one atomic call under the shared flock, so each is one action that waits for the
exclusive holder. A request uses its lease id once, as the code does, which
creates a fresh uuid per lease.

**RuntimeGc** adds the collectors and composes them with the readers and a
publisher. `RuntimeGc.run()` is followed statement by statement: both locks,
the refusing pre-check, the second reading of the clock, the removal of stale
entries, the marking, `rmtree` in two steps (content, then directory, so that an
interruption leaves a partial directory), the cleanup of orphaned locks and
`clock.state`. The CLI's rewrite of `.protected.json` before `run()` is
`ReadList`/`WriteList`, outside every lock. The publisher is reduced to three
atomic actions guarded by `.publish.lock`. That reduction is what the theorem
`Implementation` of RuntimePublishProofs licenses: the full publisher is the
register whose steps are shelving a version (`PublishInterrupted`), activating
one (`Rollback`), or both (`Publish`). Readers look at `current` and `versions/`
only, so the publisher's intermediate steps are invisible to them.

**DatasetPipeline** is one flood dataset in the operator backend. The backend is
one event loop, so an action is what a coroutine does from one `await` to the
next; the script it awaits and the stretch that follows its exit are one action.

| State | Code |
|---|---|
| `jobs`, `task` | `jobs/<id>.json` and the coroutine `JobManager.submit` keeps; `task[j].pc` is the wait it is suspended at, `task[j].obj` the `DatasetState` object it was submitted with |
| `stored` | the dataset's state file; every save replaces it as a whole |
| `lake` | normalized, canonical and routing file and the routing's meta, each as the source it was made from; `Torn` is half a canonical file |
| `record` | the provenance record `build_provenance.export` writes |
| `passed`, `active` | coverage verdicts in the job logs; the acquisition whose log counts |
| `current` | the routing that the published version serves |
| `recon`, `overwritten` | a reconciliation outside the event loop; history: it has saved over a newer state |
| `up`, `faults` | the process, and the bound on faults |

Handlers are `Upload` (upload, fetch) and `RequestDeploy`; an ingest goes through
`StartIngest`, `Normalized`, `Validated`, `Derived`, `CoverageOk`, a deploy
through `StartDeploy`, `ContractOk`, `TilesBuilt`, `RoutingResolved`,
`RuntimeSwitched`, `PublishOk`, each with its failure. `Residue` is what a
script may leave behind when it fails or is killed. `Refresh` is the
reconciliation in a handler, `ReconcileLoad`/`ReconcileSave` the one of the
start-up thread and of the publishing script. `Raise` is an exception in a
coroutine, `Crash`/`Restart` the container's death and `cleanup_stale_running`.

**DatasetRaces** adds what the job check does not exclude: the end of a group
upload, which checks for a job, awaits its bundle and then submits
(`GroupFinish`, `GroupSubmit`), and the publishing script of another dataset's
deploy, which also resolves and copies this dataset's routing (`OtherResolves`,
`OtherSwitches`).

**The other components** are deterministic handlers, or share no state with one
another, so they meet in one run (MCServices). What each models:

| Module | State | Actions |
|---|---|---|
| StagingBuild | the lake, active mappings and registries, the version served, the staging tree and what of a region has been resolved | ingests and mapping changes at any time; for each region `ResolveSources`, `CopySources`, `ResolveTsunami`, `CopyTsunami`, `LayNormalized`, `ResolveOverlay`, `CopyOverlay`, `FinishRegion` in the order of the script; retirements, gate, publish and rebuild from sources |
| StagingValidation | a staged tree, the previous version with its manifest, the targets | schema of every geometry and property, counts, tsunami layout, disappearance, migration; `Publish` with what it reuses |
| TileMirror | mirror, backups, records of retirements, what the script is at | plan, preflight, each file operation of apply and undo, verification, kills, a hand that places files |
| UploadSessions | open uploads, their files, handlers at work, bundles, what the jobs took | begin, send and repeat a chunk, write a piece, lose a request or an answer, finish alone or as a group, cancel, disconnect |
| FileDeploy | dataset state, runtime and backup content, the job | request, back up, copy or replace, mark, roll back, restart with its repair, re-inference |
| RoutingEngine | road file, index, provenance, the container | download, clear, build, write provenance, check at start, profile rebuild with its steps, outages |
| SourceContract | none | which raw files make a source and how far its provenance is trusted |
| AcquisitionHistory | histories, data lake, what each process is doing | record an upload or a download (of a URL or of a batch), fail to record it, replace the canonical, activate, fail, fail to write how it ended, be killed, migrate, reassess |
| DataConsole | what the files of a node say | status of source, canonical, derived files, runtime, tile and record, and the worst of them |
| GmlGeometry | none | surfaces, curves and rings of a GML file, with what is freed when used |
| Normalizers | source files, output file, the conversion at work | one conversion of each script, its failure, a kill, the ingest that runs it |
| EarthquakeFeed | socket, backoff, window of ids, queues, pages | connect, receive, lose, retry, publish, subscribe, read, leave, shut down |
| ConfigState | overrides and history as written, queues of pages | set, reset, roll back, kill between the files, broadcast |
| OperatorGateway | sessions, audit log, requests at each await | login, expiry, admission, command with its two records, time limit, cancellation, shutdown |
| LiveCaches | cache, clock, requests in flight, disk copy | begin a request, the source answers or fails, store, answer; one policy per adapter, `silent` for those that hand back expired data without a mark |
| LiveSections | what the sources answered | rain tiles, kikikuru samples, surges, quakes, tsunami bulletins, and the five sections |
| LiveObservations | what the sources answered | earthquake history, weather of a place, tides, roads, railways |
| WeatherAlerts | the reports of a day | issue, change, cancel; the warnings of a point |
| RouteRisk | what the sources say now | warnings, rain, hazards and kikikuru combined for a place, a route, a comparison |
| HazardService | hazard files of a version, boxes, ring file | load, replace by rollback, assess a point, draw an area |
| HazardFiles | versions, runtime and lake files, tiles, mapping; a request with what it has found and the moments it lived through | publish, break the link, deploy, roll back, map and unmap, build and retire tiles, restart; each look of a request in version, active dataset, runtime, lake, legacy, tiles |
| EvacuationSearch | a request | arrival of the tsunami, area in reach, candidates, tiers, the recommended one |
| ShelterRegistry | list with its age, version, flat files, mappings | visit, load, publish, change of mapping, a file in the middle of a copy |
| Simulation | a scenario over routes | scores, penalties, ranking, the automatic run |

A module of this table whose answer depends on nothing asked before ends its
behaviour with one answer; its inputs are then the whole question. MCLandslides
puts a conversion and the service that loads its output together: what
`normalize_landslide.py` writes is what `hazard_service.py` reads.

A `CASE` of the modules is read from top to bottom where its guards overlap, as the
code's `if` chains are and as TLC does; in what the theorems are about, a chain of
conditions is written with `IF`, because to the provers an overlapping `CASE` may take
any arm. Recursion is by recursive functions and folds; no module has a `RECURSIVE`
operator.

## 3. Runs

| Run | Question | Result |
|---|---|---|
| `publish_safety` | two operators, two versions, two contents; kill or failure anywhere | no lost update, no replaced tree, truthful success, refinement of ActiveVersion; 395,809 states |
| `publish_durability` | the same with two power losses; does every invocation end? | activated versions and the shelf survive, and it does; 32,717 states |
| `gc_safety` | leases against a collector with a skewed clock | listed leases protect, removed ones stay removed; about 3.1 million states |
| `gc_progress` | retention, protected list, interrupted deletions; does everybody get on? | the newest are whole; every acquisition and every collection ends; 142,992 states |
| `pipeline_jobs` | three jobs over one dataset, record verified, one exception or restart | all hold; 180,880 states |
| `services` | twenty-one focuses, see below | all hold; 870,068 states, about two and a half minutes |
| `publish_exit_code` | does exit code 1 mean that current is unchanged? | **no**, finding 1 |
| `gc_held_lease` | does a lease held from start-up protect its version? | **no**, finding 2 |
| `pipeline_canonical_file` | is only validated routing published in the default mode? | **no**, finding 3 |
| `dataset_races` | and with group uploads and another dataset's deploy beside the jobs? | **no**, finding 4 |
| `kikikuru_clip` | does a kikikuru only ever make a route look worse? | **no**, finding 5 |
| `special_zones` | is a special landslide zone answered as critical? | **no**, finding 6 |

What `services` checks, with the place where it bites:

| Property | Says |
|---|---|
| `PublishedIsResolved` | a version holds the files that were verified for its regions, or what took their place before they were copied, never an earlier version's file or the normalized one below; however ingests, mappings and publishes interleave |
| `ReuseIsSound` | a file that was not checked again satisfies the rules its manifest names |
| `NothingVanishes` | no publish loses a dataset, or more than half of one, that was served |
| `MirrorStaysSound` | a script that runs alone never gives a tileset two files, and reports success only when the tiles are those of current, whatever was killed before; nothing is removed that no version or record has had (a retirement that fails, which the code only warns of, is excepted) |
| `DeployedIsWholeOrUndoable` | a flat runtime is whole where the state says deployed, and half of a deploy that began over a whole runtime can be undone from a whole backup (a retry over a torn one backs that up) |
| `OneBuildIsServed` | the engine serves one build, of the roads that are there, after kills, restarts and rebuilds, unless new roads or the profile job came into a build |
| `ActiveMadeCanonical`, `OkChainHolds` | the acquisition in use made the canonical file, or an ingest did that failed, was killed or could not be recorded; a chain called OK holds from source to tile |
| `UploadsArriveWhole` | what was acknowledged stays in the file; what an ingest takes is what was sent; excepted are chunks repeated beside their first try and files displaced by another of the same name |
| `NoAreaIsLeftBlank` | a conversion that succeeds has drawn every area; one that does not has touched nothing |
| `NothingCoveredIsCleared`, `SaferOnesAreHiddenByLengthOnly` | no verdict without its evidence; only the length of the list hides a safer shelter |
| `ViewersSeeTheirRegion` | files, tiles and descriptions are of one's own region and were there at some moment of the request, and none is denied that was there at all of them, whatever is published, deployed, mapped or retired between two looks |
| `NewestSheltersAreListed` | shelters of the version now published, at once; of flat files, by the mappings the process read at its start |
| `InForceIsListed`, `UnknownIsNotNone`, `WorseIsNeverSafer` | warnings in force, in whatever order their reports stand; a place, a route ahead and a comparison with unknown inputs are not called free of risk (a comparison with an unavailable forecast is excepted); more danger is never safer |
| `SimulationIsSound` | scores, penalties and verdicts that are computed apart agree; a worse route is not preferred |
| `ShownIsTrue` | a page whose queue has not overflowed shows the state the connection is really in |
| `OkIsRecent`, `WorstSectionIsOnTop`, `AnswersMatchTheSources` | age of what is called current, but for what an adapter hands back unmarked after a failure; lists that are cut; joins of what was observed |
| `HistoryAccountsForValues`, `AuditAccounts` | configuration (unless an update was cut off between its two files) and operations can be accounted for |

Each property of a passing run has a mutant in PROJECT.json: a plausible mistake
in one definition (a forgotten fsync, a lost guard, a slice from the wrong end)
under which TLC finds the property violated. Type invariants are not repeated in
the runs: they are theorems, or parts of the inductive invariants (section 4).

### Bounds

- Publisher: two writers are every conflict the lock can see (a holder and a
  rival); two versions give a superseded one and a new one; two contents tell
  a replaced tree from the original. `publish_durability` has two power losses, the
  second after the recovery from the first, and one version. The proofs below are for
  any numbers.
- Collector: one renewing and one non-renewing reader against one collector
  give every order of acquisition, renewal, expiry and marking; `TTL = 2`,
  `RenewAfter = 1` (half the TTL, as in the code) and `MaxTime = 4` let a lease
  be renewed once, expire, and pass the margin of `MaxSkew = 1`. Three versions
  with a retention of one leave a candidate that is neither current nor newest.
  `TombstoneLimit` is the code's limit made small. Proved for any numbers.
- Pipeline: three jobs are an ingest, a deploy and one more of either, in any
  order: a second ingest over a published dataset, or a deploy between two
  ingests. Two sources, one with a routing that covers all and one without,
  tell a verdict from a wrong one; they differ in their number of features. One
  fault is an exception or a crash at any point; a second would meet the same
  states again, which the proofs confirm for any number. The runs end when the
  job ids are used up, so deadlock is not checked there.
- `services` has one component in focus in each behaviour; the others do not move, and
  share no state with it. Where a theorem states a property of the table above, the
  instance only has to reach the interesting cases:

| Focus | Instance |
|---|---|
| feed, config | a window and a queue of two (the code's are larger), one page, three updates of two settings, a history of two for the code's 500; proved for any |
| caches | eleven adapters, of every policy; lifetimes of two and three ticks, two requests; proved for any |
| operators | one session, one request, a job with a command that is not in the catalog, a shutdown that stops one container; proved for any plan |
| staging | 27 trees, sound ones of different sizes and one for each rule that refuses one; shapes nested twice, `MaxNesting` stands for the interpreter's recursion limit; proved for any trees |
| mirror | two operators with two scripts in all, two versions, a tileset that moves, one that is retired, a file placed by hand; proved for any |
| versions | four datasets in two regions, two changes of the lake and two publishes: one change between what resolves and what copies, and one between two regions; proved for any |
| acquisitions | three datasets of different contracts, two ingests, one kill, writes of the record that fail, so that a migration meets an ingest; proved for any |
| uploads | five plans, chunks of two pieces, two tries for the browser's three, two losses: a second try beside the first handler; proved for any |
| console | what the files say differs in at most two places from a sound node; proved for all |
| hazards | seven places on a line, four runtimes with broken, foreign and overlapping files, one failing write, lists of two for fifteen and ten; proved for any |
| viewers | four datasets, three changes and any restarts between the looks of one request, two datasets mapped at first: one change before the request, one between two of its looks and one that undoes it; proved for any |
| files, routing | two fetches, four deploys or rollbacks, two mishaps; two versions of the roads, two rebuilds, one outage: a retry over the residue of a failure; proved for any |
| shelters | a list lives two ticks, two changes of the world, one load takes less than a tick; proved for any number |
| normalizers | files of one to three areas with each defect that a source may have |
| sections | one source off its calm answer; proved for any answers of all five |
| alerts, risk | three reports, routes of three sampled points; proved for any |
| simulation | one or two routes, six weathers, five scenarios; proved for any; eight predefined cases, which the program itself lists |
| observations | up to three reports of a list of two for thirty, four stations, two days of five hours, three road features, two railway reports |

- `MaxTime` and `EndClock` end a clock (`Tick` stops there); `MaxPowerLoss`, `MaxFaults`,
  `MaxKills`, `MaxMishaps`, `MaxOutages`, `MaxIngests`, `MaxFetches`, `MaxDeploys`,
  `MaxRoads`, `MaxRequests`, `MaxScripts`, `MaxHandPlaced`, `MaxLakeChanges`,
  `MaxPublishes`, `MaxUpdates`, `MaxReports`, `MaxWorldChanges`, `MaxShelfChanges` and
  `MaxDifferences` bound how often something happens. `SeenMax`, `QueueMax`, `RetryCap`,
  `StreamMax`, `MaxHistory`, `MaxListed`, `MaxGrid`, `MaxEvents`, `MaxTries`,
  `MaxSamples`, `MaxAreas`, `MaxQuakes`, `MaxRegions` and `TombstoneLimit` are limits of
  the code, made small.
- `services` checks no deadlock: a question is answered once, and bounds end the rest.
- `LiveView` drops the payload of requests that have ended from the state
  identity: nothing reads it again unless its entry is still listed, and then it
  is kept. `ServicesView` is the state of the component in focus. The symmetry of
  MCRuntimePublish permutes versions, writers and contents, which the module compares
  for equality only; no liveness is checked with it.

### Fairness

`publish_durability`: weak fairness of each invocation. A started process runs
until it exits; its only wait is the polled lock, whose deadline makes
`AcquireTimeout` always possible. `gc_progress`: weak fairness of a reader's
acquisition, a collector's run and its rewrite of the list, for the same reason;
`WriterTimeout` may happen whoever holds the lock, since the publisher there holds it
for a single step. Strong fairness of `Enter` and `LockCoord`, because a blocking
`flock` that is taken by others again and again is granted in the end: the kernel
queues its waiters. No fairness is given to the clock, to renewals or releases, or to
the failure actions; a client may read for ever. `pipeline_jobs`: weak fairness of
each job's steps, because `_run_subprocess` waits for every script with a time
limit and the event loop then resumes the coroutine, and of `Restart`, because
`docker-compose.yml` restarts the backend unless it was stopped. Nothing is
assumed about operators, reconciliations or faults.

### Findings

1. **Exit code 1 after the switch** (`publish_exit_code`). The audit is written
   after `current` has moved; an `OSError` there is not caught by
   `activate_version.py`, whose caller then says that `current` is unchanged.
2. **The start-up lease expires** (`gc_held_lease`). `app_public.py` promises
   that the collector cannot delete the version while the hazard data are being
   loaded, but the lease is never renewed.
3. **A failed routing becomes deployable again** (`pipeline_canonical_file`).
   `_block_flood_publish` clears two fields that the deploy handler computes
   again from others. With the record verified at publication (the mode of the
   two registered river datasets) the publication is still refused; in the
   default mode it is not.
4. **Verified, then copied** (`dataset_races`). The publishing script verifies the
   routing in one command and copies it in a later one; a deploy of another
   dataset does so while an ingest of this dataset replaces the file.
5. **A kikikuru that calms** (`kikikuru_clip`). The design lets a kikikuru only add to
   the verdict of the fixed hazards; the cap at `caution` (`app_public.py:1778`) does not
   look at the level before the correction and turns danger into caution.
6. **Two spellings of a special zone** (`special_zones`). `normalize_landslide.py` writes
   `special_warning`; `hazard_service.py:1226` looks for two other spellings, and answers
   danger where the documents say critical.

Disagreements with the repository's own words that no run shows, because they are
plain from the lines quoted; the property named leaves the case out and says so:

- shelters (`NewestSheltersAreListed`): `shelter_service.py:4-5` resolves the active
  dataset "at the time of the request", lines 297-298 and `layer_types_api.py:158` and
  `:185` reflect a changed mapping in live serving at once. The public server reads the
  mappings when it starts and never again, and the cache that is invalidated is that of
  the administration's process;
- route comparison (`UnknownIsNotNone`): `route_comparison_service.py:12` promises not to
  turn unknown into none. A forecast that is unavailable gets a risk of its own (202-203)
  that ranks with none (243), and a route without hazards is then answered as "none" (252);
- acquisitions (`ActiveMadeCanonical`): `acquisition_history.py:10` has one acquisition in
  use, that of the canonical. A record that cannot be written is only logged
  (`pipeline_service.py:381`, `:412`), and the ingest replaces the canonical anyway.

Seen while modelling, with no document found that promises otherwise:

- jobs: a coroutine that raises before its first update leaves its job queued, which
  keeps the dataset's next job out until a restart; with group uploads two jobs may work
  on one dataset; a reconciliation may put an old state back over a newer one; a deploy
  cut short while tiles are built leaves its dataset in `deploying`, which only a new
  ingest ends; a coverage verdict is found by the number of features alone;
- uploads: the browser sends no checksum, so a chunk that was repeated while its first
  handler still wrote can leave a file of the right size and another content; the
  truncation of the next chunk hides an overrun; a skipped chunk becomes zeros;
  `tmp/<filename>` is shared by all uploads of that name, and cancelling one removes the
  other's file; a cancelled group may still get its job; the dataset named in the body
  of a finish is not compared with that of the upload;
- live data: the rain tiles, the addresses and the lists and history of earthquakes fall
  back to expired data with nothing in the answer that tells
  (`jma_rain_tile_service.py:147`, `reverse_geocode_service.py:155`,
  `earthquake_source_p2p.py:135`);
- viewers: a file that is withdrawn after it was found gives 500, or the next place's
  file when it was gone already; the legacy directory serves its first file of any type
  for Tokyo; streams fail with 500 before the first publish while descriptions fall
  back; in a directory of current the largest file wins; the fallback may serve a file
  that was normalized and not validated;
- deploys: a download that was refused or broke off stays in the raw directory, and may
  have overwritten the file in use; a layer that was taken for valid because it was there
  stays "deployed" and torn after a later good fetch (found by the proof of
  `DeployedOrUndoable`, whose property excepts it);
- console: a tile that is "not applicable" is not looked at, so OK says nothing of it
  (found by the proof of `ConsoleTellsTheTruth`).

## 4. Proofs

All theorems are for arbitrary values of the constants under the named assumptions of
the modules. Most of these only give types (`ContentAssumption`, `LeaseAssumption`,
`PipelineAssumption`, `FeedAssumption`, `CacheAssumption`, `ConfigAssumption`,
`OperatorAssumption`, `SourceAssumption`, `RoutingAssumption`, `UploadAssumption`,
`PlacesAssumption`, `EvacuationAssumption`, `StagingAssumption`, `RecordAssumption`,
`AlertAssumption`, `RiskAssumption`, `ShelterAssumption`, `SectionAssumption`,
`SimulationAssumption`);
FileDeploy and StagingBuild need none. `RiskAssumption` says that a path is a sequence of
points with distances in whole metres, `ShelterAssumption` also that what stands for "no
link" and "no shelters" is not the name of a version, `SimulationAssumption` that the
severity of a weather is a grade of the alerts and the hazards of a scenario are hazards
that have a base penalty (`simulation.py`), and `SectionAssumption` that no tiles were
scanned where the scan is off or refused, and that a place has a name: every label is a
prefecture's, or one of the fallbacks for what has none (`live_summary_service.py:137`,
`:189`, `live_rain_tile_scan_service.py:92`). What constrains the environment:

| Assumption | Says | Because |
|---|---|---|
| `GcAssumption` | a collector's clock is at most `MaxSkew` ahead; it may be behind by any amount | the margin the collector is started with |
| `OperatorAssumption` | no plan has a command twice | a rebuild runs each stage once, a shutdown stops each container once |
| `ConsoleAssumption` | a registered file's name carries no other region's code than its dataset's | the registry of sources |
| `HazardFilesAssumption` | jobs write files where their dataset belongs; tile names begin with their region | `hazards.py:81`, where the region is cut off the name |
| `RuntimesAssumption` | the shape of a ring lies inside its box | boxes are computed from the rings |
| `TilesetAssumption` | two paths of one tileset are the two ends of a recorded migration | one tile path per dataset in the registry, and `apply_tile_retirements.py:89`, which refuses a migration to another name |

Theorems that name no property of a run: the `TypeCorrect`s, `UnexpiredLeasesSurvive`,
`CurrentStaysWhole`, `ActiveStaysLocked`, `TombstoneLimitHolds` and `Implementation` of
RuntimeGcProofs, `RebuildsAreOfTheRoads`, `HistoriesOnlyGrow`, `ScoresAreExplained`.

**RuntimePublishProofs.** Type correctness, then one invariant with these parts:

- *mutual exclusion*: a writer inside the critical section holds the lock, and
  therefore a publish's `base` is `current` until its own switch;
- *content*: the tree a publish carries is valid from its validation on, a
  synced tree cannot be torn, and every tree on the shelf is valid and synced;
- *durability*: what `current` names, what the disk may hold for it and what a
  publish has activated are on the shelf with their entries on the disk.

They are needed together: `ActivatedNeverLost` alone is not inductive, since a
switch to a version whose entry is not yet on the disk violates it only one
power loss later. From the invariant follow `NoLostUpdate`, `ShelfStaysValid`,
`ActivatedSurvives` and `SuccessIsServed`, all with power losses (the last by a
part of its own: a process between `Leave` and `Exit` that is not in `overtaken` still
has its version served), and
`Implementation` and `Immutability` under `MaxPowerLoss = 0`: a power loss may
legitimately take back a version that was never activated, which the register
does not allow.

**RuntimeGcProofs.** The inductive invariant has six parts beside the properties:

- `LocksAreHeld`: each flock is held by exactly the process that is inside its
  region;
- `ResolvedIsWhole`: a reader that has resolved a version and not yet published
  its entry names a whole version;
- `DoomedIsFree`: a collector has candidates only while it sweeps, and none of
  them is current or named by an active entry;
- `CutoffIsBounded`: a collector's reading of the clock is at most
  `now + MaxSkew`;
- `FilesAreCreated`: a reader past a creation step has the files of that step;
- `TombstoneHasRoom`: a reader that passed the limit check still has room for
  its tombstone.

`DoomedIsFree` needs both locks: `.publish.lock` keeps `current` and the set of
directories fixed while candidates are deleted, `coordination.lock` keeps new
leases out. `NewestAreWhole` needs in addition that deleting a version that is
not among the newest does not change which ones are (lemma `PastRetention`).

**DatasetPipelineProofs.** Four inductive invariants for any contents, jobs and
faults:

- `Typed` is `TypeOK` with `OneCoroutine`: a handler submits only while no coroutine is
  registered. It carries `TypeCorrect`, and the three below build on it, since only a
  job that is alone may assume that nobody changes the data lake behind it.
- `ToldInv` for `FilesTellTheWork`. What must be known of a file beside its status is when
  a verdict or an acquisition can be of that job (`Told`), and that whoever works is the
  only job whose file is open (`SoleWork`): the job files, not the registry of tasks, are
  what `has_running_job` reads, so a file left queued by an exception must still mean
  that no one works. The restart fails every open file while nobody works (`DownIsQuiet`).
- `PublishInv` for `RecordCarriesVerdict`: a record that says "ok" names a content
  whose check succeeded in some job, and between the resolution of a routing and
  its copy the data lake still holds what was resolved. The theorem assumes
  `VerifyRecord`, and `CountsDistinguish`: different contents have different
  numbers of features. Finding 3 is what happens without the first; without the
  second the verdict on one routing is taken for another's.
- `WholeInv` for `NeverDeploysHalfAFile`: neither the state file nor a coroutine's
  object says "passed" while the canonical file is not whole, and both say
  "running" while the validator copies. `DownIsQuiet` (no coroutine while the
  backend is down) is needed for the restart. A reconciliation that saves over a
  newer state breaks it, hence the condition on `overwritten`.

**WrapperProofs.** What a version holds, from staging to the mirror.

- `VersionsHoldTheResolved` by `BuildInv`: for the region that is being laid, what each
  resolved file has been since it was resolved (`laying.files` grows with every change of
  the lake until the copy), and which of these files the tree already holds at each point
  of the script; for the regions before, that the tree keeps what was copied for them.
  Between resolution and copy the invariant can only say that the lake holds one of what
  the file has been, which is why the property does not say that it was validated. A
  region touches only paths of its own, which is what lets the promise of one survive the
  staging of the next; the lemmas say which of several copies to one path remains.
- `WhatIsReusedWasFound` and `NothingServedVanishes` by `StagingInv`: the manifest of the
  served version says of every file what *the rules it names* found. `ReuseIsSound` alone
  is not inductive when the rules change: a file that was taken over must have been found
  sound by the rules under which it is taken over, and only the manifest's own rules say
  so. The recursion of nested geometries is a function of the depth.
- `MirrorIsSound` by `MirrorInv`: whatever overlaps, what a plan removes is what some
  version or record has had; and, as long as no two scripts have overlapped (`AloneInv`),
  a script's plan covers every difference between the mirror and current, and what is
  still to be placed has been prepared. The first half needs no lock, the second is false
  with two scripts, as the property says.

**UploadProofs.**

- `UploadsArrive`: unless two handlers have written one chunk at once (`doubled`), a file
  is the beginning of what is sent, as far as its one handler has come (`Counted`);
  behind a finish nothing writes any more (`Complete`), and files of one name displace
  each other only as `displaced` records (`NamedOnce`).
- `HistoriesNameTheCanonical`, `HistoriesOnlyGrow` by `AcquisitionInv`: neither process
  reads a history and writes it after the other wrote, because both are under its lock
  (`Doing`); what each made up *before* it took the lock is still true of the history it
  will find (`BackendAt`, `ToolAt`); ids are in order (`Orderly`), and the newest record
  that was made into a canonical is in use (`InUse`) where migration and ingest have not
  overtaken each other. A record that could not be written is remembered from the failure
  on (`unrecorded`), also where the ingest has yet to replace the canonical; one whose end
  could not be written stays "received" for ever, which the property accounts for.

**DeployProofs.**

- `DeployedOrUndoable` by `DeployInv`, ten parts: which steps of its plan a job still has
  before it, and what runtime, backup and state file say at each; a killed or failed job
  leaves one of those states, and the next begins there. `UndoableWhenTorn` needs that a
  retry does not back up a torn file over a whole backup.
- `EngineServesOneBuild`, `RebuildsAreOfTheRoads` by `RoutingInv`: every group of the
  index is accounted for by a build that runs, has ended or was cut off (`Accounted`),
  and the provenance is written last (`NamedLast`).

**ServiceProofs.** The operator's side:

- `AuditAccountsForAll`: the record of an attempt precedes its command
  (`AttemptsAreRecorded`), principals rest on what was recorded, and of what a caller has
  still to do nothing has been started or answered (`RestIsAhead`).
- `HistoryAccounts`: the history leads to the values in force, or to those that the update
  under way is about to write (`Pending`), also when the oldest entries are cut off.
- `ConsoleTellsTheTruth`: every field of a sight is one that the node may show
  (`SightInv`); that eleven statuses which are computed apart give the chain is a lemma on
  the worst of them (`NothingIsWorse`) and one step for each link.

The services answer from lists of any length. The module's first lemma, `Induction`, is
induction for a *set* of numbers (a least counterexample by `WFMin` of the library), which
needs no operator as a parameter; sums and folds over a set are defined by a CHOOSE of a
function, whose existence is proved by that induction first (`FoldExists`, `SumExists`).

- `InForceIsListedHolds`: what is kept of a file's reports for an area and a kind is the
  last of the newest ones, whatever their order (`LatestByReport`, `LatestSettles`).
  With it, what is listed and what the reference definition calls in force are the same.
- `NewestSheltersHold` by `ShelterInv`: a list that came from a version is that version's
  (`HeldFromVersion`); one read since the last change is that of the flat files
  (`HeldFromFlat`); a load that met no change *will* have read those when it is done
  (`ReadingOn`), because reading the first file and then the rest is reading all
  (`ReadFirst`). `LoadingOn` is needed for the list that is kept over a broken link. The
  property alone is not inductive: it speaks of answers only.
- `WhatIsUnknownIsNotNone`: the sample for the route ahead always holds its first place
  (`FirstIsSampled`), and a place, a route ahead or a comparison of which something is
  unknown gets a level other than none unless something known outranks it.
- `MoreDangerNeverLooksSafer`: every rank, sum, maximum and bound on the way from the
  world to a level and a score is monotonic, the two scorings of a route apart
  (`AheadGrows`, `RouteGrows`, `RouteRiskGrows`). That more danger does not change which
  points are sampled, so that each is compared with itself, is `SampledPoints`.
- `ScoresAreExplained`: the penalties that are listed for a simulated route are disjoint
  parts of one sum, each a group of the entries (`PenaltiesAddUp`). The order of routes is
  a strict order on finitely many, so one is on top (`RecommendedIsOnTop`); a further
  hazard lowers score and level of one route only and cannot put it there
  (`WorseIsNotPreferred`).
- `SimulationHolds` adds the predefined scenarios, under the hypothesis `PassOnAllRoutes`
  that they pass on the routes of the instance. They are eight fixed cases of the source,
  data and not an argument: that they do pass is what the run shows.
- `WorstIsShown`: a sort by ranks is a list of the same elements in order (`ByRankHolds`),
  its first element has the least rank (`FirstIsLeast`), and a cut keeps the first
  (`CutHolds`); hence each section tells of something at least as bad as what its source
  reported (`SectionsHold`), the merged list of the sections too (`MergedHolds`), and a
  region is as bad as the worst of its areas, wherever that stands (`RegionsHold`). The
  invariant itself is only that each source has given one of its answers.

**LiveProofs.**

- `ShownStateIsTrue`: the last status in a queue is the state, or there is none and the
  page shows it (`WillShow`), for everyone who has lost no event.
- `CurrentAnswersAreRecent`: a copy is never dated later than the source served it; with
  several requests in flight the slower answer carries its own, older date. What is
  answered after a failure is recent, marked, or from an adapter that marks nothing.
- `ViewersGetTheirOwn`: one active dataset for each type and region, and paths of the state
  are the dataset's own (`OutlookInv`). A request keeps the moments it has lived through,
  and `QueryInv` says what is known at each of its steps: that the version was read and
  held nothing, that a directory was empty at some moment, that the file in hand is about
  the region. Since the lake never shrinks, a file of it seen at one moment is there at
  every later one; a runtime file need not be, which is what the answers 404 and 500 allow.
- `NothingCoveredIsEverCleared` by `HazardInv`: a store that is not broken holds exactly the
  shapes of its boxes, each at its position, and behind them those of the file that is
  being read, so that a file given up half way leaves nothing; every ring of a loaded file
  has its box. Assessment and the drawing of areas are then compared with the rings.
- `SaferOnesAreHiddenByTheListOnly`: the order of candidates is a strict order on a finite
  set, so there is a best one (`OneIsOnTop`), and cutting the list at `MaxListed` keeps the
  best of each score.

Model-checked only, and why:

- liveness (`EveryInvocationEnds`, `AcquisitionEnds`, `CollectionEnds`, `StartedJobEnds`):
  fairness is beyond the proof system's reach;
- `AnswersMatchTheSources` and `NoAreaIsLeftBlank`: each compares the end of a long
  pipeline of joins of lists, or of curves and rings, with its sources, and every stage
  would need its own theory first. The runs enumerate what reaches them;
- that the predefined scenarios of `SimulationIsSound` pass, see above;
- the six violations.

Nothing is assumed without proof beyond the library's theorems on finite sets, functions,
sequences and well-founded orders.

## 5. Abstractions and limits

- Owner, group, mode, inode, device and capacity checks are "this operation may
  fail" (`FailBeforeSwap`, `Abort`, `Interrupt`, `Release`); nothing in the
  modelled code changes owners or modes.
- The manifest and the validation are the verdict they give. Several readings of
  the file system inside one validation are one step: the tree is staged, and
  its owner is the only process that writes to it.
- `rmtree` has one intermediate state. A partly deleted version still answers
  `is_dir()`, fails the manifest check, and may still hold the requested file.
- Version ids are numbers in RuntimeGc, because retention sorts names; they are
  unordered in RuntimePublish.
- All collectors of an instance share one retention count and one margin. Two
  collectors with different `--retention-count` are not modelled: what the one
  with the smaller count deletes is not among *its* newest.
- Leftover `.current.tmp.*` links and temporary entries of killed processes are
  never read by the code and are not part of the state.
- The renewal clock of a generator is monotonic and never skewed; `time.time()`
  of readers is taken as the reference, and collectors deviate from it.

- DatasetPipeline: a source stands for all that is computed from it, since the
  scripts are deterministic; paths, times, `last_job_id` and texts are dropped,
  and raw files of different sources have different names. The process is not
  killed between two consecutive writes of one stretch of the event loop, and a
  state file is never half written. The end of a script and the resumption of its
  coroutine are one step. A crash of the container ends its scripts; a script
  that outlives its time limit does nothing more. The publishing script's copy,
  switch and start of the reconciliation are one step; the publisher below it is
  RuntimePublish. Only a flood dataset in atomic-publish mode is modelled;
  datasets that are copied in place, their rollback and the routing engine are
  FileDeploy and RoutingEngine; deletion and `auto_deploy` are left out.
- DatasetRaces: a second dataset is only its publishing script.
- StagingValidation: elevation files are left out; a file is a kind of content.
- StagingBuild: one script at a time; copies that follow one another in one loop are one
  step, while resolving and copying are two; elevation data, the `flood_max` layer,
  `--skip-frontend`, the log of manifests and migrations of tiles that are pending are left
  out; every tile counts as large.
- TileMirror: chains of migrations are applied at once; `mbtiles_install.py` is left out.
- FileDeploy: reloads of the mirror and of tides, the shelter cache, tile builds after a
  deploy and railway deploy requests are left out; raw uploads have unique names.
- RoutingEngine: two writers of one index do not mix their content, an `exec` does not
  outlive the operator, clearing the index is one step.
- UploadSessions: a request that was lost does not arrive late; a second finish of a group
  is DatasetRaces'.
- AcquisitionHistory: a torn download is not in the lake; DataConsole: canonicals that were
  never hashed, raw files that cannot be read, mismatches of metadata, feature counts and
  artifact sections are left out.
- Normalizers: position lists written into the surfaces of tsunamis, odd numbers of
  coordinates, depths that are plain numbers, fallback names of properties and coordinate
  systems are left out.
- HazardService, EvacuationSearch: positions lie on a line; duplicates in the grid, rounding
  to float32 and degenerate rings are left out. HazardFiles: one request at a time, since
  requests share nothing that they write; empty region directories, the list of all hazards
  and the metadata inside a tile archive are left out; a stream's failures are RuntimeLease's.
- LiveObservations: texts, coordinates, depths, ages, mock data, hourly volumes,
  `normalize_raw_item` and the Open-Meteo forecast are left out; averages are rounded down.
- Simulation: texts, the stack of layers, the inspection of points and saving are left out.

Not modelled at all: the browser frontend (rendering and interaction; its wall-clock timers
have no document to be checked against, except for the upload queue, which UploadSessions
models), data preparation (one-shot conversions) and the tools that check a public release
(they keep no state and meet no other process).

## 6. Plan

Done: the publisher and the collector with their refinement of ActiveVersion, the pipeline,
the parts of `services`, and the proofs of section 4. Left:

1. `AnswersMatchTheSources`, from the lemmas about lists of `WorstIsShown`: the filters of
   LiveObservations must be written with `Chosen` for it, as those of LiveSections are;
2. two datasets in place of one and a script in DatasetPipeline, with the rollback and the
   deletion of a versioned dataset.

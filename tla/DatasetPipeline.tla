--------------------------- MODULE DatasetPipeline ---------------------------
(***************************************************************************)
(* The life of one flood dataset in the operator backend: the handlers of   *)
(* api/admin_datasets.py, the coroutines of services/pipeline_service.py    *)
(* that services/job_manager.py runs, and the state file of                 *)
(* services/dataset_state_service.py that all of them rewrite as a whole.   *)
(*                                                                         *)
(* The backend is one event loop: what happens between two awaits of a      *)
(* coroutine is one action, and every script it waits for ends it.  A job   *)
(* works on the state object it was submitted with and saves that object    *)
(* over the file, whatever has been written meanwhile.  Only the thread     *)
(* that reconciles states with the runtime (and the process the deploy      *)
(* script starts for it) runs beside the event loop.  A crash drops every   *)
(* coroutine and leaves the files.                                          *)
(*                                                                         *)
(* A content stands for a source together with all that is computed from    *)
(* it: normalizing, copying and deriving are deterministic.                 *)
(***************************************************************************)
EXTENDS Naturals, FiniteSets

CONSTANTS
    Contents,       \* sources an operator may upload
    Covered,        \* those whose routing covers every flooded area
    FeatureCount,   \* features of the routing of each content
    Jobs,           \* job ids, used in ascending order (bound)
    None,           \* nothing there
    Torn,           \* half of a file
    VerifyRecord,   \* publish_verification_mode = "artifact_record"
    MaxFaults       \* bound on crashes and exceptions

ASSUME PipelineAssumption ==
    /\ Covered \subseteq Contents
    /\ FeatureCount \in [Contents -> Nat]
    /\ Jobs \subseteq Nat /\ None \notin Jobs
    /\ {None, Torn} \cap Contents = {}
    /\ None # Torn
    /\ VerifyRecord \in BOOLEAN
    /\ MaxFaults \in Nat

VARIABLES
    jobs,       \* jobs/<id>.json
    task,       \* the coroutine of each job
    stored,     \* the state file of the dataset
    lake,       \* data_lake: normalized, canonical, routing and its meta
    record,     \* provenance record of the build
    current,    \* routing of the dataset in data_runtime/current
    passed,     \* job logs: the contents whose coverage check succeeded
    active,     \* the job of the acquisition in use
    recon,      \* a reconciliation beside the event loop
    overwritten,\* history: a reconciliation has saved over a newer state
    up,         \* the backend is running
    faults

files == <<lake, record, current, passed, active>>
vars == <<jobs, task, stored, files, recon, overwritten, up, faults>>

Kept == Contents \cup {None}
States == [raw: Kept,
           norm: {"not_started", "running", "success", "failed"},
           valid: {"not_started", "running", "passed", "failed"},
           deploy: {"not_deployed", "deployable", "deploying", "deployed",
                    "failed"},
           deployable: BOOLEAN]
Fresh == [raw |-> None, norm |-> "not_started", valid |-> "not_started",
          deploy |-> "not_deployed", deployable |-> FALSE]
Steps == {"accepted", "upload_store", "normalize", "validate",
          "derive_routing", "validate_routing", "backup", "tile_build",
          "deploy", "completed", "failed"}
\* Where a coroutine is suspended: not yet started, or waiting for a script.
Waits == {"ingest", "normalize", "validate", "derive", "cover", "start",
          "contract", "tiles", "publish", "resolved", "switched"}
NoTask == [pc |-> "none", obj |-> Fresh, src |-> None]
NoRecon == [pc |-> "idle", obj |-> Fresh, view |-> None]

TypeOK ==
    /\ jobs \in [Jobs -> [status: {"none", "queued", "running", "success",
                                   "failed"},
                          step: Steps]]
    /\ task \in [Jobs -> [pc: Waits \cup {"none"}, obj: States, src: Kept]]
    /\ stored \in States
    /\ lake \in [norm: Kept, canon: Kept \cup {Torn}, routing: Kept,
                 meta: Kept]
    /\ record \in [of: Contents, ok: BOOLEAN] \cup {None}
    /\ current \in Kept
    /\ passed \in [Jobs -> SUBSET Contents]
    /\ active \in Jobs \cup {None}
    /\ recon \in [pc: {"idle", "due", "loaded"}, obj: States, view: Kept]
    /\ overwritten \in BOOLEAN
    /\ up \in BOOLEAN
    /\ faults \in Nat

Init ==
    /\ jobs = [j \in Jobs |-> [status |-> "none", step |-> "accepted"]]
    /\ task = [j \in Jobs |-> NoTask]
    /\ stored = Fresh
    /\ lake = [norm |-> None, canon |-> None, routing |-> None, meta |-> None]
    /\ record = None
    /\ current = None
    /\ passed = [j \in Jobs |-> {}]
    /\ active = None
    /\ recon = NoRecon
    /\ overwritten = FALSE
    /\ up = TRUE
    /\ faults = 0

-----------------------------------------------------------------------------
(* The state of the dataset *)

Ready(s) == s.raw # None /\ s.norm = "success" /\ s.valid = "passed"

UpdateDeployable(s) ==
    LET ok == Ready(s) /\ s.deploy # "deploying"
    IN  [s EXCEPT !.deployable = ok,
                  !.deploy = IF ok /\ @ = "not_deployed" THEN "deployable"
                             ELSE @]

\* Mutant: a status of its own, which the state file's readers do not know.
BlockFloodPublishUnknown(s) ==
    [s EXCEPT !.deployable = FALSE, !.deploy = "blocked"]

BlockFloodPublish(s) ==
    [s EXCEPT !.deployable = FALSE,
              !.deploy = IF @ = "deployable" THEN "not_deployed" ELSE @]

DeployFailed(s) == [s EXCEPT !.deploy = "failed", !.deployable = FALSE]

\* apply_to_state with the status that reconcile_dataset finds for `view`.
ApplyRuntime(s, view) ==
    LET known == view = None \/ (lake.canon # None /\ lake.meta # None)
        published == view # None /\ view = lake.meta /\ lake.canon = lake.meta
        idle == IF Ready(s) THEN "deployable" ELSE "not_deployed"
        rests == view = None /\ ~Ready(s)
                 /\ s.deploy \notin {"deployed", "deployable"}
    IN  IF s.deploy = "deploying" \/ ~known THEN s
        ELSE [s EXCEPT !.deploy = IF published THEN "deployed"
                                  ELSE IF rests THEN @ ELSE idle,
                       !.deployable = Ready(s) /\ ~published]

-----------------------------------------------------------------------------
(* Jobs *)

\* Mutant: a queued job does not count.
HasRunningJobStarted ==
    \E j \in Jobs : jobs[j].status = "running"

HasRunningJob ==
    \E j \in Jobs : task[j].pc # "none" \/ jobs[j].status \in {"queued", "running"}

\* The next unused job id.
Unused(j) ==
    /\ jobs[j].status = "none"
    /\ \A i \in Jobs : jobs[i].status = "none" => j <= i

\* create, save the state and submit: one stretch of the event loop.
Submit(j, pc, obj, src) ==
    /\ Unused(j)
    /\ jobs' = [jobs EXCEPT ![j] = [status |-> "queued", step |-> "accepted"]]
    /\ task' = [task EXCEPT ![j] = [pc |-> pc, obj |-> obj, src |-> src]]
    /\ stored' = obj

\* The coroutine goes on to its next await.
Await(j, from, to, step, obj) ==
    /\ task[j].pc = from
    /\ task' = [task EXCEPT ![j].pc = to, ![j].obj = obj, ![j].src = None]
    /\ jobs' = [jobs EXCEPT ![j] = [status |-> "running", step |-> step]]

\* The coroutine returns.
Return(j, from, status) ==
    /\ task[j].pc = from
    /\ task' = [task EXCEPT ![j] = NoTask]
    /\ jobs' = [jobs EXCEPT ![j] =
                  [status |-> status,
                   step |-> IF status = "failed" THEN "failed" ELSE "completed"]]

\* The script a job waits for ends without succeeding, wherever it had come to.
Residue(j) ==
    \/ UNCHANGED lake
    \/ /\ task[j].pc = "normalize"
       /\ lake' = [lake EXCEPT !.norm = task[j].obj.raw]
    \/ /\ task[j].pc = "validate"
       /\ \E c \in {Torn, lake.norm} : lake' = [lake EXCEPT !.canon = c]
    \/ /\ task[j].pc = "derive"
       /\ lake.canon \in Contents
       /\ \E m \in {lake.meta, lake.canon} :
             lake' = [lake EXCEPT !.routing = lake.canon, !.meta = m]

beside == <<recon, overwritten, up, faults>>

-----------------------------------------------------------------------------
(* Ingest *)

\* A handler that accepts a source: upload, fetch.
Upload(c) ==
    /\ up
    /\ ~HasRunningJob
    /\ \E j \in Jobs : Submit(j, "ingest", stored, c)
    /\ UNCHANGED <<files, beside>>

\* The source set is refused, or storing it fails, at worst after the save.
IngestFails(j) ==
    /\ Return(j, "ingest", "failed")
    /\ stored' \in {stored, [task[j].obj EXCEPT !.raw = task[j].src]}
    /\ UNCHANGED <<files, beside>>

\* The raw file is stored, and normalizing starts without an await between.
StartIngest(j) ==
    LET obj == [task[j].obj EXCEPT !.raw = task[j].src, !.norm = "running"]
    IN  /\ Await(j, "ingest", "normalize", "normalize", obj)
        /\ stored' = obj
        /\ UNCHANGED <<files, beside>>

\* Mutant: the verdict on the previous canonical file is kept.
NormalizedKeepsVerdict(j) ==
    LET obj == [task[j].obj EXCEPT !.norm = "success"]
    IN  /\ Await(j, "normalize", "validate", "validate", obj)
        /\ stored' = obj
        /\ lake' = [lake EXCEPT !.norm = obj.raw]
        /\ UNCHANGED <<record, current, passed, active, beside>>

Normalized(j) ==
    LET obj == [task[j].obj EXCEPT !.norm = "success", !.valid = "running"]
    IN  /\ Await(j, "normalize", "validate", "validate", obj)
        /\ stored' = obj
        /\ lake' = [lake EXCEPT !.norm = obj.raw]
        /\ UNCHANGED <<record, current, passed, active, beside>>

NormalizeFails(j) ==
    /\ Return(j, "normalize", "failed")
    /\ stored' = [task[j].obj EXCEPT !.norm = "failed"]
    /\ Residue(j)
    /\ UNCHANGED <<record, current, passed, active, beside>>

\* The validator copies the normalized file over the canonical one.
Validated(j) ==
    LET obj == [task[j].obj EXCEPT !.valid = "passed"]
    IN  /\ Await(j, "validate", "derive", "derive_routing", obj)
        /\ stored' = obj
        /\ lake' = [lake EXCEPT !.canon = lake.norm]
        /\ UNCHANGED <<record, current, passed, active, beside>>

ValidateFails(j) ==
    /\ Return(j, "validate", "failed")
    /\ stored' = [task[j].obj EXCEPT !.valid = "failed"]
    /\ Residue(j)
    /\ UNCHANGED <<record, current, passed, active, beside>>

\* The routing and then its meta are renamed into place.
Derived(j) ==
    /\ lake.canon \in Contents
    /\ Await(j, "derive", "cover", "validate_routing", task[j].obj)
    /\ lake' = [lake EXCEPT !.routing = lake.canon, !.meta = lake.canon]
    /\ UNCHANGED <<stored, record, current, passed, active, beside>>

DeriveFails(j) ==
    /\ Return(j, "derive", "failed")
    /\ stored' = BlockFloodPublish(task[j].obj)
    /\ Residue(j)
    /\ UNCHANGED <<record, current, passed, active, beside>>

\* verify_routing_for_canonical
ContractHolds ==
    /\ lake.canon \in Contents
    /\ lake.meta = lake.canon
    /\ lake.routing = lake.canon

\* The coverage check prints its verdict into the log of the job; the
\* dataset becomes deployable and the acquisition the one in use (unless it
\* could not be recorded).
CoverageOk(j) ==
    LET obj == task[j].obj
    IN  /\ ContractHolds
        /\ lake.canon \in Covered
        /\ Return(j, "cover", "success")
        /\ passed' = [passed EXCEPT ![j] = @ \cup {lake.canon}]
        /\ stored' = UpdateDeployable(
                       [obj EXCEPT !.deploy = IF @ = "deploying"
                                              THEN "not_deployed" ELSE @])
        /\ active' \in {active, j}
        /\ UNCHANGED <<lake, record, current, beside>>

CoverageFails(j) ==
    /\ Return(j, "cover", "failed")
    /\ stored' = BlockFloodPublish(task[j].obj)
    /\ UNCHANGED <<files, beside>>

-----------------------------------------------------------------------------
(* Deploy *)

\* deployable is computed again from the file, whatever the file says.
RequestDeploy ==
    LET obj == UpdateDeployable(stored)
    IN  /\ up
        /\ ~HasRunningJob
        /\ obj.deployable
        /\ \E j \in Jobs :
              Submit(j, "start", [obj EXCEPT !.deploy = "deploying"], None)
        /\ UNCHANGED <<files, beside>>

StartDeploy(j) ==
    /\ Await(j, "start", "contract", "backup", task[j].obj)
    /\ UNCHANGED <<stored, files, beside>>

ContractOk(j) ==
    /\ ContractHolds
    /\ Await(j, "contract", "tiles", "tile_build", task[j].obj)
    /\ stored' = task[j].obj
    /\ UNCHANGED <<files, beside>>

\* The contract, or a precondition of the publication, does not hold.
ContractFails(j) ==
    /\ Return(j, "contract", "failed")
    /\ stored' = DeployFailed(task[j].obj)
    /\ UNCHANGED <<files, beside>>

\* Mutant: any verdict in the log will do.
VerdictForAnyRouting(c) ==
    /\ active # None
    /\ passed[active] # {}

\* routing_validation_from_logs finds a verdict by the number of features in
\* the log of the acquisition in use.
VerdictFor(c) ==
    /\ active # None
    /\ \E p \in passed[active] : FeatureCount[p] = FeatureCount[c]

\* Tiles are built or not; the record is written again if there is an
\* acquisition in use and the canonical file has a routing of its own.
TilesBuilt(j) ==
    LET obj == [task[j].obj EXCEPT !.deploy = "deploying"]
        fits == active # None /\ lake.canon \in Contents
                /\ lake.meta = lake.canon
    IN  /\ Await(j, "tiles", "publish", "deploy", obj)
        /\ stored' = obj
        /\ \/ /\ fits
              /\ record' = [of |-> lake.meta, ok |-> VerdictFor(lake.meta)]
           \/ UNCHANGED record
        /\ UNCHANGED <<lake, current, passed, active, beside>>

\* verify_routing_with_record
RecordVerifies ==
    /\ record # None
    /\ record.ok
    /\ lake.meta = record.of
    /\ lake.routing = record.of
    /\ lake.canon \in {None, record.of}

\* resolve_hazard_sources.py: which routing may be published.
Resolves == IF VerifyRecord THEN RecordVerifies ELSE ContractHolds

RoutingResolved(j) ==
    /\ task[j].pc = "publish"
    /\ Resolves
    /\ task' = [task EXCEPT ![j].pc = "resolved"]
    /\ UNCHANGED <<jobs, stored, files, beside>>

\* The script that publishes copies the routing, switches current and starts
\* a reconciliation.
SwitchRuntime ==
    /\ current' = lake.routing
    /\ recon' = IF recon.pc = "idle" THEN [recon EXCEPT !.pc = "due"] ELSE recon
    /\ UNCHANGED <<lake, record, passed, active, overwritten, up, faults>>

RuntimeSwitched(j) ==
    /\ task[j].pc = "resolved"
    /\ task' = [task EXCEPT ![j].pc = "switched"]
    /\ SwitchRuntime
    /\ UNCHANGED <<jobs, stored>>

\* The script refuses, fails, reports unknown durability or is killed for its
\* time, or what it has published is not what the data lake holds.
PublishFails(j) ==
    /\ \E pc \in {"publish", "resolved", "switched"} : Return(j, pc, "failed")
    /\ stored' = DeployFailed(task[j].obj)
    /\ UNCHANGED <<files, beside>>

PublishOk(j) ==
    /\ ContractHolds
    /\ current = lake.routing
    /\ Return(j, "switched", "success")
    /\ stored' = [task[j].obj EXCEPT !.deploy = "deployed", !.deployable = FALSE]
    /\ UNCHANGED <<files, beside>>

-----------------------------------------------------------------------------
(* Reconciliation with the runtime *)

\* GET of a dataset: load, update, compare and save within one handler.
Refresh ==
    LET seen == ApplyRuntime(UpdateDeployable(stored), current)
    IN  /\ up
        /\ seen # stored
        /\ stored' = seen
        /\ UNCHANGED <<jobs, task, files, beside>>

\* reconcile_all of the start-up thread or of the publishing script: what it
\* has loaded is compared after the canonical file has been hashed.
ReconcileLoad ==
    /\ up
    /\ recon.pc = "due"
    /\ recon' = [pc |-> "loaded", obj |-> stored, view |-> current]
    /\ UNCHANGED <<jobs, task, stored, files, overwritten, up, faults>>

ReconcileSave ==
    LET seen == ApplyRuntime(recon.obj, recon.view)
        saves == seen # recon.obj
    IN  /\ up
        /\ recon.pc = "loaded"
        /\ stored' = IF saves THEN seen ELSE stored
        /\ overwritten' = (overwritten \/ (saves /\ stored # recon.obj))
        /\ recon' = NoRecon
        /\ UNCHANGED <<jobs, task, files, up, faults>>

-----------------------------------------------------------------------------
(* Faults *)

\* Mutant: the exception is logged, and the job file is left as it is.
RaiseIsOnlyLogged(j) ==
    /\ faults < MaxFaults
    /\ task[j].pc # "none"
    /\ task' = [task EXCEPT ![j] = NoTask]
    /\ Residue(j)
    /\ faults' = faults + 1
    /\ UNCHANGED <<jobs, stored, record, current, passed, active, recon,
                   overwritten, up>>

\* An exception leaves the coroutine: a running job is failed, a queued one
\* is left as it is, and the state file is not touched.
Raise(j) ==
    /\ faults < MaxFaults
    /\ task[j].pc # "none"
    /\ task' = [task EXCEPT ![j] = NoTask]
    /\ jobs' = IF jobs[j].status = "running"
               THEN [jobs EXCEPT ![j] = [status |-> "failed", step |-> "failed"]]
               ELSE jobs
    /\ Residue(j)
    /\ faults' = faults + 1
    /\ UNCHANGED <<stored, record, current, passed, active, recon,
                   overwritten, up>>

\* The container dies with its coroutines, threads and scripts.
Crash ==
    /\ up
    /\ faults < MaxFaults
    /\ up' = FALSE
    /\ task' = [j \in Jobs |-> NoTask]
    /\ recon' = NoRecon
    /\ \E j \in Jobs : Residue(j)
    /\ faults' = faults + 1
    /\ UNCHANGED <<jobs, stored, record, current, passed, active, overwritten>>

\* What cleanup_stale_running repairs, by the steps the stale jobs had reached.
Repaired(s, steps) ==
    [s EXCEPT
       !.norm = IF "normalize" \in steps /\ @ = "running" THEN "failed" ELSE @,
       !.valid = IF "validate" \in steps /\ @ # "passed" THEN "failed" ELSE @,
       !.deploy = IF steps \cap {"deploy", "backup"} # {} /\ @ = "deploying"
                  THEN "not_deployed" ELSE @]

\* Mutant: only queued jobs are stale.
RestartKeepsRunning ==
    LET stale == {j \in Jobs : jobs[j].status = "queued"}
    IN  /\ ~up
        /\ up' = TRUE
        /\ jobs' = [j \in Jobs |->
                      IF j \in stale THEN [jobs[j] EXCEPT !.status = "failed"]
                      ELSE jobs[j]]
        /\ stored' = Repaired(stored, {jobs[j].step : j \in stale})
        /\ recon' = [recon EXCEPT !.pc = "due"]
        /\ UNCHANGED <<task, files, overwritten, faults>>

\* The backend starts: stale jobs fail, and a reconciliation is started.
Restart ==
    LET stale == {j \in Jobs : jobs[j].status \in {"queued", "running"}}
    IN  /\ ~up
        /\ up' = TRUE
        /\ jobs' = [j \in Jobs |->
                      IF j \in stale THEN [jobs[j] EXCEPT !.status = "failed"]
                      ELSE jobs[j]]
        /\ stored' = Repaired(stored, {jobs[j].step : j \in stale})
        /\ recon' = [recon EXCEPT !.pc = "due"]
        /\ UNCHANGED <<task, files, overwritten, faults>>

-----------------------------------------------------------------------------
\* A step of a coroutine, or of the script it waits for, that ends the wait.
Progress(j) ==
    \/ IngestFails(j) \/ StartIngest(j)
    \/ Normalized(j) \/ NormalizeFails(j)
    \/ Validated(j) \/ ValidateFails(j)
    \/ Derived(j) \/ DeriveFails(j)
    \/ CoverageOk(j) \/ CoverageFails(j)
    \/ StartDeploy(j) \/ ContractOk(j) \/ ContractFails(j)
    \/ TilesBuilt(j) \/ RoutingResolved(j) \/ RuntimeSwitched(j)
    \/ PublishFails(j) \/ PublishOk(j)

Next ==
    \/ \E c \in Contents : Upload(c)
    \/ RequestDeploy
    \/ \E j \in Jobs : Progress(j) \/ Raise(j)
    \/ Refresh \/ ReconcileLoad \/ ReconcileSave
    \/ Crash \/ Restart

Spec == Init /\ [][Next]_vars

\* Every script is waited for with a time limit and the event loop goes round;
\* Docker restarts the container.
FairSpec ==
    /\ Spec
    /\ \A j \in Jobs : WF_vars(Progress(j))
    /\ WF_vars(Restart)

-----------------------------------------------------------------------------
(* Properties *)

\* The job files, which keep the dataset's next job out, tell what is at work: after
\* any exceptions, a crash and a restart no job is left as running that nobody runs, and
\* none that has ended still works.  Only a job that an exception stopped before its first
\* update keeps the dataset to itself for nothing, until the next restart; then nothing
\* at all works on the dataset, and that job has neither a verdict nor an acquisition.
JobFilesTellTheWork ==
    up => \A j \in Jobs :
            /\ jobs[j].status = "running" => task[j].pc # "none"
            /\ jobs[j].status \in {"none", "success", "failed"} => task[j].pc = "none"
            /\ jobs[j].status = "queued" =>
                  \/ task[j].pc \in {"ingest", "start"}
                  \/ /\ \A i \in Jobs : task[i].pc = "none"
                     /\ passed[j] = {} /\ active # j

\* What the public server reads is a routing whose coverage check once
\* succeeded in a job, although the check is repeated neither by the deploy
\* nor by the publishing script, which go by the record.
PublishedWasValidated ==
    current # None => \E j \in Jobs : current \in passed[j]

\* As long as the state of the dataset lets it be deployed, also in the middle
\* of an ingest or after one was cut short, its canonical file is whole; unless
\* a reconciliation has put an old state back over a newer one.
DeployableIsWhole ==
    ~overwritten /\ UpdateDeployable(stored).deployable
    => lake.canon \in Contents

\* Every job that has started ends, whatever fails on the way.
StartedJobEnds ==
    \A j \in Jobs :
        jobs[j].status = "running" ~> jobs[j].status \in {"success", "failed"}
==============================================================================

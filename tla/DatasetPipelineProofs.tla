------------------------ MODULE DatasetPipelineProofs ------------------------
(***************************************************************************)
(* Theorems about DatasetPipeline for any contents, any number of jobs and  *)
(* any number of faults.                                                    *)
(***************************************************************************)
EXTENDS DatasetPipeline, TLAPS

LakeType == [norm: Kept, canon: Kept \cup {Torn}, routing: Kept, meta: Kept]

-----------------------------------------------------------------------------
(* The helpers of the state object *)

\* What the pipeline and the deploy handler do to a state object gives a state
\* object with the same source and the same validation.
LEMMA StateHelpers ==
    ASSUME NEW s \in States
    PROVE  /\ UpdateDeployable(s) \in States
           /\ BlockFloodPublish(s) \in States
           /\ DeployFailed(s) \in States
           /\ UpdateDeployable(s).valid = s.valid
           /\ BlockFloodPublish(s).valid = s.valid
           /\ DeployFailed(s).valid = s.valid
           /\ UpdateDeployable(s).raw = s.raw
<1>1. UpdateDeployable(s) \in States /\ UpdateDeployable(s).valid = s.valid
      /\ UpdateDeployable(s).raw = s.raw
  <2> DEFINE ok == Ready(s) /\ s.deploy # "deploying"
  <2>1. ok \in BOOLEAN
    BY DEF Ready
  <2> HIDE DEF ok
  <2>2. UpdateDeployable(s) = [s EXCEPT !.deployable = ok,
            !.deploy = IF ok /\ @ = "not_deployed" THEN "deployable" ELSE @]
    BY DEF UpdateDeployable, ok
  <2> QED
    BY <2>1, <2>2 DEF States
<1>2. BlockFloodPublish(s) \in States /\ BlockFloodPublish(s).valid = s.valid
  BY DEF BlockFloodPublish, States
<1>3. DeployFailed(s) \in States /\ DeployFailed(s).valid = s.valid
  BY DEF DeployFailed, States
<1> QED
  BY <1>1, <1>2, <1>3

\* A reconciliation changes how the deployment of a state is described, never
\* its validation.
LEMMA ApplyRuntimeHelper ==
    ASSUME NEW s \in States, NEW view \in Kept
    PROVE  /\ ApplyRuntime(s, view) \in States
           /\ ApplyRuntime(s, view).valid = s.valid
<1> DEFINE published == view # None /\ view = lake.meta /\ lake.canon = lake.meta
           idle == IF Ready(s) THEN "deployable" ELSE "not_deployed"
           rests == view = None /\ ~Ready(s)
                    /\ s.deploy \notin {"deployed", "deployable"}
           deployed == IF published THEN "deployed"
                       ELSE IF rests THEN s.deploy ELSE idle
           flag == Ready(s) /\ ~published
<1>1. flag \in BOOLEAN
  BY DEF Ready
<1>2. deployed \in {"not_deployed", "deployable", "deploying", "deployed", "failed"}
  BY DEF States
<1>3. \/ ApplyRuntime(s, view) = s
      \/ ApplyRuntime(s, view) = [s EXCEPT !.deploy = deployed, !.deployable = flag]
  BY DEF ApplyRuntime, States
<1> HIDE DEF published, idle, rests, deployed, flag
<1> QED
  BY <1>1, <1>2, <1>3 DEF States

\* The repair after a restart only takes a validation back.
LEMMA RepairedHelper ==
    ASSUME NEW s \in States, NEW steps
    PROVE  /\ Repaired(s, steps) \in States
           /\ Repaired(s, steps).valid \in {s.valid, "failed"}
  BY DEF Repaired, States

\* What a script may leave behind is a data lake, and only the validator can
\* leave a canonical file that is not whole.
LEMMA ResidueHelper ==
    ASSUME TypeOK, NEW j \in Jobs, Residue(j)
    PROVE  /\ lake' \in LakeType
           /\ task[j].pc \notin {"normalize", "validate", "derive"} => lake' = lake
           /\ task[j].pc # "validate" => lake'.canon = lake.canon
           /\ task[j].pc # "normalize" => lake'.norm = lake.norm
           /\ task[j].pc = "normalize" => lake'.norm \in {lake.norm, task[j].obj.raw}
<1>1. lake \in LakeType /\ task[j].obj.raw \in Kept
  BY DEF TypeOK, LakeType, States
<1>2. CASE UNCHANGED lake
  BY <1>1, <1>2
<1>3. CASE task[j].pc = "normalize" /\ lake' = [lake EXCEPT !.norm = task[j].obj.raw]
  BY <1>1, <1>3 DEF LakeType
<1>4. ASSUME task[j].pc = "validate",
             NEW c \in {Torn, lake.norm}, lake' = [lake EXCEPT !.canon = c]
      PROVE  /\ lake' \in LakeType
             /\ lake'.norm = lake.norm
  BY <1>1, <1>4 DEF LakeType
<1>5. ASSUME task[j].pc = "derive", lake.canon \in Contents,
             NEW m \in {lake.meta, lake.canon},
             lake' = [lake EXCEPT !.routing = lake.canon, !.meta = m]
      PROVE  /\ lake' \in LakeType
             /\ lake'.norm = lake.norm
             /\ lake'.canon = lake.canon
  BY <1>1, <1>5 DEF LakeType, Kept
<1> QED
  BY <1>2, <1>3, <1>4, <1>5 DEF Residue

-----------------------------------------------------------------------------
(* Jobs and coroutines *)

JobType == [status: {"none", "queued", "running", "success", "failed"},
            step: Steps]
TaskType == [pc: Waits \cup {"none"}, obj: States, src: Kept]

\* The dataset is worked on by one coroutine at a time.
OneCoroutine ==
    \A i, j \in Jobs : task[i].pc # "none" /\ task[j].pc # "none" => i = j

\* One coroutine goes on; nobody else does.
LEMMA AwaitHelper ==
    ASSUME TypeOK, OneCoroutine,
           NEW j \in Jobs, NEW from \in Waits, NEW to \in Waits,
           NEW step \in Steps, NEW obj \in States,
           Await(j, from, to, step, obj)
    PROVE  /\ jobs' \in [Jobs -> JobType]
           /\ task' \in [Jobs -> TaskType]
           /\ task'[j].pc = to
           /\ task'[j].obj = obj
           /\ \A i \in Jobs \ {j} : task'[i] = task[i] /\ task'[i].pc = "none"
<1> "none" \notin Waits
  BY DEF Waits
<1>1. task \in [Jobs -> TaskType] /\ jobs \in [Jobs -> JobType]
  BY DEF TypeOK, TaskType, JobType
<1>2. task[j].pc # "none"
  BY DEF Await
<1>3. \A i \in Jobs \ {j} : task[i].pc = "none"
  BY <1>2 DEF OneCoroutine
<1>4. jobs' \in [Jobs -> JobType]
  BY <1>1 DEF Await, JobType
<1>5. task' \in [Jobs -> TaskType] /\ task'[j].pc = to /\ task'[j].obj = obj
  BY <1>1 DEF Await, TaskType, Kept
<1>6. \A i \in Jobs \ {j} : task'[i] = task[i]
  BY <1>1 DEF Await
<1> QED
  BY <1>3, <1>4, <1>5, <1>6

\* The only coroutine returns.
LEMMA ReturnHelper ==
    ASSUME TypeOK, OneCoroutine,
           NEW j \in Jobs, NEW from \in Waits, NEW status \in {"success", "failed"},
           Return(j, from, status)
    PROVE  /\ jobs' \in [Jobs -> JobType]
           /\ task' \in [Jobs -> TaskType]
           /\ \A i \in Jobs : task'[i].pc = "none"
<1> "none" \notin Waits /\ NoTask \in TaskType /\ NoTask.pc = "none"
  BY DEF Waits, NoTask, TaskType, Fresh, States, Kept
<1>1. task \in [Jobs -> TaskType] /\ jobs \in [Jobs -> JobType]
  BY DEF TypeOK, TaskType, JobType
<1>2. \A i \in Jobs \ {j} : task[i].pc = "none"
  BY DEF OneCoroutine, Return
<1>3. jobs' \in [Jobs -> JobType]
  BY <1>1 DEF Return, JobType, Steps
<1>4. task' = [task EXCEPT ![j] = NoTask]
  BY DEF Return
<1> QED
  BY <1>1, <1>2, <1>3, <1>4

\* A job is submitted while no coroutine is alive.
LEMMA SubmitHelper ==
    ASSUME TypeOK, ~HasRunningJob,
           NEW j \in Jobs, NEW pc \in Waits, NEW obj \in States, NEW src \in Kept,
           Submit(j, pc, obj, src)
    PROVE  /\ jobs' \in [Jobs -> JobType]
           /\ task' \in [Jobs -> TaskType]
           /\ stored' = obj
           /\ task'[j] = [pc |-> pc, obj |-> obj, src |-> src]
           /\ \A i \in Jobs \ {j} : task'[i].pc = "none"
<1>1. task \in [Jobs -> TaskType] /\ jobs \in [Jobs -> JobType]
  BY DEF TypeOK, TaskType, JobType
<1>2. \A i \in Jobs : task[i].pc = "none"
  BY DEF HasRunningJob
<1>3. jobs' \in [Jobs -> JobType]
  BY <1>1 DEF Submit, JobType, Steps
<1>4. [pc |-> pc, obj |-> obj, src |-> src] \in TaskType
  BY DEF TaskType
<1>5. task' = [task EXCEPT ![j] = [pc |-> pc, obj |-> obj, src |-> src]]
      /\ stored' = obj
  BY DEF Submit
<1> HIDE DEF TaskType
<1> QED
  BY <1>1, <1>2, <1>3, <1>4, <1>5

-----------------------------------------------------------------------------
(* Types, and one job at a time *)

Typed == TypeOK /\ OneCoroutine

\* The part of the type invariant that no coroutine touches.
BesideTyped ==
    /\ recon \in [pc: {"idle", "due", "loaded"}, obj: States, view: Kept]
    /\ overwritten \in BOOLEAN
    /\ up \in BOOLEAN
    /\ faults \in Nat

\* The record, the published routing and the logs.
PublishTyped ==
    /\ record \in [of: Contents, ok: BOOLEAN] \cup {None}
    /\ current \in Kept
    /\ passed \in [Jobs -> SUBSET Contents]
    /\ active \in Jobs \cup {None}

LEMMA TypeParts ==
    TypeOK <=> /\ jobs \in [Jobs -> JobType]
               /\ task \in [Jobs -> TaskType]
               /\ stored \in States
               /\ lake \in LakeType
               /\ PublishTyped
               /\ BesideTyped
  BY DEF TypeOK, JobType, TaskType, LakeType, PublishTyped, BesideTyped

\* The steps of a coroutine that neither publish nor write to the logs.
QuietStep == UNCHANGED <<record, current, passed, active, beside>>

LEMMA Quiet ==
    ASSUME PublishTyped, BesideTyped, QuietStep
    PROVE  PublishTyped' /\ BesideTyped'
  BY DEF PublishTyped, BesideTyped, QuietStep, beside

\* Once a coroutine has gone on or returned, the types of what else it wrote
\* are enough.
LEMMA JobStep ==
    ASSUME Typed, NEW j \in Jobs,
           jobs' \in [Jobs -> JobType], task' \in [Jobs -> TaskType],
           \A i \in Jobs \ {j} : task'[i].pc = "none",
           stored' \in States, lake' \in LakeType,
           PublishTyped', BesideTyped'
    PROVE  Typed'
<1>1. TypeOK'
  BY DEF TypeOK, JobType, TaskType, LakeType, PublishTyped, BesideTyped
<1>2. OneCoroutine'
  BY DEF OneCoroutine
<1> QED
  BY <1>1, <1>2 DEF Typed

\* A step of a coroutine keeps the types, and keeps it the only one.
LEMMA ProgressKeepsTyped ==
    ASSUME Typed, NEW j \in Jobs, Progress(j)
    PROVE  Typed'
<1>0. /\ TypeOK /\ OneCoroutine
      /\ task[j] \in TaskType /\ stored \in States /\ lake \in LakeType
      /\ PublishTyped /\ BesideTyped
  BY TypeParts DEF Typed
<1>t. task[j].obj \in States /\ task[j].src \in Kept
  BY <1>0 DEF TaskType
<1>1. CASE IngestFails(j)
  <2>1. Return(j, "ingest", "failed")
    BY <1>1 DEF IngestFails
  <2>2. /\ jobs' \in [Jobs -> JobType] /\ task' \in [Jobs -> TaskType]
        /\ \A i \in Jobs : task'[i].pc = "none"
    BY <1>0, <2>1, ReturnHelper, "ingest" \in Waits DEF Waits
  <2>3. stored' \in States
    BY <1>0, <1>t, <1>1 DEF IngestFails, States
  <2>4. lake' \in LakeType
    BY <1>0, <1>1 DEF IngestFails, files
  <2>5. QuietStep
    BY <1>1 DEF IngestFails, QuietStep, files
  <2> QED
    BY <1>0, <2>2, <2>3, <2>4, <2>5, Quiet, JobStep
<1>2. CASE StartIngest(j)
  <2> DEFINE next == [task[j].obj EXCEPT !.raw = task[j].src, !.norm = "running"]
  <2>1. Await(j, "ingest", "normalize", "normalize", next)
    BY <1>2 DEF StartIngest
  <2>2. next \in States
    BY <1>t DEF States, Kept
  <2>3. /\ jobs' \in [Jobs -> JobType] /\ task' \in [Jobs -> TaskType]
        /\ \A i \in Jobs \ {j} : task'[i].pc = "none"
    <3>1. "ingest" \in Waits /\ "normalize" \in Waits /\ "normalize" \in Steps
      BY DEF Waits, Steps
    <3> QED
      BY <1>0, <2>1, <2>2, <3>1, AwaitHelper
  <2>4. stored' \in States
    BY <1>0, <1>t, <1>2, <2>2 DEF StartIngest
  <2>5. lake' \in LakeType
    BY <1>0, <1>2 DEF StartIngest, files
  <2>6. QuietStep
    BY <1>2 DEF StartIngest, QuietStep, files
  <2> QED
    BY <1>0, <2>3, <2>4, <2>5, <2>6, Quiet, JobStep
<1>3. CASE Normalized(j)
  <2> DEFINE next == [task[j].obj EXCEPT !.norm = "success", !.valid = "running"]
  <2>1. Await(j, "normalize", "validate", "validate", next)
    BY <1>3 DEF Normalized
  <2>2. next \in States
    BY <1>t DEF States, Kept
  <2>3. /\ jobs' \in [Jobs -> JobType] /\ task' \in [Jobs -> TaskType]
        /\ \A i \in Jobs \ {j} : task'[i].pc = "none"
    <3>1. "normalize" \in Waits /\ "validate" \in Waits /\ "validate" \in Steps
      BY DEF Waits, Steps
    <3> QED
      BY <1>0, <2>1, <2>2, <3>1, AwaitHelper
  <2>4. stored' \in States
    BY <1>0, <1>t, <1>3, <2>2 DEF Normalized
  <2>5. lake' \in LakeType
    BY <1>0, <1>t, <1>3 DEF Normalized, LakeType, States
  <2>6. QuietStep
    BY <1>3 DEF Normalized, QuietStep, files
  <2> QED
    BY <1>0, <2>3, <2>4, <2>5, <2>6, Quiet, JobStep
<1>4. CASE NormalizeFails(j)
  <2>1. Return(j, "normalize", "failed")
    BY <1>4 DEF NormalizeFails
  <2>2. /\ jobs' \in [Jobs -> JobType] /\ task' \in [Jobs -> TaskType]
        /\ \A i \in Jobs : task'[i].pc = "none"
    BY <1>0, <2>1, ReturnHelper, "normalize" \in Waits DEF Waits
  <2>3. stored' \in States
    BY <1>t, <1>4 DEF NormalizeFails, States
  <2>4. lake' \in LakeType
    BY <1>0, <1>4, ResidueHelper DEF NormalizeFails
  <2>5. QuietStep
    BY <1>4 DEF NormalizeFails, QuietStep, files
  <2> QED
    BY <1>0, <2>2, <2>3, <2>4, <2>5, Quiet, JobStep
<1>5. CASE Validated(j)
  <2> DEFINE next == [task[j].obj EXCEPT !.valid = "passed"]
  <2>1. Await(j, "validate", "derive", "derive_routing", next)
    BY <1>5 DEF Validated
  <2>2. next \in States
    BY <1>t DEF States, Kept
  <2>3. /\ jobs' \in [Jobs -> JobType] /\ task' \in [Jobs -> TaskType]
        /\ \A i \in Jobs \ {j} : task'[i].pc = "none"
    <3>1. "validate" \in Waits /\ "derive" \in Waits /\ "derive_routing" \in Steps
      BY DEF Waits, Steps
    <3> QED
      BY <1>0, <2>1, <2>2, <3>1, AwaitHelper
  <2>4. stored' \in States
    BY <1>0, <1>t, <1>5, <2>2 DEF Validated
  <2>5. lake' \in LakeType
    BY <1>0, <1>5 DEF Validated, LakeType
  <2>6. QuietStep
    BY <1>5 DEF Validated, QuietStep, files
  <2> QED
    BY <1>0, <2>3, <2>4, <2>5, <2>6, Quiet, JobStep
<1>6. CASE ValidateFails(j)
  <2>1. Return(j, "validate", "failed")
    BY <1>6 DEF ValidateFails
  <2>2. /\ jobs' \in [Jobs -> JobType] /\ task' \in [Jobs -> TaskType]
        /\ \A i \in Jobs : task'[i].pc = "none"
    BY <1>0, <2>1, ReturnHelper, "validate" \in Waits DEF Waits
  <2>3. stored' \in States
    BY <1>t, <1>6 DEF ValidateFails, States
  <2>4. lake' \in LakeType
    BY <1>0, <1>6, ResidueHelper DEF ValidateFails
  <2>5. QuietStep
    BY <1>6 DEF ValidateFails, QuietStep, files
  <2> QED
    BY <1>0, <2>2, <2>3, <2>4, <2>5, Quiet, JobStep
<1>7. CASE Derived(j)
  <2> DEFINE next == task[j].obj
  <2>1. Await(j, "derive", "cover", "validate_routing", next)
    BY <1>7 DEF Derived
  <2>2. next \in States
    BY <1>t DEF States, Kept
  <2>3. /\ jobs' \in [Jobs -> JobType] /\ task' \in [Jobs -> TaskType]
        /\ \A i \in Jobs \ {j} : task'[i].pc = "none"
    <3>1. "derive" \in Waits /\ "cover" \in Waits /\ "validate_routing" \in Steps
      BY DEF Waits, Steps
    <3> QED
      BY <1>0, <2>1, <2>2, <3>1, AwaitHelper
  <2>4. stored' \in States
    BY <1>0, <1>t, <1>7, <2>2 DEF Derived
  <2>5. lake' \in LakeType
    BY <1>0, <1>7 DEF Derived, LakeType, Kept
  <2>6. QuietStep
    BY <1>7 DEF Derived, QuietStep, files
  <2> QED
    BY <1>0, <2>3, <2>4, <2>5, <2>6, Quiet, JobStep
<1>8. CASE DeriveFails(j)
  <2>1. Return(j, "derive", "failed")
    BY <1>8 DEF DeriveFails
  <2>2. /\ jobs' \in [Jobs -> JobType] /\ task' \in [Jobs -> TaskType]
        /\ \A i \in Jobs : task'[i].pc = "none"
    BY <1>0, <2>1, ReturnHelper, "derive" \in Waits DEF Waits
  <2>3. stored' \in States
    BY <1>t, <1>8, StateHelpers DEF DeriveFails
  <2>4. lake' \in LakeType
    BY <1>0, <1>8, ResidueHelper DEF DeriveFails
  <2>5. QuietStep
    BY <1>8 DEF DeriveFails, QuietStep, files
  <2> QED
    BY <1>0, <2>2, <2>3, <2>4, <2>5, Quiet, JobStep
<1>9. CASE CoverageOk(j)
  <2> DEFINE next == [task[j].obj EXCEPT !.deploy = IF @ = "deploying"
                                                 THEN "not_deployed" ELSE @]
  <2>1. Return(j, "cover", "success")
    BY <1>9 DEF CoverageOk
  <2>2. /\ jobs' \in [Jobs -> JobType] /\ task' \in [Jobs -> TaskType]
        /\ \A i \in Jobs : task'[i].pc = "none"
    BY <1>0, <2>1, ReturnHelper, "cover" \in Waits DEF Waits
  <2>3. stored' \in States
    <3>1. next \in States
      BY <1>t DEF States
    <3>2. stored' = UpdateDeployable(next)
      BY <1>9 DEF CoverageOk
    <3> QED
      BY <3>1, <3>2, StateHelpers
  <2>4. lake' \in LakeType /\ BesideTyped'
    BY <1>0, <1>9 DEF CoverageOk, beside, BesideTyped
  <2>5. PublishTyped'
    <3>1. record' = record /\ current' = current /\ active' \in {active, j}
          /\ passed' = [passed EXCEPT ![j] = @ \cup {lake.canon}]
          /\ lake.canon \in Contents
      BY <1>9 DEF CoverageOk, ContractHolds
    <3> QED
      BY <1>0, <3>1 DEF PublishTyped
  <2> QED
    BY <1>0, <2>2, <2>3, <2>4, <2>5, JobStep
<1>10. CASE CoverageFails(j)
  <2>1. Return(j, "cover", "failed")
    BY <1>10 DEF CoverageFails
  <2>2. /\ jobs' \in [Jobs -> JobType] /\ task' \in [Jobs -> TaskType]
        /\ \A i \in Jobs : task'[i].pc = "none"
    BY <1>0, <2>1, ReturnHelper, "cover" \in Waits DEF Waits
  <2>3. stored' \in States
    BY <1>t, <1>10, StateHelpers DEF CoverageFails
  <2>4. lake' \in LakeType
    BY <1>0, <1>10 DEF CoverageFails, files
  <2>5. QuietStep
    BY <1>10 DEF CoverageFails, QuietStep, files
  <2> QED
    BY <1>0, <2>2, <2>3, <2>4, <2>5, Quiet, JobStep
<1>11. CASE StartDeploy(j)
  <2> DEFINE next == task[j].obj
  <2>1. Await(j, "start", "contract", "backup", next)
    BY <1>11 DEF StartDeploy
  <2>2. next \in States
    BY <1>t DEF States, Kept
  <2>3. /\ jobs' \in [Jobs -> JobType] /\ task' \in [Jobs -> TaskType]
        /\ \A i \in Jobs \ {j} : task'[i].pc = "none"
    <3>1. "start" \in Waits /\ "contract" \in Waits /\ "backup" \in Steps
      BY DEF Waits, Steps
    <3> QED
      BY <1>0, <2>1, <2>2, <3>1, AwaitHelper
  <2>4. stored' \in States
    BY <1>0, <1>t, <1>11, <2>2 DEF StartDeploy
  <2>5. lake' \in LakeType
    BY <1>0, <1>11 DEF StartDeploy, files
  <2>6. QuietStep
    BY <1>11 DEF StartDeploy, QuietStep, files
  <2> QED
    BY <1>0, <2>3, <2>4, <2>5, <2>6, Quiet, JobStep
<1>12. CASE ContractOk(j)
  <2> DEFINE next == task[j].obj
  <2>1. Await(j, "contract", "tiles", "tile_build", next)
    BY <1>12 DEF ContractOk
  <2>2. next \in States
    BY <1>t DEF States, Kept
  <2>3. /\ jobs' \in [Jobs -> JobType] /\ task' \in [Jobs -> TaskType]
        /\ \A i \in Jobs \ {j} : task'[i].pc = "none"
    <3>1. "contract" \in Waits /\ "tiles" \in Waits /\ "tile_build" \in Steps
      BY DEF Waits, Steps
    <3> QED
      BY <1>0, <2>1, <2>2, <3>1, AwaitHelper
  <2>4. stored' \in States
    BY <1>0, <1>t, <1>12, <2>2 DEF ContractOk
  <2>5. lake' \in LakeType
    BY <1>0, <1>12 DEF ContractOk, files
  <2>6. QuietStep
    BY <1>12 DEF ContractOk, QuietStep, files
  <2> QED
    BY <1>0, <2>3, <2>4, <2>5, <2>6, Quiet, JobStep
<1>13. CASE ContractFails(j)
  <2>1. Return(j, "contract", "failed")
    BY <1>13 DEF ContractFails
  <2>2. /\ jobs' \in [Jobs -> JobType] /\ task' \in [Jobs -> TaskType]
        /\ \A i \in Jobs : task'[i].pc = "none"
    BY <1>0, <2>1, ReturnHelper, "contract" \in Waits DEF Waits
  <2>3. stored' \in States
    BY <1>t, <1>13, StateHelpers DEF ContractFails
  <2>4. lake' \in LakeType
    BY <1>0, <1>13 DEF ContractFails, files
  <2>5. QuietStep
    BY <1>13 DEF ContractFails, QuietStep, files
  <2> QED
    BY <1>0, <2>2, <2>3, <2>4, <2>5, Quiet, JobStep
<1>14. CASE TilesBuilt(j)
  <2> DEFINE next == [task[j].obj EXCEPT !.deploy = "deploying"]
  <2>1. Await(j, "tiles", "publish", "deploy", next) /\ stored' = next
    BY <1>14 DEF TilesBuilt
  <2>2. next \in States
    BY <1>t DEF States
  <2>3. /\ jobs' \in [Jobs -> JobType] /\ task' \in [Jobs -> TaskType]
        /\ \A i \in Jobs \ {j} : task'[i].pc = "none"
    <3>1. "tiles" \in Waits /\ "publish" \in Waits /\ "deploy" \in Steps
      BY DEF Waits, Steps
    <3> QED
      BY <1>0, <2>1, <2>2, <3>1, AwaitHelper
  <2>4. lake' \in LakeType /\ BesideTyped'
    BY <1>0, <1>14 DEF TilesBuilt, beside, BesideTyped
  <2>5. PublishTyped'
    <3>1. VerdictFor(lake.meta) \in BOOLEAN
      BY DEF VerdictFor
    <3>2. /\ current' = current /\ passed' = passed /\ active' = active
          /\ \/ record' = record
             \/ /\ lake.meta \in Contents
                /\ record' = [of |-> lake.meta, ok |-> VerdictFor(lake.meta)]
      BY <1>14 DEF TilesBuilt
    <3> QED
      BY <1>0, <3>1, <3>2 DEF PublishTyped
  <2> QED
    BY <1>0, <2>1, <2>2, <2>3, <2>4, <2>5, JobStep
<1>15. CASE RoutingResolved(j)
  <2>1. task[j].pc = "publish" /\ task' = [task EXCEPT ![j].pc = "resolved"] /\ jobs' = jobs
    BY <1>15 DEF RoutingResolved
  <2>2. jobs' \in [Jobs -> JobType] /\ task \in [Jobs -> TaskType]
    BY <2>1, TypeParts DEF Typed
  <2>3. /\ task' \in [Jobs -> TaskType]
        /\ \A i \in Jobs \ {j} : task'[i].pc = "none"
    BY <1>0, <2>1, <2>2 DEF TaskType, Waits, OneCoroutine
  <2>4. stored' \in States /\ lake' \in LakeType /\ QuietStep
    BY <1>0, <1>15 DEF RoutingResolved, QuietStep, files
  <2>5. PublishTyped' /\ BesideTyped'
    BY <1>0, <2>4, Quiet
  <2> QED
    BY <1>0, <2>2, <2>3, <2>4, <2>5, JobStep
<1>16. CASE RuntimeSwitched(j)
  <2>1. task[j].pc = "resolved" /\ task' = [task EXCEPT ![j].pc = "switched"] /\ jobs' = jobs
    BY <1>16 DEF RuntimeSwitched
  <2>2. jobs' \in [Jobs -> JobType] /\ task \in [Jobs -> TaskType]
    BY <2>1, TypeParts DEF Typed
  <2>3. /\ task' \in [Jobs -> TaskType]
        /\ \A i \in Jobs \ {j} : task'[i].pc = "none"
    BY <1>0, <2>1, <2>2 DEF TaskType, Waits, OneCoroutine
  <2>4. stored' \in States /\ lake' \in LakeType
    BY <1>0, <1>16 DEF RuntimeSwitched, SwitchRuntime
  <2>5. PublishTyped' /\ BesideTyped'
    BY <1>0, <1>16 DEF RuntimeSwitched, SwitchRuntime, PublishTyped, BesideTyped, LakeType
  <2> QED
    BY <1>0, <2>2, <2>3, <2>4, <2>5, JobStep
<1>17. CASE PublishFails(j)
  <2>1. PICK pc \in {"publish", "resolved", "switched"} : Return(j, pc, "failed")
    BY <1>17 DEF PublishFails
  <2>2. /\ jobs' \in [Jobs -> JobType] /\ task' \in [Jobs -> TaskType]
        /\ \A i \in Jobs : task'[i].pc = "none"
    BY <1>0, <2>1, ReturnHelper, pc \in Waits DEF Waits
  <2>3. stored' \in States
    BY <1>t, <1>17, StateHelpers DEF PublishFails
  <2>4. lake' \in LakeType /\ QuietStep
    BY <1>0, <1>17 DEF PublishFails, QuietStep, files
  <2> QED
    BY <1>0, <2>2, <2>3, <2>4, Quiet, JobStep
<1>18. CASE PublishOk(j)
  <2>1. Return(j, "switched", "success")
    BY <1>18 DEF PublishOk
  <2>2. /\ jobs' \in [Jobs -> JobType] /\ task' \in [Jobs -> TaskType]
        /\ \A i \in Jobs : task'[i].pc = "none"
    BY <1>0, <2>1, ReturnHelper, "switched" \in Waits DEF Waits
  <2>3. stored' \in States
    BY <1>t, <1>18 DEF PublishOk, States
  <2>4. lake' \in LakeType
    BY <1>0, <1>18 DEF PublishOk, files
  <2>5. QuietStep
    BY <1>18 DEF PublishOk, QuietStep, files
  <2> QED
    BY <1>0, <2>2, <2>3, <2>4, <2>5, Quiet, JobStep
<1> QED
  BY <1>1, <1>2, <1>3, <1>4, <1>5, <1>6, <1>7, <1>8, <1>9, <1>10, <1>11, <1>12, <1>13, <1>14,
     <1>15, <1>16, <1>17, <1>18 DEF Progress

\* What another coroutine than a job's, a thread or a fault does keeps the
\* types and starts no second coroutine.
LEMMA NextKeepsTyped ==
    ASSUME Typed, [Next]_vars
    PROVE  Typed'
<1>0. /\ TypeOK /\ OneCoroutine
      /\ jobs \in [Jobs -> JobType] /\ task \in [Jobs -> TaskType]
      /\ stored \in States /\ lake \in LakeType
      /\ PublishTyped /\ BesideTyped
  BY TypeParts DEF Typed
<1>t. NoTask \in TaskType /\ NoTask.pc = "none" /\ None \in Kept /\ Contents \subseteq Kept
  BY DEF NoTask, TaskType, Fresh, States, Kept
<1>1. ASSUME NEW c \in Contents, Upload(c)
      PROVE  Typed'
  <2>1. PICK j \in Jobs : Submit(j, "ingest", stored, c)
    BY <1>1 DEF Upload
  <2>2. ~HasRunningJob /\ QuietStep /\ lake' = lake
    BY <1>1 DEF Upload, QuietStep, files
  <2>3. "ingest" \in Waits
    BY DEF Waits
  <2>4. /\ jobs' \in [Jobs -> JobType] /\ task' \in [Jobs -> TaskType]
        /\ stored' \in States
        /\ \A i \in Jobs \ {j} : task'[i].pc = "none"
    BY <1>0, <1>t, <2>1, <2>2, <2>3, SubmitHelper
  <2> QED
    BY <1>0, <2>2, <2>4, Quiet, JobStep
<1>2. CASE RequestDeploy
  <2> DEFINE next == [UpdateDeployable(stored) EXCEPT !.deploy = "deploying"]
  <2>1. PICK j \in Jobs : Submit(j, "start", next, None)
    BY <1>2 DEF RequestDeploy
  <2>2. ~HasRunningJob /\ QuietStep /\ lake' = lake
    BY <1>2 DEF RequestDeploy, QuietStep, files
  <2>3. "start" \in Waits
    BY DEF Waits
  <2>4. next \in States
    <3>1. UpdateDeployable(stored) \in States
      BY <1>0, StateHelpers
    <3> QED
      BY <3>1 DEF States
  <2> HIDE DEF next
  <2>5. /\ jobs' \in [Jobs -> JobType] /\ task' \in [Jobs -> TaskType]
        /\ stored' \in States
        /\ \A i \in Jobs \ {j} : task'[i].pc = "none"
    BY <1>0, <1>t, <2>1, <2>2, <2>3, <2>4, SubmitHelper
  <2> QED
    BY <1>0, <2>2, <2>5, Quiet, JobStep
<1>3. ASSUME NEW j \in Jobs, Progress(j)
      PROVE  Typed'
  BY <1>3, ProgressKeepsTyped
<1>4. ASSUME NEW j \in Jobs, Raise(j)
      PROVE  Typed'
  <2>1. task' = [task EXCEPT ![j] = NoTask] /\ task[j].pc # "none"
    BY <1>4 DEF Raise
  <2>2. task' \in [Jobs -> TaskType] /\ \A i \in Jobs \ {j} : task'[i].pc = "none"
    BY <1>0, <1>t, <2>1 DEF OneCoroutine
  <2>3. jobs' \in [Jobs -> JobType]
    BY <1>0, <1>4 DEF Raise, JobType, Steps
  <2>4. lake' \in LakeType
    BY <1>0, <1>4, ResidueHelper DEF Raise
  <2>5. stored' \in States /\ PublishTyped' /\ BesideTyped'
    BY <1>0, <1>4 DEF Raise, PublishTyped, BesideTyped
  <2> QED
    BY <2>2, <2>3, <2>4, <2>5, JobStep
<1>5. CASE Refresh
  <2>1. UpdateDeployable(stored) \in States /\ current \in Kept
    BY <1>0, StateHelpers DEF PublishTyped
  <2>2. stored' \in States
    BY <1>5, <2>1, ApplyRuntimeHelper DEF Refresh
  <2>3. UNCHANGED <<jobs, task, files, beside>>
    BY <1>5 DEF Refresh
  <2> QED
    BY <1>0, <2>2, <2>3 DEF Typed, TypeOK, OneCoroutine, files, beside
<1>6. CASE ReconcileLoad
  <2>1. recon' = [pc |-> "loaded", obj |-> stored, view |-> current]
    BY <1>6 DEF ReconcileLoad
  <2>2. UNCHANGED <<jobs, task, stored, files, overwritten, up, faults>>
    BY <1>6 DEF ReconcileLoad
  <2> QED
    BY <1>0, <2>1, <2>2 DEF Typed, TypeOK, OneCoroutine, files
<1>7. CASE ReconcileSave
  <2>1. recon.obj \in States /\ recon.view \in Kept
    BY <1>0 DEF BesideTyped
  <2>2. stored' \in States
    BY <1>0, <1>7, <2>1, ApplyRuntimeHelper DEF ReconcileSave
  <2>3. overwritten' \in BOOLEAN
    BY <1>0, <1>7 DEF ReconcileSave, BesideTyped
  <2>4. recon' = NoRecon /\ UNCHANGED <<jobs, task, files, up, faults>>
    BY <1>7 DEF ReconcileSave
  <2>5. NoRecon \in [pc: {"idle", "due", "loaded"}, obj: States, view: Kept]
    BY DEF NoRecon, Fresh, States, Kept
  <2> QED
    BY <1>0, <2>2, <2>3, <2>4, <2>5 DEF Typed, TypeOK, OneCoroutine, files
<1>8. CASE Crash
  <2>1. task' = [j \in Jobs |-> NoTask] /\ recon' = NoRecon
    BY <1>8 DEF Crash
  <2>2. PICK j \in Jobs : Residue(j)
    BY <1>8 DEF Crash
  <2>3. task' \in [Jobs -> TaskType] /\ \A i \in Jobs : task'[i].pc = "none"
    BY <1>t, <2>1
  <2>4. lake' \in LakeType
    BY <1>0, <2>2, ResidueHelper
  <2>5. NoRecon \in [pc: {"idle", "due", "loaded"}, obj: States, view: Kept]
    BY DEF NoRecon, Fresh, States, Kept
  <2>6. PublishTyped' /\ BesideTyped'
    <3>1. PublishTyped'
      BY <1>0, <1>8 DEF Crash, PublishTyped
    <3>2. up' = FALSE /\ overwritten' \in BOOLEAN /\ faults' \in Nat
      BY <1>0, <1>8 DEF Crash, BesideTyped
    <3> QED
      BY <2>1, <2>5, <3>1, <3>2 DEF BesideTyped
  <2>7. jobs' \in [Jobs -> JobType] /\ stored' \in States
    BY <1>0, <1>8 DEF Crash
  <2> QED
    BY <2>3, <2>4, <2>6, <2>7, JobStep
<1>9. CASE Restart
  <2>1. /\ \E steps : stored' = Repaired(stored, steps)
        /\ UNCHANGED <<task, files, overwritten, faults>>
        /\ up' = TRUE /\ recon' = [recon EXCEPT !.pc = "due"]
    BY <1>9 DEF Restart
  <2>2. stored' \in States
    BY <1>0, <2>1, RepairedHelper
  <2>3. jobs' \in [Jobs -> JobType]
    BY <1>0, <1>9 DEF Restart, JobType
  <2>4. recon' \in [pc: {"idle", "due", "loaded"}, obj: States, view: Kept]
    BY <1>0, <2>1 DEF BesideTyped
  <2>5. PublishTyped' /\ BesideTyped' /\ lake' = lake /\ task' = task
    BY <1>0, <2>1, <2>4 DEF PublishTyped, BesideTyped, files
  <2> QED
    BY <1>0, <2>2, <2>3, <2>5 DEF Typed, TypeOK, OneCoroutine, JobType,
       TaskType, LakeType, PublishTyped, BesideTyped
<1>10. CASE UNCHANGED vars
  BY <1>0, <1>10 DEF Typed, TypeOK, OneCoroutine, vars, files
<1> QED
  BY <1>1, <1>2, <1>3, <1>4, <1>5, <1>6, <1>7, <1>8, <1>9, <1>10 DEF Next

LEMMA InitTyped ==
    ASSUME Init
    PROVE  Typed
<1>1. Fresh \in States /\ None \in Kept
  BY DEF Fresh, States, Kept
<1>2. /\ NoTask \in [pc: Waits \cup {"none"}, obj: States, src: Kept]
      /\ NoTask.pc = "none"
  BY <1>1 DEF NoTask
<1>3. NoRecon \in [pc: {"idle", "due", "loaded"}, obj: States, view: Kept]
  BY <1>1 DEF NoRecon
<1>4. TypeOK
  BY <1>1, <1>2, <1>3 DEF Init, TypeOK, Steps
<1>5. OneCoroutine
  BY <1>2 DEF Init, OneCoroutine
<1> QED
  BY <1>4, <1>5 DEF Typed

LEMMA AlwaysTyped == Spec => []Typed
  BY InitTyped, NextKeepsTyped, PTL DEF Spec

\* Type correctness of the pipeline.
THEOREM TypeCorrect == Spec => []TypeOK
<1>1. Typed => TypeOK
  BY DEF Typed
<1> QED
  BY <1>1, AlwaysTyped, PTL

-----------------------------------------------------------------------------
(* What is published has been validated *)

\* The routings of different contents differ in their number of features.
CountsDistinguish ==
    \A c, d \in Contents : FeatureCount[c] = FeatureCount[d] => c = d

WasValidated(c) == \E j \in Jobs : c \in passed[j]

\* A record with a verdict is about a routing that was validated.
RecordIsHonest ==
    record # None /\ record.ok => WasValidated(record.of)

\* While the publishing script is between resolving and copying, the routing in
\* the data lake is one that was validated.
ResolvedIsValidated ==
    \A j \in Jobs : task[j].pc = "resolved" => WasValidated(lake.routing)

PublishInv ==
    /\ Typed
    /\ RecordIsHonest
    /\ ResolvedIsValidated
    /\ PublishedWasValidated

\* Logs are never shortened.
LEMMA LogsGrow ==
    ASSUME Typed, [Next]_vars
    PROVE  \A c : WasValidated(c) => WasValidated(c)'
<1>1. passed \in [Jobs -> SUBSET Contents]
  BY DEF Typed, TypeOK
<1>2. CASE UNCHANGED passed
  BY <1>2 DEF WasValidated
<1>3. CASE \E j \in Jobs : CoverageOk(j)
  <2>1. PICK j \in Jobs : passed' = [passed EXCEPT ![j] = @ \cup {lake.canon}]
    BY <1>3 DEF CoverageOk
  <2>2. \A i \in Jobs : passed[i] \subseteq passed'[i]
    BY <1>1, <2>1
  <2> QED
    BY <2>2 DEF WasValidated
<1>4. UNCHANGED passed \/ \E j \in Jobs : CoverageOk(j)
  <2>1. ASSUME NEW j \in Jobs, Progress(j)
        PROVE  UNCHANGED passed \/ CoverageOk(j)
    BY <2>1 DEF Progress, files, SwitchRuntime, StartIngest, Normalized, Validated, Derived,
        StartDeploy, ContractOk, TilesBuilt, IngestFails, NormalizeFails, ValidateFails,
        DeriveFails, CoverageFails, ContractFails, PublishFails, PublishOk,
       RoutingResolved, RuntimeSwitched
  <2>2. ASSUME ~ \E j \in Jobs : Progress(j)
        PROVE  UNCHANGED passed
    BY <2>2 DEF Next, vars, files, Upload, RequestDeploy, Raise, Refresh,
       ReconcileLoad, ReconcileSave, Crash, Restart
  <2> QED
    BY <2>1, <2>2
<1> QED
  BY <1>2, <1>3, <1>4

\* Only RoutingResolved brings a publishing script past its verification, and
\* then nothing else is under way.
LEMMA OnlyResolved ==
    ASSUME Typed, NEW j \in Jobs, Progress(j), ~RoutingResolved(j)
    PROVE  \A i \in Jobs : task'[i].pc # "resolved"
<1>1. task \in [Jobs -> TaskType] /\ NoTask.pc = "none"
  BY TypeParts DEF Typed, NoTask
<1>2. ASSUME NEW from \in Waits, NEW to \in Waits \ {"resolved"}, NEW step,
             NEW obj, Await(j, from, to, step, obj)
      PROVE  \A i \in Jobs : task'[i].pc # "resolved"
  <2>1. task[j].pc # "none" /\ task'[j].pc = to
    BY <1>1, <1>2 DEF Await, Waits, TaskType
  <2>2. \A i \in Jobs \ {j} : task'[i] = task[i] /\ task[i].pc = "none"
    BY <1>1, <1>2, <2>1 DEF Await, Typed, OneCoroutine
  <2> QED
    BY <2>1, <2>2
<1>3. ASSUME NEW from \in Waits, NEW status, Return(j, from, status)
      PROVE  \A i \in Jobs : task'[i].pc # "resolved"
  <2>1. task[j].pc # "none" /\ task'[j].pc = "none"
    BY <1>1, <1>3 DEF Return, Waits, TaskType
  <2>2. \A i \in Jobs \ {j} : task'[i] = task[i] /\ task[i].pc = "none"
    BY <1>1, <1>3, <2>1 DEF Return, Typed, OneCoroutine
  <2> QED
    BY <2>1, <2>2
<1>4. CASE RuntimeSwitched(j)
  <2>1. task[j].pc # "none" /\ task'[j].pc = "switched"
    BY <1>1, <1>4 DEF RuntimeSwitched, TaskType
  <2>2. \A i \in Jobs \ {j} : task'[i] = task[i] /\ task[i].pc = "none"
    BY <1>1, <1>4, <2>1 DEF RuntimeSwitched, Typed, OneCoroutine
  <2> QED
    BY <2>1, <2>2
<1>5. CASE StartIngest(j)
  BY <1>2, <1>5 DEF StartIngest, Waits
<1>6. CASE Normalized(j)
  BY <1>2, <1>6 DEF Normalized, Waits
<1>7. CASE Validated(j)
  BY <1>2, <1>7 DEF Validated, Waits
<1>8. CASE Derived(j)
  BY <1>2, <1>8 DEF Derived, Waits
<1>9. CASE StartDeploy(j)
  BY <1>2, <1>9 DEF StartDeploy, Waits
<1>10. CASE ContractOk(j)
  BY <1>2, <1>10 DEF ContractOk, Waits
<1>11. CASE TilesBuilt(j)
  BY <1>2, <1>11 DEF TilesBuilt, Waits
<1>12. CASE IngestFails(j)
  BY <1>3, <1>12 DEF IngestFails, Waits
<1>13. CASE NormalizeFails(j)
  BY <1>3, <1>13 DEF NormalizeFails, Waits
<1>14. CASE ValidateFails(j)
  BY <1>3, <1>14 DEF ValidateFails, Waits
<1>15. CASE DeriveFails(j)
  BY <1>3, <1>15 DEF DeriveFails, Waits
<1>16. CASE CoverageOk(j)
  BY <1>3, <1>16 DEF CoverageOk, Waits
<1>17. CASE CoverageFails(j)
  BY <1>3, <1>17 DEF CoverageFails, Waits
<1>18. CASE ContractFails(j)
  BY <1>3, <1>18 DEF ContractFails, Waits
<1>19. CASE PublishFails(j)
  BY <1>3, <1>19 DEF PublishFails, Waits
<1>20. CASE PublishOk(j)
  BY <1>3, <1>20 DEF PublishOk, Waits
<1> QED
  BY <1>4, <1>5, <1>6, <1>7, <1>8, <1>9, <1>10, <1>11, <1>12, <1>13, <1>14,
     <1>15, <1>16, <1>17, <1>18, <1>19, <1>20 DEF Progress

LEMMA NextKeepsPublish ==
    ASSUME VerifyRecord, CountsDistinguish, PublishInv, [Next]_vars
    PROVE  PublishInv'
<1>0. Typed /\ Typed'
  BY NextKeepsTyped DEF PublishInv
<1>1. \A c : WasValidated(c) => WasValidated(c)'
  BY <1>0, LogsGrow
\* Most steps write no record and publish nothing.
<1>2. ASSUME UNCHANGED <<record, current>>
      PROVE  RecordIsHonest' /\ PublishedWasValidated'
  BY <1>1, <1>2 DEF PublishInv, RecordIsHonest, PublishedWasValidated, WasValidated
<1>3. ASSUME \A i \in Jobs : task'[i].pc # "resolved"
      PROVE  ResolvedIsValidated'
  BY <1>3 DEF ResolvedIsValidated
<1>4. ASSUME UNCHANGED <<task, lake>>
      PROVE  ResolvedIsValidated'
  BY <1>1, <1>4 DEF PublishInv, ResolvedIsValidated
<1>5. ASSUME NEW j \in Jobs, TilesBuilt(j)
      PROVE  PublishInv'
  <2>1. ResolvedIsValidated'
    <3>1. Progress(j) /\ ~RoutingResolved(j)
      BY <1>5 DEF Progress, TilesBuilt, RoutingResolved, Await
    <3> QED
      BY <1>0, <1>3, <3>1, OnlyResolved
  <2>2. current' = current /\ passed' = passed
    BY <1>5 DEF TilesBuilt
  <2>3. PublishedWasValidated'
    BY <2>2 DEF PublishInv, PublishedWasValidated
  <2>4. CASE record' = record
    BY <1>0, <1>2, <2>1, <2>2, <2>4 DEF PublishInv
  <2>5. CASE /\ lake.meta \in Contents
             /\ record' = [of |-> lake.meta, ok |-> VerdictFor(lake.meta)]
    <3>1. ASSUME VerdictFor(lake.meta)
          PROVE  WasValidated(lake.meta)
      <4>1. PICK p \in passed[active] : FeatureCount[p] = FeatureCount[lake.meta]
        BY <3>1 DEF VerdictFor
      <4>2. active \in Jobs /\ p \in Contents
        BY <1>0, <3>1 DEF Typed, TypeOK, VerdictFor
      <4>3. p = lake.meta
        BY <2>5, <4>1, <4>2 DEF CountsDistinguish
      <4> QED
        BY <4>1, <4>2, <4>3 DEF WasValidated
    <3>2. record'.of = lake.meta /\ (record'.ok => VerdictFor(lake.meta))
      BY <2>5
    <3>3. RecordIsHonest'
      BY <1>1, <3>1, <3>2 DEF RecordIsHonest
    <3> QED
      BY <1>0, <2>1, <2>3, <3>3 DEF PublishInv
  <2> QED
    BY <1>5, <2>4, <2>5 DEF TilesBuilt
<1>6. ASSUME NEW j \in Jobs, RoutingResolved(j)
      PROVE  PublishInv'
  <2>1. RecordVerifies /\ UNCHANGED <<record, current, lake>>
    BY <1>6 DEF RoutingResolved, Resolves, files
  <2>2. WasValidated(lake.routing)
    BY <2>1 DEF RecordVerifies, PublishInv, RecordIsHonest
  <2>3. ResolvedIsValidated'
    BY <1>1, <2>1, <2>2 DEF ResolvedIsValidated
  <2> QED
    BY <1>0, <1>2, <2>1, <2>3 DEF PublishInv
<1>7. ASSUME NEW j \in Jobs, RuntimeSwitched(j)
      PROVE  PublishInv'
  <2>1. /\ task[j].pc = "resolved" /\ current' = lake.routing
        /\ record' = record /\ passed' = passed
    BY <1>7 DEF RuntimeSwitched, SwitchRuntime
  <2>2. WasValidated(lake.routing)
    BY <2>1 DEF PublishInv, ResolvedIsValidated
  <2>3. PublishedWasValidated'
    BY <2>1, <2>2 DEF PublishedWasValidated, WasValidated
  <2>4. RecordIsHonest'
    BY <1>1, <2>1 DEF PublishInv, RecordIsHonest
  <2>5. ResolvedIsValidated'
    <3>1. Progress(j) /\ ~RoutingResolved(j)
      BY <1>7, <2>1 DEF Progress, RoutingResolved
    <3> QED
      BY <1>0, <1>3, <3>1, OnlyResolved
  <2> QED
    BY <1>0, <2>3, <2>4, <2>5 DEF PublishInv
<1>8. ASSUME NEW j \in Jobs, Progress(j),
             ~TilesBuilt(j), ~RoutingResolved(j), ~RuntimeSwitched(j)
      PROVE  PublishInv'
  <2>1. UNCHANGED <<record, current>>
    BY <1>8 DEF Progress, files, StartIngest, Normalized, Validated,
       Derived, StartDeploy, ContractOk, IngestFails, NormalizeFails, ValidateFails,
       DeriveFails, CoverageOk, CoverageFails, ContractFails, PublishFails, PublishOk
  <2>2. ResolvedIsValidated'
    BY <1>0, <1>3, <1>8, OnlyResolved
  <2> QED
    BY <1>0, <1>2, <2>1, <2>2 DEF PublishInv
<1>9. ASSUME NEW j \in Jobs, Raise(j)
      PROVE  PublishInv'
  <2>1. task' = [task EXCEPT ![j] = NoTask] /\ task[j].pc # "none"
        /\ UNCHANGED <<record, current>>
    BY <1>9 DEF Raise
  <2>2. task \in [Jobs -> TaskType] /\ NoTask.pc = "none"
    BY <1>0, TypeParts DEF Typed, NoTask
  <2>3. \A i \in Jobs : task'[i].pc # "resolved"
    BY <1>0, <2>1, <2>2 DEF Typed, OneCoroutine
  <2> QED
    BY <1>0, <1>2, <1>3, <2>1, <2>3 DEF PublishInv
<1>10. ASSUME (\E c \in Contents : Upload(c)) \/ RequestDeploy
       PROVE  PublishInv'
  <2>1. UNCHANGED <<record, current, lake>> /\ ~HasRunningJob
    BY <1>10 DEF Upload, RequestDeploy, files
  <2>2. \E j \in Jobs, pc \in {"ingest", "start"} :
           \E obj, src : Submit(j, pc, obj, src)
    <3>1. CASE \E c \in Contents : Upload(c)
      BY <3>1 DEF Upload
    <3>2. CASE RequestDeploy
      BY <3>2 DEF RequestDeploy
    <3> QED
      BY <1>10, <3>1, <3>2
  <2>3. PICK j \in Jobs, pc \in {"ingest", "start"} :
           \E obj, src : Submit(j, pc, obj, src)
    BY <2>2
  <2>4. task \in [Jobs -> TaskType] /\ \A i \in Jobs : task[i].pc = "none"
    BY <1>0, <2>1, TypeParts DEF Typed, HasRunningJob
  <2>5. \A i \in Jobs : task'[i].pc # "resolved"
    BY <2>3, <2>4 DEF Submit
  <2> QED
    BY <1>0, <1>2, <1>3, <2>1, <2>5 DEF PublishInv
<1>11. ASSUME Refresh \/ ReconcileLoad \/ ReconcileSave \/ Restart \/ UNCHANGED vars
       PROVE  PublishInv'
  <2>1. UNCHANGED <<task, lake, record, current>>
    BY <1>11 DEF Refresh, ReconcileLoad, ReconcileSave, Restart, vars, files
  <2> QED
    BY <1>0, <1>2, <1>4, <2>1 DEF PublishInv
<1>12. ASSUME Crash
       PROVE  PublishInv'
  <2>1. task' = [j \in Jobs |-> NoTask] /\ UNCHANGED <<record, current>>
    BY <1>12 DEF Crash
  <2>2. \A i \in Jobs : task'[i].pc # "resolved"
    BY <2>1 DEF NoTask
  <2> QED
    BY <1>0, <1>2, <1>3, <2>1, <2>2 DEF PublishInv
<1> QED
  BY <1>5, <1>6, <1>7, <1>8, <1>9, <1>10, <1>11, <1>12 DEF Next

\* Under publish_verification_mode artifact_record, and if no two contents of
\* the dataset have routings with the same number of features, every routing
\* the public server reads was validated by a job: the record carries the
\* verdict through the deploy.
THEOREM RecordCarriesVerdict ==
    ASSUME VerifyRecord, CountsDistinguish
    PROVE  Spec => []PublishedWasValidated
<1>1. Init => PublishInv
  <2>1. SUFFICES ASSUME Init PROVE PublishInv
    OBVIOUS
  <2>2. record = None /\ current = None /\ \A j \in Jobs : task[j].pc = "none"
    BY <2>1 DEF Init, NoTask
  <2>3. Typed
    BY <2>1, InitTyped
  <2> QED
    BY <2>2, <2>3 DEF PublishInv, RecordIsHonest, ResolvedIsValidated,
       PublishedWasValidated
<1>2. PublishInv /\ [Next]_vars => PublishInv'
  BY NextKeepsPublish
<1>3. PublishInv => PublishedWasValidated
  BY DEF PublishInv
<1> QED
  BY <1>1, <1>2, <1>3, PTL DEF Spec

-----------------------------------------------------------------------------
(* What may be deployed is whole *)

\* A source is never lost on its way through the steps of an ingest.
SourceIsReal ==
    \A j \in Jobs :
        /\ task[j].pc = "ingest" => task[j].src \in Contents
        /\ task[j].pc = "normalize" => task[j].obj.raw \in Contents
        /\ task[j].pc = "validate" => lake.norm \in Contents

\* No state that says "passed" describes a canonical file that is not whole:
\* neither the state file nor the object a coroutine will save over it.
PassedIsWhole ==
    ~overwritten =>
        /\ stored.valid = "passed" => lake.canon \in Contents
        /\ \A j \in Jobs :
              task[j].pc # "none" /\ task[j].obj.valid = "passed"
              => lake.canon \in Contents
        /\ \A j \in Jobs :
              task[j].pc = "validate"
              => stored.valid = "running" /\ task[j].obj.valid = "running"

WholeInv ==
    /\ Typed
    /\ SourceIsReal
    /\ PassedIsWhole

\* After a step that leaves no coroutine behind.
LEMMA WholeAlone ==
    ASSUME \A i \in Jobs : task'[i].pc = "none",
           ~overwritten' /\ stored'.valid = "passed" => lake'.canon \in Contents
    PROVE  SourceIsReal' /\ PassedIsWhole'
  BY DEF SourceIsReal, PassedIsWhole

\* After a step of a coroutine that is not about to validate.
LEMMA WholeOn ==
    ASSUME NEW j \in Jobs, \A i \in Jobs \ {j} : task'[i].pc = "none",
           task'[j].pc \notin {"ingest", "normalize", "validate"},
           ~overwritten' /\ stored'.valid = "passed" => lake'.canon \in Contents,
           ~overwritten' /\ task'[j].obj.valid = "passed" => lake'.canon \in Contents
    PROVE  SourceIsReal' /\ PassedIsWhole'
  BY DEF SourceIsReal, PassedIsWhole

LEMMA ProgressKeepsWhole ==
    ASSUME WholeInv, NEW j \in Jobs, Progress(j)
    PROVE  SourceIsReal' /\ PassedIsWhole'
<1>0. /\ TypeOK /\ OneCoroutine /\ Typed
      /\ task[j].obj \in States /\ task[j].src \in Kept /\ stored \in States
      /\ lake \in LakeType /\ task \in [Jobs -> TaskType]
      /\ NoTask.pc = "none" /\ NoTask \in TaskType
  BY TypeParts DEF WholeInv, Typed, TaskType, NoTask, Fresh, States, Kept
<1>a. overwritten' = overwritten
  BY DEF Progress, beside, SwitchRuntime, StartIngest, Normalized, Validated,
     Derived, StartDeploy, ContractOk, TilesBuilt, IngestFails, NormalizeFails,
     ValidateFails, DeriveFails, CoverageOk, CoverageFails, ContractFails,
     PublishFails, PublishOk, RoutingResolved, RuntimeSwitched
<1>b. /\ ~overwritten /\ stored.valid = "passed" => lake.canon \in Contents
      /\ ~overwritten /\ task[j].pc # "none" /\ task[j].obj.valid = "passed"
         => lake.canon \in Contents
  BY DEF WholeInv, PassedIsWhole
<1>r. ASSUME NEW from \in Waits, NEW status \in {"success", "failed"},
             Return(j, from, status)
      PROVE  \A i \in Jobs : task'[i].pc = "none"
  BY <1>0, <1>r, ReturnHelper
\* A failure that leaves the canonical file alone.
<1>f. ASSUME \E from \in Waits : Return(j, from, "failed"),
             stored'.valid \in {stored.valid, task[j].obj.valid},
             lake'.canon = lake.canon
      PROVE  SourceIsReal' /\ PassedIsWhole'
  <2>1. \A i \in Jobs : task'[i].pc = "none"
    BY <1>f, <1>r
  <2>2. task[j].pc # "none"
    BY <1>f DEF Return, Waits
  <2> QED
    BY <1>a, <1>b, <1>f, <2>1, <2>2, WholeAlone
\* A wait that ends without a change of the canonical file or the verdict.
<1>w. ASSUME NEW from \in Waits, NEW to \in Waits \ {"ingest", "normalize", "validate"},
             NEW step \in Steps, NEW obj \in States, Await(j, from, to, step, obj),
             obj.valid = task[j].obj.valid, stored' \in {stored, obj},
             lake'.canon = lake.canon
      PROVE  SourceIsReal' /\ PassedIsWhole'
  <2>1. /\ task'[j].pc = to /\ task'[j].obj = obj
        /\ \A i \in Jobs \ {j} : task'[i].pc = "none"
    BY <1>0, <1>w, AwaitHelper
  <2>2. task[j].pc # "none"
    BY <1>w DEF Await, Waits
  <2>3. ~overwritten' /\ stored'.valid = "passed" => lake'.canon \in Contents
    BY <1>a, <1>b, <1>w, <2>2
  <2>4. ~overwritten' /\ task'[j].obj.valid = "passed" => lake'.canon \in Contents
    BY <1>a, <1>b, <1>w, <2>1, <2>2
  <2> QED
    BY <2>1, <2>3, <2>4, WholeOn
<1>1. CASE IngestFails(j)
  <2>1. Return(j, "ingest", "failed") /\ lake' = lake
    BY <1>1 DEF IngestFails, files
  <2>2. stored'.valid \in {stored.valid, task[j].obj.valid}
    BY <1>0, <1>1 DEF IngestFails, States
  <2> QED
    BY <1>f, <2>1, <2>2, "ingest" \in Waits DEF Waits
<1>2. CASE StartIngest(j)
  <2> DEFINE next == [task[j].obj EXCEPT !.raw = task[j].src, !.norm = "running"]
  <2>1. Await(j, "ingest", "normalize", "normalize", next) /\ stored' = next
        /\ lake' = lake
    BY <1>2 DEF StartIngest, files
  <2>2. next \in States /\ next.raw = task[j].src /\ next.valid = task[j].obj.valid
    BY <1>0 DEF States
  <2> HIDE DEF next
  <2>3. "ingest" \in Waits /\ "normalize" \in Waits /\ "normalize" \in Steps
    BY DEF Waits, Steps
  <2>4. /\ task'[j].pc = "normalize" /\ task'[j].obj = next
        /\ \A i \in Jobs \ {j} : task'[i].pc = "none"
    BY <1>0, <2>1, <2>2, <2>3, AwaitHelper
  <2>5. task[j].pc = "ingest" /\ task[j].src \in Contents
    BY <2>1 DEF Await, WholeInv, SourceIsReal
  <2>6. SourceIsReal'
    BY <2>2, <2>4, <2>5 DEF SourceIsReal
  <2>7. PassedIsWhole'
    BY <1>a, <1>b, <2>1, <2>2, <2>4, <2>5 DEF PassedIsWhole
  <2> QED
    BY <2>6, <2>7
<1>3. CASE Normalized(j)
  <2> DEFINE next == [task[j].obj EXCEPT !.norm = "success", !.valid = "running"]
  <2>1. Await(j, "normalize", "validate", "validate", next) /\ stored' = next
        /\ lake' = [lake EXCEPT !.norm = next.raw]
    BY <1>3 DEF Normalized
  <2>2. next \in States /\ next.raw = task[j].obj.raw /\ next.valid = "running"
    BY <1>0 DEF States
  <2> HIDE DEF next
  <2>3. "normalize" \in Waits /\ "validate" \in Waits /\ "validate" \in Steps
    BY DEF Waits, Steps
  <2>4. /\ task'[j].pc = "validate" /\ task'[j].obj = next
        /\ \A i \in Jobs \ {j} : task'[i].pc = "none"
    BY <1>0, <2>1, <2>2, <2>3, AwaitHelper
  <2>5. next.raw \in Contents
    BY <2>1, <2>2 DEF Await, WholeInv, SourceIsReal
  <2>6. lake'.norm = next.raw
    BY <1>0, <2>1 DEF LakeType
  <2>7. SourceIsReal'
    BY <2>4, <2>5, <2>6 DEF SourceIsReal
  <2>8. PassedIsWhole'
    BY <2>1, <2>2, <2>4 DEF PassedIsWhole
  <2> QED
    BY <2>7, <2>8
<1>4. CASE NormalizeFails(j)
  <2>1. Return(j, "normalize", "failed") /\ Residue(j)
        /\ stored' = [task[j].obj EXCEPT !.norm = "failed"]
    BY <1>4 DEF NormalizeFails
  <2>2. lake'.canon = lake.canon
    BY <1>0, <2>1, ResidueHelper DEF Return
  <2>3. stored'.valid = task[j].obj.valid
    BY <1>0, <2>1 DEF States
  <2> QED
    BY <1>f, <2>1, <2>2, <2>3, "normalize" \in Waits DEF Waits
<1>5. CASE Validated(j)
  <2> DEFINE next == [task[j].obj EXCEPT !.valid = "passed"]
  <2>1. Await(j, "validate", "derive", "derive_routing", next)
        /\ lake' = [lake EXCEPT !.canon = lake.norm]
    BY <1>5 DEF Validated
  <2>2. next \in States
    BY <1>0 DEF States
  <2> HIDE DEF next
  <2>3. "validate" \in Waits /\ "derive" \in Waits /\ "derive_routing" \in Steps
    BY DEF Waits, Steps
  <2>4. /\ task'[j].pc = "derive"
        /\ \A i \in Jobs \ {j} : task'[i].pc = "none"
    BY <1>0, <2>1, <2>2, <2>3, AwaitHelper
  <2>5. lake.norm \in Contents
    BY <2>1 DEF Await, WholeInv, SourceIsReal
  <2>6. lake'.canon \in Contents
    BY <1>0, <2>1, <2>5 DEF LakeType
  <2> QED
    BY <2>4, <2>6, WholeOn
<1>6. CASE ValidateFails(j)
  <2>1. Return(j, "validate", "failed")
        /\ stored' = [task[j].obj EXCEPT !.valid = "failed"]
    BY <1>6 DEF ValidateFails
  <2>2. stored'.valid = "failed"
    BY <1>0, <2>1 DEF States
  <2>3. \A i \in Jobs : task'[i].pc = "none"
    BY <1>r, <2>1, "validate" \in Waits DEF Waits
  <2> QED
    BY <2>2, <2>3, WholeAlone
<1>7. CASE Derived(j)
  <2>1. Await(j, "derive", "cover", "validate_routing", task[j].obj)
        /\ stored' = stored /\ lake'.canon = lake.canon
    BY <1>0, <1>7 DEF Derived, LakeType
  <2>2. "derive" \in Waits /\ "cover" \in Waits /\ "validate_routing" \in Steps
    BY DEF Waits, Steps
  <2> QED
    BY <1>0, <1>w, <2>1, <2>2
<1>8. CASE DeriveFails(j)
  <2>1. Return(j, "derive", "failed") /\ Residue(j)
        /\ stored' = BlockFloodPublish(task[j].obj)
    BY <1>8 DEF DeriveFails
  <2>2. lake'.canon = lake.canon
    BY <1>0, <2>1, ResidueHelper DEF Return
  <2>3. stored'.valid = task[j].obj.valid
    BY <1>0, <2>1, StateHelpers
  <2> QED
    BY <1>f, <2>1, <2>2, <2>3, "derive" \in Waits DEF Waits
<1>9. CASE CoverageOk(j)
  <2>1. Return(j, "cover", "success") /\ lake' = lake /\ lake.canon \in Contents
    BY <1>9 DEF CoverageOk, ContractHolds
  <2>2. \A i \in Jobs : task'[i].pc = "none"
    BY <1>r, <2>1, "cover" \in Waits DEF Waits
  <2> QED
    BY <2>1, <2>2, WholeAlone
<1>10. CASE CoverageFails(j)
  <2>1. Return(j, "cover", "failed") /\ lake' = lake
        /\ stored' = BlockFloodPublish(task[j].obj)
    BY <1>10 DEF CoverageFails, files
  <2>2. stored'.valid = task[j].obj.valid
    BY <1>0, <2>1, StateHelpers
  <2> QED
    BY <1>f, <2>1, <2>2, "cover" \in Waits DEF Waits
<1>11. CASE StartDeploy(j)
  <2>1. Await(j, "start", "contract", "backup", task[j].obj)
        /\ stored' = stored /\ lake' = lake
    BY <1>11 DEF StartDeploy, files
  <2>2. "start" \in Waits /\ "contract" \in Waits /\ "backup" \in Steps
    BY DEF Waits, Steps
  <2> QED
    BY <1>0, <1>w, <2>1, <2>2
<1>12. CASE ContractOk(j)
  <2>1. Await(j, "contract", "tiles", "tile_build", task[j].obj)
        /\ stored' = task[j].obj /\ lake' = lake
    BY <1>12 DEF ContractOk, files
  <2>2. "contract" \in Waits /\ "tiles" \in Waits /\ "tile_build" \in Steps
    BY DEF Waits, Steps
  <2> QED
    BY <1>0, <1>w, <2>1, <2>2
<1>13. CASE ContractFails(j)
  <2>1. Return(j, "contract", "failed") /\ lake' = lake
        /\ stored' = DeployFailed(task[j].obj)
    BY <1>13 DEF ContractFails, files
  <2>2. stored'.valid = task[j].obj.valid
    BY <1>0, <2>1, StateHelpers
  <2> QED
    BY <1>f, <2>1, <2>2, "contract" \in Waits DEF Waits
<1>14. CASE TilesBuilt(j)
  <2> DEFINE next == [task[j].obj EXCEPT !.deploy = "deploying"]
  <2>1. Await(j, "tiles", "publish", "deploy", next)
        /\ stored' = next /\ lake' = lake
    BY <1>14 DEF TilesBuilt
  <2>2. next \in States /\ next.valid = task[j].obj.valid
    BY <1>0 DEF States
  <2>3. "tiles" \in Waits /\ "publish" \in Waits /\ "deploy" \in Steps
    BY DEF Waits, Steps
  <2> HIDE DEF next
  <2> QED
    BY <1>0, <1>w, <2>1, <2>2, <2>3
<1>15. CASE RoutingResolved(j) \/ RuntimeSwitched(j)
  <2>1. /\ stored' = stored /\ lake' = lake
        /\ task[j].pc \in {"publish", "resolved"}
        /\ task' = [task EXCEPT ![j].pc =
                      IF task[j].pc = "publish" THEN "resolved" ELSE "switched"]
    BY <1>15 DEF RoutingResolved, RuntimeSwitched, SwitchRuntime, files
  <2>2. /\ task'[j].pc \in {"resolved", "switched"}
        /\ task'[j].obj = task[j].obj
        /\ \A i \in Jobs \ {j} : task'[i].pc = "none"
    BY <1>0, <2>1 DEF TaskType, OneCoroutine
  <2> QED
    BY <1>a, <1>b, <2>1, <2>2, WholeOn
<1>16. CASE PublishFails(j)
  <2>1. PICK pc \in {"publish", "resolved", "switched"} : Return(j, pc, "failed")
    BY <1>16 DEF PublishFails
  <2>2. lake' = lake /\ stored' = DeployFailed(task[j].obj)
    BY <1>16 DEF PublishFails, files
  <2>3. stored'.valid = task[j].obj.valid
    BY <1>0, <2>2, StateHelpers
  <2> QED
    BY <1>f, <2>1, <2>2, <2>3, pc \in Waits DEF Waits
<1>17. CASE PublishOk(j)
  <2>1. Return(j, "switched", "success") /\ lake' = lake /\ lake.canon \in Contents
    BY <1>17 DEF PublishOk, ContractHolds, files
  <2>2. \A i \in Jobs : task'[i].pc = "none"
    BY <1>r, <2>1, "switched" \in Waits DEF Waits
  <2> QED
    BY <2>1, <2>2, WholeAlone
<1> QED
  BY <1>1, <1>2, <1>3, <1>4, <1>5, <1>6, <1>7, <1>8, <1>9, <1>10, <1>11, <1>12,
     <1>13, <1>14, <1>15, <1>16, <1>17 DEF Progress

\* No coroutine survives the process it ran in.
DownIsQuiet == ~up => \A j \in Jobs : task[j].pc = "none"

\* A coroutine does not start or stop the backend, and needs it.
LEMMA ProgressNeedsTask ==
    ASSUME NEW j \in Jobs, Progress(j)
    PROVE  task[j].pc \in Waits /\ up' = up
<1>1. CASE IngestFails(j) \/ StartIngest(j)
  BY <1>1 DEF IngestFails, StartIngest, Return, Await, Waits, beside
<1>2. CASE Normalized(j) \/ NormalizeFails(j)
  BY <1>2 DEF Normalized, NormalizeFails, Return, Await, Waits, beside
<1>3. CASE Validated(j) \/ ValidateFails(j)
  BY <1>3 DEF Validated, ValidateFails, Return, Await, Waits, beside
<1>4. CASE Derived(j) \/ DeriveFails(j)
  BY <1>4 DEF Derived, DeriveFails, Return, Await, Waits, beside
<1>5. CASE CoverageOk(j) \/ CoverageFails(j)
  BY <1>5 DEF CoverageOk, CoverageFails, Return, Waits, beside
<1>6. CASE StartDeploy(j) \/ ContractOk(j) \/ ContractFails(j)
  BY <1>6 DEF StartDeploy, ContractOk, ContractFails, Return, Await, Waits, beside
<1>7. CASE TilesBuilt(j) \/ RoutingResolved(j) \/ RuntimeSwitched(j)
  BY <1>7 DEF TilesBuilt, RoutingResolved, RuntimeSwitched, SwitchRuntime,
     Await, Waits, beside
<1>8. CASE PublishFails(j) \/ PublishOk(j)
  BY <1>8 DEF PublishFails, PublishOk, Return, Waits, beside
<1> QED
  BY <1>1, <1>2, <1>3, <1>4, <1>5, <1>6, <1>7, <1>8 DEF Progress

LEMMA NextKeepsQuiet ==
    ASSUME DownIsQuiet, task \in [Jobs -> TaskType], [Next]_vars
    PROVE  DownIsQuiet'
<1>1. CASE (\E c \in Contents : Upload(c)) \/ RequestDeploy
  BY <1>1 DEF Upload, RequestDeploy, beside, DownIsQuiet
<1>2. ASSUME NEW j \in Jobs, Progress(j)
      PROVE  DownIsQuiet'
  BY <1>2, ProgressNeedsTask, "none" \notin Waits DEF DownIsQuiet, Waits
<1>3. ASSUME NEW j \in Jobs, Raise(j)
      PROVE  DownIsQuiet'
  BY <1>3 DEF Raise, DownIsQuiet
<1>4. CASE Refresh \/ ReconcileLoad \/ ReconcileSave
  BY <1>4 DEF Refresh, ReconcileLoad, ReconcileSave, beside, files, DownIsQuiet
<1>5. CASE Crash
  BY <1>5 DEF Crash, NoTask, DownIsQuiet
<1>6. CASE Restart
  BY <1>6 DEF Restart, DownIsQuiet
<1>7. CASE UNCHANGED vars
  BY <1>7 DEF vars, DownIsQuiet
<1> QED
  BY <1>1, <1>2, <1>3, <1>4, <1>5, <1>6, <1>7 DEF Next

LEMMA NextKeepsWhole ==
    ASSUME WholeInv, DownIsQuiet, [Next]_vars
    PROVE  WholeInv'
<1>0. /\ Typed /\ Typed' /\ TypeOK
      /\ task \in [Jobs -> TaskType] /\ stored \in States
      /\ current \in Kept /\ NoTask.pc = "none"
  BY NextKeepsTyped, TypeParts DEF WholeInv, Typed, PublishTyped, NoTask
<1>b. ~overwritten /\ stored.valid = "passed" => lake.canon \in Contents
  BY DEF WholeInv, PassedIsWhole
\* A script is cut short: at the validator, the state file says "running".
<1>c. ASSUME NEW j \in Jobs, Residue(j), stored' = stored, overwritten' = overwritten
      PROVE  ~overwritten' /\ stored'.valid = "passed" => lake'.canon \in Contents
  <2>1. CASE task[j].pc = "validate"
    BY <1>c, <2>1 DEF WholeInv, PassedIsWhole
  <2>2. CASE task[j].pc # "validate"
    BY <1>0, <1>b, <1>c, <2>2, ResidueHelper
  <2> QED
    BY <2>1, <2>2
\* A state object replaces the state file and keeps its verdict.
<1>k. ASSUME UNCHANGED <<task, lake>>, overwritten => overwritten',
             ~overwritten' => stored'.valid \in {stored.valid, "failed"},
             ~overwritten' /\ (\E j \in Jobs : task[j].pc = "validate")
                => stored'.valid = stored.valid
      PROVE  WholeInv'
  BY <1>0, <1>k DEF WholeInv, SourceIsReal, PassedIsWhole
<1>1. ASSUME NEW c \in Contents, Upload(c)
      PROVE  WholeInv'
  <2>1. PICK j \in Jobs : Submit(j, "ingest", stored, c)
    BY <1>1 DEF Upload
  <2>2. ~HasRunningJob /\ lake' = lake /\ overwritten' = overwritten
    BY <1>1 DEF Upload, files, beside
  <2>3. "ingest" \in Waits /\ c \in Kept
    BY DEF Waits, Kept
  <2>4. /\ stored' = stored
        /\ task'[j] = [pc |-> "ingest", obj |-> stored, src |-> c]
        /\ \A i \in Jobs \ {j} : task'[i].pc = "none"
    BY <1>0, <2>1, <2>2, <2>3, SubmitHelper
  <2>5. task'[j].pc = "ingest" /\ task'[j].obj = stored /\ task'[j].src = c
    BY <2>4
  <2>6. SourceIsReal'
    BY <2>4, <2>5 DEF SourceIsReal
  <2>7. PassedIsWhole'
    BY <1>b, <2>2, <2>4, <2>5 DEF PassedIsWhole
  <2> QED
    BY <1>0, <2>6, <2>7 DEF WholeInv
<1>2. CASE RequestDeploy
  <2> DEFINE next == [UpdateDeployable(stored) EXCEPT !.deploy = "deploying"]
  <2>1. PICK j \in Jobs : Submit(j, "start", next, None)
    BY <1>2 DEF RequestDeploy
  <2>2. ~HasRunningJob /\ lake' = lake /\ overwritten' = overwritten
    BY <1>2 DEF RequestDeploy, files, beside
  <2>3. "start" \in Waits /\ None \in Kept
    BY DEF Waits, Kept
  <2>4. next \in States /\ next.valid = stored.valid
    <3>1. UpdateDeployable(stored) \in States
          /\ UpdateDeployable(stored).valid = stored.valid
      BY <1>0, StateHelpers
    <3> QED
      BY <3>1 DEF States
  <2> HIDE DEF next
  <2>5. /\ stored' = next
        /\ task'[j] = [pc |-> "start", obj |-> next, src |-> None]
        /\ \A i \in Jobs \ {j} : task'[i].pc = "none"
    BY <1>0, <2>1, <2>2, <2>3, <2>4, SubmitHelper
  <2>6. task'[j].pc = "start" /\ task'[j].obj = next
    BY <2>5
  <2>7. SourceIsReal' /\ PassedIsWhole'
    BY <1>b, <2>2, <2>4, <2>5, <2>6, WholeOn
  <2> QED
    BY <1>0, <2>7 DEF WholeInv
<1>3. ASSUME NEW j \in Jobs, Progress(j)
      PROVE  WholeInv'
  BY <1>0, <1>3, ProgressKeepsWhole DEF WholeInv
<1>4. ASSUME NEW j \in Jobs, Raise(j)
      PROVE  WholeInv'
  <2>1. /\ task' = [task EXCEPT ![j] = NoTask] /\ task[j].pc # "none"
        /\ Residue(j) /\ stored' = stored /\ overwritten' = overwritten
    BY <1>4 DEF Raise
  <2>2. \A i \in Jobs : task'[i].pc = "none"
    BY <1>0, <2>1 DEF Typed, OneCoroutine
  <2> QED
    BY <1>0, <1>c, <2>1, <2>2, WholeAlone DEF WholeInv
<1>5. CASE Refresh
  <2> DEFINE seen == UpdateDeployable(stored)
  <2>1. seen \in States /\ seen.valid = stored.valid
    BY <1>0, StateHelpers
  <2>2. stored' = ApplyRuntime(seen, current)
        /\ UNCHANGED <<task, lake, overwritten>>
    BY <1>5 DEF Refresh, files, beside
  <2> HIDE DEF seen
  <2>3. stored'.valid = stored.valid
    BY <1>0, <2>1, <2>2, ApplyRuntimeHelper
  <2> QED
    BY <1>k, <2>2, <2>3
<1>6. CASE ReconcileLoad
  BY <1>6, <1>k DEF ReconcileLoad, files
<1>7. CASE ReconcileSave
  <2> DEFINE seen == ApplyRuntime(recon.obj, recon.view)
  <2>1. recon.obj \in States /\ recon.view \in Kept
    BY <1>0 DEF TypeOK
  <2>2. seen.valid = recon.obj.valid
    BY <1>0, <2>1, ApplyRuntimeHelper
  <2>3. /\ stored' = IF seen # recon.obj THEN seen ELSE stored
        /\ overwritten' = (overwritten \/ (seen # recon.obj /\ stored # recon.obj))
        /\ UNCHANGED <<task, lake>>
    BY <1>7 DEF ReconcileSave, files
  <2> HIDE DEF seen
  <2>4. ~overwritten' => stored'.valid = stored.valid
    BY <2>2, <2>3
  <2>5. overwritten => overwritten'
    BY <2>3
  <2> QED
    BY <1>k, <2>3, <2>4, <2>5
<1>8. CASE Crash
  <2>1. /\ task' = [j \in Jobs |-> NoTask]
        /\ stored' = stored /\ overwritten' = overwritten
    BY <1>8 DEF Crash
  <2>2. PICK j \in Jobs : Residue(j)
    BY <1>8 DEF Crash
  <2>3. \A i \in Jobs : task'[i].pc = "none"
    BY <1>0, <2>1
  <2> QED
    BY <1>0, <1>c, <2>1, <2>2, <2>3, WholeAlone DEF WholeInv
<1>9. CASE Restart
  <2>1. PICK steps : stored' = Repaired(stored, steps)
    BY <1>9 DEF Restart
  <2>2. stored'.valid \in {stored.valid, "failed"}
    BY <1>0, <2>1, RepairedHelper
  <2>3. UNCHANGED <<task, lake, overwritten>>
    BY <1>9 DEF Restart, files
  <2>4. SourceIsReal'
    BY <2>3 DEF WholeInv, SourceIsReal
  <2>5. \A j \in Jobs : task[j].pc = "none"
    BY <1>9 DEF Restart, DownIsQuiet
  <2>6. PassedIsWhole'
    BY <2>2, <2>3, <2>5 DEF WholeInv, PassedIsWhole
  <2> QED
    BY <1>0, <2>4, <2>6 DEF WholeInv
<1>10. CASE UNCHANGED vars
  BY <1>10, <1>k DEF vars, files
<1> QED
  BY <1>1, <1>2, <1>3, <1>4, <1>5, <1>6, <1>7, <1>8, <1>9, <1>10 DEF Next

\* A dataset that its state file lets be deployed has a whole canonical file,
\* for any contents and any number of jobs, exceptions and crashes, as long as
\* no reconciliation saves over a newer state.
THEOREM NeverDeploysHalfAFile == Spec => []DeployableIsWhole
<1>1. Init => WholeInv /\ DownIsQuiet
  <2>1. SUFFICES ASSUME Init PROVE WholeInv /\ DownIsQuiet
    OBVIOUS
  <2>2. stored.valid = "not_started" /\ \A j \in Jobs : task[j].pc = "none"
    BY <2>1 DEF Init, NoTask, Fresh
  <2>3. Typed
    BY <2>1, InitTyped
  <2> QED
    BY <2>2, <2>3 DEF WholeInv, SourceIsReal, PassedIsWhole, DownIsQuiet
<1>2. WholeInv /\ DownIsQuiet /\ [Next]_vars => WholeInv' /\ DownIsQuiet'
  <2>1. WholeInv => task \in [Jobs -> TaskType]
    BY TypeParts DEF WholeInv, Typed
  <2> QED
    BY <2>1, NextKeepsWhole, NextKeepsQuiet
<1>3. WholeInv => DeployableIsWhole
  <2>1. SUFFICES ASSUME WholeInv, ~overwritten, UpdateDeployable(stored).deployable
                 PROVE  lake.canon \in Contents
    BY DEF DeployableIsWhole
  <2>2. stored \in States
    BY <2>1, TypeParts DEF WholeInv, Typed
  <2>3. UpdateDeployable(stored).deployable = (Ready(stored) /\ stored.deploy # "deploying")
    BY <2>2 DEF UpdateDeployable, States
  <2>4. stored.valid = "passed"
    BY <2>1, <2>3 DEF Ready
  <2> QED
    BY <2>1, <2>4 DEF WholeInv, PassedIsWhole
<1> QED
  BY <1>1, <1>2, <1>3, PTL DEF Spec

-----------------------------------------------------------------------------
(* What the job files tell *)

\* The file of a job agrees with its coroutine, as long as the backend is up; what has
\* not begun has no verdict and no acquisition.
Told(j) ==
    /\ up /\ jobs[j].status = "running" => task[j].pc # "none"
    /\ jobs[j].status \in {"none", "success", "failed"} => task[j].pc = "none"
    /\ jobs[j].status = "queued" => task[j].pc \in {"ingest", "start", "none"}
    /\ jobs[j].status \in {"none", "queued"} => passed[j] = {} /\ active # j

\* Whoever works is the only job that is not over.
SoleWork ==
    \A i, j \in Jobs :
        task[i].pc # "none" /\ jobs[j].status \in {"queued", "running"} => i = j

ToldInv == Typed /\ DownIsQuiet /\ SoleWork /\ \A j \in Jobs : Told(j)

\* A step of a coroutine goes on, returns, or leaves the job file alone.
LEMMA ProgressForms ==
    ASSUME NEW j \in Jobs, Progress(j)
    PROVE  /\ up' = up
           /\ \/ /\ \E from, to \in Waits, step \in Steps : \E obj : Await(j, from, to, step, obj)
                 /\ UNCHANGED <<passed, active>>
              \/ /\ \E from \in Waits, status \in {"success", "failed"} : Return(j, from, status)
                 /\ \E set : passed' \in {passed, [passed EXCEPT ![j] = set]}
                 /\ active' \in {active, j}
              \/ /\ task[j].pc \in {"publish", "resolved"}
                 /\ \E to \in {"resolved", "switched"} : task' = [task EXCEPT ![j].pc = to]
                 /\ UNCHANGED <<jobs, passed, active>>
<1>w. /\ {"ingest", "normalize", "validate", "derive", "cover", "start", "contract", "tiles",
           "publish", "resolved", "switched"} \subseteq Waits
      /\ {"normalize", "validate", "derive_routing", "validate_routing", "backup",
          "tile_build", "deploy"} \subseteq Steps
  BY DEF Waits, Steps
<1>1. CASE StartIngest(j)
  BY <1>w, <1>1 DEF StartIngest, files, beside
<1>2. CASE Normalized(j)
  BY <1>w, <1>2 DEF Normalized, beside
<1>3. CASE Validated(j)
  BY <1>w, <1>3 DEF Validated, beside
<1>4. CASE Derived(j)
  BY <1>w, <1>4 DEF Derived, beside
<1>5. CASE StartDeploy(j)
  BY <1>w, <1>5 DEF StartDeploy, files, beside
<1>6. CASE ContractOk(j)
  BY <1>w, <1>6 DEF ContractOk, files, beside
<1>7. CASE TilesBuilt(j)
  BY <1>w, <1>7 DEF TilesBuilt, beside
<1>8. CASE RoutingResolved(j) \/ RuntimeSwitched(j)
  BY <1>8 DEF RoutingResolved, RuntimeSwitched, SwitchRuntime, files, beside
<1>9. CASE IngestFails(j) \/ CoverageFails(j) \/ ContractFails(j) \/ PublishOk(j)
  BY <1>w, <1>9 DEF IngestFails, CoverageFails, ContractFails, PublishOk, files, beside
<1>10. CASE NormalizeFails(j) \/ ValidateFails(j) \/ DeriveFails(j)
  BY <1>w, <1>10 DEF NormalizeFails, ValidateFails, DeriveFails, beside
<1>11. CASE CoverageOk(j)
  BY <1>w, <1>11 DEF CoverageOk, beside
<1>12. CASE PublishFails(j)
  BY <1>w, <1>12 DEF PublishFails, files, beside
<1> QED
  BY <1>1, <1>2, <1>3, <1>4, <1>5, <1>6, <1>7, <1>8, <1>9, <1>10, <1>11, <1>12 DEF Progress

LEMMA ProgressKeepsTold ==
    ASSUME ToldInv, NEW j \in Jobs, Progress(j)
    PROVE  SoleWork' /\ \A i \in Jobs : Told(i)'
<1>0. /\ task \in [Jobs -> TaskType] /\ jobs \in [Jobs -> JobType]
      /\ passed \in [Jobs -> SUBSET Contents]
      /\ SoleWork /\ \A i \in Jobs : Told(i)
  BY TypeParts DEF ToldInv, Typed, PublishTyped
<1>w. {"none"} \cap Waits = {} /\ NoTask.pc = "none" /\ "publish" # "none" /\ "resolved" # "none"
  BY DEF Waits, NoTask
<1>1. ASSUME NEW from \in Waits, NEW to \in Waits, NEW step \in Steps, NEW obj,
             Await(j, from, to, step, obj), UNCHANGED <<passed, active, up>>
      PROVE  SoleWork' /\ \A i \in Jobs : Told(i)'
  <2>1. /\ task[j].pc # "none" /\ task'[j].pc = to /\ to # "none"
        /\ jobs'[j].status = "running"
        /\ \A i \in Jobs \ {j} : task'[i] = task[i] /\ jobs'[i] = jobs[i]
    BY <1>0, <1>w, <1>1 DEF Await, TaskType, JobType
  <2>2. \A i \in Jobs \ {j} : task[i].pc = "none" /\ jobs[i].status \notin {"queued", "running"}
    BY <1>0, <2>1 DEF SoleWork, Told, JobType
  <2> QED
    BY <1>0, <1>1, <2>1, <2>2 DEF SoleWork, Told
<1>2. ASSUME NEW from \in Waits, NEW status \in {"success", "failed"}, Return(j, from, status),
             NEW set, passed' \in {passed, [passed EXCEPT ![j] = set]},
             active' \in {active, j}, up' = up
      PROVE  SoleWork' /\ \A i \in Jobs : Told(i)'
  <2>1. /\ task[j].pc # "none" /\ task'[j].pc = "none" /\ jobs'[j].status = status
        /\ \A i \in Jobs \ {j} : task'[i] = task[i] /\ jobs'[i] = jobs[i]
    BY <1>0, <1>w, <1>2 DEF Return, TaskType, JobType
  <2>2. \A i \in Jobs \ {j} : task[i].pc = "none" /\ jobs[i].status \notin {"queued", "running"}
    BY <1>0, <2>1 DEF SoleWork, Told, JobType
  <2>3. \A i \in Jobs \ {j} : passed'[i] = passed[i] /\ (active # i => active' # i)
    BY <1>0, <1>2
  <2> QED
    BY <1>0, <1>2, <2>1, <2>2, <2>3 DEF SoleWork, Told
<1>3. ASSUME task[j].pc \in {"publish", "resolved"},
             NEW to \in {"resolved", "switched"}, task' = [task EXCEPT ![j].pc = to],
             UNCHANGED <<jobs, passed, active, up>>
      PROVE  SoleWork' /\ \A i \in Jobs : Told(i)'
  <2>1. /\ task'[j].pc = to /\ to # "none" /\ task[j].pc # "none"
        /\ \A i \in Jobs \ {j} : task'[i] = task[i]
    BY <1>0, <1>3 DEF TaskType
  <2>2. jobs[j].status = "running"
    BY <1>0, <1>3 DEF Told, JobType
  <2> QED
    BY <1>0, <1>3, <2>1, <2>2 DEF SoleWork, Told
<1> QED
  BY <1>1, <1>2, <1>3, ProgressForms

LEMMA NextKeepsTold ==
    ASSUME ToldInv, [Next]_vars
    PROVE  ToldInv'
<1>0. /\ task \in [Jobs -> TaskType] /\ jobs \in [Jobs -> JobType] /\ Typed
      /\ SoleWork /\ \A i \in Jobs : Told(i)
  BY TypeParts DEF ToldInv, Typed
<1>k. ASSUME SoleWork' /\ \A i \in Jobs : Told(i)'
      PROVE  ToldInv'
  BY <1>0, <1>k, NextKeepsTyped, NextKeepsQuiet DEF ToldInv
<1>s. ASSUME NEW j \in Jobs, NEW pc \in {"ingest", "start"}, NEW obj, NEW src,
             Submit(j, pc, obj, src), ~HasRunningJob, UNCHANGED <<passed, active, up>>
      PROVE  SoleWork' /\ \A i \in Jobs : Told(i)'
  <2>1. /\ jobs[j].status = "none" /\ jobs'[j].status = "queued" /\ task'[j].pc = pc
        /\ \A i \in Jobs \ {j} : task'[i] = task[i] /\ jobs'[i] = jobs[i]
    BY <1>0, <1>s DEF Submit, Unused
  <2>2. \A i \in Jobs : task[i].pc = "none" /\ jobs[i].status \notin {"queued", "running"}
    BY <1>s DEF HasRunningJob
  <2> QED
    BY <1>0, <1>s, <2>1, <2>2 DEF SoleWork, Told
<1>u. ASSUME UNCHANGED <<jobs, task, passed, active, up>>
      PROVE  SoleWork' /\ \A i \in Jobs : Told(i)'
  BY <1>0, <1>u DEF SoleWork, Told
<1>1. ASSUME NEW c \in Contents, Upload(c) PROVE ToldInv'
  BY <1>1, <1>k, <1>s DEF Upload, files, beside
<1>2. CASE RequestDeploy
  BY <1>2, <1>k, <1>s DEF RequestDeploy, files, beside
<1>3. ASSUME NEW j \in Jobs, Progress(j) PROVE ToldInv'
  BY <1>3, <1>k, ProgressKeepsTold
<1>4. ASSUME NEW j \in Jobs, Raise(j) PROVE ToldInv'
  <2>1. /\ task[j].pc # "none" /\ task'[j] = NoTask /\ NoTask.pc = "none"
        /\ \A i \in Jobs \ {j} : task'[i] = task[i] /\ jobs'[i] = jobs[i]
        /\ IF jobs[j].status = "running" THEN jobs'[j].status = "failed" ELSE jobs'[j] = jobs[j]
        /\ UNCHANGED <<passed, active, up>>
    BY <1>0, <1>4 DEF Raise, NoTask
  <2>2. \A i \in Jobs \ {j} : task[i].pc = "none" /\ jobs[i].status \notin {"queued", "running"}
    BY <1>0, <2>1 DEF SoleWork, Told, JobType
  <2>3. SoleWork' /\ \A i \in Jobs : Told(i)'
    BY <1>0, <2>1, <2>2 DEF SoleWork, Told
  <2> QED
    BY <1>k, <2>3
<1>5. CASE Refresh \/ ReconcileLoad \/ ReconcileSave
  BY <1>5, <1>k, <1>u DEF Refresh, ReconcileLoad, ReconcileSave, files, beside
<1>6. CASE Crash
  <2>1. /\ up' = FALSE /\ NoTask.pc = "none" /\ task' = [i \in Jobs |-> NoTask]
        /\ UNCHANGED <<jobs, passed, active>>
    BY <1>6 DEF Crash, NoTask
  <2>2. SoleWork' /\ \A i \in Jobs : Told(i)'
    BY <1>0, <2>1 DEF SoleWork, Told
  <2> QED
    BY <1>k, <2>2
<1>7. CASE Restart
  <2>1. /\ ~up /\ UNCHANGED <<task, passed, active>>
        /\ \A i \in Jobs : jobs'[i].status =
                IF jobs[i].status \in {"queued", "running"} THEN "failed" ELSE jobs[i].status
    BY <1>0, <1>7 DEF Restart, files, JobType
  <2>2. \A i \in Jobs : task[i].pc = "none"
    BY <2>1 DEF ToldInv, DownIsQuiet
  <2>3. SoleWork' /\ \A i \in Jobs : Told(i)'
    BY <1>0, <2>1, <2>2 DEF SoleWork, Told, JobType
  <2> QED
    BY <1>k, <2>3
<1>8. CASE UNCHANGED vars
  BY <1>8, <1>k, <1>u DEF vars, files
<1> QED
  BY <1>1, <1>2, <1>3, <1>4, <1>5, <1>6, <1>7, <1>8 DEF Next

\* For any number of jobs, exceptions and crashes the job files tell what is at work:
\* only a job that an exception stopped before its first update keeps others out for
\* nothing, and it does so alone and has left no verdict.
THEOREM FilesTellTheWork == Spec => []JobFilesTellTheWork
<1>1. Init => ToldInv
  <2>1. SUFFICES ASSUME Init PROVE ToldInv
    OBVIOUS
  <2>2. \A j \in Jobs : /\ task[j].pc = "none" /\ jobs[j].status = "none"
                        /\ passed[j] = {} /\ active = None
    BY <2>1 DEF Init, NoTask
  <2>3. None \notin Jobs
    BY PipelineAssumption
  <2> QED
    BY <2>1, <2>2, <2>3, InitTyped DEF ToldInv, DownIsQuiet, SoleWork, Told
<1>2. ToldInv /\ [Next]_vars => ToldInv'
  BY NextKeepsTold
<1>3. ToldInv => JobFilesTellTheWork
  BY DEF ToldInv, SoleWork, Told, JobFilesTellTheWork
<1> QED
  BY <1>1, <1>2, <1>3, PTL DEF Spec
==============================================================================

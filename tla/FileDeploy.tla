----------------------------- MODULE FileDeploy ------------------------------
(***************************************************************************)
(* The datasets that are not versioned: their files are copied straight    *)
(* into the runtime tree (run_deploy of pipeline_service.py), or the       *)
(* directory is replaced, after a backup has been taken that run_rollback  *)
(* brings back.  The state file says what is deployed and whether there is *)
(* a backup; after a kill it is repaired by JobManager.cleanup_stale_      *)
(* running, and a state whose runtime path is gone is inferred again from  *)
(* what the file system holds (dataset_state_service.py).                  *)
(*                                                                         *)
(* Copies are made in place and trees are removed file by file, so each of *)
(* these operations can fail, or be killed, with half of its work done.    *)
(* A file or a tree is the number of what it was made from, and whether it *)
(* is whole.                                                               *)
(***************************************************************************)
EXTENDS Naturals, Sequences

CONSTANTS
    MaxFetches,     \* bound on what is fetched, uploaded or generated
    MaxDeploys,     \* bound on deploys and rollbacks
    MaxMishaps      \* bound on failed operations and kills

\* Roads are fetched and deployed as they are; layers are normalized and
\* validated, deployed by file or by directory; a generated layer is validated
\* where the generator writes it, and published with a version.  The railway's
\* tiles are downloaded, built and put in place by one job.
DeployKinds == {"roads", "file", "directory", "generated", "tiles"}

VARIABLES
    deployKind, \* of the dataset
    disk,       \* "source", "runtime", "backup", "staging" -> what is there
    saved,      \* the state file
    errand,     \* the job under way: [op, todo, begun, step]
    fetches, deploys, mishaps,
    basis,      \* history: the runtime when the last deploy began
    writer,     \* history: the operation that last touched the runtime
    assumed     \* history: places whose content was taken for valid because it was there

deployVars == <<deployKind, disk, saved, errand, fetches, deploys, mishaps, basis, writer, assumed>>

Nothing == [made |-> 0, whole |-> TRUE]
Half(content) == [content EXCEPT !.whole = FALSE]
Present(place) == disk[place] # Nothing

NoErrand == [op |-> "none", todo |-> <<>>, begun |-> FALSE, step |-> "completed"]
Killed == [NoErrand EXCEPT !.op = "killed"]
Unoccupied == errand = NoErrand

\* Nothing has been fetched yet.  Roads and tiles have nothing to pass.
DeployInit ==
    /\ deployKind \in DeployKinds
    /\ disk = [place \in {"source", "runtime", "backup", "staging"} |-> Nothing]
    /\ saved = [deploy |-> "not_deployed", stored |-> FALSE, runtime |-> FALSE, backup |-> FALSE,
                valid |-> IF deployKind \in {"roads", "tiles"} THEN "passed" ELSE "not_started"]
    /\ errand = NoErrand
    /\ fetches = 0 /\ deploys = 0 /\ mishaps = 0
    /\ basis = Nothing /\ writer = "none" /\ assumed = {}

-----------------------------------------------------------------------------
(* The state file                                                          *)

\* update_deployable(): asked again by the deploy request, whatever is saved.
IsDeployable(s) == s.stored /\ s.valid = "passed" /\ s.deploy # "deploying"
WithDeployable(s) ==
    [s EXCEPT !.deploy = IF IsDeployable(s) /\ @ = "not_deployed" THEN "deployable" ELSE @]

\* _infer_state_from_filesystem(): whoever has a file in validated/ has passed,
\* and what was known of a backup is forgotten.  The validated file of roads, and
\* all that is looked at of tiles, is the deployed one.
InferredState ==
    LET validated == IF deployKind \in {"roads", "tiles"} THEN Present("runtime")
                     ELSE Present("source")
    IN [deploy |-> CASE ~validated -> "not_deployed"
                     [] validated /\ Present("runtime") -> "deployed"
                     [] OTHER -> "deployable",
        stored |-> Present("source") \/ validated,
        runtime |-> validated /\ Present("runtime"), backup |-> FALSE,
        valid |-> IF deployKind \in {"roads", "tiles"} \/ validated THEN "passed" ELSE "not_started"]

\* init_from_definition(): only a state that says deployed is compared.
IsStale == saved.deploy = "deployed" /\ ~(saved.runtime /\ Present("runtime"))
LoadedState == IF IsStale THEN InferredState ELSE saved

\* Any request for the dataset loads its state.
Visit ==
    /\ Unoccupied /\ IsStale
    /\ saved' = InferredState
    /\ assumed' = assumed \cup {"source"}
    /\ UNCHANGED <<deployKind, disk, errand, fetches, deploys, mishaps, basis, writer>>

-----------------------------------------------------------------------------
(* What a job does to the disk: each operation reads one place, changes    *)
(* another, and has a moment at which that other is half done.             *)

Does(verb, from, to) == [verb |-> verb, from |-> from, to |-> to]

\* run_deploy(): the backup is noted in the state as soon as it is there.
BackupFirst ==
    IF ~Present("runtime") THEN <<>>
    ELSE IF deployKind = "directory" THEN <<Does("remove", "backup", "backup"),
                                      Does("keep", "runtime", "backup")>>
    ELSE <<Does("keep", "runtime", "backup")>>
\* Mutant: the backup is taken once the new files are staged, after the old
\* runtime has been cleared.
DeployPlanLateBackup ==
    CASE deployKind = "generated" -> <<Does("publish", "source", "runtime")>>
      [] deployKind = "directory" ->
             <<Does("remove", "staging", "staging"), Does("copy", "source", "staging"),
               Does("remove", "runtime", "runtime")>>
             \o BackupFirst \o <<Does("move", "staging", "runtime")>>
      [] OTHER -> BackupFirst \o <<Does("copy", "source", "runtime")>>

DeployPlan ==
    CASE deployKind = "generated" -> <<Does("publish", "source", "runtime")>>
      [] deployKind = "directory" ->
             BackupFirst
             \o <<Does("remove", "staging", "staging"), Does("copy", "source", "staging"),
                  Does("remove", "runtime", "runtime"), Does("move", "staging", "runtime")>>
      [] OTHER -> BackupFirst \o <<Does("copy", "source", "runtime")>>

\* run_rollback(): the file of a backup is consumed, its directory is not.
RollbackPlan ==
    IF deployKind = "directory"
    THEN <<Does("remove", "runtime", "runtime"), Does("copy", "backup", "runtime")>>
    ELSE <<Does("copy", "backup", "runtime"), Does("remove", "backup", "backup")>>

\* curl and the generator write over what the state already names; a layer is
\* normalized elsewhere, and only its validator writes the validated file.
FetchPlan == <<Does("fetch", "source", "source")>>

\* run_railway_pmtiles_update(): a download that is recent is kept; each part is
\* made aside and moved to its place.
TilesPlans ==
    LET build == <<Does("remove", "staging", "staging"), Does("build", "source", "staging"),
                   Does("move", "staging", "runtime")>>
        all == <<Does("download", "source", "source")>> \o build
    IN IF Present("source") THEN {build, all} ELSE {all}

\* What is at the operation's place when it has been done, and half done.
Outcome(act) ==
    CASE act.verb = "remove" -> Nothing
      [] act.verb \in {"fetch", "download"} -> [made |-> fetches, whole |-> TRUE]
      [] OTHER -> disk[act.from]
Underway(act) ==
    CASE act.verb \in {"move", "publish", "download"} -> disk[act.to]
      [] act.verb = "remove" -> IF Present(act.to) THEN Half(disk[act.to]) ELSE Nothing
      [] OTHER -> Half(Outcome(act))

BeginOperation ==
    /\ errand.todo # <<>> /\ ~errand.begun
    /\ LET act == Head(errand.todo)
       IN /\ disk' = [disk EXCEPT ![act.to] = Underway(act)]
          /\ errand' = [errand EXCEPT !.begun = TRUE]
          /\ writer' = IF act.to = "runtime" /\ act.verb # "publish" THEN errand.op ELSE writer
    /\ UNCHANGED <<deployKind, saved, fetches, deploys, mishaps, basis, assumed>>

\* The publishing script refuses what does not parse, and sizes are checked of
\* the roads that tiles are built from, and of the tiles.
CanEnd(act) ==
    (act.verb \in {"publish", "build"} \/ (deployKind = "tiles" /\ act.verb = "move"))
        => disk[act.from].whole

EndOperation ==
    /\ errand.begun
    /\ LET act == Head(errand.todo)
       IN /\ CanEnd(act)
          /\ disk' = [place \in DOMAIN disk |->
                         IF place = act.to THEN Outcome(act)
                         ELSE IF act.verb = "move" /\ place = act.from THEN Nothing
                         ELSE disk[place]]
          /\ saved' = [saved EXCEPT !.backup = @ \/ act.verb = "keep",
                                    !.stored = @ \/ act.verb = "download"]
          /\ errand' = [errand EXCEPT !.todo = Tail(@), !.begun = FALSE]
          /\ writer' = IF act.to = "runtime" THEN errand.op ELSE writer
    /\ UNCHANGED <<deployKind, fetches, deploys, mishaps, basis, assumed>>

-----------------------------------------------------------------------------
(* Requests, and how their jobs start and end                              *)

Accepted(op) == [NoErrand EXCEPT !.op = op, !.step = "accepted"]

\* Mutant: the state says deployed until the job has ended.
RequestFileDeployUnmarked ==
    /\ Unoccupied /\ deploys < MaxDeploys
    /\ IsDeployable(WithDeployable(LoadedState))
    /\ saved' = WithDeployable(LoadedState)
    /\ errand' = Accepted("deploy")
    /\ deploys' = deploys + 1
    /\ assumed' = IF IsStale THEN assumed \cup {"source"} ELSE assumed
    /\ UNCHANGED <<deployKind, disk, fetches, mishaps, basis, writer>>

\* deploy_dataset().  No page asks it of tiles, which are not to be deployed.
RequestFileDeploy ==
    /\ Unoccupied /\ deploys < MaxDeploys /\ deployKind # "tiles"
    /\ IsDeployable(WithDeployable(LoadedState))
    /\ saved' = [WithDeployable(LoadedState) EXCEPT !.deploy = "deploying"]
    /\ errand' = Accepted("deploy")
    /\ deploys' = deploys + 1
    /\ assumed' = IF IsStale THEN assumed \cup {"source"} ELSE assumed
    /\ UNCHANGED <<deployKind, disk, fetches, mishaps, basis, writer>>

\* rollback_dataset(): published datasets are refused.
RequestRollback ==
    /\ Unoccupied /\ deploys < MaxDeploys
    /\ deployKind # "generated" /\ LoadedState.backup
    /\ saved' = LoadedState
    /\ errand' = Accepted("rollback")
    /\ deploys' = deploys + 1
    /\ UNCHANGED <<deployKind, disk, fetches, mishaps, basis, writer, assumed>>

\* fetch_url_dataset(), fetch_official_dataset(), upload_dataset(),
\* generate_dataset() and railway_pmtiles_update()
RequestFetch ==
    /\ Unoccupied /\ fetches < MaxFetches
    /\ saved' = LoadedState
    /\ errand' = Accepted("fetch")
    /\ fetches' = fetches + 1
    /\ assumed' = IF IsStale THEN assumed \cup {"source"} ELSE assumed
    /\ UNCHANGED <<deployKind, disk, deploys, mishaps, basis, writer>>

\* The steps a job passes are saved with it.  A layer that comes in loses its
\* verdict before its validated file is written.
StartErrand ==
    /\ errand.op # "none" /\ errand.step = "accepted"
    /\ \/ /\ errand.op = "deploy"
          /\ errand' = [errand EXCEPT !.todo = DeployPlan, !.step = "deploy"]
          /\ basis' = disk.runtime
          /\ UNCHANGED <<saved, assumed>>
       \/ /\ errand.op = "rollback" /\ Present("backup")
          /\ errand' = [errand EXCEPT !.todo = RollbackPlan, !.step = "rollback"]
          /\ UNCHANGED <<saved, basis, assumed>>
       \/ /\ errand.op = "rollback" /\ ~Present("backup")
          /\ errand' = NoErrand
          /\ UNCHANGED <<saved, basis, assumed>>
       \/ /\ errand.op = "fetch"
          /\ \E plan \in IF deployKind = "tiles" THEN TilesPlans ELSE {FetchPlan} :
                errand' = [errand EXCEPT
                    !.todo = plan,
                    !.step = IF deployKind \in {"file", "directory"} THEN "validate"
                             ELSE "download"]
          /\ saved' = IF deployKind \in {"file", "directory"}
                      THEN [saved EXCEPT !.stored = TRUE, !.valid = "running"] ELSE saved
          /\ UNCHANGED <<basis, assumed>>
    /\ UNCHANGED <<deployKind, disk, fetches, deploys, mishaps, writer>>

EndedDeploy == [saved EXCEPT !.deploy = "deployed", !.runtime = TRUE]
EndedRollback == [saved EXCEPT !.deploy = "deployed", !.runtime = TRUE, !.backup = FALSE]
\* _run_post_ingest_pipeline() and run_generate() free a state left deploying.
EndedFetch ==
    IF deployKind = "tiles"
    THEN [saved EXCEPT !.stored = TRUE, !.valid = "passed", !.deploy = "deployed", !.runtime = TRUE]
    ELSE WithDeployable([saved EXCEPT !.stored = TRUE, !.valid = "passed",
                                 !.deploy = IF @ = "deploying" THEN "not_deployed" ELSE @])

\* run_generate(): what has been generated is validated where it is.
StartValidation ==
    /\ deployKind = "generated" /\ errand.op = "fetch"
    /\ errand.step = "download" /\ errand.todo = <<>>
    /\ errand' = [errand EXCEPT !.step = "validate"]
    /\ saved' = [saved EXCEPT !.stored = TRUE, !.valid = "running"]
    /\ UNCHANGED <<deployKind, disk, fetches, deploys, mishaps, basis, writer, assumed>>

EndErrand ==
    /\ errand.op \in {"deploy", "rollback", "fetch"}
    /\ errand.todo = <<>> /\ errand.step # "accepted"
    /\ deployKind = "generated" => errand.step # "download"
    /\ saved' = CASE errand.op = "deploy" -> EndedDeploy
                  [] errand.op = "rollback" -> EndedRollback
                  [] OTHER -> EndedFetch
    /\ errand' = NoErrand
    /\ assumed' = CASE errand.op = "fetch" -> assumed \ {"source"}
                    [] errand.op = "deploy" -> IF "source" \in assumed THEN {"source", "runtime"}
                                                ELSE {}
                    [] OTHER -> assumed
    /\ UNCHANGED <<deployKind, disk, fetches, deploys, mishaps, basis, writer>>

-----------------------------------------------------------------------------
(* Failures                                                                *)

\* An operation raises: what it was writing stays as it is, and a download that
\* has not the size it should stays in its place.  A rollback, a download and a
\* generator leave the state as it was, a validator a verdict.
FailErrand ==
    /\ errand.begun
    /\ \/ UNCHANGED disk
       \/ /\ Head(errand.todo).verb = "download"
          /\ disk' = [disk EXCEPT !.source = Half(Outcome(Head(errand.todo)))]
    /\ \/ mishaps < MaxMishaps /\ mishaps' = mishaps + 1
       \/ ~CanEnd(Head(errand.todo)) /\ mishaps' = mishaps
    /\ saved' = CASE errand.op = "deploy" -> [saved EXCEPT !.deploy = "failed"]
                  [] errand.step = "validate" -> [saved EXCEPT !.valid = "failed"]
                  [] OTHER -> saved
    /\ errand' = NoErrand
    /\ UNCHANGED <<deployKind, fetches, deploys, basis, writer, assumed>>

\* What was written whole does not pass.
FailValidation ==
    /\ errand.step = "validate" /\ errand.op = "fetch" /\ errand.todo = <<>>
    /\ mishaps < MaxMishaps /\ mishaps' = mishaps + 1
    /\ saved' = [saved EXCEPT !.valid = "failed"]
    /\ errand' = NoErrand
    /\ UNCHANGED <<deployKind, disk, fetches, deploys, basis, writer, assumed>>

KillOperator ==
    /\ ~Unoccupied /\ errand.op # "killed"
    /\ mishaps < MaxMishaps /\ mishaps' = mishaps + 1
    /\ errand' = [Killed EXCEPT !.step = errand.step]
    /\ UNCHANGED <<deployKind, disk, saved, fetches, deploys, basis, writer, assumed>>

\* cleanup_stale_running(): a job killed before its first step leaves
\* "deploying" behind.
RepairedState ==
    CASE errand.step = "validate" /\ saved.valid # "passed" -> [saved EXCEPT !.valid = "failed"]
      [] errand.step = "deploy" /\ saved.deploy = "deploying" ->
             [saved EXCEPT !.deploy = "not_deployed"]
      [] OTHER -> saved

RestartOperator ==
    /\ errand.op = "killed"
    /\ saved' = RepairedState
    /\ errand' = NoErrand
    /\ UNCHANGED <<deployKind, disk, fetches, deploys, mishaps, basis, writer, assumed>>

DeployNext ==
    \/ Visit \/ RequestFileDeploy \/ RequestRollback \/ RequestFetch
    \/ StartErrand \/ BeginOperation \/ EndOperation \/ StartValidation \/ EndErrand
    \/ FailErrand \/ FailValidation \/ KillOperator \/ RestartOperator

DeploySpec == DeployInit /\ [][DeployNext]_deployVars

-----------------------------------------------------------------------------
(* Properties                                                              *)

\* Between jobs, what the state calls deployed is whole, however deploys fail
\* and are killed, unless it came from a rollback (which works on a dataset that
\* stays "deployed", and may bring back a backup of something torn), from roads
\* (whose raw file a failed download tears), or from a file that was taken for
\* valid because it was there.
DeployedIsWhole ==
    Unoccupied /\ saved.deploy = "deployed" /\ ~disk.runtime.whole
        => writer = "rollback" \/ deployKind = "roads" \/ "runtime" \in assumed

\* A deploy that fails or is killed with half of its work done can be undone, as
\* its message says, when the runtime it began with was whole: the state names a
\* backup, and the backup is that runtime.  (A retry begins with a torn runtime
\* and backs that one up.)
TornDeployCanBeUndone ==
    Unoccupied /\ writer = "deploy" /\ deployKind # "generated"
         /\ (~disk.runtime.whole \/ ~Present("runtime")) /\ basis.whole /\ basis # Nothing
        => saved.backup /\ disk.backup = basis

\* What a deploy leaves behind: a runtime that is whole where the state says so, and one
\* that can be undone where half of the work was done.
DeployedIsWholeOrUndoable == DeployedIsWhole /\ TornDeployCanBeUndone

=============================================================================

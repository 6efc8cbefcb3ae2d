---------------------------- MODULE RoutingEngine ----------------------------
(***************************************************************************)
(* The walking engine: a container that builds its index from the road     *)
(* file when there is none, refuses to start on one it cannot account for, *)
(* and serves what it has loaded (docker-compose.yml, osrm_provenance.sh); *)
(* the job of the dataset that clears the index and restarts the container *)
(* (run_osrm_rebuild); and the job that writes the penalties into foot.lua *)
(* and builds inside the running container (run_osrm_profile_rebuild).     *)
(* Each job is only refused while one of its own kind runs, and both work  *)
(* in one directory.                                                       *)
(*                                                                         *)
(* The index has three groups of files, named after the command that       *)
(* writes them.  A group carries the roads and the profile it was made of, *)
(* and is not whole while it is being written; a command writes what it    *)
(* has read of the group before it.                                        *)
(***************************************************************************)
EXTENDS Naturals

CONSTANTS
    MaxRoads,       \* versions of the road file that may be deployed
    MaxRequests,    \* bound on rebuilds that are asked for
    MaxOutages      \* bound on stopped containers, failed commands and kills

ASSUME RoutingAssumption == MaxRoads \in Nat

Stages == {"extract", "partition", "customize"}
NextStage == [extract |-> "partition", partition |-> "customize", customize |-> "done"]

VARIABLES
    roads,      \* version of tokyo-kanagawa-260214.osm.pbf
    lua,        \* version of foot.lua
    index,      \* stage -> the group of files it writes
    namedRoads, \* roads named by .osrm.provenance.json, 0 when there is none
    engine,     \* the container: [state, stage, begun, graph, roads]
    rebuild,    \* step of the dataset's job
    rebuildStatus,
    profile,    \* the other job: [pc, begun, lua]; lua: the text it keeps
    requests, outages,
    disturbed   \* history: since the index was cleared, the profile job has written into it,
                \* or its roads were replaced while it was being built

routingVars ==
    <<roads, lua, index, namedRoads, engine, rebuild, rebuildStatus, profile, requests, outages,
      disturbed>>

NoFiles == [roads |-> 0, lua |-> 0, whole |-> TRUE]
BeingWritten == [NoFiles EXCEPT !.whole = FALSE]
NoIndex == [s \in Stages |-> NoFiles]

Down == [state |-> "down", stage |-> "done", begun |-> FALSE, graph |-> NoIndex, roads |-> 0]
NoProfileJob == [pc |-> "idle", begun |-> FALSE, lua |-> 0]

RoutingInit ==
    /\ roads = 1 /\ lua = 1
    /\ index = NoIndex /\ namedRoads = 0
    /\ engine = Down
    /\ rebuild = "idle" /\ rebuildStatus = "not_started"
    /\ profile = NoProfileJob
    /\ requests = 0 /\ outages = 0
    /\ disturbed = FALSE

AllExist == \A s \in Stages : index[s] # NoFiles

-----------------------------------------------------------------------------
(* The three commands, whoever runs them                                   *)

InputExists(s) == CASE s = "extract" -> TRUE
                    [] s = "partition" -> index["extract"] # NoFiles
                    [] s = "customize" -> index["partition"] # NoFiles
Product(s) == CASE s = "extract" -> [roads |-> roads, lua |-> lua, whole |-> TRUE]
                [] s = "partition" -> index["extract"]
                [] s = "customize" -> index["partition"]

\* Files that were removed while they were being written do not come back.
Written(s) ==
    index' = IF index[s] = BeingWritten THEN [index EXCEPT ![s] = Product(s)] ELSE index

-----------------------------------------------------------------------------
(* The container, which docker starts again whenever it ends               *)

\* Mutant: the index only has to be there.
VerifiedPresence == AllExist /\ namedRoads # 0

\* osrm-provenance verify
Verified == AllExist /\ namedRoads = roads

\* What runs in the container ends with it.
StopEngine ==
    /\ engine' = Down
    /\ profile' = IF profile.begun THEN [profile EXCEPT !.pc = "failed", !.begun = FALSE]
                  ELSE profile

\* With part of an index, or one that does not verify, the container ends.
Boot ==
    /\ engine.state = "down"
    /\ \/ /\ index = NoIndex /\ namedRoads = 0
          /\ engine' = [engine EXCEPT !.state = "building", !.stage = "extract"]
       \/ /\ Verified
          /\ engine' = [Down EXCEPT !.state = "serving", !.graph = index, !.roads = roads]
    /\ UNCHANGED <<roads, lua, index, namedRoads, rebuild, rebuildStatus, profile, requests,
                   outages, disturbed>>

BeginBuild ==
    /\ engine.state = "building" /\ engine.stage # "done" /\ ~engine.begun
    /\ IF InputExists(engine.stage)
       THEN /\ index' = [index EXCEPT ![engine.stage] = BeingWritten]
            /\ engine' = [engine EXCEPT !.begun = TRUE]
            /\ UNCHANGED profile
       ELSE StopEngine /\ UNCHANGED index
    /\ UNCHANGED <<roads, lua, namedRoads, rebuild, rebuildStatus, requests, outages, disturbed>>

EndBuild ==
    /\ engine.begun
    /\ Written(engine.stage)
    /\ engine' = [engine EXCEPT !.stage = NextStage[@], !.begun = FALSE]
    /\ UNCHANGED <<roads, lua, namedRoads, rebuild, rebuildStatus, profile, requests, outages,
                   disturbed>>

\* osrm-provenance write, which wants every file, and osrm-routed
StartRouted ==
    /\ engine.state = "building" /\ engine.stage = "done"
    /\ IF AllExist
       THEN /\ namedRoads' = roads
            /\ engine' = [Down EXCEPT !.state = "serving", !.graph = index, !.roads = roads]
            /\ UNCHANGED profile
       ELSE StopEngine /\ UNCHANGED namedRoads
    /\ UNCHANGED <<roads, lua, index, rebuild, rebuildStatus, requests, outages, disturbed>>

Outage ==
    /\ engine.state # "down"
    /\ outages < MaxOutages /\ outages' = outages + 1
    /\ StopEngine
    /\ UNCHANGED <<roads, lua, index, namedRoads, rebuild, rebuildStatus, requests, disturbed>>

-----------------------------------------------------------------------------
(* The roads: deployed, or rolled back, while their dataset has no job     *)

ReplaceRoads ==
    /\ rebuild = "idle"
    /\ \E version \in (1..MaxRoads) \ {roads} : roads' = version
    /\ disturbed' = (disturbed \/ engine.state = "building")
    /\ UNCHANGED <<lua, index, namedRoads, engine, rebuild, rebuildStatus, profile, requests,
                   outages>>

-----------------------------------------------------------------------------
(* run_osrm_rebuild()                                                      *)

RequestRebuild ==
    /\ rebuild = "idle" /\ requests < MaxRequests
    /\ requests' = requests + 1
    /\ rebuild' = "clear"
    /\ rebuildStatus' = "running"
    /\ UNCHANGED <<roads, lua, index, namedRoads, engine, profile, outages, disturbed>>

\* Mutant: the index is only removed when a road file had to be copied.
ClearIndexOfACopy ==
    /\ rebuild = "clear"
    /\ rebuild' = "restart"
    /\ disturbed' = FALSE
    /\ UNCHANGED <<roads, lua, index, namedRoads, engine, rebuildStatus, profile, requests,
                   outages>>

\* The road file is where the container looks for it; *.osrm* is removed.
ClearIndex ==
    /\ rebuild = "clear"
    /\ index' = NoIndex /\ namedRoads' = 0
    /\ rebuild' = "restart"
    /\ disturbed' = FALSE
    /\ UNCHANGED <<roads, lua, engine, rebuildStatus, profile, requests, outages>>

RestartEngine ==
    /\ rebuild = "restart"
    /\ rebuild' = "wait"
    /\ StopEngine
    /\ UNCHANGED <<roads, lua, index, namedRoads, rebuildStatus, requests, outages, disturbed>>

\* _wait_for_osrm_artifacts(): the files are there, whole or not.
RebuildReady ==
    /\ rebuild = "wait" /\ AllExist
    /\ rebuild' = "idle" /\ rebuildStatus' = "success"
    /\ UNCHANGED <<roads, lua, index, namedRoads, engine, profile, requests, outages, disturbed>>

\* The restart fails, or the files do not come in time.
RebuildFails ==
    /\ \/ rebuild = "restart" /\ outages < MaxOutages /\ outages' = outages + 1
       \/ rebuild = "wait" /\ ~AllExist /\ UNCHANGED outages
    /\ rebuild' = "idle" /\ rebuildStatus' = "failed"
    /\ UNCHANGED <<roads, lua, index, namedRoads, engine, profile, requests, disturbed>>

-----------------------------------------------------------------------------
(* run_osrm_profile_rebuild()                                              *)

RequestProfile ==
    /\ profile.pc = "idle" /\ requests < MaxRequests
    /\ requests' = requests + 1
    /\ profile' = [pc |-> "extract", begun |-> FALSE, lua |-> lua]
    /\ \E penalties \in {1, 2} : lua' = penalties
    /\ UNCHANGED <<roads, index, namedRoads, engine, rebuild, rebuildStatus, outages, disturbed>>

\* docker exec needs a container that runs.
BeginProfileStage ==
    /\ profile.pc \in Stages /\ ~profile.begun
    /\ IF engine.state # "down" /\ InputExists(profile.pc)
       THEN /\ index' = [index EXCEPT ![profile.pc] = BeingWritten]
            /\ profile' = [profile EXCEPT !.begun = TRUE]
            /\ disturbed' = TRUE
       ELSE /\ profile' = [profile EXCEPT !.pc = "failed"]
            /\ UNCHANGED <<index, disturbed>>
    /\ UNCHANGED <<roads, lua, namedRoads, engine, rebuild, rebuildStatus, requests, outages>>

EndProfileStage ==
    /\ profile.begun
    /\ Written(profile.pc)
    /\ profile' = [profile EXCEPT !.pc = IF @ = "customize" THEN "reload" ELSE NextStage[@],
                                  !.begun = FALSE]
    /\ UNCHANGED <<roads, lua, namedRoads, engine, rebuild, rebuildStatus, requests, outages,
                   disturbed>>

ProfileStageFails ==
    /\ profile.begun
    /\ outages < MaxOutages /\ outages' = outages + 1
    /\ profile' = [profile EXCEPT !.pc = "failed", !.begun = FALSE]
    /\ UNCHANGED <<roads, lua, index, namedRoads, engine, rebuild, rebuildStatus, requests,
                   disturbed>>

\* restore_lua(): of the profile; the index keeps what has been written.
RestoreLua ==
    /\ profile.pc = "failed"
    /\ lua' = profile.lua
    /\ profile' = NoProfileJob
    /\ UNCHANGED <<roads, index, namedRoads, engine, rebuild, rebuildStatus, requests, outages,
                   disturbed>>

\* The job ends whether or not the container can be restarted, and whether or
\* not it then starts: the files it waits for are there already.
ReloadProfile ==
    /\ profile.pc = "reload"
    /\ profile' = NoProfileJob
    /\ \/ engine' = Down /\ UNCHANGED outages
       \/ outages < MaxOutages /\ outages' = outages + 1 /\ UNCHANGED engine
    /\ UNCHANGED <<roads, lua, index, namedRoads, rebuild, rebuildStatus, requests, disturbed>>

\* The operator backend is killed: no later start repairs the status (the steps
\* of the job are not the one cleanup_stale_running() looks for) or foot.lua.
KillRebuilds ==
    /\ rebuild # "idle" \/ profile.pc # "idle"
    /\ outages < MaxOutages /\ outages' = outages + 1
    /\ rebuild' = "idle" /\ profile' = NoProfileJob
    /\ UNCHANGED <<roads, lua, index, namedRoads, engine, rebuildStatus, requests, disturbed>>

RoutingNext ==
    \/ Boot \/ BeginBuild \/ EndBuild \/ StartRouted \/ Outage \/ ReplaceRoads
    \/ RequestRebuild \/ ClearIndex \/ RestartEngine \/ RebuildReady \/ RebuildFails
    \/ RequestProfile \/ BeginProfileStage \/ EndProfileStage \/ ProfileStageFails
    \/ RestoreLua \/ ReloadProfile \/ KillRebuilds

RoutingSpec == RoutingInit /\ [][RoutingNext]_routingVars

-----------------------------------------------------------------------------
(* Properties                                                              *)

OneBuild(files) ==
    \A s \in Stages : files[s].whole /\ files[s] = files["extract"]

\* Unless the profile job has written into the index, or the roads were replaced
\* while it was being built (the provenance names those it finds afterwards), a
\* graph that starts being served is whole, of one build, and of the roads that
\* are there: no kill, restart or rebuild makes the container start on another.
OneBuildIsServed ==
    [][engine.state # "serving" /\ engine'.state = "serving" =>
        \/ disturbed
        \/ OneBuild(engine'.graph) /\ engine'.graph["extract"].roads = roads]_routingVars

\* Likewise a rebuild that reports success has given the roads a new index,
\* down to the last group, which may still be being written.
RebuiltFromTheRoads ==
    [][rebuildStatus # "success" /\ rebuildStatus' = "success" =>
        \/ disturbed
        \/ /\ index["extract"].whole /\ index["extract"].roads = roads
           /\ index["partition"] = index["extract"]]_routingVars

=============================================================================

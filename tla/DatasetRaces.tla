---------------------------- MODULE DatasetRaces ----------------------------
(***************************************************************************)
(* DatasetPipeline among what its job check does not see: uploads of a      *)
(* group of files (api/admin_upload.py), which look for a running job and   *)
(* then wait for their bundle, and deploys of another dataset, whose        *)
(* publishing script takes every active dataset from the data lake          *)
(* (scripts/publish/deploy_to_runtime.sh).                                  *)
(***************************************************************************)
EXTENDS DatasetPipeline

VARIABLES
    bundling,   \* the group upload whose bundle is being built
    other       \* the publishing script of another dataset's deploy

raceVars == <<bundling, other>>
racingVars == <<vars, raceVars>>

RacingInit ==
    /\ Init
    /\ bundling = None
    /\ other = "idle"

\* The check for a running job comes before the wait for the bundle ...
GroupFinish(c) ==
    /\ up
    /\ bundling = None
    /\ ~HasRunningJob
    /\ bundling' = c
    /\ UNCHANGED <<vars, other>>

\* ... and is not repeated after it.
GroupSubmit ==
    /\ bundling # None
    /\ \E j \in Jobs : Submit(j, "ingest", stored, bundling)
    /\ bundling' = None
    /\ UNCHANGED <<files, beside, other>>

\* The routing is verified, and copied by a later command of the script.
OtherResolves ==
    /\ up
    /\ other = "idle"
    /\ Resolves
    /\ other' = "resolved"
    /\ UNCHANGED <<vars, bundling>>

OtherSwitches ==
    /\ other = "resolved"
    /\ SwitchRuntime
    /\ other' = "idle"
    /\ UNCHANGED <<jobs, task, stored, bundling>>

RacingNext ==
    \/ Next /\ IF up /\ ~up' THEN bundling' = None /\ other' = "idle"
               ELSE UNCHANGED raceVars
    \/ \E c \in Contents : GroupFinish(c)
    \/ GroupSubmit
    \/ OtherResolves \/ OtherSwitches

RacingSpec == RacingInit /\ [][RacingNext]_racingVars
==============================================================================

----------------------------- MODULE TileMirror -----------------------------
(***************************************************************************)
(* The flat tile mirror data_runtime/frontend/tiles that Martin serves,    *)
(* beside the versions that are the truth: deploy_to_runtime_atomic.sh     *)
(* with apply_tile_retirements.py and sync_frontend_tiles_mirror.sh,       *)
(* rollback_runtime.sh with rollback_preflight.py, and                     *)
(* reconcile_tile_mirror.py.                                               *)
(*                                                                         *)
(* No lock covers the mirror: a script changes it file by file, after      *)
(* current has been switched, and may be killed between two files.  The    *)
(* switch itself is one step here (RuntimePublish has its own).  A tree    *)
(* maps each tile path to its content (the sha256); only tiles are kept.   *)
(***************************************************************************)
EXTENDS Naturals, FiniteSets

CONSTANTS
    Operators,      \* operator processes
    Versions,       \* version ids
    Rels,           \* tile paths
    TilesetOf,      \* the tileset id (file name) of each path
    Contents,       \* contents that builds produce
    Junk,           \* a content nobody recorded
    Absent,         \* no such file
    NoTree,         \* the version id has not been used
    Gone,           \* the version has been collected
    Retired,        \* RETIRED records: the recorded contents of each path
    Migrated,       \* MIGRATED records: [from, to, sha]
    Required,       \* paths whose dataset has tile_requirement = required
    FirstTree,      \* the tiles of the first version
    HandPaths,      \* paths to which somebody copies a file by hand
    MaxHandPlaced,  \* bound on the files placed by hand
    MaxScripts      \* bound on the scripts that are started

Files == Contents \cup {Junk, Absent}
Moves == {m \in [from : Rels, to : Rels, sha : Contents] : m.from # m.to}

ASSUME RecordAssumption ==
    /\ TilesetOf \in [Rels -> Rels]
    /\ Retired \in [Rels -> SUBSET Contents]
    /\ Migrated \subseteq Moves
    /\ \A m \in Migrated : TilesetOf[m.from] = TilesetOf[m.to]
    /\ Required \subseteq Rels
    /\ Absent \notin Contents
    /\ Junk \notin Contents \cup {Absent}
    /\ FirstTree \in [Rels -> Contents \cup {Absent}]
    /\ {NoTree, Gone} \cap [Rels -> Contents \cup {Absent}] = {}
    /\ NoTree # Gone
    /\ HandPaths \subseteq Rels
    /\ MaxHandPlaced \in Nat
    /\ MaxScripts \in Nat

\* The contents that a retirement or a migration record lets the scripts remove.
Recorded(r) ==
    Retired[r] \cup {m.sha : m \in {n \in Migrated : n.from = r}}

\* A tileset has a path of its own: two tiles have one name only where a migration leads from
\* one to the other, and what is recorded of it is the tile that was served.
ASSUME TilesetAssumption ==
    /\ \A r, s \in Rels : r # s /\ TilesetOf[r] = TilesetOf[s] =>
          \E m \in Migrated : {m.from, m.to} = {r, s}
    /\ \A r, s \in Rels : r # s /\ TilesetOf[r] = TilesetOf[s] =>
          Absent \in {FirstTree[r], FirstTree[s]}
    /\ \A m \in Migrated : FirstTree[m.from] \in Recorded(m.from) \cup {Absent}

VARIABLES
    shelf,          \* versions/<id>/frontend/tiles, with its manifest
    current,
    mirror,         \* data_runtime/frontend/tiles
    temp,           \* the .reconciling files of the mirror
    pc, job,        \* the running script of each operator
    exit,           \* exit code of its last script
    overlapped,     \* history: two scripts, or a script and a hand, at once
    strayed,        \* history: a file stayed in the mirror that no script removes
    provenance,     \* history: the contents that a version or a record has had
    handPlaced, scripts

mirrorVars == <<shelf, current, mirror, temp>>
vars == <<mirrorVars, pc, job, exit, overlapped, strayed,
          provenance, handPlaced, scripts>>

Tree == [Rels -> Contents \cup {Absent}]
EmptyTree == [r \in Rels |-> Absent]
NoJob == [kind |-> "none", version |-> NoTree, staging |-> EmptyTree,
          frontend |-> FALSE, todo |-> {}, place |-> {}, remove |-> {},
          moved |-> FALSE, unknown |-> FALSE]

Tiles(v) == {r \in Rels : shelf[v][r] # Absent}
Shelved == {v \in Versions : shelf[v] \notin {NoTree, Gone}}

Init ==
    /\ \E v \in Versions :
         /\ shelf = [w \in Versions |-> IF w = v THEN FirstTree ELSE NoTree]
         /\ current = v
    /\ mirror = FirstTree
    /\ temp = EmptyTree
    /\ pc = [o \in Operators |-> "idle"]
    /\ job = [o \in Operators |-> NoJob]
    /\ exit = [o \in Operators |-> "none"]
    /\ overlapped = FALSE
    /\ strayed = FALSE
    /\ provenance = [r \in Rels |-> Recorded(r) \cup {FirstTree[r]}]
    /\ handPlaced = 0
    /\ scripts = 0

-----------------------------------------------------------------------------
(* Steps of a script *)

Start(o, at, j) ==
    /\ pc[o] = "idle"
    /\ scripts < MaxScripts
    /\ scripts' = scripts + 1
    /\ pc' = [pc EXCEPT ![o] = at]
    /\ job' = [job EXCEPT ![o] = j]
    /\ exit' = [exit EXCEPT ![o] = "none"]
    /\ overlapped' = (overlapped \/ \E p \in Operators \ {o} : pc[p] # "idle")

Continue(o, at, j) ==
    /\ pc' = [pc EXCEPT ![o] = at]
    /\ job' = [job EXCEPT ![o] = j]
    /\ UNCHANGED <<exit, overlapped, scripts>>

End(o, code) ==
    /\ pc' = [pc EXCEPT ![o] = "idle"]
    /\ job' = [job EXCEPT ![o] = NoJob]
    /\ exit' = [exit EXCEPT ![o] = code]
    /\ UNCHANGED <<overlapped, scripts>>

-----------------------------------------------------------------------------
(* Outside the scripts *)

\* Somebody copies a file into the mirror by hand.
HandPlace(r) ==
    /\ handPlaced < MaxHandPlaced
    /\ handPlaced' = handPlaced + 1
    /\ mirror' = [mirror EXCEPT ![r] = Junk]
    /\ overlapped' = (overlapped \/ \E o \in Operators : pc[o] # "idle")
    /\ strayed' = TRUE
    /\ UNCHANGED <<shelf, current, temp, pc, job, exit, provenance,
                   scripts>>

\* runtime_gc.py removes a version that is not current: the scripts no longer
\* know the contents that only its manifest had.
Collect(v) ==
    /\ v \in Shelved \ {current}
    /\ shelf' = [shelf EXCEPT ![v] = Gone]
    /\ strayed' = (strayed \/ \E r \in Rels :
                      mirror[r] \notin Recorded(r) \cup {Absent}
                         \cup {shelf[w][r] : w \in Shelved \ {v}})
    /\ UNCHANGED <<current, mirror, temp, pc, job, exit, overlapped,
                   provenance, handPlaced, scripts>>

-----------------------------------------------------------------------------
(* deploy_to_runtime_atomic.sh *)

\* Staging is seeded from current before any lock; the tiles that the data lake
\* has for the regions of this publish (the wrapper adds the regions of unfinished
\* migrations) are copied over the seed.  Old paths are no longer built.
StartDeploy(o, v, built, frontend) ==
    /\ shelf[v] = NoTree
    /\ \A p \in Operators : job[p].version # v
    /\ \A m \in Migrated : built[m.from] = Absent
    /\ Start(o, "assembled",
             [NoJob EXCEPT !.kind = "deploy", !.version = v,
                !.frontend = frontend,
                !.staging = [r \in Rels |-> IF built[r] # Absent THEN built[r]
                                            ELSE shelf[current][r]]])
    /\ UNCHANGED <<mirrorVars, strayed, provenance, handPlaced>>

\* A retired path leaves staging; so does the old path of a migrated tile, but
\* only if the new one is there: otherwise the publish is aborted.
ApplyStaging(o) ==
    LET kept == [r \in Rels |-> IF Retired[r] # {} THEN Absent
                                ELSE job[o].staging[r]]
        old == {m \in Migrated : kept[m.from] # Absent}
    IN
    /\ pc[o] = "assembled"
    /\ IF \E m \in old : kept[m.to] = Absent
       THEN End(o, "failed")
       ELSE Continue(o, "staged", [job[o] EXCEPT !.staging =
                [r \in Rels |-> IF \E m \in old : m.from = r THEN Absent
                                ELSE kept[r]]])
    /\ UNCHANGED <<mirrorVars, strayed, provenance, handPlaced>>

RetirementPaths ==
    {r \in Rels : Retired[r] # {}} \cup {m.from : m \in Migrated}

\* activate_version.py: it fails and changes nothing, succeeds, or switches and
\* cannot confirm that the switch is durable (then the wrapper stops there).
ActivateFails(o) ==
    /\ pc[o] = "staged"
    /\ End(o, "failed")
    /\ UNCHANGED <<mirrorVars, strayed, provenance, handPlaced>>

Activate(o, durable) ==
    /\ pc[o] = "staged"
    /\ shelf' = [shelf EXCEPT ![job[o].version] = job[o].staging]
    /\ current' = job[o].version
    /\ provenance' = [r \in Rels |-> provenance[r] \cup {job[o].staging[r]}]
    /\ IF ~durable THEN End(o, "durability_unknown")
       ELSE IF ~job[o].frontend THEN End(o, "ok")
       ELSE Continue(o, "retire", [job[o] EXCEPT !.todo = RetirementPaths])
    /\ UNCHANGED <<mirror, temp, strayed, handPlaced>>

\* apply_tile_retirements.py --mirror, one record: the file goes if current no
\* longer has it and its content is the recorded one.
\* RetireUnrecorded does not compare the content.
RetireUnrecorded(o, r) ==
    /\ pc[o] = "retire"
    /\ r \in job[o].todo
    /\ mirror' = IF shelf[current][r] = Absent
                 THEN [mirror EXCEPT ![r] = Absent] ELSE mirror
    /\ Continue(o, "retire", [job[o] EXCEPT !.todo = job[o].todo \ {r}])
    /\ UNCHANGED <<shelf, current, temp, strayed, provenance, handPlaced>>

RetireFromMirror(o, r) ==
    /\ pc[o] = "retire"
    /\ r \in job[o].todo
    /\ mirror' = IF shelf[current][r] = Absent /\ mirror[r] \in Recorded(r)
                 THEN [mirror EXCEPT ![r] = Absent] ELSE mirror
    /\ Continue(o, "retire", [job[o] EXCEPT !.todo = job[o].todo \ {r}])
    /\ UNCHANGED <<shelf, current, temp, strayed, provenance, handPlaced>>

\* The sync starts with the files that current has now.
StartSync(o) ==
    /\ pc[o] = "retire"
    /\ job[o].todo = {}
    /\ Continue(o, "sync", [job[o] EXCEPT !.todo = Tiles(current)])
    /\ UNCHANGED <<mirrorVars, strayed, provenance, handPlaced>>

\* A file cannot be removed: only a warning, the sync follows all the same.
RetireFails(o) ==
    /\ pc[o] = "retire"
    /\ Continue(o, "sync", [job[o] EXCEPT !.todo = Tiles(current)])
    /\ strayed' = TRUE
    /\ UNCHANGED <<mirrorVars, provenance, handPlaced>>

\* One file of the add-only sync: copied under a temporary name and renamed.
\* current is resolved for each file; if it has moved to a version without this
\* file the copy fails, which is only a warning.
SyncFile(o, r) ==
    /\ pc[o] = "sync"
    /\ r \in job[o].todo
    /\ IF shelf[current][r] = Absent
       THEN End(o, "ok") /\ UNCHANGED mirror
       ELSE /\ mirror' = [mirror EXCEPT ![r] = shelf[current][r]]
            /\ Continue(o, "sync", [job[o] EXCEPT !.todo = job[o].todo \ {r}])
    /\ UNCHANGED <<shelf, current, temp, strayed, provenance, handPlaced>>

SyncFails(o) ==
    /\ pc[o] = "sync"
    /\ End(o, "ok")
    /\ UNCHANGED <<mirrorVars, strayed, provenance, handPlaced>>

\* After the last file the permissions are checked: exit 4 if the public server
\* cannot read one of them.
SyncEnds(o, code) ==
    /\ pc[o] = "sync"
    /\ job[o].todo = {}
    /\ code \in {"ok", "unreadable"}
    /\ End(o, code)
    /\ UNCHANGED <<mirrorVars, strayed, provenance, handPlaced>>

-----------------------------------------------------------------------------
(* reconcile_tile_mirror.py *)

\* Contents that may be removed from the mirror: some version or record has it.
Known(r) == {shelf[v][r] : v \in Shelved} \cup Recorded(r)

PlanPlace(v) ==
    {[rel |-> r, sha |-> shelf[v][r]] :
        r \in {s \in Tiles(v) : mirror[s] # shelf[v][s]}}
PlanRemove(v) ==
    {[rel |-> r, sha |-> mirror[r]] :
        r \in {s \in Rels \ Tiles(v) : mirror[s] \in Known(s) \ {Absent}}}
PlanUnknown(v) ==
    {r \in Rels \ Tiles(v) : mirror[r] \notin Known(r) \cup {Absent}}

Planned(j) ==
    [j EXCEPT !.todo = PlanPlace(j.version), !.place = PlanPlace(j.version),
              !.remove = PlanRemove(j.version),
              !.unknown = PlanUnknown(j.version) # {}]

\* --apply repairs the mirror for the version that current names when it starts.
StartApply(o) ==
    /\ Start(o, "prepare",
             Planned([NoJob EXCEPT !.kind = "apply", !.version = current]))
    /\ UNCHANGED <<mirrorVars, strayed, provenance, handPlaced>>

\* prepare(): copy one file under its temporary name.
PrepareFile(o, f) ==
    /\ pc[o] = "prepare"
    /\ f \in job[o].todo
    /\ job[o].version \in Shelved
    /\ temp' = [temp EXCEPT ![f.rel] = f.sha]
    /\ Continue(o, "prepare", [job[o] EXCEPT !.todo = job[o].todo \ {f}])
    /\ UNCHANGED <<shelf, current, mirror, strayed, provenance, handPlaced>>

\* A copy fails: cleanup() removes every temporary file of the mirror.
PrepareFails(o) ==
    /\ pc[o] = "prepare"
    /\ temp' = EmptyTree
    /\ End(o, "failed")
    /\ UNCHANGED <<shelf, current, mirror, strayed, provenance, handPlaced>>

\* A file whose name is also the name of a file to be placed is removed before
\* any file is placed, so that no tileset has two files at any time.
MovingFiles(j) ==
    {f \in j.remove : \E g \in j.place : TilesetOf[f.rel] = TilesetOf[g.rel]}

\* commit() starts.  --apply commits what it planned before it prepared; the
\* --commit of rollback_runtime.sh plans again, against the mirror of now.
StartCommit(o) ==
    /\ job[o].version \in Shelved
    /\ \/ pc[o] = "prepare" /\ job[o].kind = "apply" /\ job[o].todo = {}
       \/ pc[o] = "switched"
    /\ Continue(o, "unhome",
                IF job[o].kind = "apply"
                THEN [job[o] EXCEPT !.todo = job[o].todo \cup job[o].place]
                ELSE Planned(job[o]))
    /\ UNCHANGED <<mirrorVars, strayed, provenance, handPlaced>>

\* _remove(): the file goes if it still has the planned content.
RemoveFile(o, f) ==
    /\ mirror' = IF mirror[f.rel] = f.sha
                 THEN [mirror EXCEPT ![f.rel] = Absent] ELSE mirror
    /\ Continue(o, pc[o],
          [job[o] EXCEPT !.remove = job[o].remove \ {f},
             !.moved = \/ job[o].moved
                       \/ /\ mirror[f.rel] = f.sha
                          /\ \E g \in job[o].place :
                                /\ mirror[g.rel] = Absent
                                /\ TilesetOf[g.rel] = TilesetOf[f.rel]])
    /\ UNCHANGED <<shelf, current, temp, strayed, provenance, handPlaced>>

RemoveMoving(o, f) ==
    /\ pc[o] = "unhome"
    /\ f \in MovingFiles(job[o])
    /\ RemoveFile(o, f)

\* A missing temporary file is an error, unless the target already has the
\* content (a commit that is run again after an interruption).
Place(o, f) ==
    LET done == [job[o] EXCEPT !.todo = job[o].todo \ {f}] IN
    /\ f \in job[o].todo
    /\ IF temp[f.rel] # Absent
       THEN /\ mirror' = [mirror EXCEPT ![f.rel] = temp[f.rel]]
            /\ temp' = [temp EXCEPT ![f.rel] = Absent]
            /\ Continue(o, "place", done)
       ELSE /\ IF mirror[f.rel] = f.sha
               THEN Continue(o, "place", done)
               ELSE End(o, IF job[o].kind = "apply" THEN "failed"
                                                    ELSE "unconverged")
            /\ UNCHANGED <<mirror, temp>>
    /\ UNCHANGED <<shelf, current, strayed, provenance, handPlaced>>

\* PlaceEarly does not wait for the removal of the moving files.
PlaceEarly(o, f) ==
    /\ pc[o] \in {"unhome", "place"}
    /\ Place(o, f)

PlaceFile(o, f) ==
    /\ \/ pc[o] = "place"
       \/ pc[o] = "unhome" /\ MovingFiles(job[o]) = {}
    /\ Place(o, f)

RemoveRest(o, f) ==
    /\ pc[o] \in {"unhome", "place"}
    /\ MovingFiles(job[o]) = {} \/ pc[o] = "place"
    /\ job[o].todo = {}
    /\ f \in job[o].remove
    /\ RemoveFile(o, f)

\* An unlink or a rename fails: the rollback reports that current has moved and
\* the mirror has not converged.
CommitFails(o) ==
    /\ pc[o] \in {"switched", "unhome", "place"}
    /\ End(o, IF job[o].kind = "apply" THEN "failed" ELSE "unconverged")
    /\ UNCHANGED <<mirrorVars, strayed, provenance, handPlaced>>

\* --apply ends with the commit; rollback_runtime.sh verifies the mirror against
\* the version it has activated, and an unknown file makes that fail.
\* CommitUnverified trusts the commit.
CommitUnverified(o) ==
    /\ pc[o] \in {"unhome", "place"}
    /\ job[o].todo = {} /\ job[o].remove = {}
    /\ End(o, IF job[o].moved THEN "restart_martin" ELSE "ok")
    /\ UNCHANGED <<mirrorVars, strayed, provenance, handPlaced>>

CommitEnds(o) ==
    /\ pc[o] \in {"unhome", "place"}
    /\ job[o].todo = {} /\ job[o].remove = {}
    \* A version that has been collected has no manifest: unconverged, too.
    /\ End(o, IF job[o].kind = "rollback" /\ mirror # shelf[job[o].version] THEN "unconverged"
              ELSE IF job[o].moved THEN "restart_martin"
              ELSE IF job[o].unknown /\ job[o].kind = "apply" THEN "unknown_kept"
              ELSE "ok")
    /\ UNCHANGED <<mirrorVars, strayed, provenance, handPlaced>>

-----------------------------------------------------------------------------
(* rollback_runtime.sh *)

\* The paths at which a version may have the tile of r: its own, or an old path
\* of a migration record.
Candidates(r) == {r} \cup {m.from : m \in {n \in Migrated : n.to = r}}

\* rollback_preflight.py: a required tile that the version does not have.
Blocked(v) == {r \in Required : \A c \in Candidates(r) : shelf[v][c] = Absent}

StartRollback(o, v, override) ==
    /\ v \in Shelved
    /\ Blocked(v) = {} \/ override
    /\ Start(o, "prepare",
             Planned([NoJob EXCEPT !.kind = "rollback", !.version = v]))
    /\ UNCHANGED <<mirrorVars, strayed, provenance, handPlaced>>

\* activate_version.py --rollback succeeds, refuses, or fails after the switch
\* (its fsync or its audit record): in both failures the wrapper cleans up.
Switch(o) ==
    /\ pc[o] = "prepare" /\ job[o].kind = "rollback" /\ job[o].todo = {}
    /\ job[o].version \in Shelved
    /\ current' = job[o].version
    /\ Continue(o, "switched", job[o])
    /\ UNCHANGED <<shelf, mirror, temp, strayed, provenance, handPlaced>>

SwitchFails(o, after) ==
    /\ pc[o] = "prepare" /\ job[o].kind = "rollback" /\ job[o].todo = {}
    /\ after => job[o].version \in Shelved
    /\ current' = IF after THEN job[o].version ELSE current
    /\ temp' = EmptyTree
    /\ End(o, "failed")
    /\ UNCHANGED <<shelf, mirror, strayed, provenance, handPlaced>>

\* A script dies between two steps; its temporary files stay.
Kill(o) ==
    /\ pc[o] # "idle"
    /\ End(o, "killed")
    /\ UNCHANGED <<mirrorVars, strayed, provenance, handPlaced>>

-----------------------------------------------------------------------------
Deploy(o) ==
    \/ \E v \in Versions, built \in Tree, frontend \in BOOLEAN :
            StartDeploy(o, v, built, frontend)
    \/ ApplyStaging(o) \/ ActivateFails(o)
    \/ \E durable \in BOOLEAN : Activate(o, durable)
    \/ \E r \in Rels : RetireFromMirror(o, r) \/ SyncFile(o, r)
    \/ StartSync(o) \/ RetireFails(o) \/ SyncFails(o)
    \/ \E code \in {"ok", "unreadable"} : SyncEnds(o, code)

Reconcile(o) ==
    \/ StartApply(o)
    \/ \E f \in job[o].todo : PrepareFile(o, f) \/ PlaceFile(o, f)
    \/ PrepareFails(o) \/ StartCommit(o)
    \/ \E f \in job[o].remove : RemoveMoving(o, f) \/ RemoveRest(o, f)
    \/ CommitFails(o) \/ CommitEnds(o)

RollbackScript(o) ==
    \/ \E v \in Versions, override \in BOOLEAN : StartRollback(o, v, override)
    \/ Switch(o)
    \/ \E after \in BOOLEAN : SwitchFails(o, after)

Next ==
    \/ \E r \in HandPaths : HandPlace(r)
    \/ \E v \in Versions : Collect(v)
    \/ \E o \in Operators :
            Deploy(o) \/ Reconcile(o) \/ RollbackScript(o) \/ Kill(o)

Spec == Init /\ [][Next]_vars

-----------------------------------------------------------------------------
(* Properties *)

Codes == {"none", "ok", "failed", "durability_unknown", "unreadable",
          "unconverged", "restart_martin", "unknown_kept", "killed"}

TypeOK ==
    /\ shelf \in [Versions -> Tree \cup {NoTree, Gone}]
    /\ current \in Shelved
    /\ mirror \in [Rels -> Files]
    /\ temp \in Tree
    /\ pc \in [Operators -> {"idle", "assembled", "staged", "retire", "sync",
                             "prepare", "switched", "unhome", "place"}]
    /\ exit \in [Operators -> Codes]
    /\ overlapped \in BOOLEAN
    /\ strayed \in BOOLEAN
    /\ provenance \in [Rels -> SUBSET (Contents \cup {Absent})]
    /\ handPlaced \in 0..MaxHandPlaced
    /\ scripts \in 0..MaxScripts

\* Martin never sees two files of one tileset (it would rename one of them), as
\* long as the scripts do not overlap and the mirror holds no file that they
\* leave alone.
OneFilePerTileset ==
    ~overlapped /\ ~strayed =>
        \A r, s \in Rels :
            r # s /\ TilesetOf[r] = TilesetOf[s]
            => mirror[r] = Absent \/ mirror[s] = Absent

\* A rollback or a repair that reports success leaves Martin with exactly the
\* tiles of current, whatever earlier scripts left behind when they were killed
\* between two files, as long as no other script runs at the same time.  (A
\* repair that moved a tileset reports that before the files it did not know.)
SuccessMeansConverged ==
    \A o \in Operators :
         job[o].kind \in {"rollback", "apply"} /\ pc'[o] = "idle" /\ ~overlapped
         => /\ exit'[o] = "ok" => mirror' = shelf'[current']
            /\ exit'[o] = "restart_martin" =>
                  \A r \in Tiles(current) : mirror'[r] = shelf'[current'][r]

\* No script removes a file of unknown origin: what disappears from the mirror is
\* a content that a version or a record has had, however the scripts interleave,
\* whatever versions are collected meanwhile and whatever was copied in by hand.
UnknownIsKept ==
    \A r \in Rels :
         mirror[r] # Absent /\ mirror'[r] = Absent
         => mirror[r] \in provenance[r]

\* What a step of the scripts may never do to the mirror, whatever others have
\* left in it: give a tileset two files, report a success that is none, or remove
\* a file that nobody has recorded.
MirrorStaysSound ==
    [][OneFilePerTileset' /\ SuccessMeansConverged /\ UnknownIsKept]_vars
=============================================================================

--------------------------- MODULE ShelterRegistry ----------------------------
(***************************************************************************)
(* The list of shelters of the public server (shelter_service.py): kept in *)
(* memory for an hour, read again as soon as another version is published, *)
(* from the version if it holds shelters, else from the flat runtime tree, *)
(* where active_mappings.json names the datasets to read                   *)
(* (active_mapping_service.py, written by layer_types_api.py).             *)
(*                                                                         *)
(* Requests are answered under one lock; versions are published, flat      *)
(* files copied in place and mappings edited by other processes meanwhile. *)
(***************************************************************************)
EXTENDS Naturals, SequencesExt

CONSTANTS
    ShelterTrees,   \* version -> the files of its shelter directories
    FlatWorlds,     \* what the flat side may look like: [exists, dirs, files, state, lake]
    LayerOf,        \* dataset -> the layer and region it may be active for
    NoShelters,     \* no list, no file, no place, no version
    ShelterTtl,     \* ticks a list is kept
    MaxWorldChanges \* bound on what happens outside the server

\* No version is called like a state of the link that leads to none, and what the
\* directories hold comes as a list.
ASSUME ShelterAssumption ==
    /\ {NoShelters, "absent", "dangling", "not_a_link"} \cap DOMAIN ShelterTrees = {}
    /\ \A w \in FlatWorlds : w.dirs \in Seq(ToSet(w.dirs)) /\ w.lake \in Seq(ToSet(w.lake))
    /\ ShelterTtl \in Nat

VARIABLES
    shelterCurrent, \* the `current` link: a version, or "absent", "dangling", "not_a_link"
    flatWorld,
    mappingFile,    \* active_mappings.json: the active datasets, in order
    held,           \* the registry: [list, age, version, mappings]
    visit,        \* [phase, todo, list, before, steady]
    settled,        \* history: ticks since the flat side or the link changed
    worldChanges

shelterVars == <<shelterCurrent, flatWorld, mappingFile, held, visit, settled, worldChanges>>

-----------------------------------------------------------------------------
(* Reading files                                                           *)

\* A row without coordinates, or of a designation nobody knows, is passed over;
\* one without a designation has that of its file, told by its columns.
DesignationOf(file, row) ==
    IF row.designation = "" THEN IF file.indicator THEN "shelter" ELSE "site" ELSE row.designation
IsListedRow(file, row) == row.at # NoShelters /\ DesignationOf(file, row) \in {"shelter", "site"}
ShelterEntry(file, row) == [name |-> row.name, at |-> row.at, as |-> DesignationOf(file, row)]

\* A row that raises loses the rest of its file; a file that is no collection, or
\* cannot be parsed, has no rows.
RowsBeforeError(rows) ==
    LET bad == {i \in DOMAIN rows : rows[i].name = "raises"}
    IN IF bad = {} THEN rows ELSE SubSeq(rows, 1, (CHOOSE i \in bad : \A j \in bad : i <= j) - 1)
ReadableRows(file) == IF file.form = "collection" THEN RowsBeforeError(file.rows) ELSE <<>>

AddFile(list, file) ==
    FoldLeft(LAMBDA l, row : IF IsListedRow(file, row) /\ ~Contains(l, ShelterEntry(file, row))
                             THEN Append(l, ShelterEntry(file, row)) ELSE l,
             list, ReadableRows(file))
LoadFiles(files) == FoldLeft(AddFile, <<>>, files)

\* With mappings, the exact file of each dataset, never a backup, and none if it
\* is gone.  Without, whatever the directories hold, else the lake.
ExactFile(w, dataset) ==
    LET usable(name) == name \in DOMAIN w.files /\ ~w.files[name].backup
        st == w.state[dataset]
    IN IF dataset \notin DOMAIN w.state THEN <<>>
       ELSE IF usable(st.runtime) THEN <<st.runtime>>
       ELSE IF usable(st.validated) THEN <<st.validated>> ELSE <<>>
ResolvePaths(w, mappings) ==
    IF mappings # <<>> THEN FlattenSeq([i \in DOMAIN mappings |-> ExactFile(w, mappings[i])])
    ELSE IF w.exists THEN w.dirs ELSE w.lake

\* A file that is gone is passed over.
ReadPath(w, list, name) ==
    IF name \in DOMAIN w.files THEN AddFile(list, w.files[name]) ELSE list
LoadPaths(w, list, paths) == FoldLeft(LAMBDA l, name : ReadPath(w, l, name), list, paths)

-----------------------------------------------------------------------------
(* A visit, the first of which is made at start-up                       *)

NoVisit == [phase |-> "idle", todo |-> <<>>, list |-> NoShelters, before |-> NoShelters,
              steady |-> TRUE]
Started(mappings) == [list |-> NoShelters, age |-> 0, version |-> NoShelters, mappings |-> mappings]
IsVersion(link) == link \in DOMAIN ShelterTrees

ShelterInit ==
    /\ shelterCurrent = "absent" /\ flatWorld \in FlatWorlds
    /\ mappingFile \in {<<>>} \cup {<<d>> : d \in DOMAIN LayerOf}
    /\ held = Started(mappingFile)
    /\ visit = NoVisit /\ settled = 0 /\ worldChanges = 0

\* _peek_current_version_id(): a dangling link has a name too.
Peeked == IF shelterCurrent \in {"absent", "not_a_link"} THEN NoShelters ELSE shelterCurrent

\* Mutant: only the age of the list counts.
IsStaleByAge == held.age > ShelterTtl
\* _is_stale()
IsStaleList == held.age > ShelterTtl \/ (Peeked # NoShelters /\ Peeked # held.version)

Answering(list) ==
    visit' = [NoVisit EXCEPT !.phase = "answered", !.list = list,
                                 !.before = visit.before, !.steady = visit.steady]

AskShelters ==
    /\ visit.phase \in {"idle", "answered"}
    /\ held.list # NoShelters         \* the process has come up
    /\ LET asked == [NoVisit EXCEPT !.before = held.list]
       IN visit' = IF IsStaleList
                     THEN [asked EXCEPT !.phase = "loading"]
                     ELSE [asked EXCEPT !.phase = "answered", !.list = held.list]
    /\ UNCHANGED <<shelterCurrent, flatWorld, mappingFile, held, settled, worldChanges>>

\* _try_load_from_atomic_publish(): the version is leased while it is read.
LoadVersion ==
    /\ visit.phase = "loading"
    /\ IsVersion(shelterCurrent) /\ ShelterTrees[shelterCurrent] # NoShelters
    /\ LET list == LoadFiles(ShelterTrees[shelterCurrent])
       IN /\ held' = [held EXCEPT !.list = list, !.age = 0, !.version = shelterCurrent]
          /\ Answering(list)
    /\ UNCHANGED <<shelterCurrent, flatWorld, mappingFile, settled, worldChanges>>

\* A link that leads nowhere is never answered with the flat files: the list at
\* hand is kept for another hour, and without one the visit fails, which at
\* start-up ends the process.
KeepList ==
    /\ visit.phase = "loading" /\ shelterCurrent \in {"dangling", "not_a_link"}
    /\ held' = IF held.list = NoShelters THEN held ELSE [held EXCEPT !.age = 0]
    /\ Answering(held.list)
    /\ UNCHANGED <<shelterCurrent, flatWorld, mappingFile, settled, worldChanges>>

\* _resolve_paths(), when nothing is published or the version has no shelters
ResolveFlat ==
    /\ visit.phase = "loading"
    /\ shelterCurrent = "absent"
       \/ (IsVersion(shelterCurrent) /\ ShelterTrees[shelterCurrent] = NoShelters)
    /\ held' = [held EXCEPT !.version = NoShelters]
    /\ visit' = [visit EXCEPT !.phase = "reading", !.list = <<>>,
                                  !.todo = ResolvePaths(flatWorld, held.mappings)]
    /\ UNCHANGED <<shelterCurrent, flatWorld, mappingFile, settled, worldChanges>>

\* load_emergency_shelters(), one file after the other
ReadFlatFile ==
    /\ visit.phase = "reading" /\ visit.todo # <<>>
    /\ visit' = [visit EXCEPT !.todo = Tail(@),
                              !.list = ReadPath(flatWorld, @, Head(visit.todo))]
    /\ UNCHANGED <<shelterCurrent, flatWorld, mappingFile, held, settled, worldChanges>>

FinishFlat ==
    /\ visit.phase = "reading" /\ visit.todo = <<>>
    /\ held' = [held EXCEPT !.list = visit.list, !.age = 0]
    /\ Answering(visit.list)
    /\ UNCHANGED <<shelterCurrent, flatWorld, mappingFile, settled, worldChanges>>

\* The mappings are read when the process starts, and not again: reload() is called by
\* nobody, and the registry that a change of a mapping clears is another process's.
RestartPublic ==
    /\ visit.phase \in {"idle", "answered"}
    /\ held' = Started(mappingFile)
    /\ visit' = [NoVisit EXCEPT !.phase = "loading"]
    /\ UNCHANGED <<shelterCurrent, flatWorld, mappingFile, settled, worldChanges>>

-----------------------------------------------------------------------------
(* The world outside                                                       *)

ChangesWorld ==
    /\ worldChanges < MaxWorldChanges /\ worldChanges' = worldChanges + 1
    /\ visit' = [visit EXCEPT !.steady = FALSE]

ChangeLink ==
    /\ ChangesWorld
    /\ shelterCurrent' \in (DOMAIN ShelterTrees \cup {"absent", "dangling", "not_a_link"})
                           \ {shelterCurrent}
    /\ settled' = 0
    /\ UNCHANGED <<flatWorld, mappingFile, held>>

ChangeFlat ==
    /\ ChangesWorld
    /\ flatWorld' \in FlatWorlds \ {flatWorld} /\ settled' = 0
    /\ UNCHANGED <<shelterCurrent, mappingFile, held>>

\* PUT and DELETE of active-mappings: one dataset per layer and region, which
\* must be deployed.  The registry that is cleared is that of the operator's own
\* process, of which nobody asks anything.
SameLayer(d) == {i \in DOMAIN mappingFile : LayerOf[mappingFile[i]] = LayerOf[d]}
SetActiveMapping(d) ==
    /\ ChangesWorld
    /\ d \in DOMAIN flatWorld.state /\ flatWorld.state[d].deployed
    /\ mappingFile' = IF SameLayer(d) = {} THEN Append(mappingFile, d)
                      ELSE [i \in DOMAIN mappingFile |-> IF i \in SameLayer(d) THEN d ELSE mappingFile[i]]
    /\ UNCHANGED <<shelterCurrent, flatWorld, held, settled>>
UnsetActiveMapping(d) ==
    /\ ChangesWorld
    /\ SameLayer(d) # {}
    /\ mappingFile' = RemoveAt(mappingFile, CHOOSE i \in SameLayer(d) : TRUE)
    /\ UNCHANGED <<shelterCurrent, flatWorld, held, settled>>

\* A load takes much less than a tick.
TickShelters ==
    /\ visit.phase \in {"idle", "answered"}
    /\ held.age <= ShelterTtl \/ settled <= ShelterTtl
    /\ held' = [held EXCEPT !.age = IF @ > ShelterTtl THEN @ ELSE @ + 1]
    /\ settled' = IF settled > ShelterTtl THEN settled ELSE settled + 1
    /\ visit' = NoVisit
    /\ UNCHANGED <<shelterCurrent, flatWorld, mappingFile, worldChanges>>

ShelterNext ==
    \/ AskShelters \/ LoadVersion \/ KeepList \/ ResolveFlat \/ ReadFlatFile \/ FinishFlat
    \/ RestartPublic \/ ChangeLink \/ ChangeFlat \/ TickShelters
    \/ \E d \in DOMAIN LayerOf : SetActiveMapping(d) \/ UnsetActiveMapping(d)

ShelterSpec == ShelterInit /\ [][ShelterNext]_shelterVars

-----------------------------------------------------------------------------
\* Unless the world changes under the visit, the answer is the list of the
\* version now published, at once after a publish; without one that holds
\* shelters it is the list of the flat files, at most an hour late when there is
\* no link at all; and while the link is broken it is the list there was before.
\*
\* Which flat files these are, the mappings tell that this process read when it
\* started (held.mappings), not those of the file: a mapping that is changed
\* reaches no answer before a restart, whatever its age.  That is what the code
\* does, against its own words (shelter_service.py:4-5 and 297-298,
\* layer_types_api.py:158 and 185), and nothing more is claimed here.
NewestSheltersAreListed ==
    (visit.phase = "answered" /\ visit.steady) =>
        LET flat == LoadPaths(flatWorld, <<>>, ResolvePaths(flatWorld, held.mappings))
        IN CASE IsVersion(shelterCurrent) ->
                    visit.list = IF ShelterTrees[shelterCurrent] = NoShelters THEN flat
                                   ELSE LoadFiles(ShelterTrees[shelterCurrent])
             [] shelterCurrent = "absent" -> settled > ShelterTtl => visit.list = flat
             [] OTHER -> visit.list = visit.before
=============================================================================

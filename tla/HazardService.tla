---------------------------- MODULE HazardService ----------------------------
(***************************************************************************)
(* How the public server loads the hazard files of one version when it     *)
(* starts (app_public.py, hazard_service.py) and what it then says of a    *)
(* place.                                                                  *)
(*                                                                         *)
(* Only the bounding boxes of the polygons stay in memory.  Their shapes   *)
(* go to a temporary file, in the order of the boxes (_RingStore), and     *)
(* come back by their position when a safe area is drawn.  A file is       *)
(* loaded wholly or not at all, so what was written of it is taken back    *)
(* when it cannot be read to its end.                                      *)
(*                                                                         *)
(* Places lie on a line.  A ring is [box, inside, level, centre]: the      *)
(* interval that bounds it, the places within it, the grade in its         *)
(* properties and its centroid; a ring without a box cannot be read.  A    *)
(* file is [type, region, rings].                                          *)
(***************************************************************************)
EXTENDS Integers, Sequences, FiniteSets, SequencesExt

CONSTANTS
    Places,         \* the places, as numbers
    FloodBuffer,    \* hazard.flood.proximity_buffer_m
    CellSize,       \* CELL_DEG
    Wanted,         \* hazard.tsunami.targets
    Runtimes,       \* the sequences of files a version may have
    Registered,     \* region -> the rings of its registered tsunami dataset
    MaxFaults,      \* bound on failing writes
    NoBox           \* the box of a ring without proper coordinates

ASSUME PlacesAssumption ==
    /\ Places \subseteq Int /\ IsFiniteSet(Places)
    /\ CellSize \in Nat \ {0} /\ FloodBuffer \in Nat

HazardTypes == {"flood", "storm_surge", "tsunami", "inland_flood", "landslide",
                "lowland_poor_drainage"}
\* These have an array of boxes; the others keep a list of polygons.
ArrayTypes == {"flood", "storm_surge", "tsunami", "landslide"}
\* Of these the shapes are kept in a file; inland_flood is small and kept whole.
StoredTypes == HazardTypes \ {"inland_flood"}
Supplementary == {"lowland_poor_drainage"}

InBox(place, box) == box[1] <= place /\ place <= box[2]

\* The files there may be, and what lies in the box of a ring that has one: its places.
LoadableFiles == UNION {Range(runtime) : runtime \in Runtimes}
Boxed(ring) ==
    /\ ring.inside \subseteq Places /\ ring.box[1] \in Int /\ ring.box[2] \in Int
    /\ \A p \in ring.inside : InBox(p, ring.box)

\* A region whose dataset is registered but not wanted is not evaluated here.
UnwantedRegions == DOMAIN Registered \ Wanted

ASSUME RuntimesAssumption ==
    /\ Runtimes \subseteq Seq(LoadableFiles)
    /\ \A f \in LoadableFiles :
          /\ f.type \in HazardTypes /\ f.rings \in Seq(Range(f.rings))
          /\ \A ring \in Range(f.rings) : ring.box = NoBox \/ Boxed(ring)
    /\ \A region \in UnwantedRegions :
          \A i \in DOMAIN Registered[region] : Boxed(Registered[region][i])

VARIABLES
    polygons,   \* type -> [box, level, centre, shape] of what is loaded; shape: its position, or itself
    stores,     \* type -> [disk, buffer, kept, pending, broken]
    sources,    \* the files that were loaded
    unread,     \* the files still to load
    loading,    \* the file that is being read, [file, at, rings]
    coverage,   \* region whose tsunami data is not wanted here -> its cells, or NoBox
    faults

hazardVars == <<polygons, stores, sources, unread, loading, coverage, faults>>

NotLoading == [file |-> <<>>, at |-> 0, rings |-> <<>>]
EmptyStore == [disk |-> <<>>, buffer |-> <<>>, kept |-> 0, pending |-> 0, broken |-> FALSE]

-----------------------------------------------------------------------------
(* Regions whose tsunami dataset is registered but not loaded              *)

CellOf(place) == place \div CellSize

\* build_index(): the cells of every box, and one more on each side.
Index(rings) ==
    UNION {CellOf(rings[i].box[1]) - 1 .. CellOf(rings[i].box[2]) + 1 : i \in DOMAIN rings}

-----------------------------------------------------------------------------
(* The shapes on disk                                                      *)

Flushed(s) == [s EXCEPT !.disk = @ \o s.buffer, !.buffer = <<>>]
Broken(s) == [s EXCEPT !.broken = TRUE]

\* add(): the position is that of the box.  A full buffer is flushed.
RingPosition(s) == s.kept + s.pending + 1
AddedRing(s, ring, full) ==
    LET added == [s EXCEPT !.buffer = Append(@, ring), !.pending = @ + 1] IN
    IF s.broken THEN s ELSE IF full THEN Flushed(added) ELSE added

\* commit()
Committed(s) ==
    IF s.broken THEN s
    ELSE [Flushed(s) EXCEPT !.kept = @ + s.pending, !.pending = 0]

\* Mutant: only the positions are taken back.
RolledBackInMemory(s) == [s EXCEPT !.pending = 0, !.buffer = <<>>]

\* rollback(): what a full buffer has left on disk is cut off again.
RolledBack(s) ==
    LET dropped == [s EXCEPT !.pending = 0, !.buffer = <<>>] IN
    IF s.broken THEN dropped ELSE [dropped EXCEPT !.disk = SubSeq(@, 1, s.kept)]

-----------------------------------------------------------------------------
(* Start-up                                                                *)

HazardInit ==
    /\ polygons = [t \in HazardTypes |-> <<>>]
    /\ stores = [t \in HazardTypes |-> EmptyStore]
    /\ sources = {} /\ unread \in Runtimes /\ loading = NotLoading
    \* resolve_unevaluated(): an index that cannot be read leaves its region unresolved.
    /\ coverage \in {[r \in UnwantedRegions |-> IF r \in lost THEN NoBox ELSE Index(Registered[r])] :
                        lost \in SUBSET UnwantedRegions}
    /\ faults = 0

Serving == unread = <<>> /\ loading = NotLoading
Keep(s) == stores' = [stores EXCEPT ![loading.file.type] = s]

OpenFile ==
    /\ loading = NotLoading /\ unread # <<>>
    /\ loading' = [file |-> Head(unread), at |-> 0, rings |-> <<>>]
    /\ unread' = Tail(unread)
    /\ UNCHANGED <<polygons, stores, sources, coverage, faults>>

AtRing == loading.file.rings[loading.at + 1]
Reading == loading # NotLoading /\ loading.at < Len(loading.file.rings)

\* The loop of load_geojson_streaming(): a write that fails breaks the store but not the loop.
ReadRing(full, fails) ==
    LET type == loading.file.type
        s == stores[type]
    IN  /\ Reading /\ type \in StoredTypes /\ AtRing.box # NoBox
        /\ full \/ fails => ~s.broken
        /\ fails => full /\ faults < MaxFaults
        /\ loading' = [loading EXCEPT
                !.at = @ + 1,
                !.rings = Append(@, [box |-> AtRing.box, level |-> AtRing.level,
                                     centre |-> AtRing.centre, shape |-> RingPosition(s)])]
        /\ Keep(IF fails THEN Broken(s) ELSE AddedRing(s, AtRing.inside, full))
        /\ faults' = IF fails THEN faults + 1 ELSE faults
        /\ UNCHANGED <<polygons, sources, unread, coverage>>

\* The file ends well: the boxes count from now on, with their shapes if these can be kept.
FileLoaded(fails) ==
    LET type == loading.file.type
        s == stores[type]
    IN  /\ loading # NotLoading /\ type \in StoredTypes /\ ~Reading
        /\ fails => ~s.broken /\ faults < MaxFaults
        /\ polygons' = [polygons EXCEPT ![type] = @ \o loading.rings]
        /\ Keep(IF fails THEN Broken(s) ELSE Committed(s))
        /\ sources' = sources \cup {loading.file}
        /\ faults' = IF fails THEN faults + 1 ELSE faults
        /\ loading' = NotLoading
        /\ UNCHANGED <<unread, coverage>>

\* The except clause: a file that cannot be read is left out, with a line in the log.
FileFails(fails) ==
    LET type == loading.file.type
        s == stores[type]
    IN  /\ Reading /\ type \in StoredTypes /\ AtRing.box = NoBox
        /\ fails => ~s.broken /\ faults < MaxFaults
        /\ Keep(IF fails THEN Broken(RolledBackInMemory(s)) ELSE RolledBack(s))
        /\ faults' = IF fails THEN faults + 1 ELSE faults
        /\ loading' = NotLoading
        /\ UNCHANGED <<polygons, sources, unread, coverage>>

\* load(): a file that is small is parsed as a whole, and kept with its shapes.
LoadWhole ==
    LET file == loading.file
        kept == [i \in DOMAIN file.rings |->
                   [box |-> file.rings[i].box, level |-> file.rings[i].level,
                    centre |-> file.rings[i].centre, shape |-> file.rings[i].inside]]
    IN  /\ loading # NotLoading /\ file.type \notin StoredTypes
        /\ IF \E i \in DOMAIN file.rings : file.rings[i].box = NoBox
           THEN UNCHANGED <<polygons, sources>>
           ELSE /\ polygons' = [polygons EXCEPT ![file.type] = @ \o kept]
                /\ sources' = sources \cup {file}
        /\ loading' = NotLoading
        /\ UNCHANGED <<stores, unread, coverage, faults>>

HazardNext ==
    \/ OpenFile \/ LoadWhole
    \/ \E full, fails \in BOOLEAN : ReadRing(full, fails)
    \/ \E fails \in BOOLEAN : FileLoaded(fails) \/ FileFails(fails)
HazardSpec == HazardInit /\ [][HazardNext]_hazardVars

-----------------------------------------------------------------------------
(* What is said of a place                                                 *)

IsLoaded(type) == polygons[type] # <<>>
LoadedTypes == {t \in HazardTypes : IsLoaded(t)}

Wider(box, n) == <<box[1] - n, box[2] + n>>
\* check_point(): by the box, near a flood box as well; by the shape where it is in memory.
Hits(type, place) ==
    {i \in DOMAIN polygons[type] :
        IF type = "flood" THEN InBox(place, Wider(polygons[type][i].box, FloodBuffer))
        ELSE IF type \in StoredTypes THEN InBox(place, polygons[type][i].box)
        ELSE place \in polygons[type][i].shape}

\* check_hazards()
HazardsAt(place) == {t \in LoadedTypes \ Supplementary : Hits(t, place) # {}}

\* check_point_assessment(), check_inland_flood_detail(), check_landslide_detail()
StatusAt(type, place) ==
    IF ~IsLoaded(type) THEN "unknown"
    ELSE IF Hits(type, place) # {} THEN "inside" ELSE "outside"

\* The first polygon of inland_flood that is hit tells the depth, the worst landslide zone
\* its kind, if the kind is spelled like this.
FirstHit(type, place) == polygons[type][CHOOSE i \in Hits(type, place) :
                                           \A j \in Hits(type, place) : i <= j]
SpecialZones == {"special", "tokubetsu_keikai_kuiki"}   \* 特別警戒区域
LevelAt(type, place) ==
    IF Hits(type, place) = {} THEN "none"
    ELSE CASE type = "inland_flood" -> FirstHit(type, place).level
           [] type = "landslide" ->
                IF \E i \in Hits(type, place) : polygons[type][i].level \in SpecialZones
                THEN "critical" ELSE "danger"
           [] OTHER -> "none"

MissingTargets == {r \in Wanted : ~\E f \in sources : f.type = "tsunami" /\ f.region = r}

\* tsunami_unevaluated_region_at()
NotEvaluatedAt(place) ==
    \E r \in UnwantedRegions : coverage[r] = NoBox \/ CellOf(place) \in coverage[r]

\* Mutant: what is outside the polygons that are here is outside.
AssessWhatIsHere(place) == [t \in LoadedTypes |-> StatusAt(t, place)]

\* assess_candidate(): whoever is outside of what is here may be inside of what is not.
AssessCandidate(place) ==
    [t \in LoadedTypes \cup (IF MissingTargets # {} THEN {"tsunami"} ELSE {}) |->
        IF /\ t = "tsunami"
           /\ MissingTargets # {} \/ (StatusAt(t, place) = "outside" /\ NotEvaluatedAt(place))
        THEN "unknown" ELSE StatusAt(t, place)]

\* compute_hazard_coverage_status(): a type that is not loaded is not passed over in silence.
CoverageStatus(assessment) ==
    [t \in HazardTypes |->
        IF t \notin DOMAIN assessment THEN "SOURCE_UNAVAILABLE"
        ELSE CASE assessment[t] = "inside" -> "HAZARD_DETECTED"
               [] assessment[t] = "outside" -> "NO_HAZARD_RECORD"
               [] OTHER -> "SOURCE_UNAVAILABLE"]

\* compute_aggregate_status()
AggregateAt(place) ==
    LET statuses == Range(CoverageStatus(AssessCandidate(place))) IN
    IF "HAZARD_DETECTED" \in statuses THEN "HAZARD_DETECTED"
    ELSE IF "SOURCE_UNAVAILABLE" \in statuses THEN "SOURCE_UNAVAILABLE" ELSE "NO_HAZARD_RECORD"

-----------------------------------------------------------------------------
(* The shapes near a place                                                 *)

Overlaps(box, from, to) == box[1] <= to /\ from <= box[2]
Nearby(type, from, to) == {i \in DOMAIN polygons[type] : Overlaps(polygons[type][i].box, from, to)}

\* A shape is there when its store is sound and knows as many shapes as there are boxes.
ShapeThere(type, i) ==
    \/ type \notin StoredTypes
    \/ /\ ~stores[type].broken
       /\ IF type \in ArrayTypes THEN stores[type].kept = Len(polygons[type])
          ELSE polygons[type][i].shape <= stores[type].kept
ShapeOf(type, i) ==
    IF type \in ArrayTypes THEN stores[type].disk[i]
    ELSE IF type \in StoredTypes THEN stores[type].disk[polygons[type][i].shape]
    ELSE polygons[type][i].shape

\* hazard_rings_in_bbox()
RingsNearby(from, to) == UNION {{<<t, i>> : i \in Nearby(t, from, to)} : t \in LoadedTypes}
RingsAvailable(from, to) == \A r \in RingsNearby(from, to) : ShapeThere(r[1], r[2])
=============================================================================

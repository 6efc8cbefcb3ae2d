-------------------------- MODULE StagingValidation --------------------------
(***************************************************************************)
(* What a staged tree must satisfy to become a version                     *)
(* (runtime_dataset_validate.py): the GeoJSON schema of every file, the    *)
(* properties its hazard type requires, the layout the readers rely on,    *)
(* the agreement of the tsunami files with the configuration, and how much *)
(* may disappear since the version before; and the reuse of what that      *)
(* version's validation already found.                                     *)
(*                                                                         *)
(* A tree is a function from paths to contents, a sha256 is the content.   *)
(* A content repeats one item: [form, items, item].  Empty directories and *)
(* the statistics are left out.                                            *)
(***************************************************************************)
EXTENDS Integers, Sequences, FiniteSets, Functions

CONSTANTS
    Stagings,       \* the trees a deploy may stage
    Targets,        \* the values hazard.tsunami.targets may have
    Unreadable,     \* the configuration cannot be read
    Ref,            \* the owner's approval of a migration
    MaxNesting,     \* bound: collections within collections (the interpreter's recursion limit)
    NoVersion

ASSUME StagingAssumption ==
    /\ MaxNesting \in Nat
    /\ \A tree \in Stagings : \A p \in DOMAIN tree : tree[p].items \in Nat

VARIABLES
    served,        \* the version that is served: files on disk and its manifest
    targets,        \* what the consumer's configuration says
    contract        \* VALIDATION_CONTRACT: changes with every change of the rules

stagingVars == <<served, targets, contract>>

-----------------------------------------------------------------------------
(* GeoJSON *)

NotANumber == 999

Position(p) ==
    /\ Len(p) >= 2
    /\ \A i \in 1 .. Len(p) : p[i] # NotANumber
    /\ p[1] \in -180 .. 180 /\ p[2] \in -90 .. 90

PositionList(ps, atLeast) == Len(ps) >= atLeast /\ \A p \in Range(ps) : Position(p)
LinearRing(ps) == PositionList(ps, 4) /\ ps[1] = ps[Len(ps)]
PolygonCoords(rings) == rings # <<>> /\ \A r \in Range(rings) : LinearRing(r)

GeometryTypes == {"Point", "MultiPoint", "LineString", "MultiLineString", "Polygon",
                  "MultiPolygon", "GeometryCollection"}

SimpleGeometry(g) ==
    CASE g.type = "Point"           -> Position(g.coordinates)
      [] g.type = "MultiPoint"      -> PositionList(g.coordinates, 1)
      [] g.type = "LineString"      -> PositionList(g.coordinates, 2)
      [] g.type = "MultiLineString" ->
            g.coordinates # <<>> /\ \A l \in Range(g.coordinates) : PositionList(l, 2)
      [] g.type = "Polygon"         -> PolygonCoords(g.coordinates)
      [] g.type = "MultiPolygon"    ->
            g.coordinates # <<>> /\ \A p \in Range(g.coordinates) : PolygonCoords(p)
      [] OTHER                      -> FALSE

\* A collection is what it is made of; Within[n] is what lies n collections deep.
IsCollection(g) == g.type = "GeometryCollection"
Geometry(g) ==
    LET Within[n \in 0 .. MaxNesting] ==
            IF n = 0 THEN {g}
            ELSE UNION {Range(c.geometries) : c \in {h \in Within[n - 1] : IsCollection(h)}}
    IN  \A n \in 0 .. MaxNesting : \A h \in Within[n] :
            IF IsCollection(h) THEN n < MaxNesting ELSE SimpleGeometry(h)

-----------------------------------------------------------------------------
(* What each hazard type requires *)

Needs(key, kinds) == [key |-> key, kinds |-> kinds, range |-> {}]
InRange(key, low, high) == [key |-> key, kinds |-> {"int"}, range |-> {<<low, high>>}]
Texts(keys) == {Needs(k, {"str"}) : k \in keys}
Numbers(keys) == {Needs(k, {"int", "float"}) : k \in keys}

PropertyRules(type) ==
    CASE type = "flood"        -> {InRange("flood_rank", 1, 5)}
      [] type = "storm_surge"  -> {InRange("storm_surge_rank", 0, 7)}
      [] type = "landslide"    ->
            Texts({"hazard_type", "landslide_type", "zone_type", "severity_level",
                   "zone_name", "pref_code", "source"})
      [] type = "inland_flood" ->
            {InRange("depth_rank", 0, 7)} \cup Numbers({"depth_min_m"})
                \cup Texts({"depth_label", "zone_name", "city_code"})
      [] type = "tsunami"      -> Texts({"A40_001", "A40_002", "A40_003"})
      [] type = "lowland_poor_drainage" ->
            {InRange("risk_score", 0, 10)} \cup Numbers({"elevation_m", "depth_below_tide_m"})
                \cup Texts({"dataset", "source", "risk", "region"})
      [] OTHER                 -> {}

MinFeatureCount(type) ==
    CASE type \in {"flood", "storm_surge", "tsunami", "landslide"} -> 100
      [] type \in {"inland_flood", "lowland_poor_drainage"} -> 50
      [] OTHER -> 1

WiredTypes == {"flood", "storm_surge", "tsunami", "inland_flood", "landslide",
               "lowland_poor_drainage", "pseudo_inland_flood"}

\* properties is null where there is no key.  The ranges, and the layout of the
\* flood files, came with contract 2.
Feature(f, type, rules) ==
    /\ f.form = "Feature"
    /\ \A r \in PropertyRules(type) :
        /\ r.key \in DOMAIN f.properties
        /\ f.properties[r.key].kind \in r.kinds
        /\ rules >= 2 => \A bounds \in r.range :
                f.properties[r.key].value \in bounds[1] .. bounds[2]
    /\ \A g \in f.geometry : Geometry(g)          \* no geometry at all is allowed

\* The number of features of a document, {} when it is refused.
DocumentCount(content, type, rules) ==
    CASE content.form = "FeatureCollection" ->
            IF content.items = 0 \/ Feature(content.item, type, rules)
            THEN {content.items} ELSE {}
      [] content.form = "Feature" ->
            IF Feature(content.item, type, rules) THEN {1} ELSE {}
      [] content.form \in GeometryTypes ->
            IF PropertyRules(type) = {} /\ Geometry(content.item) THEN {1} ELSE {}
      [] OTHER -> {}

\* The number of features of a file that passes, {} when it does not.
FileCount(path, content, rules) ==
    CASE path.suffix = ".geojson"  -> DocumentCount(content, path.type, rules)
      [] path.suffix = ".geojsonl" ->
            IF content.form = "Feature" /\ Feature(content.item, path.type, rules)
            THEN {content.items} ELSE {}
      [] OTHER -> IF content.form = "broken" THEN {} ELSE {0}

IsGeo(path) == path.suffix \in {".geojson", ".geojsonl"}

FileIsValid(path, content, rules) ==
    \E n \in FileCount(path, content, rules) :
        IsGeo(path) => n >= MinFeatureCount(path.type)

\* _count_features_in_file() counts without validating.
Counted(path, content) ==
    CASE content.form = "broken" -> 0
      [] path.suffix = ".geojsonl" \/ content.form = "FeatureCollection" -> content.items
      [] OTHER -> IF content.form = "Feature" THEN 1 ELSE 0

-----------------------------------------------------------------------------
(* The layout of the tree *)

Paths(tree) == DOMAIN tree
OfType(tree, type) == {p \in Paths(tree) : p.type = type}

IsRouting(p) == p.type = "flood" /\ p.name = "routing"
IsLegacyFlood(p) == p.type = "flood" /\ p.name # "routing"

FloodLayout(tree) ==
    \A p \in OfType(tree, "flood") : p.region # "" /\ IsRouting(p) /\ p.suffix = ".geojson"

TypesAreWired(tree) == \A p \in Paths(tree) : p.hazard => p.type \in WiredTypes

\* The files are exactly the targets the consumer will read.
TsunamiAgrees(tree) ==
    /\ targets # Unreadable
    /\ \A p \in OfType(tree, "tsunami") : p.region = "" /\ p.suffix = ".geojson"
    /\ {p.name : p \in OfType(tree, "tsunami")} = targets

-----------------------------------------------------------------------------
(* The version before *)

\* verify_manifest_matches_disk()
ManifestMatchesDisk(version) == version.files = version.manifest

GeoCounts(tree, paths) == [p \in {q \in paths : IsGeo(q)} |-> Counted(p, tree[p])]

\* ReusableUnderAnyRules does not ask which rules the last validation applied.
ReusableUnderAnyRules(tree, reuse, migration) ==
    IF reuse /\ served # NoVersion /\ ~migration
    THEN {p \in Paths(tree) \cap DOMAIN served.manifest :
            served.manifest[p] = tree[p] /\ (IsGeo(p) => p \in DOMAIN served.counts)}
    ELSE {}

\* What the last validation found is taken over for a file that has not changed,
\* under the same rules.
Reusable(tree, reuse, migration) ==
    IF reuse /\ served # NoVersion /\ ~migration /\ served.contract = contract
    THEN {p \in Paths(tree) \cap DOMAIN served.manifest :
            served.manifest[p] = tree[p] /\ (IsGeo(p) => p \in DOMAIN served.counts)}
    ELSE {}

\* The first deploy of routing artifacts: only once, only with an approval, and
\* only if every legacy file has a successor in its region.
MigrationIsPlanned(tree, counts, ref) ==
    LET legacy == {p \in DOMAIN counts : IsLegacyFlood(p)} IN
    /\ ref = Ref
    /\ served # NoVersion
    /\ legacy # {}
    /\ \A p \in legacy : \E q \in Paths(tree) : IsRouting(q) /\ q.region = p.region

\* Counts too small to compare are left alone.
Baseline == 10

\* LostEntirely only notices a dataset that has become empty.
LostEntirely(before, now) == before >= Baseline /\ now = 0
DroppedByHalf(before, now) == before >= Baseline /\ 2 * now < before

-----------------------------------------------------------------------------
(* validate_and_manifest_staging() and write_manifest() *)

Validated(tree, reuse, migration, ref) ==
    LET reusable == Reusable(tree, reuse, migration)
        reuseIsOn == reuse /\ served # NoVersion /\ ~migration /\ served.contract = contract
        before == IF served = NoVersion THEN <<>>
                  ELSE GeoCounts(served.files,
                                 IF reuseIsOn THEN DOMAIN served.manifest \ reusable
                                 ELSE DOMAIN served.files)
        counts == [p \in {q \in Paths(tree) : IsGeo(q)} |->
                     IF p \in reusable THEN served.counts[p]
                     ELSE CHOOSE n \in FileCount(p, tree[p], contract) : TRUE]
        exempt == {p \in DOMAIN before : migration /\ IsLegacyFlood(p)}
    IN
    /\ Paths(tree) # {}
    /\ contract >= 2 => FloodLayout(tree)
    /\ TypesAreWired(tree) /\ TsunamiAgrees(tree)
    /\ served # NoVersion => ManifestMatchesDisk(served)
    /\ migration => MigrationIsPlanned(tree, before, ref)
    /\ \A p \in Paths(tree) \ reusable : FileIsValid(p, tree[p], contract)
    /\ \A p \in (DOMAIN before \cap Paths(tree)) \ reusable : ~DroppedByHalf(before[p], counts[p])
    /\ \A p \in DOMAIN before \ (Paths(tree) \cup exempt) : before[p] < Baseline
    /\ served' = [files |-> tree, manifest |-> tree, counts |-> counts,
                   contract |-> contract, migrated |-> migration]

PublishStaging(tree, reuse, migration, ref) ==
    /\ Validated(tree, reuse, migration, ref)
    /\ UNCHANGED <<targets, contract>>

\* A file of the served version is damaged on disk.
Damage(p) ==
    /\ served # NoVersion /\ p \in DOMAIN served.files
    /\ served.files[p].form # "broken"
    /\ served' = [served EXCEPT !.files[p].form = "broken"]
    /\ UNCHANGED <<targets, contract>>

\* A release with stricter rules is deployed; the configuration is edited.
RulesChange == contract = 1 /\ contract' = 2 /\ UNCHANGED <<served, targets>>
ConfigChanges(new) == targets' = new /\ UNCHANGED <<served, contract>>

StagingInit ==
    /\ served = NoVersion
    /\ targets \in Targets
    /\ contract = 1

StagingNext ==
    \/ \E tree \in Stagings, reuse, migration \in BOOLEAN, ref \in {Ref, ""} :
            PublishStaging(tree, reuse, migration, ref)
    \/ served # NoVersion /\ \E p \in DOMAIN served.files : Damage(p)
    \/ RulesChange
    \/ \E new \in Targets \cup {Unreadable} : ConfigChanges(new)

StagingSpec == StagingInit /\ [][StagingNext]_stagingVars

-----------------------------------------------------------------------------
(* Properties *)

\* However often a publish took over what earlier ones found, and whatever
\* changed in between, every file a version was published with satisfies the
\* rules the manifest names, and the manifest counts what is in it.
ReuseIsSound ==
    served # NoVersion =>
        \A p \in DOMAIN served.manifest :
            /\ FileIsValid(p, served.manifest[p], served.contract)
            /\ IsGeo(p) => served.counts[p] \in FileCount(p, served.manifest[p], served.contract)

\* No publish loses a dataset, or more than half of one, that was being served,
\* but for the legacy flood files of an approved migration.
NothingVanishes ==
    [][served # NoVersion /\ served'.manifest # served.manifest =>
        \A p \in DOMAIN served.manifest :
            LET before == Counted(p, served.manifest[p]) IN
            IsGeo(p) /\ before >= Baseline =>
                \/ p \in DOMAIN served'.manifest
                        /\ 2 * Counted(p, served'.manifest[p]) >= before
                \/ served'.migrated /\ IsLegacyFlood(p)]_stagingVars
=============================================================================

----------------------------- MODULE MCServices -----------------------------
(***************************************************************************)
(* Small instances of the components that share no state with each other:  *)
(* each behaviour is one of the component in focus, while the others stay  *)
(* as they start.                                                          *)
(***************************************************************************)
EXTENDS EarthquakeFeed, ConfigState, LiveCaches, LiveSections, WeatherAlerts, MCRouteRisk,
        OperatorGateway, StagingValidation, TileMirror, AcquisitionHistory, DataConsole,
        EvacuationSearch, MCNormalizers, FileDeploy, RoutingEngine, ShelterRegistry, StagingBuild,
        Simulation, LiveObservations, UploadSessions, HazardFiles, TLC

CONSTANT Focuses      \* the components to look at

VARIABLE focus

-----------------------------------------------------------------------------
(* The feed *)

MCMessages ==
    {[code |-> 551, id |-> i, quake |-> "q1"] : i \in {"a", "b"}}
    \cup {[code |-> 551, id |-> None, quake |-> "q2"], [code |-> 556, id |-> "a", quake |-> "q1"],
          [code |-> 551, id |-> "c", quake |-> None]}

-----------------------------------------------------------------------------
(* The configuration: an integer and a float, both bounded *)

Setting(type, lo, hi, default) ==
    [type |-> type, editable |-> TRUE, bounded |-> TRUE, lo |-> lo, hi |-> hi,
     options |-> {}, default |-> default]
MCKeys == {"n", "f"}
MCDefinition ==
    [n |-> Setting("integer", 2, 4, <<"integer", 2>>), f |-> Setting("float", 1, 4, <<"float", 1>>)]
MCInputs == {[kind |-> "number", val |-> v] : v \in {2, 3, 4, NaN}}
            \cup {[kind |-> "word", val |-> "word"]}

-----------------------------------------------------------------------------
(* The caches *)

MCTtl == [a \in Adapters |-> IF a \in {"weather", "geocode"} THEN 3 ELSE 2]

-----------------------------------------------------------------------------
(* The sections: two prefectures, A and B, and a few answers of each source *)

TileOf(near, failed, strong, severe) ==
    [near |-> near, failed |-> failed, strong |-> strong, severe |-> severe]
RainTiles == {TileOf("A", TRUE, 0, 0), TileOf("A", FALSE, 1, 0), TileOf("A", FALSE, 2, 0),
              TileOf("B", FALSE, 0, 1), TileOf("B", FALSE, 1, 1)}
MCRains == {[source |-> "ok", tiles |-> <<a, b>>] : a, b \in RainTiles}
           \cup {[source |-> s, tiles |-> <<>>] : s \in {"offline", "too_many_tiles"}}

Sample(point, hazard, pixels) == [point |-> point, hazard |-> hazard, pixels |-> pixels]
PixelSets == {{}, {"normal", "unknown"}, {"normal"}, {"watch", "unknown"}, {"warning"},
              {"normal", "danger"}}
MCSamples ==
    {<<>>} \cup {<<Sample("A", "land", a), Sample("A", "inund", b), Sample("B", "land", c)>> :
                   a \in PixelSets, b \in {{}, {"watch"}}, c \in {{}, {"normal"}, {"warning"}}}

SurgeOf(down, items) == [name |-> "A", down |-> down, items |-> items]
MCSurges == {<<SurgeOf(FALSE, i)>> : i \in {<<>>, <<"19">>, <<"19", "38">>}}
            \cup {<<SurgeOf(TRUE, <<>>)>>}

QuakesOf(down, quakes) == [down |-> down, quakes |-> quakes]
QuakeAt(place, magnitude) == [place |-> place, magnitude |-> magnitude]
MCQuakes ==
    {QuakesOf(TRUE, <<>>)}
    \cup {QuakesOf(FALSE, q) : q \in {<<>>, <<QuakeAt("Q", 4), QuakeAt("Q", 6)>>,
                                      <<QuakeAt("Q", 5), QuakeAt("A", 6)>>}}

ReportOf(kind) == [readable |-> TRUE, cancelled |-> FALSE,
                   items |-> <<[name |-> "T", kind |-> kind]>>]
NoItems == [readable |-> TRUE, cancelled |-> FALSE, items |-> <<>>]
Bulletins(down, short, long) == [down |-> down, short |-> short, long |-> long]
MCJma ==
    {Bulletins(FALSE, <<>>, <<>>), Bulletins(TRUE, <<>>, <<>>),
     Bulletins(FALSE, <<[NoItems EXCEPT !.readable = FALSE], ReportOf("warning")>>, <<>>),
     Bulletins(FALSE, <<>>, <<ReportOf("advisory")>>),
     Bulletins(FALSE, <<[NoItems EXCEPT !.cancelled = TRUE], ReportOf("warning")>>, <<>>)}
MCP2p == {[down |-> TRUE, reports |-> <<>>],
          [down |-> FALSE, reports |-> <<[cancelled |-> FALSE,
                                          items |-> <<[name |-> "", kind |-> "major_warning"]>>]>>]}

MCAnswers == [rain |-> MCRains, kikikuru |-> MCSamples, surge |-> MCSurges, quakes |-> MCQuakes,
              tsunami |-> [jma : MCJma, p2p : MCP2p]]
MCCalm ==
    [rain |-> [source |-> "ok", tiles |-> <<TileOf("A", FALSE, 1, 0), TileOf("A", FALSE, 1, 0)>>],
     kikikuru |-> <<Sample("A", "land", {"normal"}), Sample("A", "inund", {}),
                    Sample("B", "land", {"normal"})>>,
     surge |-> <<SurgeOf(FALSE, <<>>)>>, quakes |-> QuakesOf(FALSE, <<>>),
     tsunami |-> [jma |-> Bulletins(FALSE, <<>>, <<>>), p2p |-> [down |-> TRUE, reports |-> <<>>]]]

-----------------------------------------------------------------------------
(* The warnings: a code the table knows and one it does not *)

MCNameGrade == [k3 |-> "advisory", k9 |-> "unknown"]
MCCodeSeverity == [k3 |-> "warning"]
MCCityArea == [tokyo |-> "a20"]
MCCityLabels == [tokyo |-> {}, tama |-> {"west"}, far |-> {}]
MCAreaLabel == [a10 |-> "west", a20 |-> "east"]

-----------------------------------------------------------------------------
(* The operator: a job whose second command is not in the catalog *)

MCPlan == [job |-> <<"exec:profile_rebuild:extract", "restart:unknown">>,
           shutdown |-> <<"stop:operator-gateway">>]

-----------------------------------------------------------------------------
(* The staged trees *)

PathOf(type, region, name, suffix) ==
    [type |-> type, region |-> region, name |-> name, suffix |-> suffix, hazard |-> type # ""]
RoutingPath == PathOf("flood", "tokyo", "routing", ".geojson")
LegacyPath == PathOf("flood", "tokyo", "legacy", ".geojsonl")
TsunamiPath(target) == PathOf("tsunami", "", target, ".geojson")
PseudoPath == PathOf("pseudo_inland_flood", "tokyo", "a", ".geojson")
TilesPath == PathOf("", "tokyo", "tiles", ".mbtiles")

ValueOf(kind, value) == [kind |-> kind, value |-> value]
FeatureOf(properties, geometry) ==
    [form |-> "Feature", properties |-> properties, geometry |-> geometry]
Collection(n, feature) == [form |-> "FeatureCollection", items |-> n, item |-> feature]
Lines(n, feature) == [form |-> "Feature", items |-> n, item |-> feature]
Ranked(value) == FeatureOf([flood_rank |-> value], {})
Plain(g) == FeatureOf(<<>>, {g})
TsunamiFeature == FeatureOf([A40_001 |-> ValueOf("str", 1), A40_002 |-> ValueOf("str", 1),
                             A40_003 |-> ValueOf("str", 1)], {})

Triangle == <<<<139, 35>>, <<140, 35>>, <<140, 36>>, <<139, 35>>>>
Shape(type, coordinates) == [type |-> type, coordinates |-> coordinates]
Together(geometries) == [type |-> "GeometryCollection", geometries |-> geometries]
Square == Shape("Polygon", <<Triangle>>)
Shapes ==
    {Square, Shape("Polygon", <<Tail(Triangle)>>), Shape("Point", <<139, 35>>),
     Shape("Point", <<181, 35>>), Shape("MultiPoint", <<<<1, 2>>>>),
     Shape("LineString", <<<<1, 2>>>>), Shape("MultiLineString", <<<<<<1, 2>>, <<1, 3>>>>>>),
     Shape("MultiPolygon", <<<<Triangle>>>>), [type |-> "Box"],
     Together(<<Shape("Point", <<1, NotANumber>>)>>),
     Together(<<Together(<<Shape("Point", <<1, 2, 3>>)>>), Square>>)}

NoTiles == [form |-> "Feature", items |-> 0]
Staged(files) == files @@ (TsunamiPath("tokyo") :> Collection(100, TsunamiFeature))
Rank3 == Ranked(ValueOf("int", 3))
WithShapes(path) == {Staged(path :> Collection(1, Plain(g))) : g \in Shapes}

MCStagings ==
    WithShapes(PseudoPath)
    \cup {Staged(RoutingPath :> Collection(n, Rank3)) : n \in {100, 199, 200}}
    \cup {Staged((PseudoPath :> Collection(n, Plain(Square))) @@ (TilesPath :> NoTiles)) :
            n \in {0, 10, 30}}
    \cup {Staged(RoutingPath :> Collection(200, Ranked(ValueOf("int", 9)))),
          Staged(RoutingPath :> Collection(200, Ranked(ValueOf("bool", 1)))),
          Staged(LegacyPath :> Lines(100, Rank3)),
          Staged((LegacyPath :> Lines(300, Rank3)) @@ (TilesPath :> NoTiles)),
          Staged((RoutingPath :> Collection(100, Rank3)) @@ (LegacyPath :> Lines(100, Rank3))),
          Staged(TsunamiPath("chiba") :> Collection(100, TsunamiFeature)),
          Staged(PseudoPath :> [form |-> "Point", items |-> 1, item |-> Shape("Point", <<139, 35>>)]),
          Staged(PathOf("lava", "x", "a", ".geojson") :> Collection(1, Plain(Square))),
          Staged(PseudoPath :> Lines(1, Plain(Square))),
          Staged(TilesPath :> [form |-> "broken", items |-> 0])}
MCTargets == {{"tokyo"}, {"tokyo", "chiba"}}

-----------------------------------------------------------------------------
(* The tile mirror: one tileset that moves from one path to another, and one *)
(* that is retired.                                                        *)

CONSTANTS oldTiles, newTiles, goneTiles, x

MCRels == {oldTiles, newTiles, goneTiles}
MCTilesetOf == (oldTiles :> newTiles) @@ (newTiles :> newTiles) @@ (goneTiles :> goneTiles)
MCRetired == (oldTiles :> {}) @@ (newTiles :> {}) @@ (goneTiles :> {x})
MCMigrated == {[from |-> oldTiles, to |-> newTiles, sha |-> x]}
MCFirstTree == (oldTiles :> x) @@ (newTiles :> Absent) @@ (goneTiles :> x)

\* No guard reads the exit code of a script that has ended; the properties read
\* it in the step that sets it.
ViewWithoutExit == <<shelf, current, mirror, temp, pc, job, overlapped, strayed,
                     provenance, handPlaced, scripts>>


-----------------------------------------------------------------------------
(* The sources: a dataset made of two files, of which one is registered, and *)
(* one whose file nobody has registered.                                     *)

FileOf(name, sha) == [name |-> name, size |-> 1, sha |-> sha]
RawOf(f, members) == [file |-> f, members |-> members]

MCCodeIn ==
    [n \in {"a", "a2", "b", "c", "zip"} |->
        CASE n = "a" -> "13" [] n = "a2" -> "14" [] OTHER -> Missing]
MCDefinitions ==
    [rivers |-> [mode |-> "all_required", patterns |-> <<{"a"}, {"b"}>>, required |-> 2,
                 expected |-> [a |-> "sha-a", b |-> "sha-b"], code |-> "13"],
     roads |-> [mode |-> "single", patterns |-> <<>>, required |-> 0,
                expected |-> [c |-> Missing], code |-> Missing],
     tides |-> [mode |-> Missing, patterns |-> <<>>, required |-> 0, expected |-> <<>>,
                code |-> Missing]]

RiversZip(sha) == RawOf(FileOf("zip", "sha-zip"), <<FileOf("a", "sha-a"), FileOf("b", sha)>>)
MCUploads ==
    [rivers |-> {RiversZip("sha-b"), RiversZip("sha-c"), RawOf(FileOf("a", "sha-a"), <<>>)},
     roads |-> {RawOf(FileOf("c", "sha-b"), <<>>)},
     tides |-> {RawOf(FileOf("c", Missing), <<>>)}]

-----------------------------------------------------------------------------
(* The console: a river dataset whose canonical is here, one that is verified   *)
(* by its record, and a dataset whose canonical is served itself.               *)

Rivers(layer, byRecord) ==
    MCDefinitions.rivers @@
    [layer |-> layer, byRecord |-> byRecord, superseded |-> {"old"}, named |-> TRUE,
     tile |-> "required", loaded |-> "yes"]
RiverDef == Rivers("flood", FALSE)
RecordDef == Rivers("flood", TRUE)
SurgeDef == Rivers("storm_surge", FALSE)

SourceOf(sha, validity) ==
    [method |-> "upload", outer |-> "zip", validity |-> validity,
     files |-> <<FileOf("a", "sha-a"), FileOf("b", sha)>>]
MetaOf(canonical, artifact) == [source |-> canonical, artifact |-> artifact]
BuildOf(canonical, artifact) == [canonical |-> canonical, artifact |-> artifact]
RecordOf(canonical, artifact, src) ==
    [readable |-> TRUE, canonical |-> canonical, artifact |-> artifact, source |-> src,
     tile |-> "t1"]
ViewOf(artifact, record) ==
    [ok |-> TRUE, deployed |-> TRUE, artifact |-> artifact, record |-> record, tile |-> "t1"]
TileAt(mirrored, catalog) == [mirror |-> mirrored, broken |-> FALSE, catalog |-> catalog]
InputOf(actual, src) == [expected |-> "dem", actual |-> actual, source |-> src]
MadeOf(input, output) == [inputs |-> {input}, output |-> output, expected |-> "c1"]

SightOf(def, canonical, artifact) ==
    [def |-> def, acquisition |-> SourceOf("sha-b", "valid"), raw |-> RiversZip("sha-b"),
     canonical |-> canonical, failed |-> FALSE, meta |-> MetaOf("c1", "r1"), routing |-> TRUE,
     build |-> BuildOf("c1", "r1"),
     view |-> ViewOf(artifact, RecordOf("c1", artifact, SourceOf("sha-b", "valid"))),
     tile |-> TileAt("t1", "with"), upstream |-> Missing]
MCFirstSights ==
    {SightOf(RiverDef, "c1", "r1"), SightOf(SurgeDef, "c1", "c1"),
     [SightOf(RecordDef, Missing, "r1") EXCEPT !.acquisition = Missing, !.raw = Missing]}

MCSights ==
    [def |-> {RiverDef, RecordDef, SurgeDef, [RiverDef EXCEPT !.expected.b = Missing],
              [SurgeDef EXCEPT !.tile = "optional", !.loaded = "no"],
              [SurgeDef EXCEPT !.tile = "not_applicable"]},
     acquisition |-> {Missing, SourceOf("sha-c", "valid"), SourceOf("sha-b", "unknown"),
                      [SourceOf("sha-b", "valid") EXCEPT !.method = "legacy_unknown"]},
     raw |-> {Missing, RawOf(FileOf("a2", "sha-x"), <<>>),
              RawOf(FileOf("zip", "sha-x"), <<FileOf("a2", "sha-x")>>)},
     canonical |-> {Missing, "c1", "c2", "old"}, failed |-> BOOLEAN,
     meta |-> {Missing, MetaOf("c1", "r1"), MetaOf("c2", "r2"), MetaOf("c2", "r1")},
     routing |-> BOOLEAN, build |-> {Missing, BuildOf("c1", "r1"), BuildOf("c2", "r2")},
     view |-> {ViewOf(a, r) : a \in {"r1", "c1"},
                              r \in {Missing, [readable |-> FALSE], RecordOf("c2", "r1", Missing),
                                     RecordOf("c1", "r1", SourceOf("sha-c", "valid"))}}
              \cup {[ViewOf("old", Missing) EXCEPT !.tile = Missing], ViewOf(Missing, Missing),
                    [ViewOf(Missing, Missing) EXCEPT !.ok = FALSE]},
     tile |-> {TileAt("t1", "unknown"), TileAt("t1", "without"), TileAt("t2", "with"),
               [TileAt("t1", "with") EXCEPT !.broken = TRUE]},
     upstream |-> {Missing, MadeOf(InputOf("dem", "OK"), "c1"), MadeOf(InputOf("dem", "WARNING"), "c1"),
                   MadeOf(InputOf("dem2", "OK"), "c1"), MadeOf(InputOf(Missing, "OK"), "c2")}]

-----------------------------------------------------------------------------
(* A coast of seven places, 100 m apart.  The user is at 1, where tsunami    *)
(* and flood reach; 2 and 3 are in the box of the storm surge, 4 is free,    *)
(* 5 slides and 6 belongs to a region that this server does not evaluate.    *)

MCPlaces == 0 .. 6
MCElevation == [p \in MCPlaces |-> CASE p = 0 -> NoElevation [] p = 1 -> 5 [] p \in {3, 4} -> 12
                                     [] OTHER -> 40]
MCSearches ==
    {[at |-> p, minGain |-> 5, maxDistance |-> 500, mode |-> m] : p \in {0, 1, 3}, m \in {"walking", "driving"}}
Shelter(place) == [at |-> place, types |-> {"tsunami"}]
MCShelters ==
    {<<>>, <<Shelter(2), Shelter(4)>>, <<Shelter(2), Shelter(4), Shelter(2)>>,
     <<Shelter(5), Shelter(4), Shelter(3)>>}

Ring(from, to, inside, level) ==
    [box |-> <<from, to>>, inside |-> inside, level |-> level, centre |-> (from + to) \div 2]
Bad == [box |-> NoBox, inside |-> {}, level |-> "", centre |-> 0]
HazardFile(type, region, rings) == [type |-> type, region |-> region, rings |-> rings]
Simple(type, place, level) == HazardFile(type, "tokyo", <<Ring(place, place, {place}, level)>>)

TsunamiFrom(place) == HazardFile("tsunami", "tokyo", <<Ring(place, 1, {0, 1}, "")>>)
NearTsunami == TsunamiFrom(-40)
Surge == HazardFile("storm_surge", "tokyo", <<Ring(-9, -8, {}, ""), Ring(2, 3, {2}, "")>>)
Inland == HazardFile("inland_flood", "tokyo", <<Ring(4, 5, {5}, "caution"), Ring(5, 5, {5}, "critical")>>)
Slide == HazardFile("landslide", "tokyo", <<Ring(5, 5, {5}, "warning"), Ring(5, 5, {5}, "special")>>)
Lowland == HazardFile("lowland_poor_drainage", "tokyo", <<Ring(2, 2, {2}, "")>>)
Partial(type) == HazardFile(type, "chiba", <<Ring(-20, -20, {}, ""), Bad>>)

MCRuntime == <<Simple("flood", 0, ""), Surge, NearTsunami, Inland, Slide, Lowland>>
MCRuntimes ==
    {MCRuntime,
     <<Simple("flood", 0, ""), Partial("storm_surge"), Surge, TsunamiFrom(-100), Partial("inland_flood"), Inland,
       Slide, Partial("lowland_poor_drainage"), Lowland>>,
     <<Simple("flood", 0, ""), Surge, [NearTsunami EXCEPT !.region = "chiba"], Inland, Slide, Lowland>>,
     <<Surge, NearTsunami>>}
MCRegistered ==
    [chiba |-> <<Ring(6, 6, {6}, "")>>, tokyo |-> NearTsunami.rings]

-----------------------------------------------------------------------------
(* Versions: two regions.  Tokyo has a river flood, an inland flood with a   *)
(* tile that must be there, and shelters; Chiba has the tsunami, of which    *)
(* what has been ingested last is superseded.  The current version is one of *)
(* before the flood files were told apart, or an older one of all of them.   *)

Dataset(type, r, exposed, byRecord, tile) ==
    [type |-> type, region |-> r, exposed |-> exposed, byRecord |-> byRecord, tile |-> tile]
MCRegistry ==
    [river |-> Dataset("flood", "tokyo", FALSE, TRUE, "none"),
     urban |-> Dataset("inland_flood", "tokyo", FALSE, FALSE, "required"),
     halls |-> Dataset("emergency_shelter", "tokyo", FALSE, FALSE, "none"),
     wave |-> Dataset("tsunami", "chiba", TRUE, FALSE, "optional")]
MCSuperseded == [river |-> {}, urban |-> {}, halls |-> {}, wave |-> {3}]
MCFirstLake ==
    [part \in {"normalized", "canonical", "routing", "record", "tile"} |->
       [d \in DOMAIN MCRegistry |-> IF part = "normalized" THEN 3 ELSE 2]]
MCFirstMapped == {{"river", "urban", "halls"}}
MCFirstTrees ==
    {Location("backend", "flood", "tokyo", "legacy") :> 1,
     [p \in {Location("backend", "flood", "tokyo", "river"),
             Location("backend", "inland_flood", "tokyo", "urban"),
             Location("backend", "inland_flood", "tokyo", "former"),
             Location("layers", "inland_flood", "tokyo", "layer"),
             Location("tiles", "inland_flood", "tokyo", "urban"),
             Location("backend", "emergency_shelter", "tokyo", "halls"),
             Location("backend", "tsunami", "chiba", "layer"),
             Location("layers", "tsunami", "chiba", "layer")} |-> 1]}

-----------------------------------------------------------------------------
(* Uploads: two files of one name for two datasets; one with a checksum, and *)
(* one for the same dataset; two that are sent as a group.                   *)

UploadOf(chunks, name, dataset, group, sha) ==
    [chunks |-> chunks, name |-> name, dataset |-> dataset, group |-> group, sha |-> sha]
MCUploadPlans ==
    {[files |-> [a |-> UploadOf(2, "n", "d1", NoGroup, FALSE),
                 b |-> UploadOf(1, "n", "d2", NoGroup, FALSE)],
      losses |-> 0],
     [files |-> [a |-> UploadOf(1, "n", "d1", NoGroup, FALSE),
                 b |-> UploadOf(1, "m", "d1", NoGroup, FALSE)],
      losses |-> 0],
     [files |-> [a |-> UploadOf(2, "n", "d1", NoGroup, FALSE)], losses |-> 2],
     [files |-> [a |-> UploadOf(2, "n", "d1", NoGroup, TRUE)], losses |-> 2],
     [files |-> [a |-> UploadOf(1, "n", "d1", "g", TRUE),
                 b |-> UploadOf(1, "m", "d1", "g", FALSE)],
      losses |-> 1]}

-----------------------------------------------------------------------------
(* Hazards for viewers: the tsunami of two regions, of which one is exposed, *)
(* and a river flood; the tiles of both tsunamis are in one place.           *)

HazardAt(type, region, exposed) == [type |-> type, region |-> region, exposed |-> exposed]
MCHazardDatasets ==
    [wave |-> HazardAt("tsunami", "tokyo", TRUE), far |-> HazardAt("tsunami", "chiba", FALSE),
     river |-> HazardAt("flood", "tokyo", FALSE)]
HazardFileOf(d, inside, size) ==
    [type |-> MCHazardDatasets[d].type, region |-> IF inside THEN MCHazardDatasets[d].region ELSE "",
     named |-> MCHazardDatasets[d].region, about |-> d, size |-> size]
TilesOf(d, region, stem, size, temporary) ==
    [type |-> MCHazardDatasets[d].type, region |-> region, named |-> MCHazardDatasets[d].region,
     stem |-> stem, about |-> d, size |-> size, temporary |-> temporary]
MCHazardTrees == {{}, {HazardFileOf("wave", FALSE, 1), HazardFileOf("far", FALSE, 2)},
                  {HazardFileOf("wave", TRUE, 1), HazardFileOf("wave", FALSE, 2),
                   HazardFileOf("river", TRUE, 1)}}
MCFirstMappings == {{"wave", "river"}}
MCRuntimeFiles == {HazardFileOf("wave", TRUE, 2)}
MCLakeFiles == {HazardFileOf(d, TRUE, 3) : d \in {"wave", "river"}}
MCLegacyFiles == {HazardFileOf("wave", FALSE, 1)}
MCTileFiles == {TilesOf("wave", "tokyo", "old", 2, FALSE), TilesOf("wave", "tokyo", "wave", 1, FALSE),
                TilesOf("far", "tokyo", "far", 3, FALSE), TilesOf("river", "tokyo", "river", 1, TRUE)}

-----------------------------------------------------------------------------
(* The shelters: one version that holds shelters and one that does not, and *)
(* a flat tree with one dataset whose file is whole, torn, gone with its     *)
(* state pointing nowhere, and next to its backup.                           *)

Row(name, place, designation) == [name |-> name, at |-> place, designation |-> designation]
ShelterFile(indicator, rows) ==
    [form |-> "collection", indicator |-> indicator, rows |-> rows, backup |-> FALSE]
SiteFile == ShelterFile(FALSE, <<Row("park", "p", ""), Row("park", "p", "site"),
                                 Row("hall", NoShelters, "site"), Row("office", "q", "other"),
                                 Row("raises", "r", "site"), Row("last", "s", "site")>>)
HallFile == ShelterFile(TRUE, <<Row("hall", "p", ""), Row("park", "p", "site")>>)
OldFile == [ShelterFile(TRUE, <<Row("old", "o", "")>>) EXCEPT !.backup = TRUE]
TornFile == [SiteFile EXCEPT !.form = "torn"]
BareFile == [SiteFile EXCEPT !.form = "feature"]

MCShelterTrees == [full |-> <<SiteFile, HallFile>>, bare |-> NoShelters]

Flat(exists, files, runtime, validated) ==
    [exists |-> exists, dirs |-> SetToSeq(DOMAIN files \ {"lake.geojson"}),
     lake |-> IF "lake.geojson" \in DOMAIN files THEN <<"lake.geojson">> ELSE <<"legacy.csv">>,
     files |-> files,
     state |-> [d1 |-> [runtime |-> runtime, validated |-> validated,
                        deployed |-> runtime # NoShelters]]]
MCFlatWorlds ==
    {Flat(FALSE, [legacy |-> BareFile], NoShelters, NoShelters),
     Flat(TRUE, ("a.geojson" :> HallFile) @@ ("a.backup.geojson" :> OldFile), "a.geojson",
          "a.geojson"),
     Flat(TRUE, ("a.geojson" :> TornFile) @@ ("a.backup.geojson" :> OldFile), "a.geojson",
          "a.geojson"),
     Flat(TRUE, "a.geojson" :> SiteFile, NoShelters, "a.geojson"),
     Flat(FALSE, "lake.geojson" :> HallFile, NoShelters, NoShelters)}
\* d1 and d2 are of one layer; d2 is in no definition any more.
MCLayerOf == [d1 |-> "shelter:tokyo", d2 |-> "shelter:tokyo"]

-----------------------------------------------------------------------------
(* The live observations: feeds of up to three reports, four stations, tables *)
(* of two days of five hours.                                                *)

Quake(time, place, points, scale) ==
    [time |-> time, place |-> place, points |-> points, scale |-> scale, magnitude |-> 4,
     tsunami |-> "none"]
PossibleReports ==
    {Quake(9, "A", <<>>, 46), Quake(9, "A", <<10, -1>>, 45), Quake(9, "A", <<10, 20>>, 40),
     Quake(9, "B", <<10>>, 50),
     Quake(8, "A", <<30>>, 30), Quake(Unread, "A", <<10>>, 10)}
JmaEntry(reported, origin, item) ==
    [reported |-> reported, origin |-> origin, place |-> "A", scale |-> 40, magnitude |-> 0,
     item |-> item]
JmaItem(scale) ==
    [reported |-> 10, origin |-> Lacking, place |-> Lacking, scale |-> scale, magnitude |-> 5,
     tsunami |-> "warning"]
JmaLists ==
    {<<>>,
     <<JmaEntry(10, 9, Lacking), JmaEntry(10, Unread, JmaItem(Lacking)), JmaEntry(5, 4, Lacking)>>,
     <<JmaEntry(Lacking, Unread, Lacking), JmaEntry(Unread, 9, JmaItem(60))>>}
MCQuakeFeeds ==
    [now : {10}, days : {1, 3}, jma : JmaLists,
     p2p : {Lacking} \cup UNION {[1..n -> PossibleReports] : n \in 0..3}]

Values(heat, wind, rain) == [temp |-> heat, wind |-> wind, rain |-> rain]
StationsAt(id, far) ==
    {[id |-> id, far |-> far, known |-> k, obs |-> o] :
       k \in {TRUE}, o \in {Lacking, Values(Lacking, Lacking, 1), Values(20, 3, Lacking),
                            Values(Lacking, 2, 1), Values(117, Lacking, 2), Values(117, 2, 2), Values(999, 2, 2)}}
    \cup {[id |-> id, far |-> far, known |-> FALSE, obs |-> Values(20, 3, 1)]}
MCStationSets ==
    {{a, b, c, [id |-> 4, far |-> 4, known |-> TRUE, obs |-> o]} :
       a \in StationsAt(1, 0), b \in StationsAt(2, 1), c \in StationsAt(3, 2),
       o \in {Lacking, Values(5, 1, 0)}}

Day(day, levels) == [day |-> day, levels |-> levels]
Levels == {<<1, 2, 1, 2, 3>>, <<3, 2, 1, 2, 1>>, <<1, 3, 3, 1, 1>>, <<2, 1, Lacking, 3, 2>>,
           <<1, 1, 1, 1, 1>>, <<1, 2, 3, 2>>, <<1, Unread, 1, 2, 1>>}
Table(id, far, lines) == [id |-> id, far |-> far, lines |-> lines, registered |-> TRUE]
NearTables ==
    {Table("near", 1, {Day(Unread, <<1, 2, 1, 2, 1>>)}),
     Table("near", 1, {Day(1, <<1, 2, 1, 2, 1>>)}),
     [Table("near", 1, {Day(1, <<1, 2, 1, 2, 1>>)}) EXCEPT !.registered = FALSE]}
MCTideWorlds ==
    {[now |-> hour, stations |-> {near, Table("far", 2, {Day(0, a), Day(1, b)})}] :
       hour \in 0..20, a \in Levels, b \in Levels, near \in NearTables}

Flow(small) == [missing |-> FALSE, small |-> small, large |-> Lacking, other |-> 1]
Flows == {Flow(v) : v \in {0, 3, 14, 15, 78, 79, 148, 149}}
         \cup {[Flow(9) EXCEPT !.missing = TRUE], Flow(Lacking)}
RoadFeature(code, place, up, down) ==
    [code |-> code, at |-> place, flow |-> [up |-> up, down |-> down]]
ScopeOf(box, prefecture, place) == [box |-> box, prefecture |-> prefecture, at |-> place]
Scopes == {ScopeOf(Lacking, Lacking, Lacking), ScopeOf(<<0, 1>>, "P", Lacking),
           ScopeOf(Lacking, "Q", 0), ScopeOf(Lacking, "R", 0), ScopeOf(Lacking, Lacking, 3),
           ScopeOf(Lacking, Lacking, -4)}
MCRoadFeeds ==
    {[features |-> <<RoadFeature(1, 3, u, d), RoadFeature(2, -4, Flow(100), Flow(2)),
                     RoadFeature(c, 0, Flow(2), Flow(50))>>, scope |-> s] :
       u \in Flows, d \in Flows, s \in Scopes, c \in {3, Lacking}}
MCCentroids == [P |-> 0, Q |-> 5]

TrainReport(operator, railway, status, text, temporary, updated) ==
    [operator |-> operator, railway |-> railway, status |-> status, text |-> text,
     temporary |-> temporary, updated |-> updated]
TrainReports ==
    {TrainReport("Metro", "x", {"delay"}, {"partial"}, FALSE, 2),
     TrainReport("Metro", "y", {"suspended"}, {"delay"}, FALSE, 1),
     TrainReport("Metro", "z", {}, {"suspended"}, FALSE, 1),
     TrainReport("Metro", "v", {"other"}, {}, FALSE, 1),
     TrainReport("Metro", "w", {"normal"}, {"delay"}, FALSE, 1),
     TrainReport("Metro", "u", {"partial"}, {}, TRUE, 1),
     TrainReport("Metro", Lacking, {"partial"}, {}, FALSE, 1),
     TrainReport("Rural", "r", {"partial", "suspended"}, {}, FALSE, 3)}
Licence(operator, licence) == [operator |-> operator, licence |-> licence]
MCTrainFeeds ==
    [reports : UNION {[1..n -> TrainReports] : n \in 0..2}, scope : Scopes,
     allowlist : {Unread, {Licence("Metro", "CC BY"), Licence("Rural", Lacking)},
                  {Licence("Metro", "CC BY"), Licence("Rural", "CC BY")}}]
MCOperatorPrefectures == [Metro |-> {"P", "Q"}]

-----------------------------------------------------------------------------
(* The simulation: one or two routes, the predefined scenarios and others *)

MCLengths == {<<5>>, <<5, 7>>, <<7, 5>>}

In(hazards) == [unavailable |-> FALSE, inside |-> hazards]
NotAvailable == [unavailable |-> TRUE, inside |-> {}]
MCHazardScenarios ==
    {In({}), In({"flood", "lowland_poor_drainage"}), In({"landslide"}),
     In({"flood", "inland_flood", "landslide", "lowland_poor_drainage", "tsunami", "storm_surge"}),
     NotAvailable}

Weather(severity, rain, ahead) ==
    [unknown |-> FALSE, severity |-> severity, now |-> rain, ahead |-> ahead]
Dry == Weather("none", "none", "none")
Rain(ahead) == Weather("none", "none", ahead)
MCWeatherScenarios ==
    {Dry, Rain("strong"), Weather("none", "severe", "weak"),
     Weather("advisory", "weak", "none"), Weather("emergency", "none", "strong"),
     [Dry EXCEPT !.unknown = TRUE]}

Case(weather, hazards, kind, level) ==
    [weather |-> weather, hazards |-> hazards, overrides |-> <<>>,
     expected |-> [kind |-> kind, level |-> level]]
MCPredefined ==
    <<Case(Dry, In({}), "level", "none"),
      Case(Rain("strong"), In({}), "at least", "advisory"),
      Case(Rain("strong"), In({"flood"}), "at least", "warning"),
      Case(Rain("severe"), In({"landslide"}), "at least", "emergency"),
      Case(Rain("moderate"), In({"lowland_poor_drainage"}), "at least", "advisory"),
      Case([Dry EXCEPT !.unknown = TRUE], In({}), "level", "unknown"),
      Case(Dry, NotAvailable, "level", "unknown"),
      [Case(Rain("strong"), In({}), "not shortest", "none")
         EXCEPT !.overrides = [r \in {1} |-> In({"flood", "lowland_poor_drainage"})]]>>

-----------------------------------------------------------------------------
ServicesInit ==
    /\ focus \in Focuses
    /\ FeedInit /\ ConfigInit /\ AlertInit /\ OperatorInit
    /\ Init /\ current = CHOOSE v \in Versions : TRUE       \* the versions are alike
    /\ CacheInit /\ (focus # "caches" => source = "train")
    /\ StagingInit /\ (focus # "staging" => targets = {"tokyo"})
    /\ IF focus = "sections" THEN SectionsInit ELSE reading = <<>>
    /\ IF focus = "risk" THEN RiskInit ELSE world = <<>>
    /\ AcquisitionInit /\ (focus # "acquisitions" => \A d \in Datasets : lake[d].raw = Missing)
    /\ IF focus = "console" THEN ConsoleInit ELSE sight = <<>>
    /\ HazardInit
    /\ focus # "hazards" => unread = MCRuntime /\ NoBox \notin Range(coverage)
    /\ IF focus = "normalizers" THEN NormalizerInit ELSE NormalizerIdle
    /\ DeployInit /\ (focus # "files" => deployKind = "roads")
    /\ RoutingInit
    /\ ShelterInit
    /\ SimulationInit
    /\ ObservationInit
    /\ BuildInit /\ (focus # "versions" => liveTree = CHOOSE t \in FirstTrees : TRUE)
    /\ HazardFilesInit
    /\ UploadInit /\ (focus # "uploads" => DOMAIN uploadPlan = {"a"} /\ uploadPlan["a"].sha)
    /\ focus # "shelters" => mappingFile = <<>> /\ flatWorld = CHOOSE w \in MCFlatWorlds : TRUE

InFocus(component, next, componentVars) ==
    IF focus = component THEN next ELSE UNCHANGED componentVars

ServicesNext ==
    /\ UNCHANGED focus
    /\ InFocus("feed", FeedNext, feedVars)
    /\ InFocus("config", ConfigNext, configVars)
    /\ InFocus("caches", CacheNext, cacheVars)
    /\ InFocus("sections", SectionsNext, reading)
    /\ InFocus("alerts", AlertNext, alertVars)
    /\ InFocus("risk", RiskNext, world)
    /\ InFocus("operators", OperatorNext, operatorVars)
    /\ InFocus("staging", StagingNext, stagingVars)
    /\ InFocus("mirror", Next, vars)
    /\ InFocus("acquisitions", AcquisitionNext, acquisitionVars)
    /\ InFocus("console", ConsoleNext, sight)
    /\ InFocus("hazards", HazardNext, hazardVars)
    /\ InFocus("normalizers", NormalizerNext, normalizerVars)
    /\ InFocus("files", DeployNext, deployVars)
    /\ InFocus("routing", RoutingNext, routingVars)
    /\ InFocus("shelters", ShelterNext, shelterVars)
    /\ InFocus("versions", BuildNext, buildVars)
    /\ InFocus("simulation", SimulationNext, trial)
    /\ InFocus("observations", ObservationNext, observation)
    /\ InFocus("uploads", UploadNext, uploadVars)
    /\ InFocus("viewers", HazardFilesNext, viewerVars)

servicesVars == <<focus, feedVars, configVars, cacheVars, reading, alertVars, world,
                  operatorVars, stagingVars, vars, acquisitionVars, sight,
                  hazardVars, normalizerVars, deployVars, routingVars, shelterVars, buildVars, trial,
                  observation, uploadVars, viewerVars>>
ServicesSpec == ServicesInit /\ [][ServicesNext]_servicesVars

\* Only the component in focus changes.
ServicesView ==
    <<focus,
      CASE focus = "feed" -> feedVars
        [] focus = "config" -> configVars
        [] focus = "caches" -> cacheVars
        [] focus = "sections" -> <<reading>>
        [] focus = "alerts" -> alertVars
        [] focus = "risk" -> <<world>>
        [] focus = "operators" -> operatorVars
        [] focus = "staging" -> stagingVars
        [] focus = "mirror" -> ViewWithoutExit
        [] focus = "acquisitions" -> acquisitionVars
        [] focus = "console" -> <<sight>>
        [] focus = "hazards" -> hazardVars
        [] focus = "normalizers" -> normalizerVars
        [] focus = "files" -> deployVars
        [] focus = "routing" -> routingVars
        [] focus = "shelters" -> shelterVars
        [] focus = "versions" -> buildVars
        [] focus = "simulation" -> <<trial>>
        [] focus = "observations" -> <<observation>>
        [] focus = "uploads" -> uploadVars
        [] focus = "viewers" -> viewerVars>>
=============================================================================

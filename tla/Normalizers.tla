----------------------------- MODULE Normalizers -----------------------------
(***************************************************************************)
(* The conversion of a source dataset into the file that is published:     *)
(* normalize_river_flood.py, _flood.py, _tsunami.py, _landslide.py,        *)
(* _storm_surge.py and _inland_flood.py, each run by the ingest of a       *)
(* dataset, and each of which may be killed with it.                       *)
(*                                                                         *)
(* A source file is [form |-> "gml", elements], [form |-> "json",          *)
(* features], [form |-> "zip", files] or [form |-> "broken", as |-> form]. *)
(* A feature of a GeoJSON file is [polygons, grade]; it has no polygon if  *)
(* it has another geometry or none.                                        *)
(*                                                                         *)
(* A depth is [from, to] in centimetres, Open where the text names none,   *)
(* and <<>> if there is no text the script knows.  A river grade is what   *)
(* the properties hold, [flood_rank, water_depth, text], with Open where   *)
(* there is no number or no known text.                                    *)
(***************************************************************************)
EXTENDS GmlGeometry

CONSTANTS
    RawSources,     \* script -> the inputs it may be given, as sequences of files
    Open            \* no number

Scripts == {"river_flood", "flood", "tsunami", "landslide", "storm_surge", "inland_flood"}

VARIABLES
    normalizer,     \* [script, source]
    toRead,          \* what is still to read, as [file, nested]
    gathered,       \* the features so far
    converted,      \* the output file, [state, features]
    outcome         \* how far the run is, or how it ended

normalizerVars == <<normalizer, toRead, gathered, converted, outcome>>

Item(file, nested) == [file |-> file, nested |-> nested]
Items(files, nested) == [i \in DOMAIN files |-> Item(files[i], nested)]

NormalizerInit ==
    /\ normalizer \in UNION {[script : {s}, source : RawSources[s]] : s \in Scripts}
    /\ toRead = Items(normalizer.source, FALSE)
    /\ gathered = <<>> /\ converted = [state |-> "old", features |-> <<>>] /\ outcome = "reading"

-----------------------------------------------------------------------------
(* Grades                                                                  *)

\* _extract_rank(): the first of the three properties that holds a known value.
ExtractRank(props) ==
    CASE props.flood_rank \in 1 .. 5 -> props.flood_rank
      [] props.water_depth \in 1 .. 6 -> Min({props.water_depth, 5})
      [] OTHER -> IF props.text \in 1 .. 5 THEN props.text ELSE 0

\* DEPTH_TO_RANK.get(depth, 1) of normalize_flood.py
LegacyRank(props) == IF props.water_depth \in 1 .. 6 THEN Min({props.water_depth, 5}) ELSE 1

\* The depths of normalize_storm_surge.py and normalize_inland_flood.py
DepthTable == <<[from |-> Open, to |-> 30], [from |-> 30, to |-> 50], [from |-> 50, to |-> 100],
                [from |-> 100, to |-> 300], [from |-> 300, to |-> 500],
                [from |-> 500, to |-> 1000], [from |-> 1000, to |-> 2000]>>
RankOf(depth) ==
    IF depth \in Range(DepthTable) THEN CHOOSE r \in DOMAIN DepthTable : DepthTable[r] = depth ELSE 0

\* Mutant: "0.5 m or more" contains "5 m or more", and was once taken for it.
DepthBySubstring(depth) ==
    CASE depth = <<>> -> Open
      [] depth.from \in {50, 500} -> 500
      [] depth.to # Open -> 50
      [] OTHER -> depth.from

\* _extract_depth_value(): a depth that stands for the class, Open if there is no text.
DepthValue(depth) ==
    CASE depth = <<>> -> Open
      [] depth.to # Open /\ depth.to <= 50 -> 50
      [] depth.from # Open /\ depth.from >= 500 -> depth.from
      [] depth.from # Open /\ depth.to # Open -> (depth.from + depth.to) \div 2
      [] OTHER -> IF depth.from # Open THEN depth.from ELSE 50

\* _ZONE_TYPE_MAP
ZoneType(code) ==
    CASE code = 1 -> "warning" [] code = 2 -> "special_warning" [] OTHER -> "unknown"

Graded(feature) ==
    [feature EXCEPT !.grade =
        CASE normalizer.script = "river_flood" -> ExtractRank(@)
          [] normalizer.script = "flood" -> LegacyRank(@)
          [] normalizer.script = "tsunami" -> DepthValue(@)
          [] normalizer.script = "landslide" -> ZoneType(@)
          [] OTHER -> RankOf(@)]
HasPolygon(feature) == feature.polygons # <<>>
Drawn == SelectSeq(gathered, HasPolygon)
\* What a script must not be left without: normalize_landslide.py counts before it drops
\* the features that have no geometry.
FeaturesRead == IF normalizer.script = "landslide" THEN gathered ELSE Drawn

-----------------------------------------------------------------------------
(* Reading                                                                 *)

Form(file) == IF file.form = "broken" THEN file.as ELSE file.form
OfForm(files, form) == SelectSeq(files, LAMBDA f : Form(f) = form)

Fail ==
    /\ outcome' = "failed"
    /\ toRead' = <<>> /\ gathered' = <<>>
    /\ UNCHANGED <<normalizer, converted>>
Gather(features, more) ==
    /\ gathered' = gathered \o features
    /\ toRead' = more
    /\ UNCHANGED <<normalizer, converted, outcome>>
Rest == Tail(toRead)

\* The next file, as the input of one of the scripts.
NextFile == Head(toRead)
Reads(scripts, form) ==
    outcome = "reading" /\ toRead # <<>> /\ normalizer.script \in scripts /\ NextFile.file.form = form
Unpack(files) == IF files = <<>> THEN Fail ELSE Gather(<<>>, Items(files, TRUE))

\* iter_features(), _iter_zip(): everything in an archive is read, archives within it too.
\* What cannot be opened there is left out with a warning, unless it is a GML file.
ReadRiverFlood ==
    \/ /\ Reads({"river_flood"}, "zip")
       /\ LET files == NextFile.file.files IN
          Gather(<<>>, Items(OfForm(files, "gml") \o OfForm(files, "json") \o OfForm(files, "zip"), TRUE)
                         \o Rest)
    \/ /\ Reads({"river_flood"}, "broken")
       /\ IF NextFile.nested /\ NextFile.file.as # "gml" THEN Gather(<<>>, Rest) ELSE Fail

\* _iter_a31_zip(): a GML file counts if all its features could be read.
ReadA31 ==
    /\ Reads({"river_flood"}, "gml")
    /\ LET read == ParseA31(NextFile.file.elements) IN
       IF ~NextFile.nested \/ read.unresolved > 0 \/ read.features = <<>> THEN Fail
       ELSE Gather(read.features, Rest)

ReadLegacyFlood ==
    \/ Reads({"flood"}, "gml") /\ Gather(ParseLegacyFlood(NextFile.file.elements), Rest)
    \/ Reads({"flood"}, "broken") /\ Fail

\* _load_from_zip(): GeoJSON if there is any, otherwise GML.
ReadLandslide ==
    \/ /\ Reads({"landslide"}, "zip")
       /\ LET json == OfForm(NextFile.file.files, "json") IN
          Unpack(IF json # <<>> THEN json ELSE OfForm(NextFile.file.files, "gml"))
    \/ Reads({"landslide"}, "gml") /\ Gather(ParseLandslide(NextFile.file.elements), Rest)
    \/ Reads({"landslide"}, "broken") /\ Fail

\* _load_zip(): the first GML file that yields anything, or the first GeoJSON file, which
\* stream_input_to_output() has found before.
ReadTsunami ==
    \/ /\ Reads({"tsunami"}, "zip")
       /\ LET json == OfForm(NextFile.file.files, "json") IN
          Unpack(IF json # <<>> THEN FirstOnly(json) ELSE OfForm(NextFile.file.files, "gml"))
    \/ /\ \/ Reads({"tsunami"}, "gml")
          \/ Reads({"tsunami"}, "broken") /\ Form(NextFile.file) = "gml"
       /\ LET read == IF NextFile.file.form = "broken" THEN <<>> ELSE ParseTsunami(NextFile.file.elements) IN
          CASE read # <<>> -> Gather(read, <<>>)
            [] read = <<>> /\ Rest # <<>> -> Gather(<<>>, Rest)
            [] OTHER -> Fail
    \/ Reads({"tsunami"}, "broken") /\ Form(NextFile.file) = "zip" /\ Fail

\* _stream_geojson_to_output(): the output is written while the input is read ...
StartStreaming ==
    /\ \/ Reads({"tsunami"}, "json")
       \/ Reads({"tsunami"}, "broken") /\ Form(NextFile.file) = "json"
    /\ converted' = [state |-> "torn", features |-> <<>>]
    /\ outcome' = "streaming"
    /\ UNCHANGED <<normalizer, toRead, gathered>>

\* ... up to its end or to the first feature that is no polygon.
StreamTsunami ==
    LET file == NextFile.file
        readable == /\ file.form = "json" /\ file.features # <<>>
                    /\ \A i \in DOMAIN file.features : HasPolygon(file.features[i])
    IN  /\ outcome = "streaming"
        /\ IF readable
           THEN /\ converted' = [state |-> "new",
                                 features |-> [i \in DOMAIN file.features |-> Graded(file.features[i])]]
                /\ outcome' = "ok"
           ELSE outcome' = "failed" /\ UNCHANGED converted
        /\ toRead' = <<>>
        /\ UNCHANGED <<normalizer, gathered>>

\* load_input() of normalize_storm_surge.py takes the first GeoJSON file of an archive,
\* iter_features() of normalize_inland_flood.py all of them.
ReadGeojson ==
    \/ /\ Reads({"storm_surge", "inland_flood"}, "zip")
       /\ LET files == OfForm(NextFile.file.files, "json") IN
          Unpack(IF normalizer.script = "storm_surge" THEN FirstOnly(files) ELSE files)
    \/ Reads({"river_flood", "landslide", "storm_surge", "inland_flood"}, "json")
          /\ Gather(NextFile.file.features, Rest)
    \/ Reads({"storm_surge", "inland_flood"}, "broken") /\ Fail

ReadFile ==
    \/ ReadRiverFlood \/ ReadA31 \/ ReadLegacyFlood \/ ReadLandslide \/ ReadTsunami
    \/ StartStreaming \/ ReadGeojson

-----------------------------------------------------------------------------
(* Writing                                                                 *)

Output == [state |-> "new", features |-> [i \in DOMAIN Drawn |-> Graded(Drawn[i])]]

\* The end of normalize() and main().  river_flood has written to a temporary file and
\* renames it; the others open the output itself.  flood writes an empty collection too.
FinishReading ==
    /\ outcome = "reading" /\ toRead = <<>>
    /\ CASE FeaturesRead = <<>> /\ normalizer.script # "flood" ->
               outcome' = "failed" /\ UNCHANGED converted
         [] FeaturesRead # <<>> /\ normalizer.script = "river_flood" ->
               outcome' = "ok" /\ converted' = Output
         [] OTHER -> outcome' = "writing" /\ converted' = [state |-> "torn", features |-> <<>>]
    /\ UNCHANGED <<normalizer, toRead, gathered>>

FinishWriting ==
    /\ outcome = "writing"
    /\ outcome' = "ok" /\ converted' = Output
    /\ UNCHANGED <<normalizer, toRead, gathered>>

\* The time limit of a job, or the end of the backend.
KillNormalizer ==
    /\ outcome \in {"reading", "streaming", "writing"}
    /\ outcome' = "killed"
    /\ UNCHANGED <<normalizer, toRead, gathered, converted>>

NormalizerNext ==
    ReadFile \/ StreamTsunami \/ FinishReading \/ FinishWriting \/ KillNormalizer

-----------------------------------------------------------------------------
(* Properties                                                              *)

\* What the files of a source hold: of river_flood everything that can be opened ...
FilesWithin(file) ==
    LET inner(f) == IF f.form = "zip" THEN Range(f.files) ELSE {f} IN
    IF file.form = "zip" THEN UNION {inner(f) : f \in Range(file.files)} ELSE {file}
\* ... and of the others, which take one kind or one file of an archive, what is alone there.
SourceFiles ==
    LET files == UNION {FilesWithin(normalizer.source[i]) : i \in DOMAIN normalizer.source} IN
    IF normalizer.script = "river_flood" \/ Cardinality(files) = 1 THEN files ELSE {}

\* What the older scripts understand of a GML file: no holes but those of landslides, no
\* orientable curves but those of tsunamis, curves in one piece and surfaces of their own.
Understood(elements, f) ==
    LET surface == Element(Surfaces(elements), f.bounds)
        patch == surface.patches[1]
    IN  \/ normalizer.script = "river_flood"
        \/ /\ Resolved(elements, f)
           /\ \A i \in DOMAIN LoneCurves(elements) : Len(LoneCurves(elements)[i].segments) = 1
           /\ Len(surface.patches) = 1 /\ Len(patch.exterior) = 1
           /\ Cardinality(Boundary(elements, f)) > 2
           /\ normalizer.script # "landslide" => patch.interior = <<>>
           /\ normalizer.script # "tsunami" =>
                 \A id \in Range(MembersOf(surface)) : id \in IdsOf(LoneCurves(elements))
           /\ \A g \in Range(AreaFeatures(elements)) : g.bounds = f.bounds => g = f
           /\ normalizer.script = "tsunami" => f.grade # <<>>

\* What a grade of the output may be for one of the source: never less than the source
\* says, and known only if it is known there (flood.py calls the unknown rank 1).
RankFloor == <<0, 50, 300, 500, 1000>>
CodeFloor == RankFloor \o <<2000>>
GradeFits(raw, grade) ==
    CASE normalizer.script \in {"river_flood", "flood"} ->
            \/ grade = raw.flood_rank /\ grade # Open
            \/ /\ raw.flood_rank = Open /\ raw.water_depth # Open
               /\ grade = Max({r \in DOMAIN RankFloor : RankFloor[r] <= CodeFloor[raw.water_depth]})
            \/ raw.flood_rank = Open /\ raw.water_depth = Open /\ grade = raw.text
            \/ /\ {raw.flood_rank, raw.water_depth, raw.text} = {Open}
               /\ grade = IF normalizer.script = "flood" THEN 1 ELSE 0
      [] normalizer.script = "tsunami" ->
            IF raw = <<>> THEN grade = Open
            ELSE /\ raw.from # Open => raw.from <= grade
                 /\ raw.to # Open => grade <= Max({raw.to, 50})
      [] normalizer.script = "landslide" -> grade = ZoneType(raw)
      [] OTHER -> IF grade = 0 THEN raw \notin Range(DepthTable) ELSE DepthTable[grade] = raw

GmlAreaKept(elements, f) ==
    /\ Resolved(elements, f)
    /\ \E i \in DOMAIN converted.features :
          /\ PolygonEdges(converted.features[i].polygons) = Boundary(elements, f)
          /\ GradeFits(f.grade, converted.features[i].grade)
JsonAreaKept(f) ==
    HasPolygon(f) => \E i \in DOMAIN converted.features :
                        /\ converted.features[i].polygons = f.polygons
                        /\ GradeFits(f.grade, converted.features[i].grade)
SourceKept(file) ==
    CASE file.form = "gml" ->
            \A f \in Range(AreaFeatures(file.elements)) :
                Understood(file.elements, f) => GmlAreaKept(file.elements, f)
      [] file.form = "json" -> \A f \in Range(file.features) : JsonAreaKept(f)
      [] OTHER -> TRUE

\* "ジオメトリを解決できないフィーチャが 1 件でもあれば fail closed ... 解析できなかった区域を空白
\* として出力しないため" (normalize_river_flood.py): a run that succeeds has put every area of
\* every file it could open on the map, holes, reversed curves and shared points included,
\* and one that does not, or is killed, has not touched the file that was there.  The older
\* scripts promise it for what they understand.
NoAreaIsLeftBlank ==
    /\ outcome = "ok" => \A file \in SourceFiles : SourceKept(file)
    /\ normalizer.script = "river_flood" /\ outcome # "ok" => converted.state = "old"
================================================================================

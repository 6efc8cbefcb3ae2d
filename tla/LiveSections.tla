---------------------------- MODULE LiveSections ----------------------------
(***************************************************************************)
(* The live summary of the public server: what each of its five sections   *)
(* concludes from what its source answered, and how the dangerous areas    *)
(* are merged, grouped by place and cut to what the screen shows           *)
(* (live_summary_service.py, live_rain_tile_scan_service.py,               *)
(* live_rain_summary_service.py, live_kikikuru_summary_service.py,         *)
(* live_storm_surge_service.py, tsunami_warning_service.py).               *)
(*                                                                         *)
(* The five sources are read concurrently and independently; `reading` is  *)
(* what they answered, in the order in which the answers came.  Places,    *)
(* times and texts of the areas are left out, except the label.            *)
(***************************************************************************)
EXTENDS Naturals, Sequences, FiniteSets, SequencesExt, FiniteSetsExt

CONSTANTS
    Labels,         \* the names of places
    SourceAnswers,        \* what each source may answer
    Calm,           \* what each answers on a calm day
    MaxBusy,        \* bound: the sources that answer something else at once
    StrongPixels,   \* STRONG_PIXEL_THRESHOLD
    MaxAreas,       \* _MAX_AREAS of the rain and of the kikikuru section
    MaxQuakes,      \* the earthquakes that are listed
    MaxRegions      \* _MAX_REGIONS

ActiveLevels == {"major_warning", "warning", "advisory"}
BulletinKinds == ActiveLevels \cup {"forecast", "lifted", "unknown"}
RiskElements == {"land", "inund", "flood_mesh"}
PixelLevels == {"danger", "warning", "watch", "normal", "unknown"}

TsunamiItem == [name : Labels \cup {""}, kind : BulletinKinds]
Bulletin == [readable : BOOLEAN, cancelled : BOOLEAN, items : Seq(TsunamiItem)]
P2pBulletin == [cancelled : BOOLEAN, items : Seq(TsunamiItem)]

ASSUME SectionAssumption ==
    /\ "" \notin Labels /\ "fumei" \in Labels
    /\ StrongPixels \in Nat \ {0}
    /\ DOMAIN SourceAnswers = DOMAIN Calm /\ \A s \in DOMAIN Calm : Calm[s] \in SourceAnswers[s]
    /\ DOMAIN Calm = {"rain", "kikikuru", "surge", "quakes", "tsunami"}
    /\ \A rain \in SourceAnswers["rain"] :
           /\ rain.tiles \in Seq([near : Labels, failed : BOOLEAN, strong : Nat, severe : Nat])
           /\ rain.source # "ok" => rain.source \in {"offline", "too_many_tiles"} /\ rain.tiles = <<>>
    /\ SourceAnswers["kikikuru"]
           \subseteq Seq([point : Labels, hazard : RiskElements, pixels : SUBSET PixelLevels])
    /\ SourceAnswers["surge"] \subseteq Seq([name : Labels, down : BOOLEAN, items : Seq(STRING)])
    /\ \A feed \in SourceAnswers["quakes"] : feed.quakes \in Seq([place : Labels, magnitude : Nat])
    /\ \A tsunami \in SourceAnswers["tsunami"] :
           /\ tsunami.jma.short \in Seq(Bulletin) /\ tsunami.jma.long \in Seq(Bulletin)
           /\ tsunami.p2p.reports \in Seq(P2pBulletin)
    /\ MaxAreas \in Nat \ {0} /\ MaxQuakes \in Nat \ {0} /\ MaxRegions \in Nat \ {0}

VARIABLE reading

-----------------------------------------------------------------------------
(* Areas and their order *)

LevelOrder(level) ==
    CASE level = "danger" -> 0 [] level = "warning" -> 1 [] level = "watch" -> 2
      [] level = "normal" -> 3 [] OTHER -> 4

TypeOrder == <<"tsunami", "storm_surge", "earthquake", "kikikuru", "rain">>
TypePriority(type) == (CHOOSE i \in DOMAIN TypeOrder : TypeOrder[i] = type) - 1

Area(label, level, type, hazard) ==
    [label |-> label, level |-> level, type |-> type, hazard |-> hazard]

\* [a for a in s if Test(a)], that is SelectSeq(), of which the provers know nothing.
Chosen(s, Test(_)) == FlattenSeq([i \in DOMAIN s |-> IF Test(s[i]) THEN <<s[i]>> ELSE <<>>])

\* list.sort(): stable, by a rank below `ranks`.
SortedBy(s, Rank(_), ranks) ==
    FlattenSeq([r \in 1..ranks |-> Chosen(s, LAMBDA a : Rank(a) = r - 1)])
Cut(s, n) == SubSeq(s, 1, IF Len(s) < n THEN Len(s) ELSE n)

Mapped(s, F(_)) == [i \in DOMAIN s |-> F(s[i])]

Section(status, evaluated, areas) ==
    [status |-> status, evaluated |-> evaluated, areas |-> areas]
Unevaluated(status) == Section(status, FALSE, <<>>)

-----------------------------------------------------------------------------
(* Rain.  A tile is what _scan_one_tile() counts in it; one that could not *)
(* be fetched, decoded or finished in time counts nothing.                 *)

Qualifies(tile) == ~tile.failed /\ tile.strong + tile.severe >= StrongPixels

TileArea(tile) ==
    Area(tile.near, IF tile.severe > 0 THEN "danger" ELSE "warning", "rain", "")

\* The areas of scan_rain_tiles(), in the order in which the tiles came in.
ScanAreas(tiles) == Mapped(Chosen(tiles, Qualifies), TileArea)

\* RainCutFirst shows the tiles that came in first.
RainCutFirst(rain) ==
    CASE rain.source = "offline" -> Unevaluated("offline")
      [] rain.source = "too_many_tiles" -> Unevaluated("unknown")
      [] rain.tiles # <<>> /\ \A t \in ToSet(rain.tiles) : t.failed -> Unevaluated("unknown")
      [] OTHER -> Section("ok", TRUE, Cut(ScanAreas(rain.tiles), MaxAreas))

\* One tile that was read is enough to call the rain evaluated.
RainSection(rain) ==
    CASE rain.source = "offline" -> Unevaluated("offline")
      [] rain.source = "too_many_tiles" -> Unevaluated("unknown")
      [] rain.tiles # <<>> /\ \A t \in ToSet(rain.tiles) : t.failed -> Unevaluated("unknown")
      [] OTHER ->
           LET Rank(a) == IF a.level = "danger" THEN 0 ELSE 1 IN
           Section("ok", TRUE, Cut(SortedBy(ScanAreas(rain.tiles), Rank, 2), MaxAreas))

-----------------------------------------------------------------------------
(* Kikikuru.  A sample is the set of levels of the pixels around a point;  *)
(* none when the tile could not be read in time.                           *)

SampleLevel(sample) ==
    LET known == sample.pixels \ {"unknown"}
        worst == CHOOSE l \in known : \A k \in known : LevelOrder(l) <= LevelOrder(k) IN
    CASE sample.pixels = {} -> "unknown"
      [] known \subseteq {"normal"} ->
            IF "unknown" \in sample.pixels THEN "unknown" ELSE "normal"
      [] OTHER -> worst

SampleArea(sample) ==
    Area(sample.point, SampleLevel(sample), "kikikuru", sample.hazard)

\* All the hazards of a point must be unknown for the point to count as unknown;
\* half of the points, and nothing found, make the section unknown.
KikikuruSection(samples) ==
    LET points == {s.point : s \in ToSet(samples)}
        unknown == {p \in points : \A s \in ToSet(samples) :
                                       s.point = p => SampleLevel(s) = "unknown"}
        qualifying == Chosen(Mapped(samples, SampleArea),
                                LAMBDA a : a.level \in {"danger", "warning", "watch"})
        detected == \E a \in ToSet(qualifying) : a.level \in {"danger", "warning"} IN
    CASE samples = <<>> -> Unevaluated("offline")
      [] samples # <<>> /\ ~detected /\ 2 * Cardinality(unknown) >= Cardinality(points) ->
            Unevaluated("unknown")
      [] OTHER -> Section("ok", TRUE, Cut(SortedBy(qualifying,
                                               LAMBDA a : LevelOrder(a.level), 3), MaxAreas))

-----------------------------------------------------------------------------
(* Storm surge: the warnings of every coastal prefecture, fetched one by   *)
(* one; a prefecture that fails counts as one without warnings.            *)

SurgeSeverity(code) ==
    CASE code = "38" -> "emergency" [] code \in {"48", "08"} -> "warning" [] OTHER -> "advisory"
SurgeRank(code) ==
    CASE code = "38" -> 0 [] code = "48" -> 1 [] code = "08" -> 2 [] OTHER -> 3
SurgeCodes == {"38", "48", "08", "19"}

\* The worst item of a prefecture; none if there is none of a storm surge.
PrefStormSurge(pref) ==
    LET codes == IF pref.down THEN {} ELSE ToSet(pref.items) \cap SurgeCodes IN
    {c \in codes : \A d \in codes : SurgeRank(c) <= SurgeRank(d)}

SurgeArea(pref) ==
    LET severity == SurgeSeverity(CHOOSE c \in PrefStormSurge(pref) : TRUE) IN
    Area(pref.name, IF severity = "advisory" THEN "warning" ELSE "danger", "storm_surge", "")

StormSurgeSection(prefs) ==
    LET affected == Chosen(prefs, LAMBDA p : PrefStormSurge(p) # {})
        SurgeOrder(p) == CASE SurgeSeverity(CHOOSE c \in PrefStormSurge(p) : TRUE) = "emergency" -> 0
                      [] SurgeSeverity(CHOOSE c \in PrefStormSurge(p) : TRUE) = "warning" -> 1
                      [] OTHER -> 2 IN
    Section("ok", TRUE, Mapped(SortedBy(affected, SurgeOrder, 3), SurgeArea))

-----------------------------------------------------------------------------
(* Earthquakes, newest first; a source that fails gives an empty list.     *)
(* Magnitudes are whole here.                                              *)

QuakeAreas(quakes) ==
    LET QuakeArea(q) == Area(q.place, IF q.magnitude >= 6 THEN "danger" ELSE "warning",
                             "earthquake", "") IN
    Cut(Mapped(Chosen(quakes, LAMBDA q : q.magnitude >= 5), QuakeArea), MaxQuakes)

EarthquakeSection(feed) ==
    Section("ok", TRUE, QuakeAreas(IF feed.down THEN <<>> ELSE feed.quakes))

-----------------------------------------------------------------------------
(* Tsunami warnings: the bulletins of the JMA, newest first, else the last *)
(* report of P2P.  A bulletin: [readable, cancelled, items], an item:      *)
(* [name, kind].                                                           *)

NoReport == [fetched |-> FALSE, areas |-> <<>>]
Report(areas) == [fetched |-> TRUE, areas |-> areas]

\* A kind that is lifted, or not known, is skipped.
ReportAreas(report) ==
    IF report.cancelled THEN <<>>
    ELSE Chosen(report.items, LAMBDA i : i.kind \in ActiveLevels \cup {"forecast"})

\* The newest bulletin that can be read; what the long feed has is asked only
\* when the short one has none.
JmaReport(jma) ==
    LET bulletins == IF jma.short # <<>> THEN jma.short ELSE jma.long
        readable == Chosen(Cut(bulletins, 5), LAMBDA r : r.readable) IN
    CASE jma.down -> NoReport
      [] ~jma.down /\ bulletins = <<>> -> Report(<<>>)
      [] ~jma.down /\ bulletins # <<>> /\ readable = <<>> -> NoReport
      [] OTHER -> Report(ReportAreas(Head(readable)))

\* A grade that is not known is a forecast.
P2pReport(p2p) ==
    LET Item(i) == [i EXCEPT !.kind = IF @ \in ActiveLevels THEN @ ELSE "forecast"] IN
    CASE p2p.down -> NoReport
      [] ~p2p.down /\ (p2p.reports = <<>> \/ Head(p2p.reports).cancelled) -> Report(<<>>)
      [] OTHER -> Report(Mapped(Head(p2p.reports).items, Item))

\* The second source is asked only when the first one fails.
TsunamiWarnings(tsunami) ==
    LET jma == JmaReport(tsunami.jma)
        report == IF jma.fetched THEN jma ELSE P2pReport(tsunami.p2p) IN
    [status |-> CASE ~report.fetched -> "error"
                  [] report.fetched /\ report.areas = <<>> -> "none"
                  [] OTHER -> "active",
     areas |-> report.areas]

TsunamiSection(tsunami) ==
    LET warnings == TsunamiWarnings(tsunami)
        Label(name) == IF name = "" THEN "fumei" ELSE name
        TsunamiArea(i) == Area(Label(i.name), IF i.kind = "advisory" THEN "warning" ELSE "danger",
                               "tsunami", "") IN
    Section(CASE warnings.status = "error" -> "offline"
              [] warnings.status = "none" -> "cleared"
              [] OTHER -> "ok",
            TRUE,
            Mapped(Chosen(warnings.areas, LAMBDA i : i.kind \in ActiveLevels), TsunamiArea))

-----------------------------------------------------------------------------
(* The summary *)

Sections ==
    [tsunami |-> TsunamiSection(reading.tsunami),
     storm_surge |-> StormSurgeSection(reading.surge),
     earthquake |-> EarthquakeSection(reading.quakes),
     kikikuru |-> KikikuruSection(reading.kikikuru),
     rain |-> RainSection(reading.rain)]

\* By level, then by type.
DangerousAreas(sections) ==
    SortedBy(FlattenSeq(Mapped(TypeOrder, LAMBDA t : sections[t].areas)),
             LAMBDA a : 5 * LevelOrder(a.level) + TypePriority(a.type), 25)

\* The areas of one label.  Its events are the first of each type and hazard, so
\* the worst, for the areas are sorted.
Region(areas, label) ==
    LET mine == Chosen(areas, LAMBDA a : a.label = label)
        First(i) == \A j \in 1..(i - 1) : mine[j].type # mine[i].type
                                          \/ mine[j].hazard # mine[i].hazard
        types == {a.type : a \in ToSet(mine)} IN
    [label |-> label,
     level |-> Head(mine).level,
     priority |-> Min({TypePriority(t) : t \in types}),
     types |-> Chosen(TypeOrder, LAMBDA t : t \in types),
     events |-> [i \in {k \in DOMAIN mine : First(k)} |-> mine[i]]]

IntegratedRegions(areas) ==
    LET labelled == Chosen(areas, LAMBDA a : a.label # "")
        FirstOfItsLabel(i) == \A j \in 1..(i - 1) : labelled[j].label # labelled[i].label
        heads == Chosen([i \in DOMAIN labelled |-> [at |-> i, label |-> labelled[i].label]],
                           LAMBDA h : FirstOfItsLabel(h.at))
        regions == Mapped(heads, LAMBDA h : Region(labelled, h.label)) IN
    Cut(SortedBy(regions, LAMBDA g : 5 * LevelOrder(g.level) + g.priority, 25), MaxRegions)

OverallStatus(sections) ==
    IF \E t \in ToSet(TypeOrder) : sections[t].status = "offline" THEN "degraded" ELSE "ok"

-----------------------------------------------------------------------------
\* The summary is asked for again, and a source has changed its answer.
SectionsInit == reading = Calm

ReadAgain(source) ==
    \E answer \in SourceAnswers[source] :
        /\ reading' = [reading EXCEPT ![source] = answer]
        /\ Cardinality({s \in DOMAIN reading' : reading'[s] # Calm[s]}) <= MaxBusy

SectionsNext == \E source \in DOMAIN reading : ReadAgain(source)

SectionsSpec == SectionsInit /\ [][SectionsNext]_reading

-----------------------------------------------------------------------------
(* Properties *)

\* Every danger or warning that any source reported.  Of the earthquakes only the
\* newest MaxQuakes are looked at.
Reported ==
    ToSet(ScanAreas(reading.rain.tiles))
    \cup {SampleArea(s) : s \in ToSet(reading.kikikuru)}
    \cup {SurgeArea(p) : p \in {q \in ToSet(reading.surge) : PrefStormSurge(q) # {}}}
    \cup ToSet(Sections.earthquake.areas) \cup ToSet(Sections.tsunami.areas)

\* The first region on the screen is at least as bad as the worst warning that any
\* source reported, whatever the order in which the answers came, however many
\* samples are unknown, and wherever a list was cut: no status is summed up such that
\* the gravest area or the gravest level is lost.
WorstSectionIsOnTop ==
    reading # <<>> =>
        LET regions == IntegratedRegions(DangerousAreas(Sections)) IN
        \A a \in Reported : a.level \in {"danger", "warning"} =>
            /\ regions # <<>>
            /\ LevelOrder(regions[1].level) <= LevelOrder(a.level)
=============================================================================

---------------------------- MODULE MCLandslides ----------------------------
(***************************************************************************)
(* The way of a landslide dataset from its source to the answer at a       *)
(* place: what normalize_landslide.py has written is the file that the     *)
(* public server loads.                                                    *)
(***************************************************************************)
EXTENDS MCNormalizers, HazardService

MCZones ==
    [s \in Scripts |->
        IF s = "landslide" THEN {<<JsonFile(<<1, 9>>)>>, <<JsonFile(<<1, 2>>)>>} ELSE {}]
MCPlaces == 0 .. 5
NoRuntime == {<<>>}
NoDatasets == [r \in {} |-> <<>>]

PointsOfArea(feature) == UNION {UNION {Range(r) : r \in Range(p)} : p \in Range(feature.polygons)}
BoxOf(feature) == <<Min(PointsOfArea(feature)), Max(PointsOfArea(feature))>>
RingOf(feature) ==
    [box |-> BoxOf(feature), inside |-> PointsOfArea(feature), level |-> feature.grade,
     centre |-> Min(PointsOfArea(feature))]

Publish ==
    /\ outcome = "ok" /\ Serving /\ sources = {}
    /\ unread' = <<[type |-> "landslide", region |-> "tokyo",
                    rings |-> [i \in DOMAIN converted.features |-> RingOf(converted.features[i])]]>>
    /\ UNCHANGED <<normalizerVars, polygons, stores, sources, loading, coverage, faults>>

LandslideInit == NormalizerInit /\ HazardInit
LandslideNext ==
    \/ NormalizerNext /\ UNCHANGED hazardVars
    \/ Publish
    \/ HazardNext /\ UNCHANGED normalizerVars
LandslideSpec == LandslideInit /\ [][LandslideNext]_<<normalizerVars, hazardVars>>

\* "`severity_level`: `danger`（warning）/ `critical`（special_warning）"
\* (hazard_capability_matrix.md): once its file is loaded, the answer at every place of a special
\* warning zone is critical, also where an ordinary zone overlaps it.
SpecialZonesAreCritical ==
    Serving /\ sources # {} =>
        \A i \in DOMAIN converted.features :
            converted.features[i].grade = "special_warning" =>
                \A place \in Places :
                    InBox(place, BoxOf(converted.features[i])) => LevelAt("landslide", place) = "critical"
=============================================================================

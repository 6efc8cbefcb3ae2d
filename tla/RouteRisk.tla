----------------------------- MODULE RouteRisk ------------------------------
(***************************************************************************)
(* The risk of a place and of a route: warnings, rain and hazard zones are *)
(* combined into one level (weather_alert_service.py,                      *)
(* weather_risk_context_service.py, weather_route_risk_service.py,         *)
(* route_risk_scoring.py, route_comparison_service.py and the handler      *)
(* assess_route_risk of app_public.py).                                    *)
(*                                                                         *)
(* `world` is what the sources say now: the alerts, and of every point the *)
(* rain and the zones, and what the browser sends of the kikikuru.         *)
(* A route is a sequence of points with the metres walked so far.  A score *)
(* over n samples is kept n times as large, so that it is an integer; the  *)
(* rounding to tenths is left out.                                         *)
(***************************************************************************)
EXTENDS Integers, Sequences, FiniteSets, SequencesExt, FiniteSetsExt

CONSTANTS
    Points,
    Routes,         \* the routes compared: [path, metres, seconds]; path: <<[at, metres]>>
    MaxSamples,     \* _MAX_SAMPLES of the comparison, sample_count of the request
    SampleMetres,   \* _SAMPLE_INTERVAL_M
    AheadSamples,   \* _MAX_SAMPLES of the route ahead
    Forecast,       \* the answers of the precipitation forecast to choose from
    Alerts,         \* [status, severity] to choose from
    Zones,          \* assessments of a point to choose from
    Kikikurus       \* [status, kind -> level] to choose from

ASSUME RiskAssumption ==
    /\ MaxSamples \in Nat \ {0} /\ SampleMetres \in Nat \ {0} /\ AheadSamples \in Nat \ {0}
    /\ \A r \in DOMAIN Routes : Routes[r].path \in Seq([at : Points, metres : Nat])
    /\ \A r \in Forecast : r.ahead \in Seq(STRING)

VARIABLE world          \* [alerts, rain, zones, kikikuru]

-----------------------------------------------------------------------------
(* Rain: [down, now, ahead], intensities at a point now and in the next    *)
(* half hour.                                                              *)

IntensityRank(i) ==
    CASE i = "severe" -> 4 [] i = "strong" -> 3 [] i = "moderate" -> 2 [] i = "weak" -> 1
      [] i = "none" -> 0 [] OTHER -> -1

\* _precip_severity(): what is not known does not count.
PrecipSeverity(intensities) ==
    LET worst == Max({IntensityRank(i) : i \in intensities}) IN
    CASE worst = -1 -> "unknown" [] worst = 0 -> "none" [] worst \in 1..2 -> "advisory"
      [] OTHER -> "warning"

\* A forecast that cannot be read has severity none, and says so in its status.
PrecipitationSummary(r) ==
    IF r.down
    THEN [status |-> "unavailable", severity |-> "none", current |-> "unknown", ahead |-> <<>>]
    ELSE [status |-> "ok", severity |-> PrecipSeverity({r.now} \cup ToSet(r.ahead)),
          current |-> r.now, ahead |-> r.ahead]

\* The worst of now and ahead; nothing ahead counts as none.
RainRank(precip) ==
    Max({IntensityRank(precip.current)}
        \cup IF precip.ahead = <<>> THEN {0} ELSE {IntensityRank(i) : i \in ToSet(precip.ahead)})

-----------------------------------------------------------------------------
(* The risk of a point.  An assessment is a function from the hazards that *)
(* are loaded to inside, outside or unknown; it is empty when the hazard   *)
(* service is not there.                                                   *)

Inside(zone, hazard) == hazard \in DOMAIN zone /\ zone[hazard] = "inside"

\* Rain and zone together.
CombinedLevels(rank, zone) ==
    {IF rank >= 4 THEN "emergency" ELSE "warning" :
        h \in {k \in {"flood", "inland_flood"} : Inside(zone, k) /\ rank >= 2}}
    \cup {IF rank >= 3 THEN "emergency" ELSE "warning" :
        h \in {k \in {"landslide"} : Inside(zone, k) /\ rank >= 2}}
    \cup {"advisory" : h \in {k \in {"lowland_poor_drainage"} : Inside(zone, k) /\ rank >= 1}}

SeverityRank(s) ==
    CASE s = "emergency" -> 4 [] s = "warning" -> 3 [] s = "advisory" -> 2 [] OTHER -> 0

KnownRank(a, precip, combined) ==
    Max({SeverityRank(a.severity), Min({SeverityRank(precip.severity), 3})}
        \cup {SeverityRank(c) : c \in combined})

\* UnknownFirst lets a warning of unknown grade hide a known danger.
UnknownFirst(a, precip, combined) ==
    LET known == KnownRank(a, precip, combined) IN
    CASE a.severity = "unknown" -> "unknown"
      [] known = 4 -> "emergency" [] known = 3 -> "warning" [] known = 2 -> "advisory"
      [] OTHER -> "none"

\* SeveritiesOnly does not look at whether a source answered.
SeveritiesOnly(a, precip, combined) ==
    LET known == KnownRank(a, precip, combined) IN
    CASE known = 4 -> "emergency" [] known = 3 -> "warning" [] known = 2 -> "advisory"
      [] OTHER -> IF "unknown" \in {a.severity, precip.severity} THEN "unknown" ELSE "none"

\* A known danger first; without one, what could not be found out is unknown.
RiskLevel(a, precip, combined) ==
    LET known == KnownRank(a, precip, combined) IN
    CASE known = 4 -> "emergency" [] known = 3 -> "warning" [] known = 2 -> "advisory"
      [] OTHER ->
            IF \/ a.severity = "unknown" \/ a.status = "unavailable"
               \/ precip.status = "unavailable" \/ precip.severity = "unknown"
            THEN "unknown" ELSE "none"

PointRisk(w, a, p) ==
    LET precip == PrecipitationSummary(w.rain[p]) IN
    RiskLevel(a, precip, CombinedLevels(RainRank(precip), w.zones[p]))

RiskContext(w, p) == PointRisk(w, w.alerts, p)

-----------------------------------------------------------------------------
(* The route ahead: a sample every SampleMetres from the current segment   *)
(* on, without the warnings; the worst sample counts.                      *)

\* The threshold moves by one interval however far the next point is.
SampleRoute(path) ==
    LET Take(s, v) ==
            LET walked == v.metres - path[1].metres IN
            IF walked >= s.next /\ Len(s.taken) < AheadSamples
            THEN [taken |-> Append(s.taken, v.at), next |-> s.next + SampleMetres] ELSE s IN
    IF path = <<>> THEN <<>>
    ELSE FoldLeft(Take, [taken |-> <<path[1].at>>, next |-> SampleMetres], Tail(path)).taken

LevelRank(l) ==
    CASE l = "emergency" -> 4 [] l = "warning" -> 3 [] l = "advisory" -> 2 [] l = "unknown" -> 1
      [] OTHER -> 0
RankLevel == <<"unknown", "advisory", "warning", "emergency">>

RouteAhead(w, path, segment) ==
    LET samples == SampleRoute(SubSeq(path, segment + 1, Len(path)))
        none == [status |-> "ok", severity |-> "none"]
        worst == Max({LevelRank(PointRisk(w, none, p)) : p \in ToSet(samples)} \cup {0}) IN
    IF worst = 0 THEN "none" ELSE RankLevel[worst]

-----------------------------------------------------------------------------
(* The score of a route: route_risk_scoring.py                             *)

Base == [tsunami |-> 45, flood |-> 40, storm_surge |-> 35, landslide |-> 30, inland_flood |-> 20,
         pseudo_inland_flood |-> 15, lowland_poor_drainage |-> 8]
Least == [tsunami |-> 20, flood |-> 18, storm_surge |-> 16, landslide |-> 14, inland_flood |-> 8,
          pseudo_inland_flood |-> 6, lowland_poor_drainage |-> 3]
LowlandBonus(h) ==
    CASE h = "flood" -> 6 [] h = "inland_flood" -> 5
      [] h \in {"storm_surge", "pseudo_inland_flood"} -> 4 [] OTHER -> 0

\* exposure: [hazard -> the samples inside it], of n.
HazardPenalty(exposure, n, h) ==
    Max({Base[h] * exposure[h], Least[h] * n})
    + IF "lowland_poor_drainage" \in DOMAIN exposure THEN LowlandBonus(h) * n ELSE 0

Bounded(score, n) == Max({0, Min({100 * n, score})})

SafetyScore(exposure, n) ==
    Bounded(100 * n - MapThenSumSet(LAMBDA h : HazardPenalty(exposure, n, h),
                                    DOMAIN exposure \cap DOMAIN Base), n)

ScoreLevel(score, n) ==
    CASE score >= 75 * n -> "safe" [] score >= 50 * n /\ score < 75 * n -> "caution"
      [] OTHER -> "danger"

\* The hazards that some of the points are inside, and how many.
Exposure(w, points) ==
    LET In(h) == Cardinality({i \in DOMAIN points : Inside(w.zones[points[i]], h)}) IN
    [h \in {k \in DOMAIN Base : In(k) > 0} |-> In(h)]

\* Every step-th point, and the last one.
SampledWithLast(path, count) ==
    LET step == Max({1, Len(path) \div Min({count, Len(path)})})
        taken == [i \in 1..((Len(path) - 1) \div step + 1) |-> path[(i - 1) * step + 1].at] IN
    IF Last(taken) = Last(path).at THEN taken ELSE Append(taken, Last(path).at)

-----------------------------------------------------------------------------
(* Kikikuru adjustment of assess_route_risk                                *)

KikikuruHazards ==
    [inund |-> {"inland_flood", "pseudo_inland_flood"},
     flood |-> {"flood", "lowland_poor_drainage"}, land |-> {"landslide"}]
KikikuruBase == [inund |-> 3, flood |-> 4, land |-> 4]

\* A kind that meets a fixed hazard counts twice; danger counts twice.
KikikuruAdjustment(w, exposure) ==
    LET raised == IF w.kikikuru.status # "ok" THEN {}
                  ELSE {k \in DOMAIN KikikuruBase : w.kikikuru[k] \in {"caution", "danger"}}
        Overlaps(k) == KikikuruHazards[k] \cap DOMAIN exposure # {}
        Penalty(k) == KikikuruBase[k] * (IF Overlaps(k) THEN 2 ELSE 1)
                                      * (IF w.kikikuru[k] = "danger" THEN 2 ELSE 1)
        overlap == \E k \in raised : Overlaps(k) IN
    [penalty |-> Min({MapThenSumSet(Penalty, raised), IF overlap THEN 30 ELSE 20}),
     max_level |-> IF overlap THEN "danger" ELSE "caution"]

\* Where no fixed hazard overlaps, the level is cut down to caution.  A request of
\* fewer than two points is refused.
AssessRouteRisk(w, path) ==
    LET points == SampledWithLast(path, MaxSamples)
        n == Len(points)
        exposure == Exposure(w, points)
        fixed == SafetyScore(exposure, n)
        adjustment == KikikuruAdjustment(w, exposure)
        adjusted == Max({0, fixed - adjustment.penalty * n})
        level == ScoreLevel(adjusted, n) IN
    IF Len(path) < 2 THEN "refused"
    ELSE CASE adjustment.penalty = 0 -> ScoreLevel(fixed, n)
           [] adjustment.penalty > 0 /\ adjustment.max_level = "caution" /\ level = "danger"
                -> "caution"
           [] OTHER -> level

-----------------------------------------------------------------------------
(* The comparison of routes: route_comparison_service.py                   *)

\* The last point is appended and then, with MaxSamples taken, cut off again.
SampleUniform(path) ==
    LET step == Max({1, Len(path) \div MaxSamples})
        taken == SampledWithLast(path, MaxSamples) IN
    IF Len(path) <= MaxSamples THEN [i \in DOMAIN path |-> path[i].at]
    ELSE SubSeq(taken, 1, Min({Len(taken), MaxSamples}))

\* The rain of a route is that of its middle point.
RouteWeather(w, path) ==
    LET precip == PrecipitationSummary(w.rain[path[Len(path) \div 2 + 1].at])
        known == {precip.current} \cup ToSet(precip.ahead) IN
    IF precip.status = "unavailable" THEN [intensity |-> "unknown", risk |-> "unavailable"]
    ELSE [intensity |-> CHOOSE i \in known : \A j \in known : IntensityRank(j) <= IntensityRank(i),
          risk |-> precip.severity]

WeatherPenalty(intensity, exposure) ==
    LET strong == [flood |-> 15, landslide |-> 15, inland_flood |-> 10, storm_surge |-> 10]
        severe == [flood |-> 30, landslide |-> 25, inland_flood |-> 15, storm_surge |-> 20]
        base == CASE intensity = "severe" -> 30 [] intensity = "strong" -> 15
                  [] intensity = "moderate" -> 5 [] intensity = "weak" -> 2 [] OTHER -> 0
        met == DOMAIN exposure \cap DOMAIN strong IN
    base + CASE intensity = "severe" -> MapThenSumSet(LAMBDA h : severe[h], met)
             [] intensity = "strong" -> MapThenSumSet(LAMBDA h : strong[h], met)
             [] OTHER -> 0

\* What is not available ranks with none, and only unknown is kept as such.
ToRiskLevel(score, n, risk) ==
    LET rank == SeverityRank(risk) IN
    IF score < 30 * n \/ rank >= 4 THEN "emergency"
    ELSE IF score < 50 * n \/ rank = 3 THEN "warning"
    ELSE IF score < 75 * n \/ rank = 2 THEN "advisory"
    ELSE IF risk = "unknown" THEN "unknown" ELSE "none"

AssessRoute(w, route) ==
    LET path == route.path
        points == SampleUniform(path)
        n == Len(points)
        weather == RouteWeather(w, path)
        score == Bounded(SafetyScore(Exposure(w, points), n)
                         - WeatherPenalty(weather.intensity, Exposure(w, points)) * n, n) IN
    IF Len(path) < 2 THEN [level |-> "unknown", score |-> 50, samples |-> 1]
    ELSE [level |-> ToRiskLevel(score, n, weather.risk), score |-> score, samples |-> n]

\* Level, then score, then the shorter, then the faster, then the first.
Better(w, r, s) ==
    LET a == AssessRoute(w, Routes[r])
        b == AssessRoute(w, Routes[s])
        Rank(l) == IF l = "unknown" THEN -5 ELSE -LevelRank(l)
        keys == <<<<Rank(a.level), Rank(b.level)>>, <<a.score * b.samples, b.score * a.samples>>,
                  <<-Routes[r].metres, -Routes[s].metres>>,
                  <<-Routes[r].seconds, -Routes[s].seconds>>, <<-r, -s>>>> IN
    \E k \in DOMAIN keys : /\ keys[k][1] > keys[k][2]
                           /\ \A j \in 1..(k - 1) : keys[j][1] = keys[j][2]

RecommendedRoute(w) == CHOOSE r \in DOMAIN Routes : \A s \in DOMAIN Routes \ {r} : Better(w, r, s)

-----------------------------------------------------------------------------
(* The world: one of the sources says something else.                      *)

RiskInit ==
    \E a \in Alerts, r \in Forecast, z \in Zones, k \in Kikikurus :
        world = [alerts |-> a, rain |-> [p \in Points |-> r], zones |-> [p \in Points |-> z],
                 kikikuru |-> k]

AlertsChange == \E a \in Alerts : world' = [world EXCEPT !.alerts = a]
RainChanges(p) == \E r \in Forecast : world' = [world EXCEPT !.rain[p] = r]
ZonesReloaded(p) == \E z \in Zones : world' = [world EXCEPT !.zones[p] = z]
KikikuruChanges == \E k \in Kikikurus : world' = [world EXCEPT !.kikikuru = k]

RiskNext ==
    \/ AlertsChange \/ KikikuruChanges
    \/ \E p \in Points : RainChanges(p) \/ ZonesReloaded(p)

RiskSpec == RiskInit /\ [][RiskNext]_world

-----------------------------------------------------------------------------
(* Properties *)

\* b is at least as bad as a.
WorseIntensity(a, b) == a = b \/ IntensityRank(a) \in 0..(IntensityRank(b) - 1)
WorseRain(a, b) ==
    /\ a.down = b.down /\ WorseIntensity(a.now, b.now) /\ Len(a.ahead) = Len(b.ahead)
    /\ \A i \in DOMAIN a.ahead : WorseIntensity(a.ahead[i], b.ahead[i])
WorseZone(a, b) ==
    /\ DOMAIN a = DOMAIN b
    /\ \A h \in DOMAIN a : a[h] = b[h] \/ b[h] = "inside"
WorseAlerts(a, b) == a.status = b.status /\ LevelRank(a.severity) <= LevelRank(b.severity)

ScoreRank(l) == CASE l = "safe" -> 0 [] l = "caution" -> 1 [] OTHER -> 2

\* Stronger rain, a graver warning or one more hazard zone never makes a place or a
\* route look safer: not the level of the place, not the level of the route ahead,
\* not the level or the score of a route in either of the two scorings.
NoSafer(old, new) ==
    /\ \A p \in Points : LevelRank(RiskContext(old, p)) <= LevelRank(RiskContext(new, p))
    /\ \A r \in DOMAIN Routes :
           LET path == Routes[r].path
               before == AssessRoute(old, Routes[r])
               after == AssessRoute(new, Routes[r]) IN
           /\ LevelRank(RouteAhead(old, path, 0)) <= LevelRank(RouteAhead(new, path, 0))
           /\ LevelRank(before.level) <= LevelRank(after.level) /\ before.score >= after.score
           /\ ScoreRank(AssessRouteRisk(old, path)) <= ScoreRank(AssessRouteRisk(new, path))

WorseIsNeverSafer ==
    [][\A old \in {world}, new \in {world'} :
           /\ old # new
           /\ WorseAlerts(old.alerts, new.alerts) /\ old.kikikuru = new.kikikuru
           /\ \A p \in Points : WorseRain(old.rain[p], new.rain[p])
                                 /\ WorseZone(old.zones[p], new.zones[p])
           => NoSafer(old, new)]_world

NothingKnown(r) == r.down \/ {r.now} \cup ToSet(r.ahead) = {"unknown"}

\* A place whose warnings or rain could not be read is not called free of risk;
\* nor is a route ahead, from any of its segments, of which one sample, or the
\* point where it goes on, has rain that could not be read; nor, in the
\* comparison, a route whose forecast was read and says nothing.  A comparison
\* whose forecast is unavailable is not held to it: the promise of its module
\* (line 12: unknown is not turned into none) is not kept there, an unavailable
\* forecast ranks with none (lines 202-203, 243 and 252).
UnknownIsNotNone ==
    world # <<>> =>
    /\ \A p \in Points :
           NothingKnown(world.rain[p]) \/ world.alerts.status = "unavailable"
               \/ world.alerts.severity = "unknown"
           => RiskContext(world, p) # "none"
    /\ \A r \in DOMAIN Routes :
           LET path == Routes[r].path
               middle == world.rain[path[Len(path) \div 2 + 1].at] IN
           /\ \A segment \in 0..(Len(path) - 1) :
                  LET ahead == SubSeq(path, segment + 1, Len(path)) IN
                  (\E p \in {ahead[1].at} \cup ToSet(SampleRoute(ahead)) :
                       NothingKnown(world.rain[p]))
                  => RouteAhead(world, path, segment) # "none"
           /\ Len(path) >= 2 /\ ~middle.down /\ NothingKnown(middle)
              => AssessRoute(world, Routes[r]).level # "none"

\* A kikikuru warning never makes a route look safer than its fixed hazards do.
KikikuruNeverHelps ==
    \A r \in DOMAIN Routes :
        LET points == SampledWithLast(Routes[r].path, MaxSamples)
            fixed == SafetyScore(Exposure(world, points), Len(points)) IN
        ScoreRank(ScoreLevel(fixed, Len(points)))
        <= ScoreRank(AssessRouteRisk(world, Routes[r].path))
=============================================================================

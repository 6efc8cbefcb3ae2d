----------------------------- MODULE Simulation -------------------------------
(***************************************************************************)
(* The simulation mode of the operator (simulation_service.py): a scenario *)
(* of rain, warning and hazards is put on the routes that the routing      *)
(* engine answers with, which are scored as in the comparison of routes    *)
(* (RouteRisk) and ranked; one of them is recommended, with penalties that *)
(* are to explain its score.                                               *)
(*                                                                         *)
(* The automatic run tries the predefined scenarios on the same routes.    *)
(* Left out are the texts, and saving scenarios and reports.               *)
(***************************************************************************)
EXTENDS RouteRisk

CONSTANTS
    Lengths,        \* the metres of the routes the engine answers with, to choose from
    HazardScenarios,    \* [unavailable, inside] to choose from
    WeatherScenarios,   \* [unknown, severity, now, ahead] to choose from
    Predefined      \* scenario -> [weather, hazards, overrides, expected]

\* The flags of a HazardScenario; a warning of another grade counts as none.
ASSUME SimulationAssumption ==
    /\ Lengths \subseteq Seq(Nat)
    /\ HazardScenarios \subseteq [unavailable : BOOLEAN, inside : SUBSET DOMAIN Base]
    /\ WeatherScenarios \subseteq
         [unknown : BOOLEAN, severity : {"none", "advisory", "warning", "emergency"},
          now : STRING, ahead : STRING]

VARIABLE trial      \* [weather, hazards, overrides, lengths], or <<>> before the first

-----------------------------------------------------------------------------
(* The weather of a scenario *)

\* _resolve_max_intensity(): the graver of now and ahead
MaxIntensity(weather) ==
    IF weather.unknown THEN "unknown"
    ELSE IF IntensityRank(weather.ahead) >= IntensityRank(weather.now) THEN weather.ahead
    ELSE weather.now

RiskOfIntensity(i) ==
    CASE i = "severe" -> "emergency" [] i = "strong" -> "warning" [] i = "moderate" -> "advisory"
      [] OTHER -> "none"

\* _make_weather_risk(): with the rain unknown, the warning does not count.
WeatherRisk(weather) ==
    LET rain == RiskOfIntensity(MaxIntensity(weather)) IN
    IF weather.unknown THEN "unknown"
    ELSE IF SeverityRank(weather.severity) >= SeverityRank(rain) THEN weather.severity ELSE rain

-----------------------------------------------------------------------------
(* The score of a route *)

\* Every route is wholly inside its hazards: one sample, inside.
ExposureOf(hazards) == [h \in IF hazards.unavailable THEN {} ELSE hazards.inside |-> 1]

\* Mutant: the rain does not count the more for the hazards it meets.
UncombinedScore(weather, hazards) ==
    Bounded(SafetyScore(ExposureOf(hazards), 1) - WeatherPenalty(MaxIntensity(weather), <<>>), 1)
SimulatedScore(weather, hazards) ==
    LET exposure == ExposureOf(hazards) IN
    Bounded(SafetyScore(exposure, 1) - WeatherPenalty(MaxIntensity(weather), exposure), 1)

SimulatedLevel(weather, hazards) ==
    LET risk == WeatherRisk(weather) IN
    IF hazards.unavailable
    THEN IF SeverityRank(risk) = 0 THEN "unknown" ELSE risk
    ELSE ToRiskLevel(SimulatedScore(weather, hazards), 1, risk)

\* What the result lists as the reasons of the score.
Penalties(weather, hazards) ==
    LET exposure == ExposureOf(hazards)
        rain == MaxIntensity(weather)
        alone == WeatherPenalty(rain, <<>>) IN
    {[type |-> <<rain>>, points |-> alone] : x \in {y \in {rain} : alone > 0}}
    \cup {[type |-> <<h>>, points |-> HazardPenalty(exposure, 1, h)] : h \in DOMAIN exposure}
    \cup {e \in {[type |-> <<rain, h>>, points |-> WeatherPenalty(rain, [k \in {h} |-> 1]) - alone] :
                   h \in DOMAIN exposure} : e.points > 0}

-----------------------------------------------------------------------------
(* A run *)

HazardsOf(t, r) == IF r \in DOMAIN t.overrides THEN t.overrides[r] ELSE t.hazards
LevelOf(t, r) == SimulatedLevel(t.weather, HazardsOf(t, r))
ScoreOf(t, r) == SimulatedScore(t.weather, HazardsOf(t, r))

\* Mutant: the order of risks for the order of safety.
RiskOrder(l) == IF l = "unknown" THEN -1 ELSE SeverityRank(l)
\* What is not known ranks below every known danger.
SafetyOrder(l) == IF l = "unknown" THEN -5 ELSE -SeverityRank(l)

\* Level, then score, then the shorter, then the first.
PlaceOf(t, r) == <<SafetyOrder(LevelOf(t, r)), ScoreOf(t, r), -t.lengths[r], -r>>
Outranks(a, b) == \E i \in DOMAIN a : a[i] > b[i] /\ \A j \in 1..(i - 1) : a[j] = b[j]
RecommendedOf(t) ==
    CHOOSE r \in DOMAIN t.lengths :
        \A s \in DOMAIN t.lengths \ {r} : Outranks(PlaceOf(t, r), PlaceOf(t, s))
ShortestOf(t) ==
    CHOOSE r \in DOMAIN t.lengths : \A s \in DOMAIN t.lengths \ {r} :
        Outranks(<<-t.lengths[r], -r>>, <<-t.lengths[s], -s>>)

\* _check_expected() of the automatic run
Passes(t, expected) ==
    /\ t.lengths # <<>>
    /\ LET level == LevelOf(t, RecommendedOf(t)) IN
       CASE expected.kind = "level" -> level = expected.level
         [] expected.kind = "at least" -> RiskOrder(level) >= RiskOrder(expected.level)
         [] OTHER -> Len(t.lengths) > 1 => RecommendedOf(t) # ShortestOf(t)
AutoRun(lengths) ==
    [id \in DOMAIN Predefined |->
       LET p == Predefined[id] IN
       Passes([weather |-> p.weather, hazards |-> p.hazards, overrides |-> p.overrides,
               lengths |-> lengths], p.expected)]

-----------------------------------------------------------------------------
(* The operator changes one thing of the scenario and runs it again. *)

SimulationInit == trial = <<>>

FirstTrial ==
    /\ trial = <<>>
    /\ \E lengths \in Lengths, weather \in WeatherScenarios :
         trial' = [weather |-> weather, hazards |-> [unavailable |-> FALSE, inside |-> {}],
                   overrides |-> <<>>, lengths |-> lengths]

SetHazards ==
    /\ trial # <<>>
    /\ \E hazards \in HazardScenarios : trial' = [trial EXCEPT !.hazards = hazards]
OverrideRoute(r) ==
    /\ trial # <<>> /\ r \in DOMAIN trial.lengths
    /\ \E hazards \in HazardScenarios :
         trial' = [trial EXCEPT !.overrides = [s \in DOMAIN @ \cup {r} |->
                                                 IF s = r THEN hazards ELSE @[s]]]

SimulationNext == FirstTrial \/ SetHazards \/ \E r \in 1..3 : OverrideRoute(r)
SimulationSpec == SimulationInit /\ [][SimulationNext]_trial

-----------------------------------------------------------------------------
\* The penalties that are listed for a route add up to what it lost of its score;
\* they may only add up to more where nothing was left to lose.
PenaltiesExplainTheScore(t) ==
    \A r \in DOMAIN t.lengths :
        LET listed == MapThenSumSet(LAMBDA e : e.points, Penalties(t.weather, HazardsOf(t, r)))
            lost == 100 - ScoreOf(t, r)
        IN listed = lost \/ (lost = 100 /\ listed > 100)

\* The predefined scenarios pass on all routes of which the first is the shortest.
PredefinedScenariosPass(t) ==
    ShortestOf(t) = 1 => \A id \in DOMAIN Predefined : AutoRun(t.lengths)[id]

SimulationAgrees(t) == t # <<>> => PenaltiesExplainTheScore(t) /\ PredefinedScenariosPass(t)

\* A route that is not recommended does not become so by being put into one more
\* hazard; except in unknown weather, where a route of a known danger outranks
\* those of which nothing is known.
WorseRouteIsNotPreferred(old, new) ==
    (old # <<>> /\ new # old) =>
       \A r \in DOMAIN old.lengths :
         (/\ ~old.weather.unknown
          /\ RecommendedOf(old) # r
          /\ \A s \in DOMAIN old.lengths \ {r} : HazardsOf(new, s) = HazardsOf(old, s)
          /\ ~HazardsOf(old, r).unavailable /\ ~HazardsOf(new, r).unavailable
          /\ HazardsOf(old, r).inside \subseteq HazardsOf(new, r).inside)
         => RecommendedOf(new) # r

\* Scores, penalties, the ranking and the verdicts of the automatic run are computed
\* apart from each other: however an operator changes the scenario, they agree, and a
\* change for the worse does not make a route the recommended one.
SimulationIsSound ==
    [][SimulationAgrees(trial') /\ WorseRouteIsNotPreferred(trial, trial')]_trial
=============================================================================

-------------------------- MODULE EvacuationSearch --------------------------
(***************************************************************************)
(* What /api/evacuation and /api/hazard-check answer (app_public.py,       *)
(* hazard_engine.py, tti_service.py, geometry_utils.py): the verdict on    *)
(* where the user is, the area that can be reached before the tsunami, and *)
(* the places to go to, the recommended one first.                         *)
(*                                                                         *)
(* The answer is a function of the loaded hazards and of the request,      *)
(* [at, minGain, maxDistance, mode].  Distances are in metres, times in    *)
(* 1/2000 of a minute and scores in 1/300 of a point, so that all of the   *)
(* arithmetic is exact.                                                    *)
(***************************************************************************)
EXTENDS HazardService

CONSTANTS
    Metres,         \* the distance from a place to the next
    Elevation,      \* place -> its elevation, or NoElevation
    NoElevation,
    Shelters,       \* the sequences of shelters, [at, types], there may be
    SearchRequests,
    MaxListed,      \* 15
    MaxGrid         \* 10

ASSUME EvacuationAssumption ==
    /\ Metres \in Nat /\ MaxListed \in Nat
    /\ Elevation \in [Places -> Int \cup {NoElevation}]
    /\ \A request \in SearchRequests : request.at \in Places
    /\ \A shelters \in Shelters :
          shelters \in Seq(Range(shelters)) /\ \A s \in Range(shelters) : s.at \in Places

Abs(n) == IF n < 0 THEN -n ELSE n
Lesser(a, b) == IF a < b THEN a ELSE b
Distance(a, b) == Metres * Abs(a - b)

-----------------------------------------------------------------------------
(* The tsunami: it comes at 30 km/h from the centroid of the first polygon *)
(* around the place                                                        *)

\* get_time_to_impact_detail(): a place outside of every polygon has no time to impact.
ImpactKnown(place) == Hits("tsunami", place) # {}
TimeToImpact(place) == 4 * Distance(place, FirstHit("tsunami", place).centre)

\* _calc_estimated_time()
TravelTime(distance, mode) == (IF mode = "driving" THEN 30 ELSE 45) * distance

\* _classify_time_margin() and _time_margin_score_bonus()
MarginBonus(request, distance) ==
    LET margin == TimeToImpact(request.at) - TravelTime(distance, request.mode) IN
    IF ~ImpactKnown(request.at) THEN -3000
    ELSE IF margin >= 10000 THEN 6000 ELSE IF margin >= 0 THEN 0 ELSE -24000

\* _calc_rsa(): what can be reached at 1.3 m/s.
Reachable(place) ==
    {p \in Places : 500 * Distance(place, p) <= 78 * Distance(place, FirstHit("tsunami", place).centre)}

\* calc_reachable_safe_area(): no area is drawn when a shape that would be cut out of it is
\* not there.
AreaStatus(place) ==
    IF ~ImpactKnown(place) THEN "skipped"
    ELSE IF RingsAvailable(Min(Reachable(place)), Max(Reachable(place))) THEN "computed"
    ELSE "unavailable"
SafeArea(place) ==
    LET reach == Reachable(place) IN
    reach \ UNION {ShapeOf(r[1], r[2]) : r \in RingsNearby(Min(reach), Max(reach))}

-----------------------------------------------------------------------------
(* The destinations                                                        *)

\* _calc_severity_penalty()
SeverityPenalty(place) ==
    LET penalty(type) ==
            IF type \notin LoadedTypes THEN 0
            ELSE CASE LevelAt(type, place) = "critical" -> 15000
                   [] LevelAt(type, place) = "danger" -> 6000
                   [] OTHER -> 0
    IN  penalty("inland_flood") + penalty("landslide")

\* _calc_safety_score()
CandidateScore(request, place) ==
    LET gain == Elevation[place] - Elevation[request.at]
        distance == Distance(request.at, place)
        penalty == [NO_HAZARD_RECORD |-> 0, HAZARD_DETECTED |-> 30000, SOURCE_UNAVAILABLE |-> 6000]
    IN  Lesser(500 * gain, 15000) + (15000 - Lesser(3 * distance, 15000))
            - penalty[AggregateAt(place)] - SeverityPenalty(place) + MarginBonus(request, distance)

\* High enough and near enough.
InReach(request, place) ==
    /\ Elevation[place] # NoElevation
    /\ Distance(request.at, place) <= request.maxDistance
    /\ Elevation[place] - Elevation[request.at] >= request.minGain

\* The bonus of search_shelter_destinations(): the shelter is meant for a hazard of this place.
ShelterScore(request, shelter) ==
    CandidateScore(request, shelter.at)
        + (IF shelter.types \cap HazardsAt(request.at) # {} THEN 3000 ELSE 0)

Candidate(id, place, score) == [id |-> id, at |-> place, score |-> score, tier |-> AggregateAt(place)]
\* A stable sort by score, highest first.
Before(a, b) == a.score > b.score \/ (a.score = b.score /\ a.id < b.id)
FirstOf(n, candidates) == {c \in candidates : Cardinality({d \in candidates : Before(d, c)}) < n}

\* evacuation.exclude_unsafe_candidates
WithoutUnsafe(candidates, exclude) ==
    LET safer == {c \in candidates : c.tier # "HAZARD_DETECTED"} IN
    IF exclude /\ safer # {} THEN safer ELSE candidates

ShelterCandidates(request, shelters) ==
    {Candidate(i, shelters[i].at, ShelterScore(request, shelters[i])) :
        i \in {j \in DOMAIN shelters : InReach(request, shelters[j].at)}}
SearchShelters(request, shelters, exclude) ==
    FirstOf(MaxListed, WithoutUnsafe(ShelterCandidates(request, shelters), exclude))

\* find_evacuation_destinations(): the first places of the grid by height and distance alone.
GridScore(request, place) ==
    2 * Lesser(500 * (Elevation[place] - Elevation[request.at]), 15000)
        + (30000 - Lesser(15 * Distance(request.at, place), 30000))
GridPlaces(request) ==
    {c.at : c \in FirstOf(MaxGrid, {[id |-> p, at |-> p, score |-> GridScore(request, p)] :
                                        p \in {q \in Places : InReach(request, q)}})}
SearchGrid(request, exclude) ==
    WithoutUnsafe({Candidate(p, p, CandidateScore(request, p)) : p \in GridPlaces(request)}, exclude)

\* evaluate_point()
PointEvaluated(place) == [hazards |-> HazardsAt(place), aggregate |-> AggregateAt(place)]

\* Without an elevation of where the user is there is no answer.
Answered(request) == Elevation[request.at] # NoElevation
Listed(request, shelters, exclude) ==
    IF shelters # <<>> THEN SearchShelters(request, shelters, exclude)
    ELSE SearchGrid(request, exclude)

Tiers == <<"NO_HAZARD_RECORD", "SOURCE_UNAVAILABLE", "HAZARD_DETECTED">>
TierRank(tier) == CHOOSE i \in DOMAIN Tiers : Tiers[i] = tier

\* Mutant: the score, which holds the verdict already, decides.
RecommendedByScore(candidates) ==
    CHOOSE c \in candidates : \A d \in candidates : d # c => Before(c, d)

\* _select_recommended(): the best of the first tier that has one.
Recommended(candidates) ==
    CHOOSE c \in candidates : \A d \in candidates :
        \/ TierRank(c.tier) < TierRank(d.tier)
        \/ c.tier = d.tier /\ (c = d \/ Before(c, d))

\* find_evacuation_destinations(): the answer.  The list is the whole one, the recommended
\* place is chosen from it, and how many of it are without a record is told beside.
HereEvaluated(request) ==
    [point |-> PointEvaluated(request.at), impactKnown |-> ImpactKnown(request.at),
     area |-> AreaStatus(request.at)]
NothingFound == [destinations |-> {}, recommended |-> NoElevation, clear |-> 0]
Destinations(listed) ==
    [destinations |-> listed, recommended |-> Recommended(listed),
     clear |-> Cardinality({c \in listed : c.tier = "NO_HAZARD_RECORD"})]
EvacuationAnswer(request, shelters, exclude) ==
    LET listed == Listed(request, shelters, exclude) IN
    IF ~Answered(request) THEN [status |-> 404]
    ELSE [status |-> 200, here |-> HereEvaluated(request),
          found |-> IF listed = {} THEN NothingFound ELSE Destinations(listed)]

-----------------------------------------------------------------------------
(* Properties                                                              *)

RingsOf(type) == UNION {Range(f.rings) : f \in {g \in sources : g.type = type}}

\* A place where nothing is recorded: the data of every type is there, with every wanted
\* tsunami dataset, and neither a polygon of it nor one of a tsunami dataset that this server
\* does not evaluate covers the place.  (An unreadable file counts as absent.)
NoRecordIsTrue ==
    Serving => \A p \in Places :
        AggregateAt(p) = "NO_HAZARD_RECORD" =>
            /\ \A t \in HazardTypes : RingsOf(t) # {} /\ \A r \in RingsOf(t) : p \notin r.inside
            /\ \A r \in Wanted : \E f \in sources : f.type = "tsunami" /\ f.region = r
            /\ \A region \in UnwantedRegions :
                    \A i \in DOMAIN Registered[region] : p \notin Registered[region][i].inside

\* Whatever was taken back and whichever write failed while the files were loaded, the safe
\* area that is drawn touches no polygon of a loaded file.
SafeAreaAvoidsLoaded ==
    Serving => \A p \in Places :
        AreaStatus(p) = "computed" =>
            \A t \in HazardTypes : \A r \in RingsOf(t) : SafeArea(p) \cap r.inside = {}

\* The hazard verdict that is given is one that the data supports, on the map and in words.
NothingCoveredIsCleared == NoRecordIsTrue /\ SafeAreaAvoidsLoaded

\* A shelter in reach has a safer verdict than the recommended one only if a whole list of
\* others has better scores: nothing but the length of the list, which is cut before the
\* verdicts are looked at, may hide it.  A place that is recommended although something is
\* recorded there is never told beside one of the list without a record.
SaferOnesAreHiddenByLengthOnly ==
    Serving => \A request \in SearchRequests, shelters \in Shelters, exclude \in BOOLEAN :
        LET answer == EvacuationAnswer(request, shelters, exclude)
            best == answer.found.recommended
            inReach == ShelterCandidates(request, shelters)
        IN  answer.status = 200 /\ answer.found.destinations # {} =>
              /\ best.tier # "NO_HAZARD_RECORD" => answer.found.clear = 0
              /\ shelters # <<>> =>
                    \A c \in inReach :
                        TierRank(c.tier) < TierRank(best.tier) =>
                            Cardinality({d \in inReach : Before(d, c)}) >= MaxListed
=============================================================================

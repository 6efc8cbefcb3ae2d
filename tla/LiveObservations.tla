-------------------------- MODULE LiveObservations --------------------------
(***************************************************************************)
(* What the public server makes of the observations it fetches: the        *)
(* history of earthquakes (P2P, else JMA), the weather of the stations     *)
(* around a place, the tides, the road traffic and the railways.  How old  *)
(* the fetched data may be is the business of LiveCaches; here it is given *)
(* and the question is what of it the answer shows.                        *)
(*                                                                         *)
(* An answer depends on nothing asked before: a behaviour ends with one.   *)
(* Left out: texts, headlines, areas of an intensity, coordinates and      *)
(* depths of earthquakes, the age of the observations, mock data.          *)
(***************************************************************************)
EXTENDS Integers, Sequences, FiniteSets, SequencesExt, FiniteSetsExt

CONSTANTS
    Lacking,        \* a field or an answer that is not there
    Unread,         \* a value that is there and cannot be read
    QuakeFeeds,     \* [now, days, p2p, jma]
    MaxEvents,      \* events taken from list.json (30)
    StationSets,    \* sets of [id, far, known, obs]
    TideWorlds,     \* [now, stations]
    HoursInADay,
    RoadFeeds,      \* [features, scope]
    BoxMargin,      \* half the width of a prefecture's box
    TrainFeeds,     \* [reports, allowlist, scope]
    OperatorPrefectures,
    Centroids       \* the middle of each prefecture, on a line

VARIABLE observation    \* [of, asked, answer]

ObservationInit == observation = [of |-> "nothing"]

Or(x, y) == IF x \in {Lacking, Unread} THEN y ELSE x
Each(s, Op(_)) == [i \in DOMAIN s |-> Op(s[i])]

\* list.sort() is stable.
Sorted(s, Above(_, _)) ==
    LET first(i, j) == Above(s[i], s[j]) \/ (~Above(s[j], s[i]) /\ i < j)
        order == SetToSortSeq(DOMAIN s, first)
    IN [i \in DOMAIN s |-> s[order[i]]]

-----------------------------------------------------------------------------
(* The history of earthquakes *)

KnownScales == {10, 20, 30, 40, 45, 50, 55, 60, 70}
ScaleOf(x) == IF x \in KnownScales THEN x ELSE 0
Magnitude(x) == IF x \notin {Lacking, Unread} /\ x > 0 THEN x ELSE Lacking

\* A point without an intensity does not count.
FromP2P(r) ==
    [time |-> r.time, place |-> r.place, points |-> Len(SelectSeq(r.points, LAMBDA p : p > 0)),
     scale |-> ScaleOf(r.scale), magnitude |-> Magnitude(r.magnitude), tsunami |-> r.tsunami]

\* The entry of list.json, refined by the report it names when that could be fetched.
JmaEvent(e) ==
    LET reported == Or(IF e.reported = Lacking THEN e.origin ELSE e.reported, Lacking)
        origin == Or(e.origin, reported)
    IN IF e.item = Lacking
       THEN [reported |-> reported, origin |-> origin, place |-> e.place,
             scale |-> ScaleOf(e.scale), magnitude |-> Magnitude(e.magnitude),
             tsunami |-> "unknown"]
       ELSE [reported |-> Or(e.item.reported, reported), origin |-> Or(e.item.origin, origin),
             place |-> Or(e.item.place, e.place),
             scale |-> ScaleOf(IF e.item.scale = Lacking THEN e.scale ELSE e.item.scale),
             magnitude |-> Or(Magnitude(e.item.magnitude), Magnitude(e.magnitude)),
             tsunami |-> e.item.tsunami]

JmaCompatible(e) ==
    [time |-> Or(e.origin, e.reported), place |-> e.place, points |-> 0, scale |-> e.scale,
     magnitude |-> e.magnitude, tsunami |-> e.tsunami]

Within(items, feed) ==
    SelectSeq(items, LAMBDA i : i.time \notin {Lacking, Unread} /\ i.time >= feed.now - feed.days)

Later(i, j) == i.time > j.time

\* A P2P that cannot be reached has no reports.
P2PReports(feed) == IF feed.p2p = Lacking THEN <<>> ELSE Each(feed.p2p, FromP2P)
RecentP2P(feed) == Sorted(Within(P2PReports(feed), feed), Later)
JmaEvents(feed) == Each(SubSeq(feed.jma, 1, Min({MaxEvents, Len(feed.jma)})), JmaEvent)
RecentJma(feed) == Within(Each(JmaEvents(feed), JmaCompatible), feed)

\* Plausible bug: the place is left out of the key.
QuakeTime(i) == i.time

\* One earthquake: the same time and the same epicentre.
QuakeKey(i) == <<i.time, i.place>>
Says(i, j) == i.points > j.points \/ (i.points = j.points /\ i.scale > j.scale)
Representative(items, key) ==
    LET group == SelectSeq(items, LAMBDA i : QuakeKey(i) = key)
        best == CHOOSE n \in DOMAIN group :
                  /\ \A m \in DOMAIN group : ~Says(group[m], group[n])
                  /\ \A m \in 1..(n - 1) : Says(group[n], group[m])
    IN [quake |-> group[best], updates |-> Len(group)]

Deduplicated(items) ==
    LET isFirst(n) == \A m \in 1..(n - 1) : QuakeKey(items[m]) # QuakeKey(items[n])
        firsts == SelectSeq([n \in DOMAIN items |-> n], isFirst)
    IN Sorted([n \in DOMAIN firsts |-> Representative(items, QuakeKey(items[firsts[n]]))],
              LAMBDA a, b : Later(a.quake, b.quake))

IsImportant(quake) ==
    (quake.magnitude # Lacking /\ quake.magnitude >= 5) \/ quake.scale >= 45

History(feed) ==
    LET recent == RecentP2P(feed)
        alone(q) == [quake |-> q, updates |-> 1]
        annotate(i) == i @@ [important |-> IsImportant(i.quake)]
    IN IF recent # <<>>
       THEN [source |-> "p2p", items |-> Each(Deduplicated(recent), annotate)]
       ELSE [source |-> "jma", items |-> Each(Each(RecentJma(feed), alone), annotate)]

AskHistory(feed) == observation' = [of |-> "history", asked |-> feed, answer |-> History(feed)]

-----------------------------------------------------------------------------
(* The weather of a place; distances in tens of kilometres, no two alike,  *)
(* temperatures in tenths of a degree                                      *)

NearestOf(stations) ==
    IF stations = {} THEN Lacking
    ELSE CHOOSE s \in stations : \A t \in stations : s.far <= t.far

HasBoth(s) == s.known /\ s.obs # Lacking /\ Lacking \notin {s.obs.temp, s.obs.wind}

\* The stations that measure temperature and wind, nearest first, at most three.
FullStations(stations) ==
    LET near == SetToSortSeq({s \in stations : HasBoth(s)}, LAMBDA s, t : s.far < t.far)
    IN SubSeq(near, 1, Min({3, Len(near)}))

\* A raw value above 60 is taken for tenths of a degree.
Tenths(raw) == IF raw > 60 THEN raw ELSE 10 * raw
Temperature(raw) == IF Tenths(raw) \in -200..450 THEN Tenths(raw) ELSE Lacking

Plausible(full) == SelectSeq(full, LAMBDA s : Temperature(s.obs.temp) # Lacking)

AreApart(a, b) == a - b >= 50 \/ b - a >= 50

Confidence(far, averaged) ==
    CASE far < 1 /\ ~averaged -> "high"
      [] far < 2 -> "medium"
      [] OTHER -> "low"

SelectTemperature(full) ==
    LET valid == Plausible(full)
        t(n) == Temperature(valid[n].obs.temp)
        averaged == Len(valid) > 1 /\ AreApart(t(1), t(2))
    IN IF valid = <<>> THEN [value |-> Lacking, confidence |-> "low"]
       ELSE [value |-> IF averaged THEN (t(1) + t(2)) \div 2 ELSE t(1),
             confidence |-> Confidence(valid[1].far, averaged)]

StationQuality(far) ==
    CASE far < 1 -> "near"
      [] far < 3 -> "medium"
      [] OTHER -> "far"

Observed(s, key) == IF s.obs = Lacking THEN Lacking ELSE s.obs[key]

WeatherAt(stations) ==
    LET full == FullStations(stations)
        nearest == NearestOf({s \in stations : s.known})
        primary == IF full # <<>> THEN full[1] ELSE nearest
    IN IF nearest = Lacking \/ \A s \in stations : s.obs = Lacking THEN Lacking
       ELSE [station |-> primary.id, far |-> primary.far,
             quality |-> StationQuality(primary.far),
             rain |-> Or(Observed(primary, "rain"), Observed(nearest, "rain")),
             wind |-> Observed(primary, "wind"),
             temperature |-> SelectTemperature(full)]

AskWeather(stations) ==
    observation' = [of |-> "weather", asked |-> stations, answer |-> WeatherAt(stations)]

-----------------------------------------------------------------------------
(* The tides: the table of each station is normalized day by day           *)

\* A line of the table counts when its date and every level of it can be read; the
\* level 999 says that there is none.
IsReadable(line) ==
    /\ line.day # Unread
    /\ Len(line.levels) = HoursInADay
    /\ Unread \notin ToSet(line.levels)

Hourly(station) ==
    {[time |-> HoursInADay * line.day + h - 1, cm |-> line.levels[h]] :
       line \in {l \in station.lines : IsReadable(l)}, h \in 1..HoursInADay}

\* The stations of the master that have a table.
WithTable(stations) == {s \in stations : s.registered /\ Hourly(s) # {}}

DayOf(time) == time \div HoursInADay

\* find_extremes(): the first and the last level of a day are neither high nor low.
Extremes(station, kind, day) ==
    LET records == {r \in Hourly(station) : DayOf(r.time) = day /\ r.cm # Lacking}
        valid == SetToSortSeq(records, LAMBDA r, s : r.time < s.time)
        level(n) == valid[n].cm
        high(n) == level(n) >= level(n - 1) /\ level(n) >= level(n + 1)
        low(n) == level(n) <= level(n - 1) /\ level(n) <= level(n + 1)
    IN {valid[n].time : n \in {m \in 2..(Len(valid) - 1) :
                                 IF kind = "high" THEN high(m) ELSE low(m) /\ ~high(m)}}

NextExtreme(station, kind, now) ==
    LET days == {d \in {DayOf(r.time) : r \in Hourly(station)} : d >= DayOf(now \div 2)}
        times == {t \in UNION {Extremes(station, kind, d) : d \in days} : 2 * t > now}
    IN IF times = {} THEN Lacking ELSE Min(times)

\* The level of the hour that has begun.
TideLevel(station, now) ==
    LET records == {r \in Hourly(station) : r.time = now \div 2}
    IN IF records = {} THEN Lacking ELSE (CHOOSE r \in records : TRUE).cm

\* now is in half hours.
NearestTable(tides) == NearestOf(WithTable(tides.stations))
TideAt(tides) ==
    LET station == NearestTable(tides)
    IN IF station = Lacking THEN Lacking
       ELSE LET answer == [station |-> station.id, level |-> TideLevel(station, tides.now),
                           high |-> NextExtreme(station, "high", tides.now),
                           low |-> NextExtreme(station, "low", tides.now)]
            IN IF {answer.level, answer.high, answer.low} = {Lacking} THEN Lacking ELSE answer

AskTide(tides) == observation' = [of |-> "tide", asked |-> tides, answer |-> TideAt(tides)]

-----------------------------------------------------------------------------
(* The road traffic: the same features of JARTIC, as items of a direction  *)
(* for the live page and as points for the layer of observations            *)

Directions == <<"up", "down">>

\* Whether the sensor was off, and the counted vehicles of one direction.
Volume(flow) ==
    IF flow.missing \/ (flow.small = Lacking /\ flow.large = Lacking) THEN Lacking
    ELSE Or(flow.small, 0) + Or(flow.large, 0) + Or(flow.other, 0)

ClassifyVolume(v) ==
    CASE v = Lacking -> "unknown"
      [] v >= 150 -> "very_high"
      [] v >= 80 -> "high"
      [] v <= 3 -> "very_low"
      [] v <= 15 -> "low"
      [] OTHER -> "normal"

RoadSeverity ==
    [normal |-> 0, unknown |-> 1, high |-> 2, low |-> 2, very_high |-> 3, very_low |-> 3]

IsPlaced(feature) == Lacking \notin {feature.at, feature.code}

RoadItems(feature) ==
    LET counted == SelectSeq(Directions, LAMBDA d : Volume(feature.flow[d]) # Lacking)
        item(d) == [code |-> feature.code, direction |-> d, at |-> feature.at,
                    status |-> ClassifyVolume(Volume(feature.flow[d]))]
    IN IF IsPlaced(feature) THEN Each(counted, item) ELSE <<>>

AllRoadItems(features) ==
    Sorted(FlattenSeq(Each(features, RoadItems)),
           LAMBDA i, j : RoadSeverity[i.status] > RoadSeverity[j.status])

\* A point is coloured by the worse of its directions.
TrafficPoint(feature) ==
    LET status(d) == ClassifyVolume(Volume(feature.flow[d]))
    IN [code |-> feature.code, at |-> feature.at,
        status |-> IF RoadSeverity[status("up")] >= RoadSeverity[status("down")]
                   THEN status("up") ELSE status("down")]
TrafficPoints(features) == Each(SelectSeq(features, IsPlaced), TrafficPoint)

\* The first of the prefectures whose middle is nearest.
Apart(x, y) == IF x > y THEN x - y ELSE y - x
NearestPrefecture(at) ==
    CHOOSE p \in DOMAIN Centroids :
        \A q \in DOMAIN Centroids : Apart(at, Centroids[p]) <= Apart(at, Centroids[q])

IsWithin(i, low, high) == i.at \in low..high
InPrefecture(items, p) ==
    IF p \notin DOMAIN Centroids THEN items
    ELSE SelectSeq(items, LAMBDA i : IsWithin(i, Centroids[p] - BoxMargin, Centroids[p] + BoxMargin))

\* The box comes before the prefecture, and that before the place.
RoadScope(items, scope) ==
    CASE scope.box # Lacking -> SelectSeq(items, LAMBDA i : IsWithin(i, scope.box[1], scope.box[2]))
      [] scope.box = Lacking /\ scope.prefecture # Lacking -> InPrefecture(items, scope.prefecture)
      [] scope.box = Lacking /\ scope.prefecture = Lacking /\ scope.at # Lacking ->
           InPrefecture(items, NearestPrefecture(scope.at))
      [] OTHER -> items

PointScope(points, scope) ==
    IF scope.box = Lacking THEN points
    ELSE SelectSeq(points, LAMBDA i : IsWithin(i, scope.box[1], scope.box[2]))

AskRoads(feed) ==
    observation' = [of |-> "roads", asked |-> feed,
                    answer |-> [items |-> RoadScope(AllRoadItems(feed.features), feed.scope),
                                points |-> PointScope(TrafficPoints(feed.features), feed.scope)]]

-----------------------------------------------------------------------------
(* The railways: a report is what its status and its text mention          *)

\* An entry without an operator or a licence is skipped; a list that cannot be read
\* allows nobody.
AllowedOperators(allowlist) ==
    IF allowlist = Unread THEN {}
    ELSE {e.operator : e \in {a \in allowlist : Lacking \notin {a.operator, a.licence}}}

TrainStatus(report) ==
    LET mentioned == report.status \cup report.text IN
    CASE report.status = {} \/ "normal" \in report.status -> "normal"
      [] "partial" \in mentioned -> "partial_suspension"
      [] "suspended" \in mentioned -> "suspended"
      [] "delay" \in mentioned -> "delay"
      [] OTHER -> "unknown"

TrainSeverity ==
    [normal |-> 0, unknown |-> 1, delay |-> 2, partial_suspension |-> 3, suspended |-> 4]

\* A keyword of temporary data in the ids excludes the report.
IsListed(report, allowed) ==
    /\ ~report.temporary
    /\ report.operator \in allowed
    /\ report.railway # Lacking
    /\ TrainStatus(report) # "normal"

TrainItem(report) ==
    [railway |-> report.railway, operator |-> report.operator, status |-> TrainStatus(report),
     updated |-> report.updated]

Disruptions(feed) ==
    LET allowed == AllowedOperators(feed.allowlist)
        items == Each(SelectSeq(feed.reports, LAMBDA r : IsListed(r, allowed)), TrainItem)
        severity(i) == TrainSeverity[i.status]
        above(i, j) == \/ severity(i) > severity(j)
                       \/ severity(i) = severity(j) /\ i.updated < j.updated
    IN Sorted(items, above)

Serves(operator, p) ==
    operator \in DOMAIN OperatorPrefectures /\ p \in OperatorPrefectures[operator]

TrainPrefecture(scope) ==
    IF scope.prefecture = Lacking /\ scope.at # Lacking THEN NearestPrefecture(scope.at)
    ELSE scope.prefecture

TrainScope(items, scope) ==
    IF TrainPrefecture(scope) = Lacking THEN items
    ELSE SelectSeq(items, LAMBDA i : Serves(i.operator, TrainPrefecture(scope)))

AskTrains(feed) ==
    observation' = [of |-> "trains", asked |-> feed,
                    answer |-> TrainScope(Disruptions(feed), feed.scope)]

-----------------------------------------------------------------------------
ObservationNext ==
    /\ observation.of = "nothing"
    /\ \/ \E feed \in QuakeFeeds : AskHistory(feed)
       \/ \E stations \in StationSets : AskWeather(stations)
       \/ \E tides \in TideWorlds : AskTide(tides)
       \/ \E feed \in RoadFeeds : AskRoads(feed)
       \/ \E feed \in TrainFeeds : AskTrains(feed)

-----------------------------------------------------------------------------
(* Properties *)

Asked == observation.asked
Told == observation.answer

\* The history groups the reports of one earthquake, and none gets lost on the way: as
\* long as P2P reports anything within the days asked for, each of its reports there is
\* counted in exactly one item, which knows at least as many places; newest first.
QuakesAreListedOnce ==
    observation.of = "history" /\ Asked.p2p # Lacking =>
      LET known == {n \in DOMAIN Asked.p2p : /\ Asked.p2p[n].time # Unread
                                             /\ Asked.p2p[n].time >= Asked.now - Asked.days}
          items == Told.items
          about(n) == {m \in DOMAIN items : /\ items[m].quake.time = Asked.p2p[n].time
                                            /\ items[m].quake.place = Asked.p2p[n].place}
          places(n) == Cardinality({i \in DOMAIN Asked.p2p[n].points : Asked.p2p[n].points[i] > 0})
      IN known # {} =>
           /\ Told.source = "p2p"
           /\ \A n \in known : \E m \in about(n) :
                /\ about(n) = {m}
                /\ items[m].quake.points >= places(n)
                /\ items[m].updates = Cardinality({k \in known : about(k) = {m}})
           /\ \A m, n \in DOMAIN items : m < n => items[m].quake.time >= items[n].quake.time

\* The weather is called sure, or its station near, only for what was measured within
\* ten kilometres; and the temperature is never beyond what some station measured.
WeatherIsOfThePlace ==
    observation.of = "weather" /\ Told # Lacking =>
      LET t == Told.temperature
          measured == {s \in Asked : s.known /\ s.obs # Lacking}
          tenths == {Temperature(s.obs.temp) : s \in {m \in measured : m.obs.temp # Lacking}}
      IN /\ t.value # Lacking => /\ \E x \in tenths \ {Lacking} : x <= t.value
                                /\ \E x \in tenths \ {Lacking} : x >= t.value
         /\ t.confidence = "high" =>
              \E s \in measured : /\ s.far < 1 /\ Temperature(s.obs.temp) = t.value
                                   /\ \A m \in measured : HasBoth(m) /\ m.far < s.far =>
                                        Temperature(m.obs.temp) = Lacking
         /\ \A s \in measured : HasBoth(s) => Told.far <= s.far

\* The next high tide that is answered comes after now, and no level of the table between
\* the two is a peak of the whole series, across midnight too: except for the first and
\* the last level of a day, which normalize_tide_jma.py never takes for one.
NextTideIsNext ==
    observation.of = "tide" /\ Told # Lacking =>
      LET station == CHOOSE s \in Asked.stations : s.id = Told.station
          known == {r \in Hourly(station) : r.cm # Lacking}
          at(t) == {r.cm : r \in {k \in known : k.time = t}}
          peak(t) == \A c \in at(t) : /\ at(t - 1) # {} /\ \A b \in at(t - 1) : b < c
                                      /\ at(t + 1) # {} /\ \A a \in at(t + 1) : a < c
          bounding(t) == t % HoursInADay \in {0, HoursInADay - 1}
          ahead == {r.time : r \in {k \in known : 2 * k.time > Asked.now}}
          inner == {t \in ahead : peak(t) /\ ~bounding(t)}
      IN /\ \A s \in Asked.stations : s.far < station.far => ~s.registered \/ Hourly(s) = {}
         /\ Told.high # Lacking => 2 * Told.high > Asked.now
         /\ \A t \in inner : Told.high # Lacking /\ Told.high <= t
         /\ \A low \in {Told.low} \ {Lacking} : ~peak(low) /\ 2 * low > Asked.now

\* Both layers of one feature agree: what is out of the ordinary on one is so on the
\* other, and as grave; and whoever stands in the box of his prefecture sees the roads
\* at his place.
TrafficLayersAgree ==
    observation.of = "roads" =>
      LET items == ToSet(AllRoadItems(Asked.features))
          about(code) == {i \in items : i.code = code}
          gravest(code) == Max({0} \cup {RoadSeverity[i.status] : i \in about(code)})
          at == Asked.scope.at
          near == {p \in DOMAIN Centroids : Apart(at, Centroids[p]) <= BoxMargin}
      IN /\ \A p \in ToSet(TrafficPoints(Asked.features)) :
              RoadSeverity[p.status] >= 2 \/ gravest(p.code) >= 2 =>
                RoadSeverity[p.status] = gravest(p.code)
         /\ Asked.scope.box = Lacking /\ Asked.scope.prefecture = Lacking /\ at # Lacking =>
              (near # {} => \A i \in items : i.at = at => i \in ToSet(Told.items))

\* No report of a disruption is lost between the railway and the list of a prefecture its
\* operator serves, or shown as a lesser one than its status says; the gravest come first,
\* and nothing of an operator without a licence in the allowlist is shown.
DisruptionsAreListed ==
    observation.of = "trains" =>
      LET shown == ToSet(Told)
          disrupted(r) == r.status # {} /\ "normal" \notin r.status
          least(r) == IF {"partial", "suspended"} \cap r.status # {} THEN 3
                      ELSE IF "delay" \in r.status THEN 2 ELSE 1
          licensed(r) == /\ Asked.allowlist # Unread
                         /\ \E a \in Asked.allowlist :
                              a.operator = r.operator /\ a.licence # Lacking
          p == TrainPrefecture(Asked.scope)
      IN /\ \A r \in ToSet(Asked.reports) :
              /\ disrupted(r) /\ ~r.temporary /\ licensed(r) /\ r.railway # Lacking
              /\ p # Lacking => Serves(r.operator, p)
              => \E i \in shown : i.railway = r.railway /\ TrainSeverity[i.status] >= least(r)
         /\ \A i \in shown : \E r \in ToSet(Asked.reports) :
              r.operator = i.operator /\ r.railway = i.railway /\ licensed(r)
         /\ \A m, n \in DOMAIN Told :
              m < n => TrainSeverity[Told[m].status] >= TrainSeverity[Told[n].status]

\* Nothing that the sources reported is lost or moved to another place, time or station
\* on the way to the page, and two pages of the same source do not contradict each other.
AnswersMatchTheSources ==
    /\ QuakesAreListedOnce /\ WeatherIsOfThePlace /\ NextTideIsNext
    /\ TrafficLayersAgree /\ DisruptionsAreListed
=============================================================================

----------------------------- MODULE LiveCaches -----------------------------
(***************************************************************************)
(* How old the live information is that the public server answers with.    *)
(* Every adapter keeps what it fetched in a module-level cache; they       *)
(* differ in its lifetime and in what they do when the source fails.       *)
(* Readers are requests in worker threads: between the reading of the      *)
(* cache and the answer of the source another request may run.             *)
(*                                                                         *)
(* A copy of the data is the time at which the source served it.  The      *)
(* adapters share nothing, so a behaviour is about one of them (source).   *)
(* Of the station observations two things are fetched, the map of values   *)
(* and the time that labels it.                                            *)
(***************************************************************************)
EXTENDS Integers, FiniteSets

CONSTANTS
    Readers,
    Adapters,       \* the adapters to look at
    Ttl,            \* lifetime of a fresh copy, of each adapter
    StaleMax,       \* how long live_weather_jma_service serves a stale copy
    BootClock,      \* the monotonic clock when the server starts
    EndClock,       \* bound on the clock
    NoData

ASSUME CacheAssumption ==
    /\ \A a \in Adapters : Ttl[a] \in Nat \ {0} /\ Ttl[a] < BootClock
    /\ StaleMax \in Nat /\ NoData \notin Nat
    /\ BootClock \in Nat /\ EndClock \in Nat

VARIABLES
    source,         \* the adapter this behaviour is about
    now,
    cache,          \* [at, data, observed], data = NoData: a failure was cached
    file,           \* the copy on disk
    label,          \* latest_time.txt: [at, data]
    map,            \* the map of observations: [at, data]
    reader,         \* a request: [step, start, old]
    answer          \* the last answer: [status, data, asked, observed], and
                    \* whether its request met a failure (history)

cacheVars == <<source, now, cache, file, label, map, reader, answer>>

NoCopy == [at |-> 0, data |-> NoData, observed |-> NoData]
Idle == [step |-> "idle", start |-> 0, old |-> NoCopy]
NoAnswer ==
    [status |-> "none", data |-> NoData, asked |-> 0, observed |-> NoData, failed |-> FALSE]

CacheInit ==
    /\ source \in Adapters
    /\ now = BootClock
    /\ cache = NoCopy /\ file = NoData /\ label = NoCopy /\ map = NoCopy
    /\ reader = [r \in Readers |-> Idle]
    /\ answer = NoAnswer

-----------------------------------------------------------------------------
(* What each adapter does when the source fails:                           *)
(*   "stale"        the old copy, however old, is answered as stale        *)
(*   "silent"       the same, and nothing tells it from a current answer   *)
(*   "limited"      the old copy, up to StaleMax old                       *)
(*   "file"         the old copy, then that of the disk                    *)
(*   "unavailable"  no old copy is answered                                *)
(*   "cached"       the failure itself is cached and answered              *)
(*   "assumed"      the failure is cached and answered as: nothing active  *)

TrainOnFailure == "stale"
RoadOnFailure == "stale"
TrafficOnFailure == "unavailable"
RailwayMapOnFailure == "cached"
RainTimesOnFailure == "silent"
RainOnFailure == "unavailable"
KikikuruTimesOnFailure == "unavailable"
KikikuruOnFailure == "unavailable"
StormSurgeOnFailure == "assumed"
WeatherOnFailure == "limited"
AlertsOnFailure == "file"
PrecipitationOnFailure == "cached"
TsunamiOnFailure == "unavailable"
QuakeListOnFailure == "silent"
QuakeHistoryOnFailure == "silent"
GeocodeOnFailure == "silent"

OnFailure ==
    CASE source = "train" -> TrainOnFailure
      [] source = "road" -> RoadOnFailure
      [] source = "traffic" -> TrafficOnFailure
      [] source = "railway_map" -> RailwayMapOnFailure
      [] source = "rain_times" -> RainTimesOnFailure
      [] source = "rain" -> RainOnFailure
      [] source = "kikikuru_times" -> KikikuruTimesOnFailure
      [] source = "kikikuru" -> KikikuruOnFailure
      [] source = "storm_surge" -> StormSurgeOnFailure
      [] source = "weather" -> WeatherOnFailure
      [] source = "alerts" -> AlertsOnFailure
      [] source = "precipitation" -> PrecipitationOnFailure
      [] source = "tsunami" -> TsunamiOnFailure
      [] source = "quake_list" -> QuakeListOnFailure
      [] source = "quake_history" -> QuakeHistoryOnFailure
      [] source = "geocode" -> GeocodeOnFailure
      [] OTHER -> "none"

\* get_tsunami_warnings() fetches on the event loop, reverse_geocode() under its
\* lock: no other request is answered meanwhile.
OneAtATime == source \in {"tsunami", "geocode"}

\* What is not there, or was read from the disk, is dated 0.
Fresh(c) == now - c.at < Ttl[source]

-----------------------------------------------------------------------------
(* One request *)

Answers(r, status, data, observed) ==
    /\ answer' = [status |-> status, data |-> data, observed |-> observed,
                  failed |-> reader[r].step = "asking",
                  asked |-> IF reader[r].step = "idle" THEN now ELSE reader[r].start]
    /\ reader' = [reader EXCEPT ![r] = Idle]

Status(data) ==
    CASE data # NoData -> "ok"
      [] OnFailure = "assumed" -> "assumed"
      [] OTHER -> "unavailable"

\* The time is taken before anything is fetched.
Ask(r) ==
    /\ source # "observations"
    /\ reader[r].step = "idle"
    /\ OneAtATime => \A o \in Readers : reader[o].step = "idle"
    /\ IF Fresh(cache) THEN Answers(r, Status(cache.data), cache.data, NoData)
       ELSE /\ reader' = [reader EXCEPT ![r] = [step |-> "asking", start |-> now, old |-> cache]]
            /\ UNCHANGED answer
    /\ UNCHANGED <<source, now, cache, file, label, map>>

\* The source serves the request; the answer arrives later (Store).
Serve(r) ==
    /\ reader[r].step = "asking"
    /\ reader' = [reader EXCEPT ![r].step = "served", ![r].old.data = now]
    /\ UNCHANGED <<source, now, cache, file, label, map, answer>>

\* A copy counts from the start of its request; an address, whose entry is
\* written with the time of writing, from its arrival.
Dated(r) == IF source = "geocode" THEN now ELSE reader[r].start

\* StoreAtEnd dates the copy when it arrived.
StoreAtEnd(r) ==
    /\ reader[r].step = "served"
    /\ cache' = [NoCopy EXCEPT !.at = now, !.data = reader[r].old.data]
    /\ file' = IF OnFailure = "file" THEN reader[r].old.data ELSE file
    /\ Answers(r, "ok", reader[r].old.data, NoData)
    /\ UNCHANGED <<source, now, label, map>>

\* The copy is dated with the start of the request, so a copy that took long, or
\* that overwrites a newer one, does not live longer for it.
Store(r) ==
    /\ reader[r].step = "served"
    /\ cache' = [NoCopy EXCEPT !.at = Dated(r), !.data = reader[r].old.data]
    /\ file' = IF OnFailure = "file" THEN reader[r].old.data ELSE file
    /\ Answers(r, "ok", reader[r].old.data, NoData)
    /\ UNCHANGED <<source, now, label, map>>

\* What a silent adapter makes of a failure: the copy it has, as if it were
\* current.  Without one, the list of earthquakes is empty, like a quiet day's.
Unmarked(data) ==
    CASE data # NoData -> "ok"
      [] source = "quake_list" -> "assumed"
      [] OTHER -> "unavailable"

\* The source cannot be reached or understood.
Unreachable(r) ==
    LET old == reader[r].old
        Stale(c) == Answers(r, IF c.data = NoData THEN "unavailable" ELSE "stale", c.data, NoData)
        start == reader[r].start IN
    /\ source # "observations"
    /\ reader[r].step = "asking"
    /\ \/ /\ OnFailure = "unavailable"
          /\ Stale(NoCopy) /\ UNCHANGED cache
       \/ /\ OnFailure = "stale"
          /\ Stale(cache) /\ UNCHANGED cache
       \/ /\ OnFailure = "silent"
          /\ Answers(r, Unmarked(cache.data), cache.data, NoData) /\ UNCHANGED cache
       \/ /\ OnFailure = "limited"
          /\ Stale(IF start - cache.at <= StaleMax THEN cache ELSE NoCopy) /\ UNCHANGED cache
       \/ /\ OnFailure = "file" /\ old.data # NoData
          /\ Stale(old) /\ UNCHANGED cache
       \/ /\ OnFailure = "file" /\ old.data = NoData
          /\ Stale([NoCopy EXCEPT !.data = file])
          /\ cache' = IF file = NoData THEN cache ELSE [NoCopy EXCEPT !.data = file]
       \/ /\ OnFailure \in {"cached", "assumed"}
          /\ Answers(r, Status(NoData), NoData, NoData)
          /\ cache' = [NoCopy EXCEPT !.at = start]
    /\ UNCHANGED <<source, now, file, label, map>>

-----------------------------------------------------------------------------
(* The station observations: amedas_client.py and weather_service.py *)

\* fetch_latest_time_utc(): a failure leaves the old label.
FetchedLabel(l) ==
    {l} \cup IF l.data # NoData /\ Fresh(l) THEN {} ELSE {[NoCopy EXCEPT !.at = now, !.data = now]}

\* fetch_map_data(): the map of the latest time, or the old one.
FetchedMap(l) ==
    {map} \cup IF (map.data # NoData /\ Fresh(map)) \/ l.data = NoData THEN {}
               ELSE {[NoCopy EXCEPT !.at = now, !.data = l.data]}

AskObservations(r) ==
    /\ source = "observations"
    /\ reader[r].step = "idle"
    /\ IF Fresh(cache)
       THEN /\ Answers(r, "ok", cache.data, cache.observed)
            /\ UNCHANGED <<label, map>>
       ELSE /\ \E l \in IF map.data # NoData /\ Fresh(map) THEN {label} ELSE FetchedLabel(label) :
                 label' = l /\ map' \in FetchedMap(l)
            /\ reader' = [reader EXCEPT ![r] = [step |-> "map", start |-> now, old |-> map']]
            /\ UNCHANGED answer
    /\ UNCHANGED <<source, now, cache, file>>

\* The time of the observations is asked for again, after the values.
LabelObservations(r) ==
    /\ reader[r].step = "map"
    /\ label' \in FetchedLabel(label)
    /\ IF reader[r].old.data = NoData
       THEN Answers(r, "unavailable", NoData, NoData) /\ UNCHANGED cache
       ELSE /\ Answers(r, "ok", reader[r].old.data, label'.data)
            /\ cache' = [at |-> reader[r].start, data |-> reader[r].old.data,
                       observed |-> label'.data]
    /\ UNCHANGED <<source, now, file, map>>

-----------------------------------------------------------------------------
Tick ==
    /\ now < EndClock
    /\ now' = now + 1
    /\ UNCHANGED <<source, cache, file, label, map, reader, answer>>

\* The server restarts; its memory is gone, the addresses are on the disk, the
\* monotonic clock is the host's.
RestartServer ==
    /\ cache' = IF source = "geocode" THEN cache ELSE NoCopy
    /\ label' = NoCopy /\ map' = NoCopy
    /\ reader' = [r \in Readers |-> Idle]
    /\ answer' = NoAnswer
    /\ UNCHANGED <<source, now, file>>

CacheNext ==
    \/ Tick \/ RestartServer
    \/ \E r \in Readers : \/ Ask(r) \/ Serve(r) \/ Store(r) \/ Unreachable(r)
                          \/ AskObservations(r) \/ LabelObservations(r)

CacheSpec == CacheInit /\ [][CacheNext]_cacheVars

-----------------------------------------------------------------------------
(* Properties *)

\* What an adapter answers as current was served by its source less than one
\* lifetime before the request, however slow the source was, whichever request
\* stored it, and whatever was cached or on disk before.  The one way out is a
\* request that met a failure, of an adapter whose fallback is unmarked: the
\* tiles of the rain, the lists and the history of earthquakes.  Addresses are
\* not measured so: their entries live for hours from when they were written.
OkIsRecent ==
    answer.status = "ok" /\ source \notin {"observations", "geocode"} =>
        \/ answer.data + Ttl[source] > answer.asked
        \/ answer.failed /\ OnFailure = "silent"
=============================================================================

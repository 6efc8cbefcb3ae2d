----------------------------- MODULE LiveProofs -----------------------------
(***************************************************************************)
(* Theorems about the public server: the earthquake feed for any messages, *)
(* browsers, queue lengths and retries; the caches of the adapters for any *)
(* lifetimes and any requests; the hazard files that it gives out, for any *)
(* datasets, versions, files and tiles; the hazards that it loads, what it *)
(* says of a place and where it sends the user, for any files, places,     *)
(* failing writes, shelters and requests.                                  *)
(***************************************************************************)
EXTENDS EarthquakeFeed, LiveCaches, HazardFiles, EvacuationSearch, SequenceTheorems,
        FiniteSetTheorems, TLAPS

-----------------------------------------------------------------------------
(* The earthquake feed *)

FeedStates == {"disconnected", "connecting", "reconnecting", "connected"}

Delays == {0} \cup {BackoffDelay(r) : r \in 1..RetryCap}
StatusEvents == [kind: {"status"}, value: FeedStates, delay: Delays]
QuakeEvents == {[kind |-> "earthquake", value |-> EventId(m), delay |-> 0] : m \in Messages}
FeedEvents == StatusEvents \cup QuakeEvents

FeedType ==
    /\ loop \in {"off", "scheduled", "connecting", "receiving", "sleeping"}
    /\ state \in FeedStates
    /\ retry \in 0..RetryCap
    /\ subscribed \subseteq Clients
    /\ queue \in [Clients -> Seq(FeedEvents)]
    /\ client \in [Clients -> {"away", "opened", "streaming", "gone"}]
    /\ shown \in [Clients -> FeedStates \cup {None}]
    /\ overflowed \subseteq Clients
    /\ \A c \in Clients : client[c] \in {"opened", "streaming"} => c \in subscribed
    /\ \A c \in Clients : client[c] = "away" => c \notin subscribed /\ queue[c] = <<>>

\* Event i of the queue is the last one that tells a state.
IsLastStatus(q, i) ==
    q[i].kind = "status" /\ \A j \in DOMAIN q : j > i => q[j].kind # "status"

\* What a browser will show once it has read its queue is the state.
WillShow(c) ==
    \/ \E i \in DOMAIN queue[c] : IsLastStatus(queue[c], i) /\ queue[c][i].value = state
    \/ /\ \A i \in DOMAIN queue[c] : queue[c][i].kind # "status"
       /\ client[c] = "streaming" => shown[c] = state

WillBeTrue ==
    loop \notin {"off", "scheduled"} => \A c \in subscribed \ overflowed : WillShow(c)

\* An event behind the others.
LEMMA AppendedEvent ==
    ASSUME NEW q \in Seq(FeedEvents), NEW e \in FeedEvents
    PROVE  /\ Append(q, e) \in Seq(FeedEvents)
           /\ DOMAIN Append(q, e) = 1..(Len(q) + 1)
           /\ DOMAIN q = 1..Len(q) /\ Len(q) \in Nat
           /\ \A i \in 1..Len(q) : Append(q, e)[i] = q[i]
           /\ Append(q, e)[Len(q) + 1] = e
  OBVIOUS

\* The kinds of the events.
LEMMA EventKinds ==
    /\ \A e \in StatusEvents : e.kind = "status" /\ e.value \in FeedStates
    /\ \A e \in QuakeEvents : e.kind = "earthquake"
    /\ \A s \in FeedStates : /\ StatusEvent(s, 0) \in StatusEvents
                             /\ \A r \in 1..RetryCap : StatusEvent(s, BackoffDelay(r)) \in StatusEvents
                             /\ \A d : StatusEvent(s, d).value = s
<1>1. \A d \in Delays : \A s \in FeedStates : StatusEvent(s, d) \in StatusEvents
  BY DEF StatusEvents, StatusEvent
<1>2. 0 \in Delays /\ \A r \in 1..RetryCap : BackoffDelay(r) \in Delays
  BY Zenon DEF Delays
<1>3. \A e \in StatusEvents : e.kind = "status" /\ e.value \in FeedStates
  BY DEF StatusEvents
<1>4. \A e \in QuakeEvents : e.kind = "earthquake"
  BY DEF QuakeEvents
<1>5. \A s, d : StatusEvent(s, d).value = s
  BY DEF StatusEvent
<1> QED
  BY <1>1, <1>2, <1>3, <1>4, <1>5

\* What a published event does to the queue of a client.
LEMMA PublishedEvent ==
    ASSUME FeedType, NEW e \in FeedEvents, Publish(e)
    PROVE  /\ queue' \in [Clients -> Seq(FeedEvents)]
           /\ overflowed' \subseteq Clients /\ overflowed \subseteq overflowed'
           /\ \A c \in subscribed \ overflowed' : queue'[c] = Append(queue[c], e)
           /\ \A c \in Clients \ subscribed : queue'[c] = queue[c]
  BY AppendedEvent DEF Publish, FeedType

\* A state told to everybody is what everybody will show.
LEMMA ToldState ==
    ASSUME FeedType, NEW s \in FeedStates, NEW d, StatusEvent(s, d) \in StatusEvents,
           Publish(StatusEvent(s, d)), state' = s, UNCHANGED <<subscribed, client, shown>>
    PROVE  \A c \in (subscribed \ overflowed)' : WillShow(c)'
<1> SUFFICES ASSUME NEW c \in subscribed \ overflowed'
             PROVE  WillShow(c)'
  OBVIOUS
<1> DEFINE e == StatusEvent(s, d)
<1>1. e \in FeedEvents /\ e.kind = "status" /\ e.value = s
  BY EventKinds DEF FeedEvents
<1>2. queue'[c] = Append(queue[c], e) /\ queue[c] \in Seq(FeedEvents)
  BY <1>1, PublishedEvent DEF FeedType
<1> HIDE DEF e
<1>3. IsLastStatus(queue'[c], Len(queue[c]) + 1) /\ queue'[c][Len(queue[c]) + 1].value = s
      /\ Len(queue[c]) + 1 \in DOMAIN queue'[c]
  BY <1>1, <1>2, AppendedEvent DEF IsLastStatus
<1> QED
  BY <1>3 DEF WillShow

\* An earthquake changes nothing of what will be shown.
LEMMA ToldQuake ==
    ASSUME FeedType, NEW e \in QuakeEvents, Publish(e),
           UNCHANGED <<state, subscribed, client, shown>>,
           NEW c \in subscribed \ overflowed', WillShow(c)
    PROVE  WillShow(c)'
<1>1. e \in FeedEvents /\ e.kind # "status"
  BY EventKinds DEF FeedEvents
<1>2. queue'[c] = Append(queue[c], e) /\ queue[c] \in Seq(FeedEvents)
  BY <1>1, PublishedEvent DEF FeedType
<1>3. CASE \E i \in DOMAIN queue[c] : IsLastStatus(queue[c], i) /\ queue[c][i].value = state
  <2>1. PICK i \in DOMAIN queue[c] : IsLastStatus(queue[c], i) /\ queue[c][i].value = state
    BY <1>3
  <2>2. i \in DOMAIN queue'[c] /\ IsLastStatus(queue'[c], i) /\ queue'[c][i].value = state'
    BY <2>1, <1>1, <1>2, AppendedEvent DEF IsLastStatus
  <2> QED
    BY <2>2 DEF WillShow
<1>4. CASE \A i \in DOMAIN queue[c] : queue[c][i].kind # "status"
  <2>1. \A i \in DOMAIN queue'[c] : queue'[c][i].kind # "status"
    BY <1>4, <1>1, <1>2, AppendedEvent
  <2>2. ~ \E i \in DOMAIN queue[c] : IsLastStatus(queue[c], i)
    BY <1>4 DEF IsLastStatus
  <2> QED
    BY <2>1, <2>2 DEF WillShow
<1> QED
  BY <1>3, <1>4 DEF WillShow

\* The queue behind its first event.
LEMMA DeliveredEvent ==
    ASSUME NEW q \in Seq(FeedEvents), q # <<>>
    PROVE  /\ Head(q) = q[1] /\ q[1] \in FeedEvents
           /\ Tail(q) \in Seq(FeedEvents)
           /\ DOMAIN q = 1..Len(q) /\ Len(q) \in Nat \ {0}
           /\ DOMAIN Tail(q) = 1..(Len(q) - 1)
           /\ \A i \in 1..(Len(q) - 1) : Tail(q)[i] = q[i + 1]
  BY HeadTailProperties

LEMMA DeliverKeeps ==
    ASSUME FeedType, NEW c \in Clients, Deliver(c), WillShow(c)
    PROVE  WillShow(c)'
<1> DEFINE q == queue[c]
<1>1. q \in Seq(FeedEvents) /\ q # <<>> /\ queue'[c] = Tail(q)
      /\ client[c] = "streaming" /\ client'[c] = "streaming" /\ state' = state
      /\ shown'[c] = IF Head(q).kind = "status" THEN Head(q).value ELSE shown[c]
  BY DEF FeedType, Deliver, loopVars
<1> HIDE DEF q
<1>2. CASE \E i \in DOMAIN queue[c] : IsLastStatus(queue[c], i) /\ queue[c][i].value = state
  <2>1. PICK i \in DOMAIN q : IsLastStatus(q, i) /\ q[i].value = state
    BY <1>2 DEF q
  <2>2. CASE i = 1
    <3>1. \A j \in DOMAIN Tail(q) : Tail(q)[j].kind # "status"
      BY <1>1, <2>1, <2>2, DeliveredEvent DEF IsLastStatus
    <3>2. shown'[c] = state
      BY <1>1, <2>1, <2>2, DeliveredEvent DEF IsLastStatus
    <3> QED
      BY <3>1, <3>2, <1>1 DEF WillShow
  <2>3. CASE i # 1
    <3>1. i - 1 \in DOMAIN Tail(q) /\ IsLastStatus(Tail(q), i - 1) /\ Tail(q)[i - 1].value = state
      BY <1>1, <2>1, <2>3, DeliveredEvent DEF IsLastStatus
    <3> QED
      BY <3>1, <1>1 DEF WillShow
  <2> QED
    BY <2>2, <2>3
<1>3. CASE \A i \in DOMAIN queue[c] : queue[c][i].kind # "status"
  <2>1. \A j \in DOMAIN Tail(q) : Tail(q)[j].kind # "status"
    BY <1>1, <1>3, DeliveredEvent DEF q
  <2>2. Head(q).kind # "status"
    BY <1>1, <1>3, DeliveredEvent DEF q
  <2>3. shown[c] = state
    BY <1>1, <1>3 DEF WillShow, IsLastStatus
  <2> QED
    BY <2>1, <2>2, <2>3, <1>1 DEF WillShow
<1> QED
  BY <1>2, <1>3 DEF WillShow

\* A step that leaves the queues, the state and the browsers alone.
LEMMA QuietFeed ==
    ASSUME FeedType, UNCHANGED <<state, queue, client, shown, subscribed, overflowed>>,
           \A c \in subscribed \ overflowed : WillShow(c)
    PROVE  \A c \in (subscribed \ overflowed)' : WillShow(c)'
  BY DEF WillShow

-----------------------------------------------------------------------------
FeedInv == FeedType /\ WillBeTrue

LEMMA FeedInvInit == FeedInit => FeedInv
  BY FeedAssumption DEF FeedInit, FeedInv, FeedType, WillBeTrue, FeedStates

LEMMA FeedInvStep == FeedInv /\ [FeedNext]_feedVars => FeedInv'
<1> SUFFICES ASSUME FeedInv, [FeedNext]_feedVars
             PROVE  FeedInv'
  OBVIOUS
<1> USE DEF FeedInv
<1>1. CASE StartFeed
  BY <1>1, FeedAssumption DEF StartFeed, clientVars, FeedType, WillBeTrue
<1>2. CASE Attempt
  <2> DEFINE s == IF retry = 0 THEN "connecting" ELSE "reconnecting"
  <2>1. s \in FeedStates /\ StatusEvent(s, 0) \in StatusEvents
    BY EventKinds DEF FeedStates
  <2>2. Publish(StatusEvent(s, 0)) /\ state' = s /\ UNCHANGED <<subscribed, client, shown, retry>>
        /\ loop' = "connecting"
    BY <1>2 DEF Attempt, clientVars
  <2> HIDE DEF s
  <2>3. \A c \in (subscribed \ overflowed)' : WillShow(c)'
    BY <2>1, <2>2, ToldState
  <2>4. FeedType'
    BY <2>1, <2>2, PublishedEvent DEF FeedType, FeedEvents
  <2> QED
    BY <2>3, <2>4 DEF WillBeTrue
<1>3. CASE Connected
  <2>1. "connected" \in FeedStates /\ StatusEvent("connected", 0) \in StatusEvents
    BY EventKinds DEF FeedStates
  <2>2. Publish(StatusEvent("connected", 0)) /\ state' = "connected" /\ retry' = 0
        /\ UNCHANGED <<subscribed, client, shown>> /\ loop' = "receiving"
    BY <1>3 DEF Connected, clientVars
  <2>3. \A c \in (subscribed \ overflowed)' : WillShow(c)'
    BY <2>1, <2>2, ToldState
  <2>4. FeedType'
    BY <2>1, <2>2, PublishedEvent, FeedAssumption DEF FeedType, FeedEvents
  <2> QED
    BY <2>3, <2>4 DEF WillBeTrue
<1>4. CASE ConnectionEnds
  <2> DEFINE r == IF retry = RetryCap THEN RetryCap ELSE retry + 1
  <2>1. r \in 1..RetryCap
    BY FeedAssumption DEF FeedType
  <2>2. Publish(StatusEvent("reconnecting", BackoffDelay(r))) /\ state' = "reconnecting"
        /\ retry' = r /\ UNCHANGED <<subscribed, client, shown>> /\ loop' = "sleeping"
    BY <1>4 DEF ConnectionEnds, clientVars
  <2> HIDE DEF r
  <2>3. "reconnecting" \in FeedStates
        /\ StatusEvent("reconnecting", BackoffDelay(r)) \in StatusEvents
    BY <2>1, EventKinds DEF FeedStates
  <2>4. \A c \in (subscribed \ overflowed)' : WillShow(c)'
    BY <2>2, <2>3, ToldState
  <2>5. FeedType'
    BY <2>1, <2>2, <2>3, PublishedEvent, FeedAssumption DEF FeedType, FeedEvents
  <2> QED
    BY <2>4, <2>5 DEF WillBeTrue
<1>5. CASE StopFeed
  BY <1>5, FeedAssumption DEF StopFeed, clientVars, FeedType, WillBeTrue, FeedStates
<1>6. CASE \E m \in Messages : Receive(m)
  <2>1. PICK m \in Messages : Receive(m)
    BY <1>6
  <2> DEFINE e == [kind |-> "earthquake", value |-> EventId(m), delay |-> 0]
  <2>2. e \in QuakeEvents /\ e \in FeedEvents
    BY DEF QuakeEvents, FeedEvents
  <2>3. UNCHANGED <<loop, state, retry, subscribed, client, shown>>
        /\ (Publish(e) \/ UNCHANGED <<queue, overflowed>>)
    BY <2>1 DEF Receive, loopVars, clientVars
  <2> HIDE DEF e
  <2>4. CASE Publish(e)
    <3>1. FeedType'
      BY <2>2, <2>3, <2>4, PublishedEvent DEF FeedType
    <3>2. overflowed \subseteq overflowed'
      BY <2>2, <2>4, PublishedEvent
    <3>3. WillBeTrue'
      BY <2>2, <2>3, <2>4, <3>2, ToldQuake DEF WillBeTrue
    <3> QED
      BY <3>1, <3>3
  <2>5. CASE UNCHANGED <<queue, overflowed>>
    BY <2>3, <2>5, QuietFeed DEF FeedType, WillBeTrue
  <2> QED
    BY <2>3, <2>4, <2>5
<1>7. CASE \E c \in Clients : Subscribe(c)
  <2>1. PICK c \in Clients : Subscribe(c)
    BY <1>7
  <2>2. FeedType'
    BY <2>1 DEF Subscribe, loopVars, FeedType
  <2>3. UNCHANGED <<loop, state, queue, overflowed, shown>> /\ queue[c] = <<>>
        /\ client'[c] = "opened" /\ subscribed' = subscribed \cup {c}
        /\ \A o \in Clients \ {c} : client'[o] = client[o]
    BY <2>1 DEF Subscribe, loopVars, FeedType
  <2>4. \A o \in subscribed \ overflowed : WillShow(o) => WillShow(o)'
    BY <2>3 DEF WillShow, FeedType
  <2>5. WillShow(c)'
    BY <2>3 DEF WillShow
  <2> QED
    BY <2>2, <2>3, <2>4, <2>5 DEF WillBeTrue
<1>8. CASE \E c \in Clients : Greet(c)
  <2>1. PICK c \in Clients : Greet(c)
    BY <1>8
  <2>2. FeedType'
    BY <2>1 DEF Greet, loopVars, FeedType
  <2>3. UNCHANGED <<loop, state, queue, subscribed, overflowed>>
        /\ shown'[c] = state /\ client'[c] = "streaming"
        /\ \A o \in Clients \ {c} : shown'[o] = shown[o] /\ client'[o] = client[o]
    BY <2>1 DEF Greet, loopVars, FeedType
  <2>4. \A o \in subscribed \ overflowed : WillShow(o) => WillShow(o)'
    BY <2>3 DEF WillShow, FeedType
  <2> QED
    BY <2>2, <2>3, <2>4 DEF WillBeTrue
<1>9. CASE \E c \in Clients : Deliver(c)
  <2>1. PICK c \in Clients : Deliver(c)
    BY <1>9
  <2>2. queue[c] \in Seq(FeedEvents) /\ queue[c] # <<>>
    BY <2>1 DEF Deliver, FeedType
  <2>3. Head(queue[c]).kind = "status" => Head(queue[c]).value \in FeedStates
    BY <2>2, DeliveredEvent, EventKinds DEF FeedEvents
  <2>4. FeedType'
    BY <2>1, <2>2, <2>3, DeliveredEvent DEF Deliver, loopVars, FeedType
  <2>5. UNCHANGED <<loop, state, subscribed, overflowed, client>>
        /\ \A o \in Clients \ {c} : shown'[o] = shown[o] /\ queue'[o] = queue[o]
    BY <2>1 DEF Deliver, loopVars, FeedType
  <2>6. \A o \in subscribed \ overflowed : WillShow(o) => WillShow(o)'
    <3> SUFFICES ASSUME NEW o \in subscribed \ overflowed, WillShow(o)
                 PROVE  WillShow(o)'
      OBVIOUS
    <3>1. CASE o = c
      BY <3>1, <2>1, DeliverKeeps
    <3>2. CASE o # c
      BY <3>2, <2>5 DEF WillShow, FeedType
    <3> QED
      BY <3>1, <3>2
  <2> QED
    BY <2>4, <2>5, <2>6 DEF WillBeTrue
<1>10. CASE \E c \in Clients : Leave(c)
  <2>1. PICK c \in Clients : Leave(c)
    BY <1>10
  <2>2. FeedType'
    BY <2>1 DEF Leave, loopVars, FeedType
  <2>3. /\ UNCHANGED <<loop, state, queue, overflowed>> /\ client'[c] = "gone"
        /\ \A o \in Clients \ {c} : shown'[o] = shown[o] /\ client'[o] = client[o]
        /\ subscribed' \subseteq subscribed
    BY <2>1 DEF Leave, loopVars, FeedType
  <2>4. \A o \in subscribed \ overflowed : WillShow(o) => WillShow(o)'
    BY <2>3 DEF WillShow, FeedType
  <2> QED
    BY <2>2, <2>3, <2>4 DEF WillBeTrue
<1>11. CASE UNCHANGED feedVars
  BY <1>11, QuietFeed DEF feedVars, FeedType, WillBeTrue
<1> QED
  BY <1>1, <1>2, <1>3, <1>4, <1>5, <1>6, <1>7, <1>8, <1>9, <1>10, <1>11 DEF FeedNext

LEMMA FeedInvImplies == FeedInv => ShownIsTrue
  BY DEF FeedInv, WillBeTrue, WillShow, ShownIsTrue, FeedType

\* Whatever the source sends, whenever the connection breaks, whenever a browser
\* opens its stream: once it has read its queue, and none of its events was
\* dropped, it shows the state of the connection.
THEOREM ShownStateIsTrue == FeedSpec => []ShownIsTrue
  BY FeedInvInit, FeedInvStep, FeedInvImplies, PTL DEF FeedSpec

-----------------------------------------------------------------------------
(* The caches: what was served by the source was served after its request  *)
(* began, and a copy is dated no later than that.  The station observations *)
(* carry a label instead and are not part of this.                         *)

Datum == Nat \cup {NoData}
Copies == [at: Nat, data: Datum, observed: Datum]

CacheType ==
    /\ now \in Nat
    /\ cache \in Copies
    /\ file \in Datum
    /\ reader \in [Readers -> [step: {"idle", "asking", "served"}, start: Nat, old: Copies]]

CopyIsDated == cache.data # NoData /\ source # "geocode" => cache.at <= cache.data

ServedAfterAsked ==
    \A r \in Readers :
        reader[r].step = "served" =>
            reader[r].old.data \in Nat /\ reader[r].start <= reader[r].old.data

AskedBeforeNow == \A r \in Readers : reader[r].start <= now

CacheInv ==
    /\ source \in Adapters
    /\ source # "observations" =>
           CacheType /\ CopyIsDated /\ ServedAfterAsked /\ AskedBeforeNow
    /\ OkIsRecent

LEMMA CacheInvInit == CacheInit => CacheInv
  BY CacheAssumption
     DEF CacheInit, CacheInv, CacheType, CopyIsDated, ServedAfterAsked, AskedBeforeNow, OkIsRecent,
         Copies, Datum, NoCopy, Idle, NoAnswer

LEMMA CacheInvStep == CacheInv /\ [CacheNext]_cacheVars => CacheInv'
<1> SUFFICES ASSUME CacheInv, [CacheNext]_cacheVars
             PROVE  CacheInv'
  OBVIOUS
<1> DEFINE Facts == CacheType /\ CopyIsDated /\ ServedAfterAsked /\ AskedBeforeNow
<1>1. source \in Adapters /\ source' = source /\ Ttl[source] \in Nat \ {0}
  BY CacheAssumption
     DEF CacheInv, CacheNext, cacheVars, Tick, RestartServer, Ask, Serve, Store, Unreachable,
         AskObservations, LabelObservations
<1>4. OnFailure' = OnFailure
  BY <1>1 DEF OnFailure, TrainOnFailure, RoadOnFailure, TrafficOnFailure,
          RailwayMapOnFailure, RainTimesOnFailure, RainOnFailure,
          KikikuruTimesOnFailure, KikikuruOnFailure, StormSurgeOnFailure,
          WeatherOnFailure, AlertsOnFailure, PrecipitationOnFailure,
          TsunamiOnFailure, QuakeListOnFailure, QuakeHistoryOnFailure,
          GeocodeOnFailure
<1>2. CASE source = "observations"
  BY <1>1, <1>2 DEF CacheInv, OkIsRecent
<1>3. CASE source # "observations"
  <2>1. CacheType /\ CopyIsDated /\ ServedAfterAsked /\ AskedBeforeNow /\ OkIsRecent
    BY <1>3 DEF CacheInv
  <2> SUFFICES Facts' /\ OkIsRecent'
    BY <1>1 DEF CacheInv
  <2> USE DEF CacheType, CopyIsDated, ServedAfterAsked, AskedBeforeNow, Copies, Datum
  <2>2. CASE Tick
    BY <1>1, <1>4, <2>1, <2>2 DEF Tick, OkIsRecent
  <2>3. CASE RestartServer
    BY <2>1, <2>3, CacheAssumption DEF RestartServer, OkIsRecent, NoCopy, Idle, NoAnswer
  <2>4. ASSUME NEW r \in Readers, Ask(r)
        PROVE  Facts' /\ OkIsRecent'
    <3>1. CASE Fresh(cache)
      <4>1. /\ Answers(r, Status(cache.data), cache.data, NoData)
            /\ UNCHANGED <<source, now, cache, file>>
            /\ reader[r].step = "idle"
        BY <2>4, <3>1 DEF Ask
      <4>2. Facts'
        BY <2>1, <4>1, CacheAssumption DEF Answers, Idle, NoCopy
      <4>3. answer'.asked = now /\ answer'.data = cache.data /\ answer'.status = Status(cache.data)
        BY <4>1 DEF Answers
      <4>4. Status(cache.data) = "ok" => cache.data # NoData
        BY DEF Status
      <4> QED
        BY <1>1, <2>1, <3>1, <4>1, <4>2, <4>3, <4>4 DEF Fresh, OkIsRecent
    <3>2. CASE ~Fresh(cache)
      <4>1. /\ reader' = [reader EXCEPT ![r] = [step |-> "asking", start |-> now, old |-> cache]]
            /\ UNCHANGED <<source, now, cache, file, answer>>
        BY <2>4, <3>2 DEF Ask
      <4> QED
        BY <1>4, <2>1, <4>1 DEF OkIsRecent
    <3> QED
      BY <3>1, <3>2
  <2>5. ASSUME NEW r \in Readers, Serve(r)
        PROVE  Facts' /\ OkIsRecent'
    <3> DEFINE served == [reader[r] EXCEPT !.step = "served", !.old.data = now]
    <3>1. /\ reader' = [reader EXCEPT ![r] = served]
          /\ UNCHANGED <<source, now, cache, file, answer>>
      BY <2>1, <2>5 DEF Serve
    <3>2. /\ served \in [step: {"served"}, start: Nat, old: Copies]
          /\ served.start = reader[r].start /\ served.old.data = now
      BY <2>1
    <3> HIDE DEF served
    <3>3. \A o \in Readers : reader'[o] = IF o = r THEN served ELSE reader[o]
      BY <2>1, <3>1
    <3>4. CacheType' /\ CopyIsDated'
      BY <2>1, <3>1, <3>2
    <3>5. ServedAfterAsked' /\ AskedBeforeNow'
      BY <2>1, <3>1, <3>2, <3>3
    <3> QED
      BY <1>4, <2>1, <3>1, <3>4, <3>5 DEF OkIsRecent
  <2>6. ASSUME NEW r \in Readers, Store(r)
        PROVE  Facts' /\ OkIsRecent'
    <3>1. /\ reader[r].step = "served" /\ UNCHANGED <<source, now>>
          /\ cache' = [NoCopy EXCEPT !.at = Dated(r), !.data = reader[r].old.data]
          /\ file' \in {file, reader[r].old.data}
          /\ Answers(r, "ok", reader[r].old.data, NoData)
      BY <2>6 DEF Store
    <3>2. reader' = [reader EXCEPT ![r] = Idle]
          /\ answer'.asked = reader[r].start /\ answer'.data = reader[r].old.data
      BY <3>1 DEF Answers
    <3>3. /\ reader[r].start \in Nat /\ reader[r].old.data \in Nat
          /\ reader[r].start <= reader[r].old.data
      BY <2>1, <3>1
    <3>4. cache' \in Copies /\ (source # "geocode" => cache'.at <= cache'.data)
      BY <2>1, <3>1, <3>3 DEF NoCopy, Dated
    <3>5. reader' \in [Readers -> [step: {"idle", "asking", "served"}, start: Nat, old: Copies]]
          /\ \A o \in Readers : reader'[o] = IF o = r THEN Idle ELSE reader[o]
      BY <2>1, <3>2 DEF Idle, NoCopy
    <3>6. Facts'
      BY <2>1, <3>1, <3>3, <3>4, <3>5 DEF Idle
    <3> QED
      BY <1>1, <3>1, <3>2, <3>3, <3>6 DEF OkIsRecent
  <2>7. ASSUME NEW r \in Readers, Unreachable(r)
        PROVE  Facts' /\ OkIsRecent'
    <3>1. /\ reader' = [reader EXCEPT ![r] = Idle]
          /\ UNCHANGED <<source, now, file>>
          /\ \/ cache' = cache
             \/ cache' = [NoCopy EXCEPT !.data = file]
             \/ cache' = [NoCopy EXCEPT !.at = reader[r].start]
      BY <2>7 DEF Unreachable, Answers
    <3>2. Facts'
      BY <2>1, <3>1, CacheAssumption DEF Idle, NoCopy
    \* Only a fallback that nothing marks is answered as current.
    <3>3. answer'.status = "ok" => answer'.failed /\ OnFailure = "silent"
      <4>1. reader[r].step = "asking"
        BY <2>7 DEF Unreachable
      <4>2. answer'.failed = (reader[r].step = "asking")
        BY <2>7 DEF Unreachable, Answers
      <4>3. answer'.status = "ok" => OnFailure = "silent"
        BY <2>7 DEF Unreachable, Answers, Status
      <4> QED
        BY <4>1, <4>2, <4>3
    <3> QED
      BY <1>4, <3>1, <3>2, <3>3 DEF OkIsRecent
  <2>8. ASSUME NEW r \in Readers, AskObservations(r) \/ LabelObservations(r)
        PROVE  Facts' /\ OkIsRecent'
    BY <1>3, <2>1, <2>8 DEF AskObservations, LabelObservations
  <2>9. CASE UNCHANGED cacheVars
    BY <1>4, <2>1, <2>9 DEF cacheVars, OkIsRecent
  <2> QED
    BY <2>2, <2>3, <2>4, <2>5, <2>6, <2>7, <2>8, <2>9 DEF CacheNext
<1> QED
  BY <1>2, <1>3

\* However slow a source is, whichever of several requests stores its copy last,
\* and whatever was on disk or cached: what is answered as current was served
\* less than a lifetime before the request, but for the unmarked fallbacks of
\* the rain tiles and the earthquake lists after a failure.
THEOREM CurrentAnswersAreRecent == CacheSpec => []OkIsRecent
<1>1. CacheInv => OkIsRecent
  BY DEF CacheInv
<1> QED
  BY CacheInvInit, CacheInvStep, <1>1, PTL DEF CacheSpec

-----------------------------------------------------------------------------
(* The hazard files *)

FileOrNone(files) == files \cup {NoFile}

OutlookType ==
    [leases : BOOLEAN, link : {"absent", "current", "broken"}, tree : HazardTrees \cup {{}},
     runtime : SUBSET RuntimeFiles, lake : SUBSET LakeFiles, legacy : {LegacyFiles},
     tiles : SUBSET TileFiles, mapping : SUBSET DOMAIN HazardDatasets,
     known : SUBSET DOMAIN HazardDatasets,
     paths : [DOMAIN HazardDatasets -> [runtime : FileOrNone(RuntimeFiles), validated : {NoFile},
                                        normalized : FileOrNone(LakeFiles)]],
     changes : Nat]

\* A dataset has paths of its own files only.
OwnPaths(paths) ==
    \A d \in DOMAIN HazardDatasets :
        /\ paths[d].runtime # NoFile => paths[d].runtime.about = d
        /\ paths[d].normalized # NoFile => paths[d].normalized.about = d

OutlookInv ==
    outlook # <<>> =>
        outlook \in OutlookType /\ OneActive(outlook.mapping) /\ OwnPaths(outlook.paths)

LEMMA OutlookInvInit == HazardFilesInit => OutlookInv
  BY DEF HazardFilesInit, OutlookInv

LEMMA ChangesKeep ==
    ASSUME NEW next \in OutlookType, OneActive(next.mapping), OwnPaths(next.paths), Changes(next)
    PROVE  OutlookInv'
<1>1. outlook' = [next EXCEPT !.changes = @ + 1]
  BY DEF Changes
<1>2. outlook' \in OutlookType /\ outlook'.mapping = next.mapping /\ outlook'.paths = next.paths
  BY <1>1 DEF OutlookType
<1> QED
  BY <1>2 DEF OutlookInv

\* The looks of a request.
QueryLooks ==
    \/ LookInVersion \/ LookUpActive \/ CheckActive
    \/ LookIntoRuntime \/ LookIntoLake \/ LookIntoLegacy \/ OpenFound
    \/ LookForAny \/ ResolveWithheld \/ ResolveDescribed \/ ListTiles \/ PickTiles

LEMMA LooksChangeNothing ==
    ASSUME AskForHazard \/ LeaveHazard \/ QueryLooks PROVE UNCHANGED outlook
<1>1. CASE AskForHazard \/ LeaveHazard
  BY <1>1 DEF AskForHazard, LeaveHazard
<1>2. CASE LookIntoRuntime \/ LookIntoLake \/ LookIntoLegacy
  BY <1>2 DEF LookIntoRuntime, LookIntoLake, LookIntoLegacy, LookInto, QueryAt
<1>3. CASE LookInVersion \/ LookUpActive \/ CheckActive \/ OpenFound
  BY <1>3 DEF LookInVersion, LookUpActive, CheckActive, OpenFound, QueryAt
<1>4. CASE LookForAny \/ ResolveWithheld \/ ResolveDescribed \/ ListTiles \/ PickTiles
  BY <1>4 DEF LookForAny, ResolveWithheld, ResolveDescribed, ListTiles, PickTiles, QueryAt
<1> QED
  BY <1>1, <1>2, <1>3, <1>4 DEF QueryLooks

LEMMA OutlookInvStep == OutlookInv /\ [HazardFilesNext]_viewerVars => OutlookInv'
<1> SUFFICES ASSUME OutlookInv, [HazardFilesNext]_viewerVars PROVE OutlookInv'
  OBVIOUS
<1>1. CASE UNCHANGED outlook
  BY <1>1 DEF OutlookInv
<1>2. CASE FirstLook
  <2> DEFINE none == [d \in DOMAIN HazardDatasets |-> NoPaths]
  <2>1. none \in [DOMAIN HazardDatasets -> [runtime : FileOrNone(RuntimeFiles), validated : {NoFile},
                                            normalized : FileOrNone(LakeFiles)]]
    BY DEF NoPaths, FileOrNone
  <2>2. OwnPaths(none)
    BY DEF OwnPaths, NoPaths
  <2> HIDE DEF none
  <2>3. PICK ready \in BOOLEAN, mapped \in FirstMappings :
            outlook' = [leases |-> ready, link |-> "absent", tree |-> {}, runtime |-> {}, lake |-> {},
                        legacy |-> LegacyFiles, tiles |-> {}, mapping |-> mapped, known |-> mapped,
                        paths |-> none, changes |-> 0]
    BY <1>2 DEF FirstLook, none
  <2>4. outlook' \in OutlookType
    BY <2>1, <2>3, HazardFilesAssumption DEF OutlookType
  <2>5. OneActive(outlook'.mapping)
    BY <2>3, HazardFilesAssumption
  <2> QED
    BY <2>2, <2>3, <2>4, <2>5 DEF OutlookInv
<1>3. ASSUME outlook # <<>> PROVE outlook \in OutlookType /\ OneActive(outlook.mapping) /\ OwnPaths(outlook.paths)
  BY <1>3 DEF OutlookInv
<1>4. CASE outlook # <<>> /\ PublishTree
  <2>1. PICK tree \in HazardTrees : Changes([outlook EXCEPT !.tree = tree, !.link = "current"])
    BY <1>4 DEF PublishTree
  <2> DEFINE next == [outlook EXCEPT !.tree = tree, !.link = "current"]
  <2>2. next \in OutlookType /\ next.mapping = outlook.mapping /\ next.paths = outlook.paths
    BY <1>3, <1>4 DEF OutlookType
  <2> HIDE DEF next
  <2> QED
    BY <2>1, <2>2, <1>3, <1>4, ChangesKeep DEF next
<1>5. CASE outlook # <<>> /\ LinkBreaks
  <2> DEFINE next == [outlook EXCEPT !.link = "broken"]
  <2>1. next \in OutlookType /\ next.mapping = outlook.mapping /\ next.paths = outlook.paths
    BY <1>3, <1>5 DEF OutlookType
  <2>2. Changes(next)
    BY <1>5 DEF LinkBreaks
  <2> HIDE DEF next
  <2> QED
    BY <2>1, <2>2, <1>3, <1>5, ChangesKeep
<1>6. CASE outlook # <<>> /\ NormalizeFile
  <2>1. PICK f \in LakeFiles : Changes([outlook EXCEPT !.lake = @ \cup {f}, !.paths[f.about].normalized = f])
    BY <1>6 DEF NormalizeFile
  <2> DEFINE next == [outlook EXCEPT !.lake = @ \cup {f}, !.paths[f.about].normalized = f]
             paths == [outlook.paths EXCEPT ![f.about].normalized = f]
  <2>2. f.about \in DOMAIN HazardDatasets /\ f # NoFile
    BY HazardFilesAssumption DEF WhereItBelongs
  <2>3. paths \in [DOMAIN HazardDatasets -> [runtime : FileOrNone(RuntimeFiles), validated : {NoFile},
                                             normalized : FileOrNone(LakeFiles)]]
    BY <1>3, <1>6, <2>2 DEF OutlookType, FileOrNone
  <2>4. OwnPaths(paths)
    BY <1>3, <1>6, <2>2 DEF OutlookType, FileOrNone, OwnPaths
  <2>5. next = [outlook EXCEPT !.lake = @ \cup {f}, !.paths = paths]
    BY <1>3, <1>6 DEF OutlookType
  <2> HIDE DEF paths
  <2>6. next \in OutlookType /\ next.mapping = outlook.mapping /\ next.paths = paths
    BY <1>3, <1>6, <2>3, <2>5 DEF OutlookType
  <2>7. Changes(next)
    BY <2>1
  <2> HIDE DEF next
  <2> QED
    BY <2>4, <2>6, <2>7, <1>3, <1>6, ChangesKeep
<1>7. CASE outlook # <<>> /\ DeployFile
  <2>1. PICK f \in RuntimeFiles : Changes([outlook EXCEPT !.runtime = @ \cup {f}, !.paths[f.about].runtime = f])
    BY <1>7 DEF DeployFile
  <2> DEFINE next == [outlook EXCEPT !.runtime = @ \cup {f}, !.paths[f.about].runtime = f]
             paths == [outlook.paths EXCEPT ![f.about].runtime = f]
  <2>2. f.about \in DOMAIN HazardDatasets /\ f # NoFile
    BY HazardFilesAssumption DEF WhereItBelongs
  <2>3. paths \in [DOMAIN HazardDatasets -> [runtime : FileOrNone(RuntimeFiles), validated : {NoFile},
                                             normalized : FileOrNone(LakeFiles)]]
    BY <1>3, <1>7, <2>2 DEF OutlookType, FileOrNone
  <2>4. OwnPaths(paths)
    BY <1>3, <1>7, <2>2 DEF OutlookType, FileOrNone, OwnPaths
  <2>5. next = [outlook EXCEPT !.runtime = @ \cup {f}, !.paths = paths]
    BY <1>3, <1>7 DEF OutlookType
  <2> HIDE DEF paths
  <2>6. next \in OutlookType /\ next.mapping = outlook.mapping /\ next.paths = paths
    BY <1>3, <1>7, <2>3, <2>5 DEF OutlookType
  <2>7. Changes(next)
    BY <2>1
  <2> HIDE DEF next
  <2> QED
    BY <2>4, <2>6, <2>7, <1>3, <1>7, ChangesKeep
<1>8. CASE outlook # <<>> /\ WithdrawFile
  <2>1. PICK f \in outlook.runtime : Changes([outlook EXCEPT !.runtime = @ \ {f}])
    BY <1>8 DEF WithdrawFile
  <2> DEFINE next == [outlook EXCEPT !.runtime = @ \ {f}]
  <2>2. next \in OutlookType /\ next.mapping = outlook.mapping /\ next.paths = outlook.paths
    BY <1>3, <1>8 DEF OutlookType
  <2>3. Changes(next)
    BY <2>1
  <2> HIDE DEF next
  <2> QED
    BY <2>2, <2>3, <1>3, <1>8, ChangesKeep
<1>9. CASE outlook # <<>> /\ ForgetPath
  <2>1. PICK d \in DOMAIN HazardDatasets : Changes([outlook EXCEPT !.paths[d].runtime = NoFile])
    BY <1>9 DEF ForgetPath
  <2> DEFINE next == [outlook EXCEPT !.paths[d].runtime = NoFile]
             paths == [outlook.paths EXCEPT ![d].runtime = NoFile]
  <2>2. paths \in [DOMAIN HazardDatasets -> [runtime : FileOrNone(RuntimeFiles), validated : {NoFile},
                                             normalized : FileOrNone(LakeFiles)]]
    BY <1>3, <1>9 DEF OutlookType, FileOrNone
  <2>3. OwnPaths(paths)
    BY <1>3, <1>9 DEF OutlookType, FileOrNone, OwnPaths
  <2>4. next = [outlook EXCEPT !.paths = paths]
    BY <1>3, <1>9 DEF OutlookType
  <2> HIDE DEF paths
  <2>5. next \in OutlookType /\ next.mapping = outlook.mapping /\ next.paths = paths
    BY <1>3, <1>9, <2>2, <2>4 DEF OutlookType
  <2>6. Changes(next)
    BY <2>1
  <2> HIDE DEF next
  <2> QED
    BY <2>3, <2>5, <2>6, <1>3, <1>9, ChangesKeep
<1>10. CASE outlook # <<>> /\ BuildTiles
  <2>1. PICK t \in TileFiles : Changes([outlook EXCEPT !.tiles = @ \cup {t}])
    BY <1>10 DEF BuildTiles
  <2> DEFINE next == [outlook EXCEPT !.tiles = @ \cup {t}]
  <2>2. next \in OutlookType /\ next.mapping = outlook.mapping /\ next.paths = outlook.paths
    BY <1>3, <1>10 DEF OutlookType
  <2>3. Changes(next)
    BY <2>1
  <2> HIDE DEF next
  <2> QED
    BY <2>2, <2>3, <1>3, <1>10, ChangesKeep
<1>11. ASSUME outlook # <<>>, NEW d \in DOMAIN HazardDatasets, MapActive(d) PROVE OutlookInv'
  <2> DEFINE same == {e \in outlook.mapping : HazardDatasets[e].type = HazardDatasets[d].type
                                              /\ HazardDatasets[e].region = HazardDatasets[d].region}
             mapping == (outlook.mapping \ same) \cup {d}
             next == [outlook EXCEPT !.mapping = mapping]
  <2>1. OneActive(mapping)
    BY <1>3, <1>11 DEF OutlookType, OneActive
  <2>2. mapping \subseteq DOMAIN HazardDatasets
    BY <1>3, <1>11 DEF OutlookType
  <2>3. Changes(next)
    BY <1>3, <1>11 DEF MapActive, OutlookType
  <2> HIDE DEF mapping
  <2>4. next \in OutlookType /\ next.mapping = mapping /\ next.paths = outlook.paths
    BY <1>3, <1>11, <2>2 DEF OutlookType
  <2> HIDE DEF next
  <2> QED
    BY <2>1, <2>3, <2>4, <1>3, <1>11, ChangesKeep
<1>12. CASE outlook # <<>> /\ RetireTiles
  <2>1. PICK t \in outlook.tiles : Changes([outlook EXCEPT !.tiles = @ \ {t}])
    BY <1>12 DEF RetireTiles
  <2> DEFINE next == [outlook EXCEPT !.tiles = @ \ {t}]
  <2>2. next \in OutlookType /\ next.mapping = outlook.mapping /\ next.paths = outlook.paths
    BY <1>3, <1>12 DEF OutlookType
  <2>3. Changes(next)
    BY <2>1
  <2> HIDE DEF next
  <2> QED
    BY <2>2, <2>3, <1>3, <1>12, ChangesKeep
<1>13. CASE ServerRestarts
  <2>1. outlook # <<>> /\ outlook' = [outlook EXCEPT !.known = outlook.mapping]
    BY <1>13 DEF ServerRestarts
  <2>2. outlook' \in OutlookType /\ outlook'.mapping = outlook.mapping /\ outlook'.paths = outlook.paths
    BY <1>3, <2>1 DEF OutlookType
  <2> QED
    BY <1>3, <2>1, <2>2 DEF OutlookInv
<1>14. CASE AskForHazard \/ LeaveHazard \/ QueryLooks
  BY <1>1, <1>14, LooksChangeNothing
<1>15. ASSUME outlook # <<>>, NEW d \in DOMAIN HazardDatasets, UnmapActive(d) PROVE OutlookInv'
  <2> DEFINE next == [outlook EXCEPT !.mapping = @ \ {d}]
  <2>1. next \in OutlookType /\ next.mapping = outlook.mapping \ {d} /\ next.paths = outlook.paths
    BY <1>3, <1>15 DEF OutlookType
  <2>2. OneActive(next.mapping)
    BY <1>3, <1>15, <2>1 DEF OneActive
  <2>3. Changes(next)
    BY <1>15 DEF UnmapActive
  <2> HIDE DEF next
  <2> QED
    BY <2>1, <2>2, <2>3, <1>3, <1>15, ChangesKeep
<1> QED
  BY <1>1, <1>2, <1>4, <1>5, <1>6, <1>7, <1>8, <1>9, <1>10, <1>11, <1>12, <1>13, <1>14,
     <1>15 DEF HazardFilesNext, QueryLooks, viewerVars

\* Of finitely many things one is such that none is above it: the one that the fewest are above.
LEMMA OneIsOnTop ==
    ASSUME NEW S, IsFiniteSet(S), S # {}, NEW R,
           \A x \in S : <<x, x>> \notin R,
           \A x, y, z \in S : <<x, y>> \in R /\ <<y, z>> \in R => <<x, z>> \in R
    PROVE  \E x \in S : \A y \in S : <<x, y>> \notin R
<1> DEFINE above(x) == {y \in S : <<x, y>> \in R}
           sets == {above(x) : x \in S}
           smaller == StrictSubsetOrdering(S)
<1>1. IsWellFoundedOn(smaller, SUBSET S)
  BY FS_StrictSubsetOrderingWellFounded, FS_FiniteSubsetsOfFinite
<1>2. sets \subseteq SUBSET S /\ sets # {}
  <2>1. PICK x \in S : TRUE
    OBVIOUS
  <2>2. above(x) \in sets
    BY <2>1
  <2>3. \A y \in S : above(y) \in SUBSET S
    OBVIOUS
  <2> HIDE DEF above
  <2> QED
    BY <2>2, <2>3
<1>3. \E x \in sets : \A y \in sets : <<y, x>> \notin smaller
  <2> HIDE DEF sets, smaller
  <2> QED
    BY <1>1, <1>2, WFMin
<1>4. PICK x \in S : \A y \in S : <<above(y), above(x)>> \notin smaller
  <2> HIDE DEF above, smaller
  <2> QED
    BY <1>3
<1>5. \A y \in S : <<x, y>> \notin R
  <2> SUFFICES ASSUME NEW y \in S, <<x, y>> \in R PROVE FALSE
    OBVIOUS
  <2>1. above(y) \subseteq above(x) /\ y \in above(x) /\ y \notin above(y)
    OBVIOUS
  <2>2. <<above(y), above(x)>> \in smaller
    BY <2>1 DEF StrictSubsetOrdering
  <2> QED
    BY <2>2, <1>4
<1> QED
  BY <1>5

\* Of finitely many files one is the largest.
LEMMA LargestIsOne ==
    ASSUME NEW files, IsFiniteSet(files), files # {}, \A f \in files : f.size \in Nat
    PROVE  Largest(files) \in files
<1> DEFINE R == {e \in files \X files : e[1].size < e[2].size}
<1>1. \A f, g \in files : <<f, g>> \in R <=> f.size < g.size
  OBVIOUS
<1> HIDE DEF R
<1>2. \E f \in files : \A g \in files : <<f, g>> \notin R
  <2>1. \A f \in files : <<f, f>> \notin R
    BY <1>1
  <2>2. \A f, g, h \in files : <<f, g>> \in R /\ <<g, h>> \in R => <<f, h>> \in R
    BY <1>1
  <2> QED
    BY <2>1, <2>2, OneIsOnTop
<1>3. \E f \in files : \A g \in files : g.size <= f.size
  <2>1. PICK f \in files : \A g \in files : <<f, g>> \notin R
    BY <1>2
  <2>2. \A g \in files : ~(f.size < g.size)
    BY <1>1, <2>1
  <2> QED
    BY <2>2
<1> QED
  BY <1>3 DEF Largest

\* What a version gives for a hazard and a region is about them.
LEMMA VersionIsAboutTheRegion ==
    ASSUME NEW type, NEW region \in HazardRegions, outlook \in OutlookType,
           VersionedFiles(type, region) # {}
    PROVE  /\ IsAbout(Largest(VersionedFiles(type, region)), type, region)
           /\ Largest(VersionedFiles(type, region)) \in VersionedFiles(type, region)
<1> DEFINE files == VersionedFiles(type, region)
<1>1. outlook.tree \in HazardTrees \cup {{}}
  BY DEF OutlookType
<1>2. files \subseteq outlook.tree
  BY DEF VersionedFiles, InRegion, NamedForRegion
<1>3. outlook.tree \in HazardTrees
  BY <1>1, <1>2
<1>4. IsFiniteSet(files)
  BY <1>2, <1>3, HazardFilesAssumption, FS_Subset
<1>5. \A f \in files : f.size \in Nat /\ WhereItBelongs(f)
  BY <1>2, <1>3, HazardFilesAssumption
<1>6. region # ""
  BY HazardFilesAssumption DEF HazardRegions
<1>7. \A f \in files : IsAbout(f, type, region)
  BY <1>5, <1>6 DEF VersionedFiles, InRegion, NamedForRegion, WhereItBelongs, IsAbout
<1> HIDE DEF files
<1>8. Largest(files) \in files
  BY <1>4, <1>5, LargestIsOne DEF files
<1> QED
  BY <1>7, <1>8 DEF files

\* The active dataset is of the hazard and the region, and its path about it.
LEMMA ActiveIsOfTheRegion ==
    ASSUME NEW type, NEW region, outlook \in OutlookType, OwnPaths(outlook.paths),
           ActivePath(type, region) # NoFile
    PROVE  /\ ActiveDataset(type, region) \in outlook.known
           /\ HazardDatasets[ActiveDataset(type, region)].type = type
           /\ HazardDatasets[ActiveDataset(type, region)].region = region
           /\ IsAbout(ActivePath(type, region), type, region)
<1> DEFINE d == ActiveDataset(type, region)
           mapped == {e \in outlook.known : HazardDatasets[e].type = type
                                            /\ HazardDatasets[e].region = region}
<1>1. d # NoFile /\ ActivePath(type, region) = PathOfDataset(d)
  BY DEF ActivePath
<1>2. d \in mapped
  BY <1>1 DEF ActiveDataset
<1>3. d \in DOMAIN HazardDatasets
  BY <1>2 DEF OutlookType
<1> HIDE DEF d
<1>4. PathOfDataset(d).about = d
  <2>1. PathOfDataset(d) # NoFile
    BY <1>1
  <2>2. outlook.paths[d].validated = NoFile
    BY <1>3 DEF OutlookType
  <2> QED
    BY <2>1, <2>2, <1>3 DEF PathOfDataset, OwnPaths
<1> QED
  BY <1>1, <1>2, <1>4 DEF IsAbout, d

\* What a directory of a region holds is about the region.
LEMMA DirectoryIsAboutTheRegion ==
    ASSUME NEW type, NEW region \in HazardRegions, NEW files \in SUBSET (RuntimeFiles \cup LakeFiles),
           NEW f \in InRegion(files, type, region)
    PROVE  IsAbout(f, type, region)
  BY HazardFilesAssumption DEF InRegion, WhereItBelongs, IsAbout

-----------------------------------------------------------------------------
(* What a request has found so far *)

QuerySteps == {"version", "active", "check", "runtime", "lake", "legacy", "open", "resolve",
               "list", "pick", "answered"}
\* A request has these fields.
QueryIsRecord ==
    query = [kind |-> query.kind, type |-> query.type, region |-> query.region,
             step |-> query.step, dataset |-> query.dataset, own |-> query.own,
             tier |-> query.tier, tiles |-> query.tiles, moments |-> query.moments,
             answer |-> query.answer]
QueryType ==
    /\ QueryIsRecord
    /\ query.type \in ShownTypes /\ query.region \in HazardRegions /\ query.step \in QuerySteps
    /\ query.kind = "withheld" => query.type \in DOMAIN WithheldTypes

\* The present moment is one of the request's, and the lake never shrinks.
MomentsArePast ==
    /\ Moment(query.type, query.region) \in query.moments
    /\ \A m \in query.moments : m.lake \subseteq InRegion(outlook.lake, query.type, query.region)
NoVersionHeldIt ==
    outlook.leases => \E m \in query.moments : m.link = "current" /\ m.versioned = {}
OwnIsAbout == IsAbout(query.own, query.type, query.region)

\* What is known at each step of a request.
StepHolds ==
    /\ query.step # "answered" => MomentsArePast
    /\ query.step \in {"active", "check", "runtime", "lake", "legacy", "open"} => NoVersionHeldIt
    /\ query.step = "check" => OwnIsAbout
    /\ query.step = "lake" => \E m \in query.moments : m.runtime = {}
    /\ query.step = "legacy" => \E m \in query.moments : m.runtime = {} /\ m.lake = {}
    /\ query.step = "open" =>
         /\ query.tier \in {"active", "runtime", "lake", "legacy"}
         /\ query.tier # "legacy" => OwnIsAbout
    /\ query.step \in {"list", "pick"} =>
         /\ OwnIsAbout /\ query.dataset \in DOMAIN HazardDatasets
         /\ HazardDatasets[query.dataset].region = query.region
    /\ query.step = "pick" =>
         /\ query.tiles \subseteq TileFiles
         /\ \A t \in query.tiles : IsAbout(t, query.type, query.region)
         /\ \E m \in query.moments :
               query.tiles = {t \in m.tiles : ~t.temporary /\ t.named = query.region}

QueryInv ==
    /\ outlook = <<>> => query = <<>>
    /\ query # <<>> => QueryType /\ StepHolds
    /\ ViewersSeeTheirRegion

\* A change leaves the mode of the deployment and what the lake held, and is noticed.
LEMMA ChangesAreNoticed ==
    ASSUME OutlookInv, outlook # <<>>,
           \/ PublishTree \/ LinkBreaks \/ NormalizeFile \/ DeployFile \/ WithdrawFile \/ ForgetPath
           \/ BuildTiles \/ RetireTiles \/ \E d \in DOMAIN HazardDatasets : MapActive(d) \/ UnmapActive(d)
    PROVE  /\ outlook' # <<>> /\ outlook'.leases = outlook.leases
           /\ outlook.lake \subseteq outlook'.lake /\ Notice
<1>1. outlook \in OutlookType
  BY DEF OutlookInv
<1>2. ASSUME NEW next \in OutlookType, next.leases = outlook.leases, outlook.lake \subseteq next.lake,
             Changes(next)
      PROVE  /\ outlook' # <<>> /\ outlook'.leases = outlook.leases
             /\ outlook.lake \subseteq outlook'.lake /\ Notice
  <2>1. outlook' = [next EXCEPT !.changes = @ + 1] /\ Notice
    BY <1>2 DEF Changes
  <2>2. "leases" \in DOMAIN outlook' /\ outlook'.leases = next.leases /\ outlook'.lake = next.lake
    BY <1>2, <2>1 DEF OutlookType
  <2>3. "leases" \notin DOMAIN <<>>
    OBVIOUS
  <2> QED
    BY <1>2, <2>1, <2>2, <2>3
<1>3. CASE PublishTree \/ LinkBreaks \/ BuildTiles \/ RetireTiles
  <2>1. CASE PublishTree
    <3>1. PICK tree \in HazardTrees : Changes([outlook EXCEPT !.tree = tree, !.link = "current"])
      BY <2>1 DEF PublishTree
    <3> QED
      BY <1>1, <1>2, <3>1 DEF OutlookType
  <2>2. CASE LinkBreaks
    BY <1>1, <1>2, <2>2 DEF LinkBreaks, OutlookType
  <2>3. CASE BuildTiles
    <3>1. PICK t \in TileFiles : Changes([outlook EXCEPT !.tiles = @ \cup {t}])
      BY <2>3 DEF BuildTiles
    <3> QED
      BY <1>1, <1>2, <3>1 DEF OutlookType
  <2>4. CASE RetireTiles
    <3>1. PICK t \in outlook.tiles : Changes([outlook EXCEPT !.tiles = @ \ {t}])
      BY <2>4 DEF RetireTiles
    <3> QED
      BY <1>1, <1>2, <3>1 DEF OutlookType
  <2> QED
    BY <1>3, <2>1, <2>2, <2>3, <2>4
<1>4. ASSUME NEW f \in LakeFiles,
             Changes([outlook EXCEPT !.lake = @ \cup {f}, !.paths[f.about].normalized = f])
      PROVE  /\ outlook' # <<>> /\ outlook'.leases = outlook.leases
             /\ outlook.lake \subseteq outlook'.lake /\ Notice
  <2> DEFINE next == [outlook EXCEPT !.lake = @ \cup {f}, !.paths[f.about].normalized = f]
             paths == [outlook.paths EXCEPT ![f.about].normalized = f]
  <2>1. next = [outlook EXCEPT !.lake = @ \cup {f}, !.paths = paths]
    BY <1>1 DEF OutlookType
  <2>2. f.about \in DOMAIN HazardDatasets
    BY HazardFilesAssumption DEF WhereItBelongs
  <2>3. paths \in [DOMAIN HazardDatasets -> [runtime : FileOrNone(RuntimeFiles), validated : {NoFile},
                                             normalized : FileOrNone(LakeFiles)]]
    BY <1>1, <2>2 DEF OutlookType, FileOrNone
  <2> HIDE DEF paths
  <2>4. next \in OutlookType /\ next.leases = outlook.leases /\ outlook.lake \subseteq next.lake
    BY <1>1, <2>1, <2>3 DEF OutlookType
  <2>5. Changes(next)
    BY <1>4
  <2> HIDE DEF next
  <2> QED
    BY <1>2, <2>4, <2>5
<1>5. ASSUME NEW f \in RuntimeFiles,
             Changes([outlook EXCEPT !.runtime = @ \cup {f}, !.paths[f.about].runtime = f])
      PROVE  /\ outlook' # <<>> /\ outlook'.leases = outlook.leases
             /\ outlook.lake \subseteq outlook'.lake /\ Notice
  <2> DEFINE next == [outlook EXCEPT !.runtime = @ \cup {f}, !.paths[f.about].runtime = f]
             paths == [outlook.paths EXCEPT ![f.about].runtime = f]
  <2>1. next = [outlook EXCEPT !.runtime = @ \cup {f}, !.paths = paths]
    BY <1>1 DEF OutlookType
  <2>2. f.about \in DOMAIN HazardDatasets
    BY HazardFilesAssumption DEF WhereItBelongs
  <2>3. paths \in [DOMAIN HazardDatasets -> [runtime : FileOrNone(RuntimeFiles), validated : {NoFile},
                                             normalized : FileOrNone(LakeFiles)]]
    BY <1>1, <2>2 DEF OutlookType, FileOrNone
  <2> HIDE DEF paths
  <2>4. next \in OutlookType /\ next.leases = outlook.leases /\ outlook.lake \subseteq next.lake
    BY <1>1, <2>1, <2>3 DEF OutlookType
  <2>5. Changes(next)
    BY <1>5
  <2> HIDE DEF next
  <2> QED
    BY <1>2, <2>4, <2>5
<1>6. CASE WithdrawFile
  <2>1. PICK f \in outlook.runtime : Changes([outlook EXCEPT !.runtime = @ \ {f}])
    BY <1>6 DEF WithdrawFile
  <2> QED
    BY <1>1, <1>2, <2>1 DEF OutlookType
<1>7. ASSUME NEW d \in DOMAIN HazardDatasets, Changes([outlook EXCEPT !.paths[d].runtime = NoFile])
      PROVE  /\ outlook' # <<>> /\ outlook'.leases = outlook.leases
             /\ outlook.lake \subseteq outlook'.lake /\ Notice
  <2> DEFINE next == [outlook EXCEPT !.paths[d].runtime = NoFile]
             paths == [outlook.paths EXCEPT ![d].runtime = NoFile]
  <2>1. next = [outlook EXCEPT !.paths = paths]
    BY <1>1 DEF OutlookType
  <2>2. paths \in [DOMAIN HazardDatasets -> [runtime : FileOrNone(RuntimeFiles), validated : {NoFile},
                                             normalized : FileOrNone(LakeFiles)]]
    BY <1>1 DEF OutlookType, FileOrNone
  <2> HIDE DEF paths
  <2>3. next \in OutlookType /\ next.leases = outlook.leases /\ outlook.lake \subseteq next.lake
    BY <1>1, <2>1, <2>2 DEF OutlookType
  <2>4. Changes(next)
    BY <1>7
  <2> HIDE DEF next
  <2> QED
    BY <1>2, <2>3, <2>4
<1>8. ASSUME NEW d \in DOMAIN HazardDatasets, MapActive(d)
      PROVE  /\ outlook' # <<>> /\ outlook'.leases = outlook.leases
             /\ outlook.lake \subseteq outlook'.lake /\ Notice
  <2>1. PICK same \in SUBSET outlook.mapping :
            Changes([outlook EXCEPT !.mapping = (outlook.mapping \ same) \cup {d}])
    <3> DEFINE same == {e \in outlook.mapping : HazardDatasets[e].type = HazardDatasets[d].type
                                                /\ HazardDatasets[e].region = HazardDatasets[d].region}
    <3>1. Changes([outlook EXCEPT !.mapping = (outlook.mapping \ same) \cup {d}])
      BY <1>1, <1>8 DEF MapActive, OutlookType
    <3>2. same \in SUBSET outlook.mapping
      OBVIOUS
    <3> HIDE DEF same
    <3> QED
      BY <3>1, <3>2
  <2> DEFINE next == [outlook EXCEPT !.mapping = (outlook.mapping \ same) \cup {d}]
  <2>2. next \in OutlookType /\ next.leases = outlook.leases /\ outlook.lake \subseteq next.lake
    BY <1>1 DEF OutlookType
  <2>3. Changes(next)
    BY <2>1
  <2> HIDE DEF next
  <2> QED
    BY <1>2, <2>2, <2>3
<1>9. ASSUME NEW d \in DOMAIN HazardDatasets, UnmapActive(d)
      PROVE  /\ outlook' # <<>> /\ outlook'.leases = outlook.leases
             /\ outlook.lake \subseteq outlook'.lake /\ Notice
  <2> DEFINE next == [outlook EXCEPT !.mapping = @ \ {d}]
  <2>1. next \in OutlookType /\ next.leases = outlook.leases /\ outlook.lake \subseteq next.lake
    BY <1>1 DEF OutlookType
  <2>2. Changes(next)
    BY <1>9 DEF UnmapActive
  <2> HIDE DEF next
  <2> QED
    BY <1>2, <2>1, <2>2
<1> QED
  BY <1>3, <1>4, <1>5, <1>6, <1>7, <1>8, <1>9 DEF NormalizeFile, DeployFile, ForgetPath

\* One more moment disturbs nothing that is known of a request.
LEMMA NoticeKeeps ==
    ASSUME QueryInv, outlook # <<>>, outlook' # <<>>, outlook'.leases = outlook.leases,
           outlook.lake \subseteq outlook'.lake, Notice
    PROVE  QueryInv'
<1>1. CASE query = <<>>
  <2>1. query' = <<>>
    BY <1>1 DEF Notice
  <2> QED
    BY <2>1 DEF QueryInv, ViewersSeeTheirRegion
<1>2. CASE query # <<>>
  <2>1. PICK type \in ShownTypes, region \in HazardRegions :
          /\ query.type = type /\ query.region = region
          /\ query' = IF query.step = "answered" THEN query
                     ELSE [query EXCEPT !.moments = @ \cup {Moment(type, region)'}]
    BY <1>2 DEF Notice
  <2>2. QueryType /\ StepHolds
    BY <1>2 DEF QueryInv
  <2>3. CASE query.step = "answered"
    <3>1. query' = query
      BY <2>1, <2>3
    <3>2. QueryType' /\ StepHolds'
      BY <2>2, <2>3, <3>1 DEF QueryType, QueryIsRecord, StepHolds
    <3>3. ViewersSeeTheirRegion
      BY DEF QueryInv
    <3>4. ViewersSeeTheirRegion'
      BY <3>1, <3>3 DEF ViewersSeeTheirRegion, FileIsOfTheRegion, DescriptionIsOfTheRegion
    <3> QED
      BY <3>2, <3>4 DEF QueryInv
  <2>4. CASE query.step # "answered"
    <3> DEFINE noticed == Moment(type, region)'
    <3>1. query' = [kind |-> query.kind, type |-> type, region |-> region,
                    step |-> query.step, dataset |-> query.dataset, own |-> query.own,
                    tier |-> query.tier, tiles |-> query.tiles, moments |-> query.moments \cup {noticed},
                    answer |-> query.answer]
      <4> HIDE DEF noticed
      <4> QED
        BY <2>1, <2>2, <2>4 DEF QueryType, QueryIsRecord, noticed
    <3>2. QueryType'
      <4> HIDE DEF noticed
      <4>1. /\ query'.kind = query.kind /\ query'.type = type /\ query'.region = region
            /\ query'.step = query.step /\ QueryIsRecord'
        BY <3>1 DEF QueryIsRecord
      <4>2. query.kind = "withheld" => type \in DOMAIN WithheldTypes
        BY <2>1, <2>2 DEF QueryType
      <4>3. query.step \in QuerySteps
        BY <2>2 DEF QueryType
      <4> QED
        BY <4>1, <4>2, <4>3 DEF QueryType
    <3>3. MomentsArePast'
      <4>1. noticed.lake = InRegion(outlook'.lake, type, region)
        BY DEF Moment, InRegion
      <4>2. InRegion(outlook.lake, type, region) \subseteq InRegion(outlook'.lake, type, region)
        BY DEF InRegion
      <4>3. \A m \in query.moments : m.lake \subseteq InRegion(outlook.lake, type, region)
        BY <2>1, <2>2, <2>4 DEF StepHolds, MomentsArePast
      <4>4. (Moment(query.type, query.region) \in query.moments)'
        <5>0. query'.type = type /\ query'.region = region
          <6> HIDE DEF noticed
          <6> QED
            BY <3>1
        <5>1. Moment(query.type, query.region)' = noticed
          BY <5>0 DEF Moment, VersionedFiles, InRegion, NamedForRegion, ActivePath, ActiveDataset,
                      PathOfDataset
        <5> HIDE DEF noticed
        <5> QED
          BY <3>1, <5>1
      <4> HIDE DEF noticed
      <4>5. \A m \in query'.moments : m.lake \subseteq InRegion(outlook'.lake, type, region)
        BY <3>1, <4>1, <4>2, <4>3
      <4> QED
        BY <3>1, <4>4, <4>5 DEF MomentsArePast, InRegion
    <3> HIDE DEF noticed
    <3>4. StepHolds'
      BY <2>1, <2>2, <2>4, <3>1, <3>3 DEF StepHolds, NoVersionHeldIt, OwnIsAbout, IsAbout
    <3>5. ViewersSeeTheirRegion'
      BY <2>4, <3>1 DEF ViewersSeeTheirRegion
    <3> QED
      BY <3>2, <3>4, <3>5 DEF QueryInv
  <2> QED
    BY <2>3, <2>4
<1> QED
  BY <1>1, <1>2

\* The present is a moment of a request.
LEMMA PresentIsAMoment ==
    ASSUME MomentsArePast
    PROVE  \E m \in query.moments :
             /\ m.link = outlook.link /\ m.versioned = VersionedFiles(query.type, query.region)
             /\ m.own = ActivePath(query.type, query.region)
             /\ m.runtime = InRegion(outlook.runtime, query.type, query.region)
             /\ m.lake = InRegion(outlook.lake, query.type, query.region)
             /\ m.tiles = InRegion(outlook.tiles, query.type, query.region)
<1> DEFINE m == Moment(query.type, query.region)
<1>1. m \in query.moments
  BY DEF MomentsArePast
<1>2. /\ m.link = outlook.link /\ m.versioned = VersionedFiles(query.type, query.region)
      /\ m.own = ActivePath(query.type, query.region)
      /\ m.runtime = InRegion(outlook.runtime, query.type, query.region)
      /\ m.lake = InRegion(outlook.lake, query.type, query.region)
      /\ m.tiles = InRegion(outlook.tiles, query.type, query.region)
  BY DEF Moment
<1> HIDE DEF m
<1> QED
  BY <1>1, <1>2

\* At a look nothing but the request changes.
LookedAt(step) ==
    /\ outlook # <<>> /\ query # <<>> /\ query.step = step /\ step # "answered"
    /\ outlook \in OutlookType /\ OwnPaths(outlook.paths) /\ QueryType /\ StepHolds
    /\ UNCHANGED outlook
SameRequest ==
    /\ query'.kind = query.kind /\ query'.type = query.type /\ query'.region = query.region
    /\ query'.moments = query.moments

LEMMA LookStarts ==
    ASSUME OutlookInv, QueryInv, NEW kind, NEW step, step # "answered", QueryAt(kind, step)
    PROVE  LookedAt(step) /\ query.kind = kind /\ MomentsArePast
  BY DEF OutlookInv, QueryInv, QueryAt, LookedAt, StepHolds

LEMMA MomentsStayPast ==
    ASSUME MomentsArePast, UNCHANGED outlook, SameRequest
    PROVE  MomentsArePast'
<1>1. Moment(query.type, query.region)' = Moment(query.type, query.region)
  BY DEF Moment, VersionedFiles, InRegion, NamedForRegion, ActivePath, ActiveDataset, PathOfDataset,
         SameRequest
<1>2. InRegion(outlook.lake, query.type, query.region)' = InRegion(outlook.lake, query.type, query.region)
  BY DEF InRegion, SameRequest
<1> QED
  BY <1>1, <1>2 DEF MomentsArePast, SameRequest

\* A look that leaves the request unanswered.
LEMMA LookKeeps ==
    ASSUME NEW step \in QuerySteps, LookedAt(query.step), step # "answered",
           NEW dataset, NEW own, NEW tier, NEW tiles,
           query' = [query EXCEPT !.step = step, !.dataset = dataset, !.own = own, !.tier = tier,
                                  !.tiles = tiles],
           StepHolds'
    PROVE  QueryInv'
<1>1. QueryType' /\ query'.step = step
  BY DEF LookedAt, QueryType, QueryIsRecord
<1>2. ViewersSeeTheirRegion'
  BY <1>1 DEF ViewersSeeTheirRegion
<1>3. outlook' # <<>>
  BY DEF LookedAt
<1> QED
  BY <1>1, <1>2, <1>3 DEF QueryInv

\* A look that answers it.
LEMMA ReplyIsRecorded ==
    ASSUME QueryType, NEW given, Replies(given)
    PROVE  SameRequest /\ QueryType' /\ query'.step = "answered" /\ query'.answer = given
  BY DEF Replies, QueryType, QueryIsRecord, SameRequest, QuerySteps

LEMMA ReplyKeeps ==
    ASSUME LookedAt(query.step), NEW given, Replies(given), ViewersSeeTheirRegion'
    PROVE  QueryInv'
<1>1. QueryType' /\ query'.step = "answered"
  BY ReplyIsRecorded DEF LookedAt
<1>2. StepHolds'
  BY <1>1 DEF StepHolds
<1>3. outlook' # <<>>
  BY DEF LookedAt
<1> QED
  BY <1>1, <1>2, <1>3 DEF QueryInv

LEMMA FailureKeeps ==
    ASSUME LookedAt(query.step), NEW given, given.status \notin {200, 404}, Replies(given)
    PROVE  QueryInv'
<1>1. query'.answer = given
  BY ReplyIsRecorded DEF LookedAt
<1>2. ViewersSeeTheirRegion'
  BY <1>1 DEF ViewersSeeTheirRegion
<1> QED
  BY <1>2, ReplyKeeps

LEMMA LookInVersionKeeps == OutlookInv /\ QueryInv /\ LookInVersion => QueryInv'
<1> SUFFICES ASSUME OutlookInv, QueryInv, LookInVersion PROVE QueryInv'
  OBVIOUS
<1> DEFINE streamed == Streamed(query.type, query.region)
<1>1. LookedAt("version") /\ query.step = "version" /\ query.kind = "file" /\ MomentsArePast
  BY LookStarts DEF LookInVersion, LookedAt
<1>2. CASE streamed = NotThere
  <2>1. query' = [query EXCEPT !.step = "active"]
    BY <1>2 DEF LookInVersion, GoesOnTo
  <2>2. SameRequest /\ query'.step = "active"
    BY <1>1, <2>1 DEF LookedAt, QueryType, QueryIsRecord, SameRequest
  <2>3. outlook.leases => outlook.link = "current" /\ VersionedFiles(query.type, query.region) = {}
    BY <1>2 DEF Streamed, NotThere, Failure, Found
  <2>4. NoVersionHeldIt'
    BY <1>1, <2>2, <2>3, PresentIsAMoment DEF NoVersionHeldIt, SameRequest, LookedAt
  <2>5. StepHolds'
    BY <1>1, <2>2, <2>4, MomentsStayPast DEF StepHolds, LookedAt
  <2>6. query' = [query EXCEPT !.step = "active", !.dataset = query.dataset, !.own = query.own,
                               !.tier = query.tier, !.tiles = query.tiles]
    BY <1>1, <2>1 DEF LookedAt, QueryType, QueryIsRecord
  <2> QED
    BY <1>1, <2>5, <2>6, LookKeeps DEF QuerySteps
<1>3. CASE streamed # NotThere
  <2>1. Replies(streamed)
    BY <1>3 DEF LookInVersion
  <2>2. CASE streamed = Failure
    BY <1>1, <2>1, <2>2, FailureKeeps DEF Failure
  <2>3. CASE streamed # Failure
    <3> DEFINE files == VersionedFiles(query.type, query.region)
    <3>1. outlook.leases /\ outlook.link = "current" /\ files # {} /\ streamed = Found(Largest(files), "version")
      BY <1>3, <2>3 DEF Streamed, NotThere, Failure
    <3>2. IsAbout(Largest(files), query.type, query.region) /\ Largest(files) \in files
      BY <1>1, <3>1, VersionIsAboutTheRegion DEF LookedAt, QueryType
    <3>3. SameRequest /\ query'.answer = streamed
      BY <1>1, <2>1, ReplyIsRecorded DEF LookedAt
    <3>4. PICK m \in query.moments : m.link = outlook.link /\ m.versioned = files
      BY <1>1, PresentIsAMoment
    <3> HIDE DEF files
    <3>5. query'.answer.tier = "version" /\ query'.answer.file = Largest(files) /\ query'.answer.status = 200
      BY <3>1, <3>3 DEF Found
    <3>6. FileIsOfTheRegion'
      BY <3>1, <3>2, <3>3, <3>4, <3>5 DEF FileIsOfTheRegion, SameRequest, IsAbout
    <3>7. ViewersSeeTheirRegion'
      BY <1>1, <3>3, <3>5, <3>6 DEF ViewersSeeTheirRegion, SameRequest
    <3> QED
      BY <1>1, <2>1, <3>7, ReplyKeeps
  <2> QED
    BY <2>2, <2>3
<1> QED
  BY <1>2, <1>3

LEMMA LookUpActiveKeeps == OutlookInv /\ QueryInv /\ LookUpActive => QueryInv'
<1> SUFFICES ASSUME OutlookInv, QueryInv, LookUpActive PROVE QueryInv'
  OBVIOUS
<1> DEFINE own == ActivePath(query.type, query.region)
           step == IF own = NoFile THEN "runtime" ELSE "check"
<1>1. LookedAt("active") /\ query.step = "active" /\ MomentsArePast
  BY LookStarts DEF LookUpActive, LookedAt
<1>2. query' = [query EXCEPT !.step = step, !.own = own]
  BY DEF LookUpActive
<1>3. own # NoFile => IsAbout(own, query.type, query.region)
  BY <1>1, ActiveIsOfTheRegion DEF LookedAt
<1> HIDE DEF own
<1>4. SameRequest /\ query'.step = step /\ query'.own = own
  BY <1>1, <1>2 DEF LookedAt, QueryType, QueryIsRecord, SameRequest
<1>5. NoVersionHeldIt'
  BY <1>1, <1>4 DEF LookedAt, StepHolds, NoVersionHeldIt, SameRequest
<1>6. own # NoFile => OwnIsAbout'
  BY <1>3, <1>4 DEF OwnIsAbout, SameRequest, IsAbout
<1>7. StepHolds'
  BY <1>1, <1>4, <1>5, <1>6, MomentsStayPast DEF StepHolds, LookedAt
<1>8. query' = [query EXCEPT !.step = step, !.dataset = query.dataset, !.own = own,
                             !.tier = query.tier, !.tiles = query.tiles]
  BY <1>1, <1>2 DEF LookedAt, QueryType, QueryIsRecord
<1> QED
  BY <1>1, <1>7, <1>8, LookKeeps DEF QuerySteps

LEMMA CheckActiveKeeps == OutlookInv /\ QueryInv /\ CheckActive => QueryInv'
<1> SUFFICES ASSUME OutlookInv, QueryInv, CheckActive PROVE QueryInv'
  OBVIOUS
<1> DEFINE step == IF IsThere(query.own) THEN "open" ELSE "runtime"
           tier == IF IsThere(query.own) THEN "active" ELSE query.tier
<1>1. LookedAt("check") /\ query.step = "check" /\ MomentsArePast
  BY LookStarts DEF CheckActive, LookedAt
<1>2. query' = [query EXCEPT !.step = step, !.dataset = query.dataset, !.own = query.own,
                             !.tier = tier, !.tiles = query.tiles]
  BY <1>1 DEF CheckActive, LookedAt, QueryType, QueryIsRecord
<1>3. SameRequest /\ query'.step = step /\ query'.own = query.own /\ query'.tier = tier
  <2> HIDE DEF step, tier
  <2> QED
    BY <1>1, <1>2 DEF LookedAt, QueryType, QueryIsRecord, SameRequest
<1>4. NoVersionHeldIt' /\ OwnIsAbout'
  BY <1>1, <1>3 DEF LookedAt, StepHolds, NoVersionHeldIt, OwnIsAbout, SameRequest, IsAbout
<1>5. StepHolds'
  BY <1>1, <1>3, <1>4, MomentsStayPast DEF StepHolds, LookedAt
<1> HIDE DEF tier
<1> QED
  BY <1>1, <1>2, <1>5, LookKeeps DEF QuerySteps

\* A file that is found in a directory is opened next.
LEMMA FoundKeeps ==
    ASSUME NEW place \in {"runtime", "lake", "legacy"}, LookedAt(place), NEW f,
           place # "legacy" => IsAbout(f, query.type, query.region),
           query' = [query EXCEPT !.step = "open", !.own = f, !.tier = place]
    PROVE  QueryInv'
<1>1. query' = [query EXCEPT !.step = "open", !.dataset = query.dataset, !.own = f,
                             !.tier = place, !.tiles = query.tiles]
  BY DEF LookedAt, QueryType, QueryIsRecord
<1>2. SameRequest /\ query'.step = "open" /\ query'.own = f /\ query'.tier = place /\ query.step = place
  BY DEF LookedAt, QueryType, QueryIsRecord, SameRequest
<1>3. NoVersionHeldIt'
  BY <1>2 DEF LookedAt, StepHolds, NoVersionHeldIt, SameRequest
<1>4. place # "legacy" => OwnIsAbout'
  BY <1>2 DEF OwnIsAbout, SameRequest, IsAbout
<1>5. StepHolds'
  BY <1>2, <1>3, <1>4, MomentsStayPast DEF StepHolds, LookedAt
<1>6. QueryType' /\ outlook' # <<>>
  BY <1>1 DEF LookedAt, QueryType, QueryIsRecord, QuerySteps
<1>7. ViewersSeeTheirRegion'
  BY <1>2 DEF ViewersSeeTheirRegion
<1> QED
  BY <1>5, <1>6, <1>7 DEF QueryInv

LEMMA DirectoriesKeep ==
    OutlookInv /\ QueryInv /\ (LookIntoRuntime \/ LookIntoLake \/ LookIntoLegacy) => QueryInv'
<1> SUFFICES ASSUME OutlookInv, QueryInv, LookIntoRuntime \/ LookIntoLake \/ LookIntoLegacy
             PROVE  QueryInv'
  OBVIOUS
<1>1. ASSUME NEW from \in {"runtime", "lake"}, NEW to \in {"lake", "legacy"}, LookedAt(from), GoesOnTo(to),
             NoVersionHeldIt, MomentsArePast,
             to = "lake" => \E m \in query.moments : m.runtime = {},
             to = "legacy" => \E m \in query.moments : m.runtime = {} /\ m.lake = {}
      PROVE  QueryInv'
  <2>1. query' = [query EXCEPT !.step = to, !.dataset = query.dataset, !.own = query.own,
                               !.tier = query.tier, !.tiles = query.tiles]
    BY <1>1 DEF GoesOnTo, LookedAt, QueryType, QueryIsRecord
  <2>2. SameRequest /\ query'.step = to
    BY <1>1, <2>1 DEF LookedAt, QueryType, QueryIsRecord, SameRequest
  <2>3. NoVersionHeldIt'
    BY <1>1, <2>2 DEF LookedAt, NoVersionHeldIt, SameRequest
  <2>4. to = "lake" => \E m \in query'.moments : m.runtime = {}
    BY <1>1, <2>2 DEF SameRequest
  <2>5. to = "legacy" => \E m \in query'.moments : m.runtime = {} /\ m.lake = {}
    BY <1>1, <2>2 DEF SameRequest
  <2>6. StepHolds'
    BY <1>1, <2>2, <2>3, <2>4, <2>5, MomentsStayPast DEF StepHolds, LookedAt
  <2>7. LookedAt(query.step)
    BY <1>1 DEF LookedAt
  <2> QED
    BY <1>1, <2>1, <2>6, <2>7, LookKeeps DEF QuerySteps
<1>2. CASE LookIntoRuntime
  <2> DEFINE files == InRegion(outlook.runtime, query.type, query.region)
  <2>1. LookedAt("runtime") /\ query.step = "runtime" /\ MomentsArePast
    BY <1>2, LookStarts DEF LookIntoRuntime, LookInto, LookedAt
  <2>2. CASE files = {}
    <3>1. GoesOnTo("lake")
      BY <1>2, <2>2 DEF LookIntoRuntime, LookInto
    <3>2. \E m \in query.moments : m.runtime = {}
      BY <2>1, <2>2, PresentIsAMoment
    <3>3. NoVersionHeldIt
      BY <2>1 DEF LookedAt, StepHolds
    <3> QED
      BY <1>1, <2>1, <3>1, <3>2, <3>3
  <2>3. CASE files # {}
    <3>1. PICK f \in files : query' = [query EXCEPT !.step = "open", !.own = f, !.tier = "runtime"]
      BY <1>2, <2>3 DEF LookIntoRuntime, LookInto
    <3>2. IsAbout(f, query.type, query.region)
      BY <2>1, <3>1, DirectoryIsAboutTheRegion DEF LookedAt, QueryType, OutlookType
    <3> QED
      BY <2>1, <3>1, <3>2, FoundKeeps
  <2> QED
    BY <2>2, <2>3
<1>3. CASE LookIntoLake
  <2> DEFINE files == InRegion(outlook.lake, query.type, query.region)
  <2>1. LookedAt("lake") /\ query.step = "lake" /\ MomentsArePast
    BY <1>3, LookStarts DEF LookIntoLake, LookInto, LookedAt
  <2>2. CASE files = {}
    <3>1. GoesOnTo("legacy")
      BY <1>3, <2>2 DEF LookIntoLake, LookInto
    <3>2. \E m \in query.moments : m.runtime = {} /\ m.lake = {}
      <4>1. PICK m \in query.moments : m.runtime = {}
        BY <2>1 DEF LookedAt, StepHolds
      <4>2. m.lake = {}
        BY <2>1, <2>2, <4>1 DEF MomentsArePast
      <4> QED
        BY <4>1, <4>2
    <3>3. NoVersionHeldIt
      BY <2>1 DEF LookedAt, StepHolds
    <3> QED
      BY <1>1, <2>1, <3>1, <3>2, <3>3
  <2>3. CASE files # {}
    <3>1. PICK f \in files : query' = [query EXCEPT !.step = "open", !.own = f, !.tier = "lake"]
      BY <1>3, <2>3 DEF LookIntoLake, LookInto
    <3>2. IsAbout(f, query.type, query.region)
      BY <2>1, <3>1, DirectoryIsAboutTheRegion DEF LookedAt, QueryType, OutlookType
    <3> QED
      BY <2>1, <3>1, <3>2, FoundKeeps
  <2> QED
    BY <2>2, <2>3
<1>4. CASE LookIntoLegacy
  <2> DEFINE files == {f \in outlook.legacy : query.region = "tokyo"}
  <2>1. LookedAt("legacy") /\ query.step = "legacy" /\ MomentsArePast /\ query.kind = "file"
    BY <1>4, LookStarts DEF LookIntoLegacy, LookInto, LookedAt
  <2>2. CASE files = {}
    <3>1. Replies(NotThere)
      BY <1>4, <2>2 DEF LookIntoLegacy, LookInto
    <3>2. PICK m \in query.moments : m.runtime = {} /\ m.lake = {}
      BY <2>1 DEF LookedAt, StepHolds
    <3>3. ~Stands(m)
      BY <3>2 DEF Stands
    <3>4. SameRequest /\ query'.answer.status = 404
      BY <2>1, <3>1, ReplyIsRecorded DEF LookedAt, NotThere
    <3>5. ViewersSeeTheirRegion'
      BY <2>1, <3>2, <3>3, <3>4 DEF ViewersSeeTheirRegion, SameRequest, Stands
    <3> QED
      BY <2>1, <3>1, <3>5, ReplyKeeps
  <2>3. CASE files # {}
    <3>1. PICK f \in files : query' = [query EXCEPT !.step = "open", !.own = f, !.tier = "legacy"]
      BY <1>4, <2>3 DEF LookIntoLegacy, LookInto
    <3> QED
      BY <2>1, <3>1, FoundKeeps
  <2> QED
    BY <2>2, <2>3
<1> QED
  BY <1>2, <1>3, <1>4

LEMMA OpenFoundKeeps == OutlookInv /\ QueryInv /\ OpenFound => QueryInv'
<1> SUFFICES ASSUME OutlookInv, QueryInv, OpenFound PROVE QueryInv'
  OBVIOUS
<1>1. LookedAt("open") /\ query.step = "open" /\ query.kind = "file" /\ MomentsArePast
  BY LookStarts DEF OpenFound, LookedAt
<1>2. CASE ~(query.tier = "legacy" \/ IsThere(query.own))
  <2>1. Replies(Failure)
    BY <1>2 DEF OpenFound
  <2> QED
    BY <1>1, <2>1, FailureKeeps DEF Failure
<1>3. CASE query.tier = "legacy" \/ IsThere(query.own)
  <2>1. Replies(Found(query.own, query.tier))
    BY <1>3 DEF OpenFound
  <2>2. SameRequest /\ query'.answer = Found(query.own, query.tier)
    BY <1>1, <2>1, ReplyIsRecorded DEF LookedAt
  <2>3. query'.answer.status = 200 /\ query'.answer.file = query.own /\ query'.answer.tier = query.tier
    BY <2>2 DEF Found
  <2>4. /\ query.tier \in {"active", "runtime", "lake", "legacy"}
        /\ query.tier # "legacy" => OwnIsAbout
        /\ NoVersionHeldIt
    BY <1>1 DEF LookedAt, StepHolds
  <2>5. query.tier # "legacy" => \E m \in query.moments : query.own \in m.runtime \cup m.lake
    <3> SUFFICES ASSUME query.tier # "legacy"
                 PROVE  \E m \in query.moments : query.own \in m.runtime \cup m.lake
      OBVIOUS
    <3>1. query.own \in outlook.runtime \cup outlook.lake /\ query.own \in RuntimeFiles \cup LakeFiles
      BY <1>1, <1>3 DEF IsThere, LookedAt, OutlookType
    <3>2. query.own.type = query.type /\ query.own.region = query.region
      BY <2>4, <3>1, HazardFilesAssumption DEF OwnIsAbout, IsAbout, WhereItBelongs
    <3>3. \/ query.own \in InRegion(outlook.runtime, query.type, query.region)
          \/ query.own \in InRegion(outlook.lake, query.type, query.region)
      BY <3>1, <3>2 DEF InRegion
    <3> QED
      BY <1>1, <3>3, PresentIsAMoment
  <2>6. FileIsOfTheRegion'
    BY <1>1, <2>2, <2>3, <2>4, <2>5
       DEF FileIsOfTheRegion, SameRequest, NoVersionHeldIt, OwnIsAbout, IsAbout, LookedAt
  <2>7. ViewersSeeTheirRegion'
    BY <1>1, <2>2, <2>3, <2>6 DEF ViewersSeeTheirRegion, SameRequest
  <2> QED
    BY <1>1, <2>1, <2>7, ReplyKeeps
<1> QED
  BY <1>2, <1>3

LEMMA WithheldKeeps == OutlookInv /\ QueryInv /\ (LookForAny \/ ResolveWithheld) => QueryInv'
<1> SUFFICES ASSUME OutlookInv, QueryInv, LookForAny \/ ResolveWithheld PROVE QueryInv'
  OBVIOUS
<1>1. ASSUME QueryType, query.kind = "withheld" PROVE WithheldTypes[query.type] \in {413, 422}
  BY <1>1 DEF QueryType, WithheldTypes
<1>2. CASE LookForAny
  <2> DEFINE versioned == ResolvedFromCurrent(query.type, query.region)
             refused == [status |-> IF versioned = Failure THEN 500 ELSE WithheldTypes[query.type]]
  <2>1. LookedAt("version") /\ query.step = "version" /\ query.kind = "withheld" /\ MomentsArePast
    BY <1>2, LookStarts DEF LookForAny, LookedAt
  <2>2. CASE versioned = NotThere
    <3>1. query' = [query EXCEPT !.step = "resolve"]
      BY <1>2, <2>2 DEF LookForAny, GoesOnTo
    <3>2. query' = [query EXCEPT !.step = "resolve", !.dataset = query.dataset, !.own = query.own,
                                 !.tier = query.tier, !.tiles = query.tiles]
      BY <2>1, <3>1 DEF LookedAt, QueryType, QueryIsRecord
    <3>3. SameRequest /\ query'.step = "resolve"
      BY <2>1, <3>1 DEF LookedAt, QueryType, QueryIsRecord, SameRequest
    <3>4. StepHolds'
      BY <2>1, <3>3, MomentsStayPast DEF StepHolds, LookedAt
    <3> QED
      BY <2>1, <3>2, <3>4, LookKeeps DEF QuerySteps
  <2>3. CASE versioned # NotThere
    <3>1. Replies(refused)
      BY <1>2, <2>3 DEF LookForAny
    <3>2. refused.status \notin {200, 404}
      BY <1>1, <2>1 DEF LookedAt
    <3> HIDE DEF refused
    <3> QED
      BY <2>1, <3>1, <3>2, FailureKeeps
  <2> QED
    BY <2>2, <2>3
<1>3. CASE ResolveWithheld
  <2>1. LookedAt("resolve") /\ query.step = "resolve" /\ query.kind = "withheld" /\ MomentsArePast
    BY <1>3, LookStarts DEF ResolveWithheld, LookedAt
  <2>2. CASE ActivePath(query.type, query.region) = NoFile
    <3>1. Replies(NotThere)
      BY <1>3, <2>2 DEF ResolveWithheld
    <3>2. SameRequest /\ query'.answer.status = 404
      BY <2>1, <3>1, ReplyIsRecorded DEF LookedAt, NotThere
    <3>3. \E m \in query.moments : m.own = NoFile
      BY <2>1, <2>2, PresentIsAMoment
    <3>4. ViewersSeeTheirRegion'
      BY <2>1, <3>2, <3>3 DEF ViewersSeeTheirRegion, SameRequest
    <3> QED
      BY <2>1, <3>1, <3>4, ReplyKeeps
  <2>3. CASE ActivePath(query.type, query.region) # NoFile
    <3> DEFINE refused == [status |-> WithheldTypes[query.type]]
    <3>1. Replies(refused)
      BY <1>3, <2>3 DEF ResolveWithheld
    <3>2. refused.status \notin {200, 404}
      BY <1>1, <2>1 DEF LookedAt
    <3> HIDE DEF refused
    <3> QED
      BY <2>1, <3>1, <3>2, FailureKeeps
  <2> QED
    BY <2>2, <2>3
<1> QED
  BY <1>2, <1>3

LEMMA ResolveDescribedKeeps == OutlookInv /\ QueryInv /\ ResolveDescribed => QueryInv'
<1> SUFFICES ASSUME OutlookInv, QueryInv, ResolveDescribed PROVE QueryInv'
  OBVIOUS
<1> DEFINE own == ActivePath(query.type, query.region)
           d == ActiveDataset(query.type, query.region)
<1>1. LookedAt("resolve") /\ query.step = "resolve" /\ query.kind = "description" /\ MomentsArePast
  BY LookStarts DEF ResolveDescribed, LookedAt
<1>2. CASE own = NoFile
  <2>1. Replies(NotThere)
    BY <1>2 DEF ResolveDescribed
  <2>2. SameRequest /\ query'.answer.status = 404
    BY <1>1, <2>1, ReplyIsRecorded DEF LookedAt, NotThere
  <2>3. \E m \in query.moments : m.own = NoFile
    BY <1>1, <1>2, PresentIsAMoment
  <2>4. ViewersSeeTheirRegion'
    BY <1>1, <2>2, <2>3 DEF ViewersSeeTheirRegion, SameRequest
  <2> QED
    BY <1>1, <2>1, <2>4, ReplyKeeps
<1>3. CASE own # NoFile
  <2>1. query' = [query EXCEPT !.step = "list", !.own = own, !.dataset = d]
    BY <1>3 DEF ResolveDescribed
  <2>2. /\ d \in outlook.known /\ HazardDatasets[d].region = query.region
        /\ IsAbout(own, query.type, query.region)
    BY <1>1, <1>3, ActiveIsOfTheRegion DEF LookedAt
  <2>3. d \in DOMAIN HazardDatasets
    BY <1>1, <2>2 DEF LookedAt, OutlookType
  <2> HIDE DEF own, d
  <2>4. SameRequest /\ query'.step = "list" /\ query'.own = own /\ query'.dataset = d
    BY <1>1, <2>1 DEF LookedAt, QueryType, QueryIsRecord, SameRequest
  <2>5. OwnIsAbout'
    BY <2>2, <2>4 DEF OwnIsAbout, SameRequest, IsAbout
  <2>6. StepHolds'
    BY <1>1, <2>2, <2>3, <2>4, <2>5, MomentsStayPast DEF StepHolds, LookedAt, SameRequest
  <2>7. query' = [query EXCEPT !.step = "list", !.dataset = d, !.own = own,
                               !.tier = query.tier, !.tiles = query.tiles]
    BY <1>1, <2>1 DEF LookedAt, QueryType, QueryIsRecord
  <2> QED
    BY <1>1, <2>6, <2>7, LookKeeps DEF QuerySteps
<1> QED
  BY <1>2, <1>3

LEMMA ListTilesKeeps == OutlookInv /\ QueryInv /\ ListTiles => QueryInv'
<1> SUFFICES ASSUME OutlookInv, QueryInv, ListTiles PROVE QueryInv'
  OBVIOUS
<1> DEFINE tiles == TilesOfRegion(query.type, query.region)
<1>1. LookedAt("list") /\ query.step = "list" /\ MomentsArePast
  BY LookStarts DEF ListTiles, LookedAt
<1>2. query' = [query EXCEPT !.step = "pick", !.tiles = tiles]
  BY DEF ListTiles
<1>3. tiles \subseteq TileFiles
  BY <1>1 DEF TilesOfRegion, InRegion, LookedAt, OutlookType
<1>4. \A t \in tiles : IsAbout(t, query.type, query.region)
  BY <1>3, HazardFilesAssumption DEF TilesOfRegion, InRegion, TileNamedForItsRegion, IsAbout
<1>5. \E m \in query.moments : tiles = {t \in m.tiles : ~t.temporary /\ t.named = query.region}
  BY <1>1, PresentIsAMoment DEF TilesOfRegion
<1> HIDE DEF tiles
<1>6. /\ SameRequest /\ query'.step = "pick" /\ query'.tiles = tiles
      /\ query'.own = query.own /\ query'.dataset = query.dataset
  BY <1>1, <1>2 DEF LookedAt, QueryType, QueryIsRecord, SameRequest
<1>7. \A t \in query'.tiles : IsAbout(t, query'.type, query'.region)
  BY <1>4, <1>6 DEF SameRequest
<1>8. \E m \in query'.moments : query'.tiles = {t \in m.tiles : ~t.temporary /\ t.named = query'.region}
  BY <1>5, <1>6 DEF SameRequest
<1>9. /\ OwnIsAbout' /\ query'.dataset \in DOMAIN HazardDatasets
      /\ HazardDatasets[query'.dataset].region = query'.region
  BY <1>1, <1>6 DEF LookedAt, StepHolds, OwnIsAbout, IsAbout, SameRequest
<1>10. StepHolds'
  BY <1>1, <1>3, <1>6, <1>7, <1>8, <1>9, MomentsStayPast DEF StepHolds, LookedAt, IsAbout
<1>11. query' = [query EXCEPT !.step = "pick", !.dataset = query.dataset, !.own = query.own,
                              !.tier = query.tier, !.tiles = tiles]
  BY <1>1, <1>2 DEF LookedAt, QueryType, QueryIsRecord
<1> QED
  BY <1>1, <1>10, <1>11, LookKeeps DEF QuerySteps

LEMMA PickTilesKeeps == OutlookInv /\ QueryInv /\ PickTiles => QueryInv'
<1> SUFFICES ASSUME OutlookInv, QueryInv, PickTiles PROVE QueryInv'
  OBVIOUS
<1>1. LookedAt("pick") /\ query.step = "pick" /\ query.kind = "description" /\ MomentsArePast
  BY LookStarts DEF PickTiles, LookedAt
<1>2. /\ OwnIsAbout /\ query.dataset \in DOMAIN HazardDatasets
      /\ HazardDatasets[query.dataset].region = query.region
      /\ query.tiles \subseteq TileFiles
      /\ \A t \in query.tiles : IsAbout(t, query.type, query.region)
  BY <1>1 DEF LookedAt, StepHolds
<1>3. PICK m \in query.moments :
          query.tiles = {t \in m.tiles : ~t.temporary /\ t.named = query.region}
  BY <1>1 DEF LookedAt, StepHolds
<1>4. IsFiniteSet(query.tiles) /\ IsFiniteSet(OwnTiles) /\ OwnTiles \subseteq query.tiles
  BY <1>2, HazardFilesAssumption, FS_Subset DEF OwnTiles
<1>5. \A t \in query.tiles : t.size \in Nat
  BY <1>2, HazardFilesAssumption
\* Tiles of the dataset that were there all along are among them.
<1>6. \A t \in TileFiles :
        ~t.temporary /\ t.stem = query.dataset /\ (\A n \in query.moments : t \in n.tiles)
          => t \in OwnTiles
  <2> SUFFICES ASSUME NEW t \in TileFiles, ~t.temporary, t.stem = query.dataset,
                      \A n \in query.moments : t \in n.tiles
               PROVE  t \in OwnTiles
    OBVIOUS
  <2>1. t.named = query.region
    BY <1>2, HazardFilesAssumption DEF TileNamedForItsRegion
  <2>2. t \in query.tiles
    BY <1>3, <2>1
  <2> QED
    BY <2>2 DEF OwnTiles
<1>7. ASSUME NEW tiles, Replies(Description(tiles)),
             tiles # NoFile => tiles \in query.tiles,
             OwnTiles # {} => tiles \in OwnTiles
      PROVE  QueryInv'
  <2>1. SameRequest /\ query'.answer = Description(tiles)
    BY <1>1, <1>7, ReplyIsRecorded DEF LookedAt
  <2>2. /\ query'.answer.status = 200 /\ query'.answer.tiles = tiles
        /\ query'.answer.artifact = query.own /\ query'.answer.dataset = query.dataset
    BY <2>1 DEF Description
  <2>3. tiles # NoFile => IsAbout(tiles, query.type, query.region) /\ tiles \in m.tiles
    BY <1>2, <1>3, <1>7
  <2>4. \A t \in TileFiles :
          ~t.temporary /\ t.stem = query.dataset /\ (\A n \in query.moments : t \in n.tiles)
            => tiles # NoFile /\ tiles.stem = query.dataset
    <3>1. tiles \in OwnTiles => tiles # NoFile /\ tiles.stem = query.dataset
      BY <1>2, HazardFilesAssumption DEF OwnTiles
    <3> QED
      BY <1>6, <1>7, <3>1
  <2>5. DescriptionIsOfTheRegion'
    BY <1>2, <1>3, <2>1, <2>2, <2>3, <2>4 DEF DescriptionIsOfTheRegion, SameRequest, OwnIsAbout, IsAbout
  <2>6. ViewersSeeTheirRegion'
    BY <1>1, <2>1, <2>2, <2>5 DEF ViewersSeeTheirRegion, SameRequest
  <2> QED
    BY <1>1, <1>7, <2>6, ReplyKeeps
<1>8. CASE query.tiles = {}
  <2>1. Replies(Description(NoFile)) /\ OwnTiles = {}
    BY <1>8 DEF PickTiles, OwnTiles
  <2> QED
    BY <1>7, <2>1
<1>9. CASE query.tiles # {} /\ OwnTiles # {}
  <2>1. Replies(Description(Largest(OwnTiles)))
    BY <1>9 DEF PickTiles
  <2>2. Largest(OwnTiles) \in OwnTiles
    BY <1>4, <1>5, <1>9, LargestIsOne
  <2> QED
    BY <1>4, <1>7, <2>1, <2>2
<1>10. CASE query.tiles # {} /\ OwnTiles = {} /\ query.tiles \subseteq outlook.tiles
  <2>1. Replies(Description(Largest(query.tiles)))
    BY <1>10 DEF PickTiles
  <2>2. Largest(query.tiles) \in query.tiles
    BY <1>4, <1>5, <1>10, LargestIsOne
  <2> QED
    BY <1>7, <1>10, <2>1, <2>2
<1>11. CASE query.tiles # {} /\ OwnTiles = {} /\ ~(query.tiles \subseteq outlook.tiles)
  <2>1. Replies(Failure)
    BY <1>11 DEF PickTiles
  <2> QED
    BY <1>1, <2>1, FailureKeeps DEF Failure
<1> QED
  BY <1>8, <1>9, <1>10, <1>11

LEMMA AskKeeps == OutlookInv /\ QueryInv /\ AskForHazard => QueryInv'
<1> SUFFICES ASSUME OutlookInv, QueryInv, AskForHazard PROVE QueryInv'
  OBVIOUS
<1>1. PICK kind \in {"description", "withheld", "file"}, type \in ShownTypes, region \in HazardRegions,
           step \in {"resolve", "version"} :
        /\ query' = HazardRequest(kind, type, region, step)
        /\ kind = "withheld" => type \in DOMAIN WithheldTypes
  BY DEF AskForHazard
<1>2. outlook' # <<>> /\ UNCHANGED outlook
  BY DEF AskForHazard
<1>3. /\ query'.kind = kind /\ query'.type = type /\ query'.region = region /\ query'.step = step
      /\ query'.moments = {Moment(type, region)}
  BY <1>1 DEF HazardRequest
<1>4. QueryType'
  <2>1. QueryIsRecord'
    BY <1>1 DEF HazardRequest, QueryIsRecord
  <2> QED
    BY <1>1, <1>3, <2>1 DEF QueryType, QuerySteps
<1>5. MomentsArePast'
  <2>1. Moment(query.type, query.region)' = Moment(type, region)
    BY <1>2, <1>3 DEF Moment, VersionedFiles, InRegion, NamedForRegion, ActivePath, ActiveDataset,
                      PathOfDataset
  <2>2. Moment(type, region).lake = InRegion(outlook.lake, type, region)
    BY DEF Moment
  <2>3. InRegion(outlook.lake, query.type, query.region)' = InRegion(outlook.lake, type, region)
    BY <1>2, <1>3 DEF InRegion
  <2>4. \A m \in query'.moments : m.lake \subseteq InRegion(outlook.lake, type, region)
    BY <1>3, <2>2
  <2> QED
    BY <1>3, <2>1, <2>3, <2>4 DEF MomentsArePast
<1>6. StepHolds' /\ ViewersSeeTheirRegion'
  BY <1>1, <1>3, <1>5 DEF StepHolds, ViewersSeeTheirRegion
<1> QED
  BY <1>2, <1>4, <1>6 DEF QueryInv

LEMMA QueryInvInit == HazardFilesInit => QueryInv
  BY DEF HazardFilesInit, QueryInv, ViewersSeeTheirRegion

LEMMA QueryInvStep == OutlookInv /\ QueryInv /\ [HazardFilesNext]_viewerVars => QueryInv'
<1> SUFFICES ASSUME OutlookInv, QueryInv, [HazardFilesNext]_viewerVars PROVE QueryInv'
  OBVIOUS
<1>1. CASE UNCHANGED viewerVars
  <2>1. UNCHANGED <<outlook, query>>
    BY <1>1 DEF viewerVars
  <2>2. (query # <<>> => QueryType /\ StepHolds)'
    <3> SUFFICES ASSUME query # <<>> PROVE QueryType' /\ StepHolds'
      BY <2>1
    <3>1. QueryType /\ StepHolds
      BY DEF QueryInv
    <3>2. QueryType'
      BY <2>1, <3>1 DEF QueryType, QueryIsRecord
    <3>3. query.step # "answered" => MomentsArePast'
      BY <2>1, <3>1, MomentsStayPast DEF StepHolds, SameRequest
    <3>4. StepHolds'
      BY <2>1, <3>1, <3>3 DEF StepHolds, NoVersionHeldIt, OwnIsAbout, IsAbout
    <3> QED
      BY <3>2, <3>4
  <2>3. ViewersSeeTheirRegion'
    BY <2>1 DEF QueryInv, ViewersSeeTheirRegion, FileIsOfTheRegion, DescriptionIsOfTheRegion, Stands,
                IsAbout
  <2> QED
    BY <2>1, <2>2, <2>3 DEF QueryInv
<1>2. CASE FirstLook \/ LeaveHazard \/ ServerRestarts
  <2>1. query' = <<>>
    BY <1>2 DEF FirstLook, LeaveHazard, ServerRestarts, QueryInv
  <2> QED
    BY <2>1 DEF QueryInv, ViewersSeeTheirRegion
<1>3. CASE /\ outlook # <<>>
           /\ \/ PublishTree \/ LinkBreaks \/ NormalizeFile \/ DeployFile \/ WithdrawFile \/ ForgetPath
              \/ BuildTiles \/ RetireTiles \/ \E d \in DOMAIN HazardDatasets : MapActive(d) \/ UnmapActive(d)
  BY <1>3, ChangesAreNoticed, NoticeKeeps
<1>4. CASE AskForHazard
  BY <1>4, AskKeeps
<1>5. CASE QueryLooks
  BY <1>5, LookInVersionKeeps, LookUpActiveKeeps, CheckActiveKeeps, DirectoriesKeep, OpenFoundKeeps,
     WithheldKeeps, ResolveDescribedKeeps, ListTilesKeeps, PickTilesKeeps DEF QueryLooks
<1> QED
  BY <1>1, <1>2, <1>3, <1>4, <1>5 DEF HazardFilesNext, QueryLooks

\* However versions, deploys, rollbacks, mappings and tiles of any datasets change between
\* the looks of a request: nobody is given what belongs to another region or was never
\* there, or what lies elsewhere in place of a version that cannot be read; nobody is told
\* that a hazard is not there while its active dataset has a path all along, described or
\* withheld, or, where files are given out, while the file of that path is there all along.
THEOREM ViewersGetTheirOwn == HazardFilesSpec => []ViewersSeeTheirRegion
<1>1. QueryInv => ViewersSeeTheirRegion
  BY DEF QueryInv
<1> QED
  BY OutlookInvInit, OutlookInvStep, QueryInvInit, QueryInvStep, <1>1, PTL DEF HazardFilesSpec

-----------------------------------------------------------------------------
(* The hazards that are loaded, and what is said of a place *)

Shapes == SUBSET Places
AllRings == UNION {Range(f.rings) : f \in LoadableFiles}
Polygons == [box : {r.box : r \in AllRings}, level : {r.level : r \in AllRings},
             centre : {r.centre : r \in AllRings}, shape : Shapes \cup Nat]
RingStores == [disk : Seq(Shapes), buffer : Seq(Shapes), kept : Nat, pending : Nat, broken : BOOLEAN]

\* On disk are the shapes of n boxes that count; behind them, there and in the buffer,
\* those of a file that is being read.
HeldIn(disk, buffer, n, shapes) ==
    /\ n <= Len(disk) /\ Len(disk) + Len(buffer) = n + Len(shapes)
    /\ \A j \in 1 .. Len(shapes) :
          shapes[j] = IF n + j <= Len(disk) THEN disk[n + j] ELSE buffer[n + j - Len(disk)]
Holds(s, n, shapes) ==
    s.kept = n /\ s.pending = Len(shapes) /\ HeldIn(s.disk, s.buffer, n, shapes)

LEMMA HeldWithOneMore ==
    ASSUME NEW S, NEW disk \in Seq(S), NEW buffer \in Seq(S), NEW n \in Nat, NEW shapes \in Seq(S),
           NEW shape \in S, HeldIn(disk, buffer, n, shapes)
    PROVE  HeldIn(disk, Append(buffer, shape), n, Append(shapes, shape))
<1> DEFINE b == Append(buffer, shape)
           m == Append(shapes, shape)
<1>1. /\ Len(b) = Len(buffer) + 1 /\ b[Len(buffer) + 1] = shape
      /\ \A i \in 1 .. Len(buffer) : b[i] = buffer[i]
  BY AppendProperties
<1>2. /\ Len(m) = Len(shapes) + 1 /\ m[Len(shapes) + 1] = shape
      /\ \A i \in 1 .. Len(shapes) : m[i] = shapes[i]
  BY AppendProperties
<1>3. /\ Len(disk) \in Nat /\ Len(buffer) \in Nat /\ Len(shapes) \in Nat
      /\ n <= Len(disk) /\ Len(disk) + Len(buffer) = n + Len(shapes)
  BY DEF HeldIn
<1> HIDE DEF b, m
<1>4. n <= Len(disk) /\ Len(disk) + Len(b) = n + Len(m)
  <2>1. Len(b) = Len(buffer) + 1 /\ Len(m) = Len(shapes) + 1
    BY <1>1, <1>2
  <2> QED
    BY <1>3, <2>1
<1>5. ASSUME NEW j \in 1 .. Len(m)
      PROVE  m[j] = IF n + j <= Len(disk) THEN disk[n + j] ELSE b[n + j - Len(disk)]
  <2>1. CASE j = Len(m)
    BY <1>1, <1>2, <1>3, <1>4, <2>1
  <2>2. CASE j # Len(m)
    <3>1. j \in 1 .. Len(shapes)
      BY <1>2, <1>3, <2>2
    <3>2. shapes[j] = IF n + j <= Len(disk) THEN disk[n + j] ELSE buffer[n + j - Len(disk)]
      BY <3>1 DEF HeldIn
    <3>3. m[j] = shapes[j]
      BY <1>2, <3>1
    <3>4. CASE n + j <= Len(disk)
      BY <3>2, <3>3, <3>4
    <3>5. CASE ~(n + j <= Len(disk))
      <4>1. n + j - Len(disk) \in 1 .. Len(buffer)
        BY <1>3, <3>1, <3>5
      <4>2. b[n + j - Len(disk)] = buffer[n + j - Len(disk)]
        BY <1>1, <4>1
      <4> QED
        BY <3>2, <3>3, <3>5, <4>2
    <3> QED
      BY <3>4, <3>5
  <2> QED
    BY <2>1, <2>2
<1> QED
  BY <1>4, <1>5 DEF HeldIn, b, m

LEMMA HeldOnDisk ==
    ASSUME NEW S, NEW disk \in Seq(S), NEW buffer \in Seq(S), NEW n \in Nat, NEW shapes \in Seq(S),
           HeldIn(disk, buffer, n, shapes)
    PROVE  /\ HeldIn(disk \o buffer, <<>>, n, shapes)
           /\ \A i \in 1 .. n : (disk \o buffer)[i] = disk[i]
           /\ \A j \in 1 .. Len(shapes) : (disk \o buffer)[n + j] = shapes[j]
           /\ disk \o buffer \in Seq(S) /\ Len(disk \o buffer) = n + Len(shapes)
<1> DEFINE d == disk \o buffer
<1>1. /\ d \in Seq(S) /\ Len(d) = Len(disk) + Len(buffer)
      /\ \A i \in 1 .. Len(disk) + Len(buffer) :
            d[i] = IF i <= Len(disk) THEN disk[i] ELSE buffer[i - Len(disk)]
  BY ConcatProperties
<1>2. Len(disk) \in Nat /\ Len(buffer) \in Nat /\ Len(shapes) \in Nat /\ Len(<<>>) = 0
  OBVIOUS
<1>3. n <= Len(disk) /\ Len(d) = n + Len(shapes)
  BY <1>1 DEF HeldIn
<1> HIDE DEF d
<1>4. \A i \in 1 .. n : d[i] = disk[i]
  BY <1>1, <1>2, <1>3
<1>5. ASSUME NEW j \in 1 .. Len(shapes) PROVE d[n + j] = shapes[j]
  <2>1. shapes[j] = IF n + j <= Len(disk) THEN disk[n + j] ELSE buffer[n + j - Len(disk)]
    BY DEF HeldIn
  <2>2. n + j \in 1 .. Len(disk) + Len(buffer)
    BY <1>2, <1>3, <1>1
  <2>3. d[n + j] = IF n + j <= Len(disk) THEN disk[n + j] ELSE buffer[n + j - Len(disk)]
    BY <1>1, <2>2
  <2> QED
    BY <2>1, <2>3
<1>6. HeldIn(d, <<>>, n, shapes)
  BY <1>2, <1>3, <1>5 DEF HeldIn
<1> QED
  BY <1>1, <1>3, <1>4, <1>5, <1>6 DEF d

LEMMA FieldsOfAStore ==
    ASSUME NEW s \in RingStores
    PROVE  /\ s.disk \in Seq(Shapes) /\ s.buffer \in Seq(Shapes) /\ s.kept \in Nat
           /\ s.pending \in Nat /\ s.broken \in BOOLEAN
  BY DEF RingStores

LEMMA AddingHolds ==
    ASSUME NEW s \in RingStores, NEW n \in Nat, NEW shapes \in Seq(Shapes), NEW shape \in Shapes,
           NEW full \in BOOLEAN, ~s.broken, Holds(s, n, shapes)
    PROVE  /\ AddedRing(s, shape, full) \in RingStores /\ ~AddedRing(s, shape, full).broken
           /\ Holds(AddedRing(s, shape, full), n, Append(shapes, shape))
           /\ \A i \in 1 .. n : AddedRing(s, shape, full).disk[i] = s.disk[i]
<1> DEFINE disk == s.disk
           b == Append(s.buffer, shape)
           d == s.disk \o b
           more == Append(shapes, shape)
           added == [s EXCEPT !.buffer = b, !.pending = s.pending + 1]
           flushed == [s EXCEPT !.disk = d, !.buffer = <<>>, !.pending = s.pending + 1]
<1>1. /\ disk \in Seq(Shapes) /\ s.buffer \in Seq(Shapes) /\ s.kept \in Nat
      /\ s.pending \in Nat /\ s.broken \in BOOLEAN
  BY FieldsOfAStore
<1>2. b \in Seq(Shapes) /\ more \in Seq(Shapes) /\ Len(more) = Len(shapes) + 1
  BY <1>1, AppendProperties
<1>3. HeldIn(disk, b, n, more)
  BY <1>1, HeldWithOneMore DEF Holds
<1> HIDE DEF more, b
<1>4. /\ HeldIn(d, <<>>, n, more) /\ d \in Seq(Shapes)
      /\ \A i \in 1 .. n : d[i] = disk[i]
  <2> HIDE DEF disk
  <2>1. /\ HeldIn(disk \o b, <<>>, n, more) /\ disk \o b \in Seq(Shapes)
        /\ \A i \in 1 .. n : (disk \o b)[i] = disk[i]
    BY <1>1, <1>2, <1>3, HeldOnDisk
  <2> QED
    BY <2>1 DEF disk
<1>5. s.kept = n /\ s.pending + 1 = Len(more)
  BY <1>2 DEF Holds
<1>6. AddedRing(s, shape, full) = IF full THEN flushed ELSE added
  <2>1. AddedRing(s, shape, full) = IF full THEN Flushed(added) ELSE added
    BY DEF AddedRing, b
  <2>2. Flushed(added) = flushed
    BY <1>1 DEF Flushed, RingStores
  <2> QED
    BY <2>1, <2>2
<1> HIDE DEF d, disk
<1> DEFINE pending == s.pending + 1
<1>9. pending \in Nat /\ <<>> \in Seq(Shapes)
  BY <1>1, EmptySeq
<1> HIDE DEF pending
<1>7. /\ added \in RingStores /\ ~added.broken /\ added.disk = disk /\ added.buffer = b
      /\ added.kept = n /\ added.pending = Len(more)
  BY <1>1, <1>2, <1>5, <1>9 DEF RingStores, disk, pending
<1>8. /\ flushed \in RingStores /\ ~flushed.broken /\ flushed.disk = d /\ flushed.buffer = <<>>
      /\ flushed.kept = n /\ flushed.pending = Len(more)
  BY <1>1, <1>4, <1>5, <1>9 DEF RingStores, pending
<1> HIDE DEF added, flushed
<1> QED
  BY <1>3, <1>4, <1>6, <1>7, <1>8 DEF Holds, more, disk

LEMMA CommittingHolds ==
    ASSUME NEW s \in RingStores, NEW n \in Nat, NEW shapes \in Seq(Shapes), ~s.broken, Holds(s, n, shapes)
    PROVE  /\ Committed(s) \in RingStores /\ ~Committed(s).broken
           /\ Holds(Committed(s), n + Len(shapes), <<>>)
           /\ \A i \in 1 .. n : Committed(s).disk[i] = s.disk[i]
           /\ \A j \in 1 .. Len(shapes) : Committed(s).disk[n + j] = shapes[j]
<1> DEFINE d == s.disk \o s.buffer
           kept == s.kept + s.pending
           c == [s EXCEPT !.disk = d, !.buffer = <<>>, !.kept = kept, !.pending = 0]
<1>1. /\ s.disk \in Seq(Shapes) /\ s.buffer \in Seq(Shapes) /\ s.kept \in Nat
      /\ s.pending \in Nat /\ s.broken \in BOOLEAN /\ <<>> \in Seq(Shapes) /\ Len(<<>>) = 0
  BY FieldsOfAStore, EmptySeq
<1>2. /\ d \in Seq(Shapes) /\ Len(d) = n + Len(shapes)
      /\ \A i \in 1 .. n : d[i] = s.disk[i]
      /\ \A j \in 1 .. Len(shapes) : d[n + j] = shapes[j]
  <2> DEFINE disk == s.disk
             buffer == s.buffer
  <2>1. HeldIn(disk, buffer, n, shapes)
    BY DEF Holds
  <2> HIDE DEF disk, buffer
  <2>2. disk \in Seq(Shapes) /\ buffer \in Seq(Shapes)
    BY <1>1 DEF disk, buffer
  <2>3. /\ \A i \in 1 .. n : (disk \o buffer)[i] = disk[i]
        /\ \A j \in 1 .. Len(shapes) : (disk \o buffer)[n + j] = shapes[j]
        /\ disk \o buffer \in Seq(Shapes) /\ Len(disk \o buffer) = n + Len(shapes)
    BY <2>1, <2>2, HeldOnDisk
  <2> QED
    BY <2>3 DEF disk, buffer
<1>3. Committed(s) = c
  BY <1>1 DEF Committed, Flushed, RingStores
<1>4. kept = n + Len(shapes) /\ kept \in Nat
  BY DEF Holds
<1> HIDE DEF d, kept
<1>5. /\ c \in RingStores /\ ~c.broken /\ c.disk = d /\ c.buffer = <<>>
      /\ c.kept = kept /\ c.pending = 0
  BY <1>1, <1>2, <1>4 DEF RingStores
<1> HIDE DEF c
<1>6. HeldIn(c.disk, c.buffer, kept, <<>>)
  <2>1. Len(d) \in Nat
    BY <1>2
  <2> QED
    BY <1>1, <1>2, <1>4, <1>5, <2>1 DEF HeldIn
<1> QED
  BY <1>1, <1>2, <1>3, <1>4, <1>5, <1>6 DEF Holds

LEMMA RollingBackHolds ==
    ASSUME NEW s \in RingStores, NEW n \in Nat, NEW shapes \in Seq(Shapes), ~s.broken, Holds(s, n, shapes)
    PROVE  /\ RolledBack(s) \in RingStores /\ ~RolledBack(s).broken
           /\ Holds(RolledBack(s), n, <<>>)
           /\ \A i \in 1 .. n : RolledBack(s).disk[i] = s.disk[i]
<1> DEFINE cut == SubSeq(s.disk, 1, s.kept)
           b == [s EXCEPT !.pending = 0, !.buffer = <<>>, !.disk = cut]
<1>1. /\ s.disk \in Seq(Shapes) /\ s.buffer \in Seq(Shapes) /\ s.kept \in Nat
      /\ s.pending \in Nat /\ s.broken \in BOOLEAN /\ <<>> \in Seq(Shapes) /\ Len(<<>>) = 0
  BY FieldsOfAStore, EmptySeq
<1>2. s.kept = n /\ n <= Len(s.disk)
  BY DEF Holds, HeldIn
<1>3. cut \in Seq(Shapes) /\ Len(cut) = n /\ \A i \in 1 .. n : cut[i] = s.disk[i]
  <2>1. \A i \in 1 .. n : s.disk[i] \in Shapes
    BY <1>1, <1>2, ElementOfSeq
  <2> QED
    BY <1>2, <2>1, SubSeqProperties
<1>4. RolledBack(s) = b
  BY <1>1 DEF RolledBack, RingStores
<1> HIDE DEF cut
<1>5. /\ b \in RingStores /\ ~b.broken /\ b.disk = cut /\ b.buffer = <<>> /\ b.kept = n /\ b.pending = 0
  BY <1>1, <1>2, <1>3 DEF RingStores
<1> HIDE DEF b
<1>6. HeldIn(b.disk, b.buffer, n, <<>>)
  BY <1>1, <1>3, <1>5 DEF HeldIn
<1> QED
  BY <1>1, <1>3, <1>4, <1>5, <1>6 DEF Holds

\* What stays broken.
LEMMA BrokenStays ==
    ASSUME NEW s \in RingStores, NEW shape, NEW full
    PROVE  /\ Broken(s) \in RingStores /\ Broken(s).broken
           /\ RolledBackInMemory(s) \in RingStores
           /\ Broken(RolledBackInMemory(s)) \in RingStores /\ Broken(RolledBackInMemory(s)).broken
           /\ s.broken => /\ AddedRing(s, shape, full) = s /\ Committed(s) = s
                          /\ RolledBack(s) \in RingStores /\ RolledBack(s).broken
<1>1. /\ s.disk \in Seq(Shapes) /\ s.buffer \in Seq(Shapes) /\ s.kept \in Nat
      /\ s.pending \in Nat /\ s.broken \in BOOLEAN /\ <<>> \in Seq(Shapes)
  BY FieldsOfAStore, EmptySeq
<1>2. Broken(s) \in RingStores /\ Broken(s).broken
  BY <1>1 DEF Broken, RingStores
<1>3. RolledBackInMemory(s) \in RingStores /\ RolledBackInMemory(s).broken = s.broken
  BY <1>1 DEF RolledBackInMemory, RingStores
<1>4. Broken(RolledBackInMemory(s)) \in RingStores /\ Broken(RolledBackInMemory(s)).broken
  BY <1>3 DEF Broken, RingStores
<1>5. s.broken => RolledBack(s) = RolledBackInMemory(s)
  BY DEF RolledBack, RolledBackInMemory
<1> QED
  BY <1>2, <1>3, <1>4, <1>5 DEF AddedRing, Committed

BeingLoaded(t) == loading # NotLoading /\ loading.file.type = t
\* The shapes of the file that is being read, as far as it is read.
ShapesRead == [j \in 1 .. loading.at |-> loading.file.rings[j].inside]

LoadingInv ==
    loading # NotLoading =>
      /\ loading \in [file : LoadableFiles, at : Nat, rings : Seq(Polygons)]
      /\ loading.at <= Len(loading.file.rings) /\ Len(loading.rings) = loading.at
      /\ \A j \in 1 .. loading.at : /\ loading.rings[j].box = loading.file.rings[j].box
                                    /\ loading.file.rings[j].box # NoBox

\* A store that is sound has the shapes of its boxes, each at its position, and behind
\* them those of the file that is being read, and nothing of a file that was given up.
StoreInv(t) ==
    ~stores[t].broken =>
      /\ Holds(stores[t], Len(polygons[t]), IF BeingLoaded(t) THEN ShapesRead ELSE <<>>)
      /\ \A i \in DOMAIN polygons[t] : polygons[t][i].shape = i
      /\ BeingLoaded(t) =>
            \A j \in 1 .. loading.at : loading.rings[j].shape = Len(polygons[t]) + j

KeptShape(t, i) == IF t \in StoredTypes THEN stores[t].disk[i] ELSE polygons[t][i].shape

\* Every ring of a loaded file has its box, with its shape in the same place.
RingsInv(t) ==
    \A f \in sources : f.type = t =>
        \A r \in Range(f.rings) :
            /\ Boxed(r)
            /\ \E i \in DOMAIN polygons[t] :
                  /\ polygons[t][i].box = r.box
                  /\ (t \in StoredTypes /\ stores[t].broken) \/ KeptShape(t, i) = r.inside

BoxesHaveASource(t) == polygons[t] # <<>> => RingsOf(t) # {}

HazardTyped ==
    /\ polygons \in [HazardTypes -> Seq(Polygons)] /\ stores \in [HazardTypes -> RingStores]
    /\ sources \subseteq LoadableFiles /\ unread \in Seq(LoadableFiles) /\ LoadingInv

CoverageInv == \A r \in UnwantedRegions : coverage[r] \in {NoBox, Index(Registered[r])}

LoadedInv(t) == (t \in StoredTypes => StoreInv(t)) /\ RingsInv(t) /\ BoxesHaveASource(t)

HazardInv == HazardTyped /\ CoverageInv /\ \A t \in HazardTypes : LoadedInv(t)

LEMMA HazardInvInit == HazardInit => HazardInv
<1> SUFFICES ASSUME HazardInit PROVE HazardInv
  OBVIOUS
<1>1. <<>> \in Seq(Polygons) /\ <<>> \in Seq(Shapes) /\ Len(<<>>) = 0
  BY EmptySeq
<1>2. EmptyStore \in RingStores
  BY <1>1 DEF EmptyStore, RingStores
<1>3. HazardTyped
  BY <1>1, <1>2, RuntimesAssumption DEF HazardInit, HazardTyped, LoadingInv
<1>4. CoverageInv
  BY DEF HazardInit, CoverageInv
<1>5. ASSUME NEW t \in HazardTypes PROVE LoadedInv(t)
  <2>1. stores[t] = EmptyStore /\ polygons[t] = <<>> /\ ~BeingLoaded(t) /\ sources = {}
    BY <1>5 DEF HazardInit, BeingLoaded
  <2>2. Holds(EmptyStore, 0, <<>>)
    BY <1>1 DEF Holds, HeldIn, EmptyStore
  <2>3. StoreInv(t)
    BY <1>1, <2>1, <2>2 DEF StoreInv
  <2> QED
    BY <2>1, <2>3 DEF LoadedInv, RingsInv, BoxesHaveASource
<1> QED
  BY <1>3, <1>4, <1>5 DEF HazardInv

\* What is done to one type leaves the others alone.
LEMMA OtherTypesStay ==
    ASSUME HazardInv, loading # NotLoading, loading.file.type \in HazardTypes,
           NEW t \in HazardTypes, t # loading.file.type,
           polygons'[t] = polygons[t], stores'[t] = stores[t],
           sources' = sources \/ sources' = sources \cup {loading.file},
           loading' = NotLoading \/ loading'.file = loading.file
    PROVE  LoadedInv(t)'
<1>1. ~BeingLoaded(t) /\ ~BeingLoaded(t)'
  BY DEF BeingLoaded
<1>2. t \in StoredTypes => StoreInv(t)'
  BY <1>1 DEF HazardInv, LoadedInv, StoreInv
<1>3. RingsInv(t)'
  BY DEF HazardInv, LoadedInv, RingsInv, KeptShape
<1>4. BoxesHaveASource(t)'
  BY DEF HazardInv, LoadedInv, BoxesHaveASource, RingsOf
<1> QED
  BY <1>2, <1>3, <1>4 DEF LoadedInv

LEMMA OpeningKeeps == HazardInv /\ OpenFile => HazardInv'
<1> SUFFICES ASSUME HazardInv, OpenFile PROVE HazardInv'
  OBVIOUS
<1> DEFINE head == Head(unread)
<1>1. /\ head \in LoadableFiles /\ Tail(unread) \in Seq(LoadableFiles)
  BY HeadTailProperties DEF HazardInv, HazardTyped, OpenFile
<1> HIDE DEF head
<1>2. /\ loading' = [file |-> head, at |-> 0, rings |-> <<>>] /\ unread' = Tail(unread)
      /\ polygons' = polygons /\ stores' = stores /\ sources' = sources /\ coverage' = coverage
      /\ loading = NotLoading
  BY DEF OpenFile, head
<1>3. head.rings \in Seq(Range(head.rings))
  BY <1>1, RuntimesAssumption
<1>4. LoadingInv'
  <2>1. <<>> \in Seq(Polygons) /\ Len(<<>>) = 0 /\ Len(head.rings) \in Nat
    BY <1>3, EmptySeq
  <2> QED
    BY <1>1, <1>2, <2>1 DEF LoadingInv
<1>5. HazardTyped'
  BY <1>1, <1>2, <1>4 DEF HazardInv, HazardTyped
<1>6. CoverageInv'
  BY <1>2 DEF HazardInv, CoverageInv
<1>7. ASSUME NEW t \in HazardTypes PROVE LoadedInv(t)'
  <2>1. ShapesRead' = <<>>
    BY <1>2 DEF ShapesRead
  <2>2. ~BeingLoaded(t)
    BY <1>2 DEF BeingLoaded
  <2>3. t \in StoredTypes => StoreInv(t)'
    BY <1>2, <2>1, <2>2, <1>7 DEF HazardInv, LoadedInv, StoreInv
  <2> QED
    BY <1>2, <2>3, <1>7 DEF HazardInv, LoadedInv, RingsInv, KeptShape, BoxesHaveASource, RingsOf
<1> QED
  BY <1>5, <1>6, <1>7 DEF HazardInv

\* What is read is a file of a type that there is, ring by ring.
LEMMA TheFileThatIsRead ==
    ASSUME HazardInv, loading # NotLoading
    PROVE  /\ loading.file \in LoadableFiles /\ loading.file.type \in HazardTypes
           /\ loading.file.rings \in Seq(Range(loading.file.rings))
           /\ loading.at \in Nat /\ loading.at <= Len(loading.file.rings)
           /\ Len(loading.file.rings) \in Nat
           /\ \A j \in 1 .. Len(loading.file.rings) :
                 /\ loading.file.rings[j] \in AllRings
                 /\ loading.file.rings[j].box # NoBox => Boxed(loading.file.rings[j])
<1>1. LoadingInv
  BY DEF HazardInv, HazardTyped
<1>2. /\ loading.file \in LoadableFiles /\ loading.at \in Nat
      /\ loading.at <= Len(loading.file.rings)
  BY <1>1 DEF LoadingInv
<1> DEFINE read == loading.file
<1>3. /\ read.type \in HazardTypes /\ read.rings \in Seq(Range(read.rings))
      /\ \A ring \in Range(read.rings) : ring.box = NoBox \/ Boxed(ring)
  BY <1>2, RuntimesAssumption
<1>4. \A j \in 1 .. Len(read.rings) : read.rings[j] \in Range(read.rings)
  BY <1>3, ElementOfSeq
<1>5. \A j \in 1 .. Len(read.rings) : read.rings[j] \in AllRings
  BY <1>2, <1>4 DEF AllRings
<1> QED
  BY <1>2, <1>3, <1>4, <1>5

LEMMA ShapesAreRead ==
    ASSUME HazardInv, loading # NotLoading
    PROVE  ShapesRead \in Seq(Shapes) /\ Len(ShapesRead) = loading.at
<1>1. \A j \in 1 .. loading.at : loading.file.rings[j].inside \in Shapes
  <2> SUFFICES ASSUME NEW j \in 1 .. loading.at PROVE loading.file.rings[j].inside \in Shapes
    OBVIOUS
  <2>1. loading.file.rings[j].box # NoBox
    BY DEF HazardInv, HazardTyped, LoadingInv
  <2>2. j \in 1 .. Len(loading.file.rings)
    BY TheFileThatIsRead
  <2> QED
    BY <2>1, <2>2, TheFileThatIsRead DEF Boxed, Shapes
<1> QED
  BY <1>1, TheFileThatIsRead DEF ShapesRead

LEMMA ReadingKeeps ==
    ASSUME HazardInv, NEW full \in BOOLEAN, NEW fails \in BOOLEAN, ReadRing(full, fails)
    PROVE  HazardInv'
<1> DEFINE type == loading.file.type
           st == stores[type]
           ring == AtRing
           box == [box |-> ring.box, level |-> ring.level, centre |-> ring.centre,
                   shape |-> RingPosition(st)]
           new == IF fails THEN Broken(st) ELSE AddedRing(st, ring.inside, full)
           more == Append(loading.rings, box)
           n == loading.at + 1
<1>1. /\ loading # NotLoading /\ loading.at < Len(loading.file.rings)
      /\ type \in StoredTypes /\ ring.box # NoBox
      /\ loading' = [loading EXCEPT !.at = @ + 1, !.rings = Append(@, box)]
      /\ stores' = [stores EXCEPT ![type] = new]
      /\ polygons' = polygons /\ sources' = sources /\ unread' = unread /\ coverage' = coverage
  BY DEF ReadRing, Reading, Keep
<1>2. /\ loading.file \in LoadableFiles /\ type \in HazardTypes /\ loading.at \in Nat
      /\ Len(loading.file.rings) \in Nat
      /\ \A j \in 1 .. Len(loading.file.rings) :
            /\ loading.file.rings[j] \in AllRings
            /\ loading.file.rings[j].box # NoBox => Boxed(loading.file.rings[j])
  BY <1>1, TheFileThatIsRead
<1>3. /\ n \in 1 .. Len(loading.file.rings) /\ ring = loading.file.rings[n]
  BY <1>1, <1>2 DEF AtRing
<1>4. ring \in AllRings /\ Boxed(ring) /\ ring.inside \in Shapes
  BY <1>1, <1>2, <1>3 DEF Boxed, Shapes
<1>5. /\ st \in RingStores /\ polygons \in [HazardTypes -> Seq(Polygons)]
      /\ stores \in [HazardTypes -> RingStores]
  BY <1>2 DEF HazardInv, HazardTyped
<1>6. RingPosition(st) \in Nat
  BY <1>5, FieldsOfAStore DEF RingPosition
<1>7. box \in Polygons /\ box.box = ring.box /\ box.shape = RingPosition(st)
  BY <1>4, <1>6 DEF Polygons
<1>8. new \in RingStores
  <2>1. CASE fails
    BY <1>5, <2>1, BrokenStays
  <2>2. CASE ~fails /\ st.broken
    BY <1>5, <2>2, BrokenStays
  <2>3. CASE ~fails /\ ~st.broken
    <3> DEFINE shapes == ShapesRead
               shape == ring.inside
               k == Len(polygons[type])
    <3>1. Holds(st, k, shapes) /\ k \in Nat
      BY <1>1, <1>2, <1>5, <2>3 DEF HazardInv, LoadedInv, StoreInv, BeingLoaded
    <3>2. shapes \in Seq(Shapes)
      BY <1>1, ShapesAreRead
    <3>3. shape \in Shapes
      BY <1>4
    <3> HIDE DEF shapes, shape, k, st
    <3>4. AddedRing(st, shape, full) \in RingStores
      BY <1>5, <2>3, <3>1, <3>2, <3>3, AddingHolds
    <3> QED
      BY <2>3, <3>4 DEF shape
  <2> QED
    BY <2>1, <2>2, <2>3
<1> DEFINE k == Len(polygons[type])
<1>9. k \in Nat /\ ShapesRead \in Seq(Shapes) /\ Len(ShapesRead) = loading.at
  BY <1>1, <1>2, <1>5, ShapesAreRead
<1>10. /\ loading \in [file : LoadableFiles, at : Nat, rings : Seq(Polygons)]
       /\ Len(loading.rings) = loading.at
       /\ \A j \in 1 .. loading.at : /\ loading.rings[j].box = loading.file.rings[j].box
                                     /\ loading.file.rings[j].box # NoBox
  BY <1>1 DEF HazardInv, HazardTyped, LoadingInv
<1> HIDE DEF box, ring, new, n, st
<1>11. /\ more \in Seq(Polygons) /\ Len(more) = n /\ more[n] = box
       /\ \A j \in 1 .. loading.at : more[j] = loading.rings[j]
  BY <1>7, <1>10, AppendProperties DEF n
<1>12. n \in Nat /\ n # 0 /\ n <= Len(loading.file.rings)
  BY <1>2, <1>3 DEF n
<1> HIDE DEF more
<1>13. /\ loading' \in [file : LoadableFiles, at : Nat, rings : Seq(Polygons)]
       /\ loading'.file = loading.file /\ loading'.at = n /\ loading'.rings = more
  BY <1>1, <1>10, <1>11, <1>12 DEF n, more
<1>14. LoadingInv'
  <2> SUFFICES ASSUME NEW j \in 1 .. n
               PROVE  more[j].box = loading.file.rings[j].box /\ loading.file.rings[j].box # NoBox
    BY <1>11, <1>12, <1>13 DEF LoadingInv
  <2>1. CASE j = n
    BY <1>1, <1>3, <1>7, <1>11, <2>1
  <2>2. CASE j # n
    BY <1>2, <1>10, <1>11, <2>2 DEF n
  <2> QED
    BY <2>1, <2>2
<1>15. HazardTyped'
  BY <1>1, <1>2, <1>5, <1>8, <1>14 DEF HazardInv, HazardTyped
<1>16. CoverageInv'
  BY <1>1 DEF HazardInv, CoverageInv
<1>17. ASSUME NEW t \in HazardTypes, t # type PROVE LoadedInv(t)'
  BY <1>1, <1>2, <1>5, <1>13, <1>17, OtherTypesStay
<1>18. BeingLoaded(type)
  BY <1>1 DEF BeingLoaded
<1>19. ASSUME ~new.broken
       PROVE  /\ ~st.broken /\ Holds(st, k, ShapesRead)
              /\ Holds(new, k, Append(ShapesRead, ring.inside))
              /\ \A i \in 1 .. k : new.disk[i] = st.disk[i]
  <2>1. ~fails /\ ~st.broken /\ new = AddedRing(st, ring.inside, full)
    BY <1>5, <1>19, BrokenStays DEF new
  <2>2. Holds(st, k, ShapesRead)
    BY <1>1, <1>2, <1>18, <2>1 DEF HazardInv, LoadedInv, StoreInv, st
  <2> HIDE DEF k
  <2> QED
    BY <1>4, <1>5, <1>9, <2>1, <2>2, AddingHolds
<1>20. ShapesRead' = Append(ShapesRead, ring.inside)
  <2> DEFINE s == ShapesRead
             l == Append(s, ring.inside)
             m == [j \in 1 .. n |-> loading.file.rings[j].inside]
  <2>1. m = ShapesRead'
    BY <1>13 DEF ShapesRead
  <2>2. \A j \in 1 .. loading.at : s[j] = loading.file.rings[j].inside
    BY DEF ShapesRead
  <2> HIDE DEF s
  <2>3. s \in Seq(Shapes) /\ Len(s) = loading.at
    BY <1>9 DEF s
  <2>4. /\ l \in Seq(Shapes) /\ Len(l) = n /\ l[n] = ring.inside
        /\ \A j \in 1 .. loading.at : l[j] = s[j]
    BY <1>4, <2>3, AppendProperties DEF n
  <2> HIDE DEF l
  <2>5. \A j \in 1 .. n : l[j] = loading.file.rings[j].inside
    <3> SUFFICES ASSUME NEW j \in 1 .. n PROVE l[j] = loading.file.rings[j].inside
      OBVIOUS
    <3>1. CASE j = n
      BY <1>3, <2>4, <3>1
    <3>2. CASE j # n
      BY <1>2, <2>2, <2>4, <3>2 DEF n
    <3> QED
      BY <3>1, <3>2
  <2>6. \A j \in 1 .. n : l[j] \in Shapes
    BY <2>4, ElementOfSeq
  <2>7. m \in Seq(Shapes) /\ Len(m) = n
    BY <1>12, <2>5, <2>6
  <2>8. \A j \in 1 .. n : m[j] = l[j]
    BY <2>5
  <2> HIDE DEF m
  <2>9. m = l
    BY <2>4, <2>7, <2>8, SeqEqual
  <2> QED
    BY <2>1, <2>9 DEF l, s
<1>21. ASSUME NEW t \in HazardTypes, t = type PROVE LoadedInv(t)'
  <2>1. /\ stores'[t] = new /\ polygons'[t] = polygons[type]
        /\ loading' # NotLoading /\ BeingLoaded(t)'
    BY <1>1, <1>2, <1>5, <1>12, <1>13, <1>21 DEF NotLoading, BeingLoaded
  <2>2. StoreInv(t)'
    <3> SUFFICES ASSUME ~new.broken PROVE StoreInv(t)'
      BY <2>1 DEF StoreInv
    <3>1. Holds(new, k, ShapesRead') /\ st.kept = k /\ st.pending = loading.at
      BY <1>9, <1>19, <1>20 DEF Holds
    <3>2. /\ \A i \in DOMAIN polygons[type] : polygons[type][i].shape = i
          /\ \A j \in 1 .. loading.at : loading.rings[j].shape = k + j
      BY <1>1, <1>2, <1>18, <1>19 DEF HazardInv, LoadedInv, StoreInv, st
    <3>3. box.shape = k + n
      BY <1>2, <1>7, <1>9, <3>1 DEF RingPosition, n
    <3>4. ASSUME NEW j \in 1 .. n PROVE more[j].shape = k + j
      <4>1. CASE j = n
        BY <1>11, <3>3, <4>1
      <4>2. CASE j # n
        <5>1. j \in 1 .. loading.at
          BY <1>2, <4>2 DEF n
        <5> QED
          BY <1>11, <3>2, <5>1
      <4> QED
        BY <4>1, <4>2
    <3> QED
      BY <1>13, <1>21, <2>1, <3>1, <3>2, <3>4 DEF StoreInv
  <2>3. RingsInv(t)'
    <3> SUFFICES ASSUME NEW f \in sources, f.type = type, NEW r \in Range(f.rings)
                 PROVE  /\ Boxed(r)
                        /\ \E i \in DOMAIN polygons[type] :
                              /\ polygons[type][i].box = r.box
                              /\ new.broken \/ new.disk[i] = r.inside
      BY <1>1, <1>21, <2>1 DEF RingsInv, KeptShape
    <3>1. /\ Boxed(r)
          /\ \E i \in DOMAIN polygons[type] :
                /\ polygons[type][i].box = r.box
                /\ st.broken \/ st.disk[i] = r.inside
      BY <1>1, <1>2 DEF HazardInv, LoadedInv, RingsInv, KeptShape, st
    <3>2. DOMAIN polygons[type] = 1 .. k
      BY <1>2, <1>5
    <3> HIDE DEF k
    <3> QED
      BY <1>19, <3>1, <3>2
  <2>4. BoxesHaveASource(t)'
    BY <1>1, <1>2, <1>21, <2>1 DEF HazardInv, LoadedInv, BoxesHaveASource, RingsOf
  <2> QED
    BY <2>2, <2>3, <2>4 DEF LoadedInv
<1> QED
  BY <1>15, <1>16, <1>17, <1>21 DEF HazardInv

\* A whole file counts: its boxes and its shapes come behind those that are there.
LEMMA LoadingAFileKeeps ==
    ASSUME HazardInv, NEW fails \in BOOLEAN, FileLoaded(fails)
    PROVE  HazardInv'
<1> DEFINE type == loading.file.type
           rings == loading.file.rings
           st == stores[type]
           old == polygons[type]
           l == loading.rings
           merged == old \o l
           new == IF fails THEN Broken(st) ELSE Committed(st)
           k == Len(old)
           n == loading.at
<1>1. /\ loading # NotLoading /\ ~(n < Len(rings)) /\ type \in StoredTypes
      /\ loading' = NotLoading /\ polygons' = [polygons EXCEPT ![type] = merged]
      /\ stores' = [stores EXCEPT ![type] = new]
      /\ sources' = sources \cup {loading.file} /\ unread' = unread /\ coverage' = coverage
  BY DEF FileLoaded, Reading, Keep
<1>2. /\ loading.file \in LoadableFiles /\ type \in HazardTypes /\ n \in Nat /\ n = Len(rings)
      /\ rings \in Seq(Range(rings))
      /\ \A j \in 1 .. n : rings[j].box # NoBox => Boxed(rings[j])
  BY <1>1, TheFileThatIsRead
<1>3. /\ st \in RingStores /\ old \in Seq(Polygons)
      /\ polygons \in [HazardTypes -> Seq(Polygons)] /\ stores \in [HazardTypes -> RingStores]
  BY <1>2 DEF HazardInv, HazardTyped
<1>4. /\ l \in Seq(Polygons) /\ Len(l) = n
      /\ \A j \in 1 .. n : l[j].box = rings[j].box /\ rings[j].box # NoBox
  BY <1>1 DEF HazardInv, HazardTyped, LoadingInv
<1>5. k \in Nat /\ ShapesRead \in Seq(Shapes) /\ Len(ShapesRead) = n /\ BeingLoaded(type)
  BY <1>1, <1>3, ShapesAreRead DEF BeingLoaded
<1> HIDE DEF st, old, l, new, n
<1>6. /\ merged \in Seq(Polygons) /\ Len(merged) = k + n
      /\ \A i \in 1 .. k : merged[i] = old[i]
      /\ \A j \in 1 .. n : merged[k + j] = l[j]
  <2>1. /\ merged \in Seq(Polygons) /\ Len(merged) = Len(old) + Len(l)
        /\ \A i \in 1 .. Len(old) + Len(l) :
              merged[i] = IF i <= Len(old) THEN old[i] ELSE l[i - Len(old)]
    BY <1>3, <1>4, ConcatProperties
  <2>2. Len(old) = k /\ Len(l) = n /\ k \in Nat /\ n \in Nat
    BY <1>2, <1>4, <1>5
  <2> HIDE DEF merged, k
  <2>3. \A i \in 1 .. k : merged[i] = old[i]
    BY <2>1, <2>2
  <2>4. \A j \in 1 .. n : merged[k + j] = l[j]
    <3> SUFFICES ASSUME NEW j \in 1 .. n PROVE merged[k + j] = l[j]
      OBVIOUS
    <3>1. k + j \in 1 .. k + n /\ ~(k + j <= k) /\ k + j - k = j
      BY <2>2
    <3> QED
      BY <2>1, <2>2, <3>1
  <2> QED
    BY <2>1, <2>2, <2>3, <2>4
<1>7. /\ DOMAIN old = 1 .. k /\ DOMAIN merged = 1 .. k + n
  BY <1>3, <1>6
<1> HIDE DEF merged, k
<1>8. ASSUME ~new.broken
      PROVE  /\ ~st.broken /\ Holds(new, k + n, <<>>)
             /\ \A i \in 1 .. k : new.disk[i] = st.disk[i]
             /\ \A j \in 1 .. n : new.disk[k + j] = ShapesRead[j]
  <2>1. ~fails /\ ~st.broken /\ new = Committed(st)
    BY <1>3, <1>8, BrokenStays DEF new
  <2>2. Holds(st, k, ShapesRead)
    BY <1>1, <1>2, <1>5, <2>1 DEF HazardInv, LoadedInv, StoreInv, st, k, old
  <2> QED
    BY <1>3, <1>5, <2>1, <2>2, CommittingHolds
<1>9. new \in RingStores
  <2>1. CASE fails \/ st.broken
    BY <1>3, <2>1, BrokenStays DEF new
  <2>2. CASE ~fails /\ ~st.broken
    <3>1. Holds(st, k, ShapesRead)
      BY <1>1, <1>2, <1>5, <2>2 DEF HazardInv, LoadedInv, StoreInv, st, k, old
    <3>2. Committed(st) \in RingStores
      BY <1>3, <1>5, <2>2, <3>1, CommittingHolds
    <3> QED
      BY <2>2, <3>2 DEF new
  <2> QED
    BY <2>1, <2>2
<1>10. HazardTyped'
  BY <1>1, <1>2, <1>3, <1>6, <1>9 DEF HazardInv, HazardTyped, LoadingInv
<1>11. CoverageInv'
  BY <1>1 DEF HazardInv, CoverageInv
<1>12. ASSUME NEW t \in HazardTypes, t # type PROVE LoadedInv(t)'
  BY <1>1, <1>2, <1>3, <1>12, OtherTypesStay
<1>13. ASSUME NEW t \in HazardTypes, t = type PROVE LoadedInv(t)'
  <2>1. polygons'[t] = merged /\ stores'[t] = new /\ ~BeingLoaded(t)' /\ t \in StoredTypes
    BY <1>1, <1>2, <1>3, <1>13 DEF BeingLoaded
  <2>2. StoreInv(t)'
    <3> SUFFICES ASSUME ~new.broken PROVE StoreInv(t)'
      BY <2>1 DEF StoreInv
    <3>1. /\ \A i \in 1 .. k : old[i].shape = i
          /\ \A j \in 1 .. n : l[j].shape = k + j
      BY <1>1, <1>2, <1>5, <1>7, <1>8 DEF HazardInv, LoadedInv, StoreInv, st, old, k, n, l
    <3>2. ASSUME NEW i \in 1 .. k + n PROVE merged[i].shape = i
      <4>1. CASE i \in 1 .. k
        BY <1>6, <3>1, <4>1
      <4>2. CASE i \notin 1 .. k
        <5> DEFINE j == i - k
        <5>1. j \in 1 .. n /\ i = k + j
          BY <1>2, <1>5, <4>2 DEF n
        <5> HIDE DEF j
        <5> QED
          BY <1>6, <3>1, <5>1
      <4> QED
        BY <4>1, <4>2
    <3> QED
      BY <1>6, <1>7, <1>8, <2>1, <3>2 DEF StoreInv
  <2>3. RingsInv(t)'
    <3> SUFFICES ASSUME NEW f \in sources \cup {loading.file}, f.type = type,
                        NEW r \in Range(f.rings)
                 PROVE  /\ Boxed(r)
                        /\ \E i \in 1 .. k + n :
                              merged[i].box = r.box /\ (new.broken \/ new.disk[i] = r.inside)
      <4>1. /\ DOMAIN polygons'[t] = 1 .. k + n /\ stores'[t].broken = new.broken
            /\ \A i : KeptShape(t, i)' = new.disk[i] /\ polygons'[t][i] = merged[i]
        BY <1>7, <2>1 DEF KeptShape
      <4>2. sources' = sources \cup {loading.file}
        BY <1>1
      <4> HIDE DEF type
      <4> QED
        BY <1>13, <2>1, <4>1, <4>2 DEF RingsInv
    <3>1. CASE f \in sources
      <4>1. /\ Boxed(r)
            /\ \E i \in 1 .. k : old[i].box = r.box /\ (st.broken \/ st.disk[i] = r.inside)
        <5>1. RingsInv(type)
          BY <1>2 DEF HazardInv, LoadedInv
        <5>2. /\ Boxed(r)
              /\ \E i \in DOMAIN polygons[type] :
                    /\ polygons[type][i].box = r.box
                    /\ stores[type].broken \/ stores[type].disk[i] = r.inside
          BY <1>1, <3>1, <5>1 DEF RingsInv, KeptShape
        <5> QED
          BY <1>7, <5>2 DEF st, old
      <4>2. PICK i \in 1 .. k : old[i].box = r.box /\ (st.broken \/ st.disk[i] = r.inside)
        BY <4>1
      <4>3. i \in 1 .. k + n
        BY <1>2, <1>5 DEF n
      <4> QED
        BY <1>6, <1>8, <4>1, <4>2, <4>3
    <3>2. CASE f = loading.file
      <4>1. PICK j \in DOMAIN rings : r = rings[j]
        BY <3>2 DEF Range
      <4>2. j \in 1 .. n /\ k + j \in 1 .. k + n
        BY <1>2, <1>5 DEF n
      <4>3. ShapesRead[j] = r.inside
        BY <4>1, <4>2 DEF ShapesRead, n
      <4>4. Boxed(r) /\ merged[k + j].box = r.box
        BY <1>2, <1>4, <1>6, <4>1, <4>2 DEF n
      <4> QED
        BY <1>8, <4>2, <4>3, <4>4
    <3> QED
      BY <3>1, <3>2
  <2>4. BoxesHaveASource(t)'
    <3> SUFFICES ASSUME merged # <<>>
                 PROVE  \E f \in sources \cup {loading.file} : f.type = type /\ Range(f.rings) # {}
      BY <1>1, <1>13, <2>1 DEF BoxesHaveASource, RingsOf
    <3>1. CASE old # <<>>
      BY <1>2, <3>1 DEF HazardInv, LoadedInv, BoxesHaveASource, RingsOf, old
    <3>2. CASE old = <<>>
      <4>1. k = 0 /\ Len(merged) # 0
        BY <1>6, <3>2, EmptySeq DEF k
      <4>2. 1 \in DOMAIN rings
        BY <1>2, <1>6, <4>1 DEF n
      <4>3. rings[1] \in Range(loading.file.rings)
        BY <4>2 DEF Range
      <4> QED
        BY <4>3
    <3> QED
      BY <3>1, <3>2
  <2> QED
    BY <2>2, <2>3, <2>4 DEF LoadedInv
<1> QED
  BY <1>10, <1>11, <1>12, <1>13 DEF HazardInv

\* Nothing of a file counts that could not be read to its end.
LEMMA GivingUpKeeps ==
    ASSUME HazardInv, NEW fails \in BOOLEAN, FileFails(fails)
    PROVE  HazardInv'
<1> DEFINE type == loading.file.type
           st == stores[type]
           new == IF fails THEN Broken(RolledBackInMemory(st)) ELSE RolledBack(st)
           k == Len(polygons[type])
<1>1. /\ loading # NotLoading /\ type \in StoredTypes /\ loading' = NotLoading
      /\ stores' = [stores EXCEPT ![type] = new]
      /\ polygons' = polygons /\ sources' = sources /\ unread' = unread /\ coverage' = coverage
  BY DEF FileFails, Reading, Keep
<1>2. type \in HazardTypes
  BY <1>1, TheFileThatIsRead
<1>3. /\ st \in RingStores /\ polygons \in [HazardTypes -> Seq(Polygons)]
      /\ stores \in [HazardTypes -> RingStores]
  BY <1>2 DEF HazardInv, HazardTyped
<1>4. /\ k \in Nat /\ ShapesRead \in Seq(Shapes) /\ DOMAIN polygons[type] = 1 .. k
      /\ BeingLoaded(type)
  BY <1>1, <1>2, <1>3, ShapesAreRead DEF BeingLoaded
<1> HIDE DEF st, new
<1>5. ASSUME ~st.broken PROVE Holds(st, k, ShapesRead)
  BY <1>1, <1>2, <1>4, <1>5 DEF HazardInv, LoadedInv, StoreInv, st
<1> HIDE DEF k
<1>6. new \in RingStores
  <2>1. CASE fails \/ st.broken
    BY <1>3, <2>1, BrokenStays DEF new
  <2>2. CASE ~fails /\ ~st.broken
    BY <1>3, <1>4, <1>5, <2>2, RollingBackHolds DEF new
  <2> QED
    BY <2>1, <2>2
<1>7. ASSUME ~new.broken
      PROVE  ~st.broken /\ Holds(new, k, <<>>) /\ \A i \in 1 .. k : new.disk[i] = st.disk[i]
  <2>1. ~fails /\ ~st.broken /\ new = RolledBack(st)
    BY <1>3, <1>7, BrokenStays DEF new
  <2> QED
    BY <1>3, <1>4, <1>5, <2>1, RollingBackHolds
<1>8. HazardTyped'
  BY <1>1, <1>2, <1>3, <1>6 DEF HazardInv, HazardTyped, LoadingInv
<1>9. CoverageInv'
  BY <1>1 DEF HazardInv, CoverageInv
<1>10. ASSUME NEW t \in HazardTypes, t # type PROVE LoadedInv(t)'
  BY <1>1, <1>2, <1>3, <1>10, OtherTypesStay
<1>11. ASSUME NEW t \in HazardTypes, t = type PROVE LoadedInv(t)'
  <2>1. /\ polygons'[t] = polygons[type] /\ stores'[t] = new /\ ~BeingLoaded(t)'
        /\ DOMAIN polygons'[t] = 1 .. k /\ Len(polygons'[t]) = k
    BY <1>1, <1>2, <1>3, <1>4, <1>11 DEF BeingLoaded, k
  <2>2. ~new.broken => \A i \in 1 .. k : polygons[type][i].shape = i
    BY <1>1, <1>2, <1>4, <1>7 DEF HazardInv, LoadedInv, StoreInv, st
  <2>3. StoreInv(t)'
    BY <1>7, <2>1, <2>2 DEF StoreInv
  <2>4. RingsInv(t)'
    <3> SUFFICES ASSUME NEW f \in sources, f.type = type, NEW r \in Range(f.rings)
                 PROVE  /\ Boxed(r)
                        /\ \E i \in 1 .. k : /\ polygons[type][i].box = r.box
                                             /\ new.broken \/ new.disk[i] = r.inside
      BY <1>1, <1>11, <2>1 DEF RingsInv, KeptShape
    <3>1. RingsInv(type)
      BY <1>2 DEF HazardInv, LoadedInv
    <3>2. /\ Boxed(r)
          /\ \E i \in 1 .. k : /\ polygons[type][i].box = r.box
                               /\ st.broken \/ st.disk[i] = r.inside
      BY <1>1, <1>4, <3>1 DEF RingsInv, KeptShape, st
    <3> QED
      BY <1>7, <3>2
  <2>5. BoxesHaveASource(t)'
    BY <1>1, <1>2, <1>11, <2>1 DEF HazardInv, LoadedInv, BoxesHaveASource, RingsOf
  <2> QED
    BY <2>3, <2>4, <2>5 DEF LoadedInv
<1> QED
  BY <1>8, <1>9, <1>10, <1>11 DEF HazardInv

\* A small file is kept with its shapes.
LEMMA LoadingWholeKeeps == HazardInv /\ LoadWhole => HazardInv'
<1> SUFFICES ASSUME HazardInv, LoadWhole PROVE HazardInv'
  OBVIOUS
<1> DEFINE type == loading.file.type
           rings == loading.file.rings
           old == polygons[type]
           l == [i \in DOMAIN rings |->
                   [box |-> rings[i].box, level |-> rings[i].level,
                    centre |-> rings[i].centre, shape |-> rings[i].inside]]
           merged == old \o l
           k == Len(old)
           n == Len(rings)
<1>1. /\ loading # NotLoading /\ type \notin StoredTypes /\ loading' = NotLoading
      /\ stores' = stores /\ unread' = unread /\ coverage' = coverage
      /\ \/ polygons' = polygons /\ sources' = sources
         \/ /\ \A i \in DOMAIN rings : rings[i].box # NoBox
            /\ polygons' = [polygons EXCEPT ![type] = merged]
            /\ sources' = sources \cup {loading.file}
  BY DEF LoadWhole
<1>2. /\ loading.file \in LoadableFiles /\ type \in HazardTypes /\ n \in Nat
      /\ DOMAIN rings = 1 .. n
      /\ \A j \in 1 .. n : rings[j] \in AllRings /\ (rings[j].box # NoBox => Boxed(rings[j]))
  <2>1. rings \in Seq(Range(rings))
    BY <1>1, TheFileThatIsRead
  <2>2. n \in Nat /\ DOMAIN rings = 1 .. n
    BY <2>1
  <2> QED
    BY <1>1, <2>2, TheFileThatIsRead
<1>3. /\ old \in Seq(Polygons) /\ polygons \in [HazardTypes -> Seq(Polygons)]
      /\ k \in Nat /\ DOMAIN old = 1 .. k
  BY <1>2 DEF HazardInv, HazardTyped
<1>4. CoverageInv'
  BY <1>1 DEF HazardInv, CoverageInv
<1>5. CASE polygons' = polygons /\ sources' = sources
  <2>1. HazardTyped'
    BY <1>1, <1>5 DEF HazardInv, HazardTyped, LoadingInv
  <2>2. ASSUME NEW t \in HazardTypes PROVE LoadedInv(t)'
    <3>1. t \in StoredTypes => ~BeingLoaded(t) /\ ~BeingLoaded(t)'
      BY <1>1 DEF BeingLoaded
    <3>2. t \in StoredTypes => StoreInv(t)'
      BY <1>1, <1>5, <2>2, <3>1 DEF HazardInv, LoadedInv, StoreInv
    <3> QED
      BY <1>1, <1>5, <2>2, <3>2
         DEF HazardInv, LoadedInv, RingsInv, KeptShape, BoxesHaveASource, RingsOf
  <2> QED
    BY <1>4, <2>1, <2>2 DEF HazardInv
<1>6. CASE /\ \A i \in DOMAIN rings : rings[i].box # NoBox
           /\ polygons' = [polygons EXCEPT ![type] = merged]
           /\ sources' = sources \cup {loading.file}
  <2>1. \A j \in 1 .. n : Boxed(rings[j])
    BY <1>2, <1>6
  <2>2. /\ l \in Seq(Polygons) /\ Len(l) = n
        /\ \A j \in 1 .. n : l[j].box = rings[j].box /\ l[j].shape = rings[j].inside
    <3>1. ASSUME NEW j \in 1 .. n PROVE l[j] \in Polygons
      <4> DEFINE b == rings[j].box
                 v == rings[j].level
                 c == rings[j].centre
                 h == rings[j].inside
      <4>1. /\ b \in {r.box : r \in AllRings} /\ v \in {r.level : r \in AllRings}
            /\ c \in {r.centre : r \in AllRings} /\ h \in Shapes \cup Nat
        BY <1>2, <2>1 DEF Boxed, Shapes
      <4>2. l[j] = [box |-> b, level |-> v, centre |-> c, shape |-> h]
        BY <1>2
      <4> HIDE DEF b, v, c, h, l
      <4> QED
        BY <4>1, <4>2 DEF Polygons
    <3>2. l = [j \in 1 .. n |-> l[j]]
      BY <1>2
    <3>3. \A j \in 1 .. n : l[j].box = rings[j].box /\ l[j].shape = rings[j].inside
      BY <1>2
    <3> HIDE DEF l, n
    <3> QED
      BY <1>2, <3>1, <3>2, <3>3
  <2> HIDE DEF l, old
  <2>3. /\ merged \in Seq(Polygons) /\ DOMAIN merged = 1 .. k + n
        /\ \A i \in 1 .. k : merged[i] = old[i]
        /\ \A j \in 1 .. n : merged[k + j] = l[j]
    <3>1. /\ merged \in Seq(Polygons) /\ Len(merged) = Len(old) + Len(l)
          /\ \A i \in 1 .. Len(old) + Len(l) :
                merged[i] = IF i <= Len(old) THEN old[i] ELSE l[i - Len(old)]
      <4>1. old \in Seq(Polygons) /\ l \in Seq(Polygons)
        BY <1>3, <2>2
      <4> QED
        BY <4>1, ConcatProperties
    <3>2. Len(old) = k /\ Len(l) = n /\ k \in Nat /\ n \in Nat
      BY <1>2, <1>3, <2>2
    <3> HIDE DEF merged, k, n
    <3>3. \A i \in 1 .. k : merged[i] = old[i]
      BY <3>1, <3>2
    <3>4. \A j \in 1 .. n : merged[k + j] = l[j]
      <4> SUFFICES ASSUME NEW j \in 1 .. n PROVE merged[k + j] = l[j]
        OBVIOUS
      <4>1. k + j \in 1 .. k + n /\ ~(k + j <= k) /\ k + j - k = j
        BY <3>2
      <4> QED
        BY <3>1, <3>2, <4>1
    <3> QED
      BY <3>1, <3>2, <3>3, <3>4
  <2> HIDE DEF merged, k, n
  <2>4. HazardTyped'
    BY <1>1, <1>2, <1>3, <1>6, <2>3 DEF HazardInv, HazardTyped, LoadingInv
  <2>5. ASSUME NEW t \in HazardTypes, t # type PROVE LoadedInv(t)'
    BY <1>1, <1>2, <1>3, <1>6, <2>5, OtherTypesStay
  <2>6. ASSUME NEW t \in HazardTypes, t = type PROVE LoadedInv(t)'
    <3>1. t \notin StoredTypes /\ polygons'[t] = merged
      BY <1>1, <1>2, <1>3, <1>6, <2>6
    <3>2. RingsInv(t)'
      <4> SUFFICES ASSUME NEW f \in sources \cup {loading.file}, f.type = type,
                          NEW r \in Range(f.rings)
                   PROVE  Boxed(r) /\ \E i \in 1 .. k + n : merged[i].box = r.box /\ merged[i].shape = r.inside
        <5>1. /\ DOMAIN polygons'[t] = 1 .. k + n
              /\ \A i : KeptShape(t, i)' = merged[i].shape /\ polygons'[t][i] = merged[i]
          BY <2>3, <3>1 DEF KeptShape
        <5>2. sources' = sources \cup {loading.file}
          BY <1>6
        <5> HIDE DEF type
        <5> QED
          BY <2>6, <3>1, <5>1, <5>2 DEF RingsInv
      <4>1. CASE f \in sources
        <5>1. RingsInv(type)
          BY <1>2 DEF HazardInv, LoadedInv
        <5>2. /\ Boxed(r)
              /\ \E i \in DOMAIN polygons[type] :
                    polygons[type][i].box = r.box /\ polygons[type][i].shape = r.inside
          BY <1>1, <4>1, <5>1 DEF RingsInv, KeptShape
        <5>3. PICK i \in 1 .. k : old[i].box = r.box /\ old[i].shape = r.inside
          BY <1>3, <5>2 DEF old
        <5>4. i \in 1 .. k + n
          BY <1>2, <1>3 DEF n, k
        <5> QED
          BY <2>3, <5>2, <5>3, <5>4
      <4>2. CASE f = loading.file
        <5>1. PICK j \in DOMAIN rings : r = rings[j]
          BY <4>2 DEF Range
        <5>2. j \in 1 .. n /\ k + j \in 1 .. k + n
          BY <1>2, <1>3 DEF n, k
        <5> QED
          BY <2>1, <2>2, <2>3, <5>1, <5>2
      <4> QED
        BY <4>1, <4>2
    <3>3. BoxesHaveASource(t)'
      <4> SUFFICES ASSUME merged # <<>>
                   PROVE  \E f \in sources \cup {loading.file} : f.type = type /\ Range(f.rings) # {}
        BY <1>6, <2>6, <3>1 DEF BoxesHaveASource, RingsOf
      <4>1. CASE old # <<>>
        BY <1>2, <4>1 DEF HazardInv, LoadedInv, BoxesHaveASource, RingsOf, old
      <4>2. CASE old = <<>>
        <5>1. k = 0 /\ Len(merged) # 0
          BY <2>3, <4>2, EmptySeq DEF k
        <5>2. 1 \in DOMAIN rings
          BY <1>2, <2>3, <5>1 DEF n
        <5>3. rings[1] \in Range(loading.file.rings)
          BY <5>2 DEF Range
        <5> QED
          BY <5>3
      <4> QED
        BY <4>1, <4>2
    <3> QED
      BY <3>1, <3>2, <3>3 DEF LoadedInv
  <2> QED
    BY <1>4, <2>4, <2>5, <2>6 DEF HazardInv
<1> QED
  BY <1>1, <1>5, <1>6

LEMMA HazardInvStep == HazardInv /\ [HazardNext]_hazardVars => HazardInv'
<1>1. ASSUME HazardInv, UNCHANGED hazardVars PROVE HazardInv'
  <2>1. HazardTyped' /\ CoverageInv'
    BY <1>1 DEF hazardVars, HazardInv, HazardTyped, CoverageInv, LoadingInv
  <2>2. ASSUME NEW t \in HazardTypes PROVE LoadedInv(t)'
    BY <1>1, <2>2 DEF hazardVars, HazardInv, LoadedInv, StoreInv, BeingLoaded, ShapesRead,
                      RingsInv, KeptShape, BoxesHaveASource, RingsOf
  <2> QED
    BY <2>1, <2>2 DEF HazardInv
<1> QED
  BY <1>1, OpeningKeeps, LoadingWholeKeeps, ReadingKeeps, LoadingAFileKeeps, GivingUpKeeps
     DEF HazardNext

\* Both ends of finitely many numbers are among them.
LEMMA EndsAreThere ==
    ASSUME NEW S \in SUBSET Int, IsFiniteSet(S), S # {}
    PROVE  /\ Min(S) \in S /\ \A x \in S : Min(S) <= x
           /\ Max(S) \in S /\ \A x \in S : x <= Max(S)
<1>1. \E x \in S : \A y \in S : x <= y
  <2> DEFINE R == {e \in S \X S : e[1] > e[2]}
  <2>1. \A x, y \in S : <<x, y>> \in R <=> x > y
    OBVIOUS
  <2> HIDE DEF R
  <2>2. \A x \in S : <<x, x>> \notin R
    BY <2>1
  <2>3. \A x, y, z \in S : <<x, y>> \in R /\ <<y, z>> \in R => <<x, z>> \in R
    BY <2>1
  <2>4. PICK x \in S : \A y \in S : <<x, y>> \notin R
    BY <2>2, <2>3, OneIsOnTop
  <2>5. \A y \in S : x \in Int /\ y \in Int /\ ~(x > y)
    BY <2>1, <2>4
  <2>6. \A y \in S : x <= y
    BY <2>5
  <2> QED
    BY <2>6
<1>2. \E x \in S : \A y \in S : x >= y
  <2> DEFINE R == {e \in S \X S : e[1] < e[2]}
  <2>1. \A x, y \in S : <<x, y>> \in R <=> x < y
    OBVIOUS
  <2> HIDE DEF R
  <2>2. \A x \in S : <<x, x>> \notin R
    BY <2>1
  <2>3. \A x, y, z \in S : <<x, y>> \in R /\ <<y, z>> \in R => <<x, z>> \in R
    BY <2>1
  <2>4. PICK x \in S : \A y \in S : <<x, y>> \notin R
    BY <2>2, <2>3, OneIsOnTop
  <2>5. \A y \in S : x \in Int /\ y \in Int /\ ~(x < y)
    BY <2>1, <2>4
  <2>6. \A y \in S : x >= y
    BY <2>5
  <2> QED
    BY <2>6
<1>3. Min(S) \in S /\ \A x \in S : Min(S) <= x
  BY <1>1 DEF Min
<1>4. Max(S) \in S /\ \A x \in S : Max(S) >= x
  BY <1>2 DEF Max
<1> QED
  BY <1>3, <1>4

\* A place within a ring of a loaded file is within a box that is kept.
LEMMA BoxOfARing ==
    ASSUME HazardInv, NEW t \in HazardTypes, NEW r \in RingsOf(t)
    PROVE  /\ r.inside \subseteq Places /\ \A p \in r.inside : InBox(p, r.box)
           /\ r.box[1] \in Int /\ r.box[2] \in Int
           /\ \E i \in DOMAIN polygons[t] :
                 /\ polygons[t][i].box = r.box
                 /\ (t \in StoredTypes /\ stores[t].broken) \/ KeptShape(t, i) = r.inside
<1>1. PICK f \in sources : f.type = t /\ r \in Range(f.rings)
  BY DEF RingsOf
<1>2. RingsInv(t)
  BY DEF HazardInv, LoadedInv
<1> QED
  BY <1>1, <1>2 DEF RingsInv, Boxed

LEMMA CoveredIsHit ==
    ASSUME HazardInv, NEW t \in HazardTypes, NEW r \in RingsOf(t), NEW p \in r.inside
    PROVE  Hits(t, p) # {}
<1>1. /\ p \in Int /\ FloodBuffer \in Nat /\ InBox(p, r.box)
      /\ r.box[1] \in Int /\ r.box[2] \in Int
  BY BoxOfARing, PlacesAssumption
<1>2. PICK i \in DOMAIN polygons[t] :
          /\ polygons[t][i].box = r.box
          /\ (t \in StoredTypes /\ stores[t].broken) \/ KeptShape(t, i) = r.inside
  BY BoxOfARing
<1>3. InBox(p, Wider(r.box, FloodBuffer))
  BY <1>1 DEF InBox, Wider
<1>4. t \notin StoredTypes => p \in polygons[t][i].shape
  BY <1>2 DEF KeptShape
<1> QED
  BY <1>1, <1>2, <1>3, <1>4 DEF Hits

LEMMA CellsAreInOrder ==
    ASSUME NEW p \in Int, NEW q \in Int, p <= q
    PROVE  CellOf(p) \in Int /\ CellOf(q) \in Int /\ CellOf(p) <= CellOf(q)
  BY PlacesAssumption DEF CellOf

LEMMA NothingRecordedIsTrue == HazardInv => NoRecordIsTrue
<1> SUFFICES ASSUME HazardInv, NEW p \in Places, AggregateAt(p) = "NO_HAZARD_RECORD"
             PROVE  /\ \A t \in HazardTypes : RingsOf(t) # {} /\ \A r \in RingsOf(t) : p \notin r.inside
                    /\ \A r \in Wanted : \E f \in sources : f.type = "tsunami" /\ f.region = r
                    /\ \A region \in UnwantedRegions :
                          \A i \in DOMAIN Registered[region] : p \notin Registered[region][i].inside
  BY DEF NoRecordIsTrue
<1> DEFINE assessment == AssessCandidate(p)
<1>1. ASSUME NEW t \in HazardTypes PROVE t \in DOMAIN assessment /\ assessment[t] = "outside"
  <2>1. CoverageStatus(assessment)[t] \in Range(CoverageStatus(assessment))
    BY DEF Range, CoverageStatus
  <2>2. CoverageStatus(assessment)[t] # "HAZARD_DETECTED" /\ CoverageStatus(assessment)[t] # "SOURCE_UNAVAILABLE"
    BY <2>1 DEF AggregateAt
  <2> HIDE DEF assessment
  <2> QED
    BY <2>2 DEF CoverageStatus
<1>2. MissingTargets = {}
  BY <1>1 DEF AssessCandidate, HazardTypes
<1>3. ASSUME NEW t \in HazardTypes PROVE IsLoaded(t) /\ Hits(t, p) = {}
  BY <1>1, <1>2 DEF AssessCandidate, StatusAt, LoadedTypes
<1>4. ~NotEvaluatedAt(p)
  BY <1>1, <1>2, <1>3 DEF AssessCandidate, StatusAt, HazardTypes
<1>5. ASSUME NEW t \in HazardTypes PROVE RingsOf(t) # {} /\ \A r \in RingsOf(t) : p \notin r.inside
  <2>1. RingsOf(t) # {}
    BY <1>3 DEF IsLoaded, HazardInv, LoadedInv, BoxesHaveASource
  <2> QED
    BY <1>3, <2>1, CoveredIsHit
<1>6. \A r \in Wanted : \E f \in sources : f.type = "tsunami" /\ f.region = r
  BY <1>2 DEF MissingTargets
<1>7. ASSUME NEW region \in UnwantedRegions, NEW i \in DOMAIN Registered[region],
             p \in Registered[region][i].inside
      PROVE  FALSE
  <2> DEFINE ring == Registered[region][i]
             from == ring.box[1]
             to == ring.box[2]
  <2>1. Boxed(ring)
    BY <1>7, RuntimesAssumption
  <2>2. p \in Int /\ from \in Int /\ to \in Int /\ from <= p /\ p <= to
    BY <1>7, <2>1, PlacesAssumption DEF Boxed, InBox
  <2>3. coverage[region] = Index(Registered[region]) /\ CellOf(p) \notin coverage[region]
    BY <1>4 DEF NotEvaluatedAt, HazardInv, CoverageInv
  <2> HIDE DEF from, to
  <2>4. CellOf(p) \in CellOf(from) - 1 .. CellOf(to) + 1
    BY <2>2, CellsAreInOrder
  <2> QED
    BY <2>3, <2>4 DEF Index, from, to
<1> QED
  BY <1>5, <1>6, <1>7

LEMMA SafeAreaIsOutside == HazardInv => SafeAreaAvoidsLoaded
<1> SUFFICES ASSUME HazardInv, NEW p \in Places, AreaStatus(p) = "computed",
                    NEW t \in HazardTypes, NEW r \in RingsOf(t),
                    NEW q \in Reachable(p), q \in r.inside
             PROVE  q \in UNION {ShapeOf(s[1], s[2]) :
                                    s \in RingsNearby(Min(Reachable(p)), Max(Reachable(p)))}
  BY DEF SafeAreaAvoidsLoaded, SafeArea
<1> DEFINE reach == Reachable(p)
           from == Min(reach)
           to == Max(reach)
<1>1. RingsAvailable(from, to)
  BY DEF AreaStatus
<1>2. from \in Int /\ to \in Int /\ q \in Int /\ from <= q /\ q <= to
  <2>1. reach \in SUBSET Int /\ reach \subseteq Places /\ q \in reach
    BY PlacesAssumption DEF Reachable
  <2>2. IsFiniteSet(reach)
    BY <2>1, PlacesAssumption, FS_Subset
  <2> HIDE DEF reach
  <2> QED
    BY <2>1, <2>2, EndsAreThere
<1> HIDE DEF from, to
<1>3. PICK i \in DOMAIN polygons[t] :
          /\ polygons[t][i].box = r.box
          /\ (t \in StoredTypes /\ stores[t].broken) \/ KeptShape(t, i) = r.inside
  BY BoxOfARing
<1>4. Overlaps(r.box, from, to)
  <2>1. InBox(q, r.box) /\ r.box[1] \in Int /\ r.box[2] \in Int
    BY BoxOfARing
  <2> QED
    BY <1>2, <2>1 DEF InBox, Overlaps
<1>5. t \in LoadedTypes
  <2>1. polygons[t] \in Seq(Polygons)
    BY DEF HazardInv, HazardTyped
  <2>2. polygons[t] # <<>>
    BY <1>3
  <2> QED
    BY <2>2 DEF LoadedTypes, IsLoaded
<1>6. <<t, i>> \in RingsNearby(from, to)
  BY <1>3, <1>4, <1>5 DEF RingsNearby, Nearby
<1>7. ShapeThere(t, i)
  BY <1>1, <1>6 DEF RingsAvailable
<1>8. ShapeOf(t, i) = r.inside
  <2>1. CASE t \notin StoredTypes
    BY <1>3, <2>1 DEF ShapeOf, KeptShape, StoredTypes, ArrayTypes
  <2>2. CASE t \in StoredTypes
    <3>1. ~stores[t].broken
      BY <1>7, <2>2 DEF ShapeThere
    <3>2. polygons[t][i].shape = i
      BY <1>3, <2>2, <3>1 DEF HazardInv, LoadedInv, StoreInv
    <3> QED
      BY <1>3, <2>2, <3>1, <3>2 DEF ShapeOf, KeptShape
  <2> QED
    BY <2>1, <2>2
<1>9. ShapeOf(t, i) \in {ShapeOf(s[1], s[2]) : s \in RingsNearby(from, to)}
  BY <1>6
<1> QED
  BY <1>8, <1>9 DEF from, to

\* Whatever was taken back and whichever write failed while the files were loaded (app_public.py,
\* hazard_service.py), a place is said to have no record only where the data of every type is
\* there and none of it covers the place, and the safe area touches no polygon of a loaded file.
THEOREM NothingCoveredIsEverCleared == HazardSpec => []NothingCoveredIsCleared
<1>1. HazardInv => NothingCoveredIsCleared
  BY NothingRecordedIsTrue, SafeAreaIsOutside DEF NothingCoveredIsCleared
<1> QED
  BY <1>1, HazardInvInit, HazardInvStep, PTL DEF HazardSpec

-----------------------------------------------------------------------------
(* The places to go to *)

TierNames == {"NO_HAZARD_RECORD", "SOURCE_UNAVAILABLE", "HAZARD_DETECTED"}

LEMMA RanksOfTiers ==
    /\ TierRank("NO_HAZARD_RECORD") = 1 /\ TierRank("SOURCE_UNAVAILABLE") = 2
    /\ TierRank("HAZARD_DETECTED") = 3
<1>1. /\ DOMAIN Tiers = 1 .. 3 /\ Tiers[1] = "NO_HAZARD_RECORD"
      /\ Tiers[2] = "SOURCE_UNAVAILABLE" /\ Tiers[3] = "HAZARD_DETECTED"
  BY DEF Tiers
<1> QED
  BY <1>1 DEF TierRank

LEMMA VerdictIsATier == \A p : AggregateAt(p) \in TierNames
  BY DEF AggregateAt, TierNames

\* Candidates that the sort can put in an order.
Sortable(candidates) ==
    /\ IsFiniteSet(candidates)
    /\ \A c \in candidates : c.id \in Int /\ c.score \in Int /\ c.tier \in TierNames
    /\ \A c, d \in candidates : c.id = d.id => c = d

LEMMA SomeAreSortable ==
    ASSUME NEW C, Sortable(C), NEW D \in SUBSET C
    PROVE  Sortable(D)
  BY FS_Subset DEF Sortable

LEMMA BestIsRecommended ==
    ASSUME NEW C, Sortable(C), C # {}
    PROVE  /\ Recommended(C) \in C
           /\ \A c \in C : TierRank(Recommended(C).tier) <= TierRank(c.tier)
<1> DEFINE Better(c, d) == \/ TierRank(c.tier) < TierRank(d.tier)
                           \/ c.tier = d.tier /\ Before(c, d)
           R == {e \in C \X C : Better(e[2], e[1])}
<1>1. \A c \in C : TierRank(c.tier) \in 1 .. 3
  BY RanksOfTiers DEF Sortable, TierNames
<1>2. \A c, d \in C : TierRank(c.tier) = TierRank(d.tier) => c.tier = d.tier
  BY RanksOfTiers DEF Sortable, TierNames
<1>3. \A c \in C : c.id \in Int /\ c.score \in Int
  BY DEF Sortable
<1>4. \A c, d \in C : <<c, d>> \in R <=> Better(d, c)
  <2> HIDE DEF Better
  <2> QED
    OBVIOUS
<1> HIDE DEF R
<1>5. \A c \in C : <<c, c>> \notin R
  BY <1>1, <1>3, <1>4 DEF Before
<1>6. \A c, d, e \in C : <<c, d>> \in R /\ <<d, e>> \in R => <<c, e>> \in R
  <2> SUFFICES ASSUME NEW c \in C, NEW d \in C, NEW e \in C, Better(d, c), Better(e, d)
               PROVE  Better(e, c)
    <3> HIDE DEF Better
    <3> QED
      BY <1>4
  <2>1. CASE c.tier = d.tier /\ d.tier = e.tier
    BY <1>1, <1>3, <2>1 DEF Before
  <2>2. CASE ~(c.tier = d.tier /\ d.tier = e.tier)
    BY <1>1, <2>2
  <2> QED
    BY <2>1, <2>2
<1>7. PICK best \in C : \A c \in C : ~Better(c, best)
  <2>1. \E best \in C : \A c \in C : <<best, c>> \notin R
    BY <1>5, <1>6, OneIsOnTop DEF Sortable
  <2> HIDE DEF Better
  <2> QED
    BY <1>4, <2>1
<1>8. ASSUME NEW c \in C
      PROVE  \/ TierRank(best.tier) < TierRank(c.tier)
             \/ best.tier = c.tier /\ (best = c \/ Before(best, c))
  <2>1. CASE TierRank(best.tier) = TierRank(c.tier)
    <3>1. best.tier = c.tier /\ ~Before(c, best)
      BY <1>2, <1>7, <2>1
    <3>2. best.id = c.id => best = c
      BY DEF Sortable
    <3> QED
      BY <1>3, <3>1, <3>2 DEF Before
  <2>2. CASE TierRank(best.tier) # TierRank(c.tier)
    BY <1>1, <1>7, <2>2
  <2> QED
    BY <2>1, <2>2
<1>9. \E b \in C : \A c \in C : \/ TierRank(b.tier) < TierRank(c.tier)
                                \/ b.tier = c.tier /\ (b = c \/ Before(b, c))
  BY <1>8
<1>10. /\ Recommended(C) \in C
       /\ \A c \in C : \/ TierRank(Recommended(C).tier) < TierRank(c.tier)
                       \/ Recommended(C).tier = c.tier
  BY <1>9 DEF Recommended
<1> QED
  BY <1>1, <1>10

LEMMA ScoresAreNumbers ==
    ASSUME NEW request, request.at \in Places, Answered(request),
           NEW p \in Places, InReach(request, p)
    PROVE  CandidateScore(request, p) \in Int
<1> DEFINE gain == Elevation[p] - Elevation[request.at]
           distance == Distance(request.at, p)
           penalty == [NO_HAZARD_RECORD |-> 0, HAZARD_DETECTED |-> 30000, SOURCE_UNAVAILABLE |-> 6000]
           fine == penalty[AggregateAt(p)]
           severity == SeverityPenalty(p)
           bonus == MarginBonus(request, distance)
<1>1. gain \in Int
  BY EvacuationAssumption DEF InReach, Answered
<1>2. distance \in Int
  <2>1. request.at \in Int /\ p \in Int /\ Metres \in Nat
    BY PlacesAssumption, EvacuationAssumption
  <2>2. Abs(request.at - p) \in Int
    BY <2>1 DEF Abs
  <2> QED
    BY <2>1, <2>2 DEF Distance
<1>3. fine \in Int
  BY VerdictIsATier DEF TierNames
<1>4. severity \in Int
  BY DEF SeverityPenalty
<1>5. bonus \in Int
  BY DEF MarginBonus
<1>6. CandidateScore(request, p) =
          Lesser(500 * gain, 15000) + (15000 - Lesser(3 * distance, 15000)) - fine - severity + bonus
  BY DEF CandidateScore
<1> HIDE DEF gain, distance, fine, severity, bonus
<1> QED
  BY <1>1, <1>2, <1>3, <1>4, <1>5, <1>6 DEF Lesser

LEMMA SheltersAreSortable ==
    ASSUME NEW request, request.at \in Places, Answered(request), NEW shelters \in Shelters
    PROVE  Sortable(ShelterCandidates(request, shelters))
<1> DEFINE reached == {j \in DOMAIN shelters : InReach(request, shelters[j].at)}
           candidate(i) == Candidate(i, shelters[i].at, ShelterScore(request, shelters[i]))
           C == {candidate(i) : i \in reached}
<1>1. /\ DOMAIN shelters = 1 .. Len(shelters) /\ Len(shelters) \in Nat
      /\ \A i \in DOMAIN shelters : shelters[i].at \in Places
  <2>1. shelters \in Seq(Range(shelters)) /\ \A s \in Range(shelters) : s.at \in Places
    BY EvacuationAssumption
  <2>2. \A i \in DOMAIN shelters : shelters[i] \in Range(shelters)
    BY DEF Range
  <2> QED
    BY <2>1, <2>2
<1>2. IsFiniteSet(reached)
  <2>1. IsFiniteSet(1 .. Len(shelters))
    BY <1>1, FS_Interval
  <2> QED
    BY <1>1, <2>1, FS_Subset
<1>3. ASSUME NEW i \in reached
      PROVE  /\ candidate(i).id = i /\ candidate(i).id \in Int
             /\ candidate(i).score \in Int /\ candidate(i).tier \in TierNames
  <2>1. CandidateScore(request, shelters[i].at) \in Int
    BY <1>1, ScoresAreNumbers
  <2>2. ShelterScore(request, shelters[i]) \in Int
    BY <2>1 DEF ShelterScore
  <2> QED
    BY <1>1, <2>2, VerdictIsATier DEF Candidate
<1> HIDE DEF candidate
<1>4. IsFiniteSet(C)
  <2> DEFINE f == [i \in reached |-> candidate(i)]
  <2>1. f \in Surjection(reached, C)
    BY DEF Surjection
  <2> HIDE DEF f, reached, C
  <2> QED
    BY <1>2, <2>1, FS_Surjection
<1>5. Sortable(C)
  <2> HIDE DEF reached
  <2> QED
    BY <1>3, <1>4 DEF Sortable
<1> QED
  BY <1>5 DEF ShelterCandidates, candidate

LEMMA GridIsSortable ==
    ASSUME NEW request, request.at \in Places, Answered(request), NEW exclude
    PROVE  Sortable(SearchGrid(request, exclude))
<1> DEFINE candidate(p) == Candidate(p, p, CandidateScore(request, p))
           grid == GridPlaces(request)
           C == {candidate(p) : p \in grid}
<1>1. grid \subseteq {q \in Places : InReach(request, q)}
  <2> DEFINE point(p) == [id |-> p, at |-> p, score |-> GridScore(request, p)]
             points == {point(p) : p \in {q \in Places : InReach(request, q)}}
  <2>1. \A c \in points : c.at \in {q \in Places : InReach(request, q)}
    OBVIOUS
  <2>2. grid = {c.at : c \in FirstOf(MaxGrid, points)}
    BY DEF GridPlaces
  <2> HIDE DEF points, grid
  <2>3. FirstOf(MaxGrid, points) \subseteq points
    BY DEF FirstOf
  <2> QED
    BY <2>1, <2>2, <2>3
<1> HIDE DEF grid
<1>2. IsFiniteSet(grid)
  BY <1>1, PlacesAssumption, FS_Subset
<1>3. ASSUME NEW p \in grid
      PROVE  /\ candidate(p).id = p /\ candidate(p).id \in Int
             /\ candidate(p).score \in Int /\ candidate(p).tier \in TierNames
  BY <1>1, ScoresAreNumbers, PlacesAssumption, VerdictIsATier DEF Candidate
<1> HIDE DEF candidate
<1>4. IsFiniteSet(C)
  <2> DEFINE f == [p \in grid |-> candidate(p)]
  <2>1. f \in Surjection(grid, C)
    BY DEF Surjection
  <2> HIDE DEF f, C
  <2> QED
    BY <1>2, <2>1, FS_Surjection
<1>5. Sortable(C)
  BY <1>3, <1>4 DEF Sortable
<1>6. SearchGrid(request, exclude) = WithoutUnsafe(C, exclude)
  BY DEF SearchGrid, candidate, grid
<1> HIDE DEF C
<1>7. WithoutUnsafe(C, exclude) \in SUBSET C
  BY DEF WithoutUnsafe
<1> QED
  BY <1>5, <1>6, <1>7, SomeAreSortable

\* Who is not among the first n has n before him.
LEMMA NotAmongTheFirst ==
    ASSUME NEW C, Sortable(C), NEW exclude \in BOOLEAN, NEW c \in C,
           c.tier # "HAZARD_DETECTED", c \notin FirstOf(MaxListed, WithoutUnsafe(C, exclude))
    PROVE  Cardinality({d \in C : Before(d, c)}) >= MaxListed
<1> DEFINE W == WithoutUnsafe(C, exclude)
           ahead == {d \in W : Before(d, c)}
           all == {d \in C : Before(d, c)}
<1>1. W \subseteq C /\ c \in W
  BY DEF WithoutUnsafe
<1>2. ~(Cardinality(ahead) < MaxListed)
  BY <1>1 DEF FirstOf
<1>3. IsFiniteSet(all) /\ ahead \in SUBSET all
  BY <1>1, FS_Subset DEF Sortable
<1> HIDE DEF ahead, all
<1>4. /\ IsFiniteSet(ahead) /\ Cardinality(ahead) <= Cardinality(all)
      /\ Cardinality(all) \in Nat
  BY <1>3, FS_Subset, FS_CardinalityType
<1>5. Cardinality(ahead) \in Nat
  BY <1>4, FS_CardinalityType
<1>6. Cardinality(all) >= MaxListed
  BY <1>2, <1>4, <1>5, EvacuationAssumption
<1> QED
  BY <1>6 DEF all

LEMMA OnlyLengthHides == SaferOnesAreHiddenByLengthOnly
<1> SUFFICES ASSUME NEW request \in SearchRequests, NEW shelters \in Shelters, NEW exclude \in BOOLEAN,
                    EvacuationAnswer(request, shelters, exclude).status = 200,
                    EvacuationAnswer(request, shelters, exclude).found.destinations # {}
             PROVE  LET found == EvacuationAnswer(request, shelters, exclude).found
                        inReach == ShelterCandidates(request, shelters)
                    IN  /\ found.recommended.tier # "NO_HAZARD_RECORD" => found.clear = 0
                        /\ shelters # <<>> =>
                             \A c \in inReach :
                               TierRank(c.tier) < TierRank(found.recommended.tier) =>
                                 Cardinality({d \in inReach : Before(d, c)}) >= MaxListed
  BY DEF SaferOnesAreHiddenByLengthOnly
<1> DEFINE listed == Listed(request, shelters, exclude)
           found == EvacuationAnswer(request, shelters, exclude).found
           best == Recommended(listed)
           inReach == ShelterCandidates(request, shelters)
<1>1. request.at \in Places /\ Answered(request)
  BY EvacuationAssumption DEF EvacuationAnswer
<1>2. found = IF listed = {} THEN NothingFound ELSE Destinations(listed)
  BY <1>1 DEF EvacuationAnswer
<1>3. listed # {}
  BY <1>2 DEF NothingFound
<1>4. /\ found.recommended = best
      /\ found.clear = Cardinality({c \in listed : c.tier = "NO_HAZARD_RECORD"})
  BY <1>2, <1>3 DEF Destinations
<1>5. Sortable(inReach)
  BY <1>1, SheltersAreSortable
<1>6. shelters # <<>> => listed = FirstOf(MaxListed, WithoutUnsafe(inReach, exclude))
  BY DEF Listed, SearchShelters
<1>7. Sortable(listed)
  <2>1. CASE shelters # <<>>
    <3>1. listed \in SUBSET inReach
      <4> HIDE DEF listed, inReach
      <4>1. WithoutUnsafe(inReach, exclude) \subseteq inReach
        BY DEF WithoutUnsafe
      <4>2. FirstOf(MaxListed, WithoutUnsafe(inReach, exclude)) \subseteq WithoutUnsafe(inReach, exclude)
        BY DEF FirstOf
      <4> QED
        BY <1>6, <2>1, <4>1, <4>2
    <3> QED
      BY <1>5, <3>1, SomeAreSortable
  <2>2. CASE shelters = <<>>
    BY <1>1, <2>2, GridIsSortable DEF Listed
  <2> QED
    BY <2>1, <2>2
<1> HIDE DEF listed, inReach
<1>8. best \in listed /\ \A c \in listed : TierRank(best.tier) <= TierRank(c.tier)
  BY <1>3, <1>7, BestIsRecommended
<1>9. \A c \in listed \cup inReach : c.tier \in TierNames
  BY <1>5, <1>7 DEF Sortable
<1> HIDE DEF best, found
<1>10. ASSUME best.tier # "NO_HAZARD_RECORD" PROVE found.clear = 0
  <2>1. TierRank(best.tier) > 1
    BY <1>8, <1>9, <1>10, RanksOfTiers DEF TierNames
  <2>2. {c \in listed : c.tier = "NO_HAZARD_RECORD"} = {}
    BY <1>8, <1>9, <2>1, RanksOfTiers DEF TierNames
  <2> QED
    BY <1>4, <2>2, FS_EmptySet
<1>11. ASSUME shelters # <<>>, NEW c \in inReach, TierRank(c.tier) < TierRank(best.tier)
       PROVE  Cardinality({d \in inReach : Before(d, c)}) >= MaxListed
  <2>1. c \notin listed
    BY <1>8, <1>9, <1>11, RanksOfTiers DEF TierNames
  <2>2. c.tier # "HAZARD_DETECTED"
    BY <1>8, <1>9, <1>11, RanksOfTiers DEF TierNames
  <2> QED
    BY <1>5, <1>6, <1>11, <2>1, <2>2, NotAmongTheFirst
<1> QED
  BY <1>4, <1>10, <1>11 DEF found, inReach

\* A safer shelter in reach is hidden by the length of the list only, and a place with a record
\* is never recommended beside one without (tti_service.py, app_public.py), for any places,
\* shelters, requests, scores and lengths of the list.
THEOREM SaferOnesAreHiddenByTheListOnly == HazardSpec => []SaferOnesAreHiddenByLengthOnly
  BY OnlyLengthHides, PTL
=============================================================================

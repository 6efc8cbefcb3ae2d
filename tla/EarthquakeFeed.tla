--------------------------- MODULE EarthquakeFeed ---------------------------
(***************************************************************************)
(* The real-time earthquake feed of the public server: the websocket       *)
(* client of the source (earthquake_source_p2p_ws.py), the deduplication   *)
(* (earthquake_realtime_service.py), the bus (earthquake_event_bus.py) and *)
(* the server-sent events of each browser (api/earthquakes_stream.py).     *)
(*                                                                         *)
(* Everything runs on one event loop: a step ends where the code awaits.   *)
(* The last hundred events of the bus are left out, only tests read them;  *)
(* so are the keep-alive pings of a stream that has nothing to say.        *)
(***************************************************************************)
EXTENDS Naturals, Sequences, FiniteSets, SequencesExt

CONSTANTS
    Messages,       \* what the source may send: [code, id, quake]
    Clients,        \* browsers
    None,           \* no id, no time
    SeenMax,        \* _MAX_SEEN
    QueueMax,       \* size of a subscriber's queue
    RetryCap        \* from this retry on the delay no longer grows

EarthquakeCode == 551

ASSUME FeedAssumption ==
    /\ SeenMax \in Nat \ {0}
    /\ QueueMax \in Nat \ {0}
    /\ RetryCap \in Nat \ {0}
    /\ \A m \in Messages : m.code \in Nat

VARIABLES
    enabled,        \* _ws_client is not None
    loop,           \* where _run_loop stands
    state,          \* what get_status() returns
    retry,
    seen,           \* _seen_ids
    subscribed,     \* the clients whose queue is on the bus
    queue,
    client,         \* where _sse_generator stands
    shown,          \* the state of the connection that a browser shows
    overflowed      \* history: clients one of whose events was dropped

feedVars == <<enabled, loop, state, retry, seen, subscribed, queue, client, shown, overflowed>>
loopVars == <<enabled, loop, state, retry>>
clientVars == <<client, shown>>

FeedInit ==
    /\ enabled = FALSE
    /\ loop = "off"
    /\ state = "disconnected"
    /\ retry = 0
    /\ seen = <<>>
    /\ subscribed = {}
    /\ queue = [c \in Clients |-> <<>>]
    /\ client = [c \in Clients |-> "away"]
    /\ shown = [c \in Clients |-> None]
    /\ overflowed = {}

-----------------------------------------------------------------------------
(* The bus and the deduplication *)

StatusEvent(s, delay) == [kind |-> "status", value |-> s, delay |-> delay]

\* A queue that is full drops the new event.
Publish(event) ==
    LET full == {c \in subscribed : Len(queue[c]) >= QueueMax} IN
    /\ queue' = [c \in Clients |-> IF c \in subscribed \ full
                                   THEN Append(queue[c], event) ELSE queue[c]]
    /\ overflowed' = overflowed \cup full

\* The event id: that of the source, else a fingerprint of time, place,
\* magnitude and intensity.  An event without a time that can be read is dropped.
EventId(m) == IF m.id # None THEN <<"id", m.id>> ELSE <<"fingerprint", m.quake>>
Normalized(m) == m.code = EarthquakeCode /\ m.quake # None

IsSeen(id) == id \in ToSet(seen)

MarkSeen(id) ==
    seen' = Append(IF Len(seen) >= SeenMax THEN Tail(seen) ELSE seen, id)

-----------------------------------------------------------------------------
(* P2PWebSocketClient *)

StartFeed ==
    /\ ~enabled
    /\ enabled' = TRUE
    /\ loop' = "scheduled"
    /\ retry' = 0                      \* a new client object
    /\ UNCHANGED <<state, seen, subscribed, queue, clientVars, overflowed>>

\* The loop announces the attempt, then awaits the connection.
Attempt ==
    LET s == IF retry = 0 THEN "connecting" ELSE "reconnecting" IN
    /\ loop \in {"scheduled", "sleeping"}
    /\ loop' = "connecting"
    /\ state' = s
    /\ Publish(StatusEvent(s, 0))
    /\ UNCHANGED <<enabled, retry, seen, subscribed, clientVars>>

\* ConnectedSilently sets the state and does not announce it.
ConnectedSilently ==
    /\ loop = "connecting"
    /\ loop' = "receiving"
    /\ retry' = 0
    /\ state' = "connected"
    /\ UNCHANGED <<enabled, seen, subscribed, queue, overflowed, clientVars>>

Connected ==
    /\ loop = "connecting"
    /\ loop' = "receiving"
    /\ retry' = 0
    /\ state' = "connected"
    /\ Publish(StatusEvent("connected", 0))
    /\ UNCHANGED <<enabled, seen, subscribed, clientVars>>

BackoffDelay(r) == IF r >= 5 THEN 60 ELSE 5 * 2 ^ (r - 1)

\* No connection, or the end of one, whoever closed it.
ConnectionEnds ==
    LET r == IF retry = RetryCap THEN RetryCap ELSE retry + 1 IN
    /\ loop \in {"connecting", "receiving"}
    /\ loop' = "sleeping"
    /\ retry' = r
    /\ state' = "reconnecting"
    /\ Publish(StatusEvent("reconnecting", BackoffDelay(r)))
    /\ UNCHANGED <<enabled, seen, subscribed, clientVars>>

\* _handle_message() and _on_event(): marked as seen before it is published.
Receive(m) ==
    /\ loop = "receiving"
    /\ IF ~Normalized(m) \/ IsSeen(EventId(m))
       THEN UNCHANGED <<seen, queue, overflowed>>
       ELSE /\ MarkSeen(EventId(m))
            /\ Publish([kind |-> "earthquake", value |-> EventId(m), delay |-> 0])
    /\ UNCHANGED <<loopVars, subscribed, clientVars>>

\* Shutdown; nobody is told.
StopFeed ==
    /\ enabled
    /\ enabled' = FALSE
    /\ loop' = "off"
    /\ state' = "disconnected"
    /\ retry' = 0
    /\ UNCHANGED <<seen, subscribed, queue, clientVars, overflowed>>

-----------------------------------------------------------------------------
(* earthquake_stream() and _sse_generator() *)

\* The queue is on the bus before the generator runs: nothing that happens
\* before the first status is missed.
Subscribe(c) ==
    /\ client[c] = "away"
    /\ subscribed' = subscribed \cup {c}
    /\ client' = [client EXCEPT ![c] = "opened"]
    /\ UNCHANGED <<loopVars, seen, queue, shown, overflowed>>

Greet(c) ==
    /\ client[c] = "opened"
    /\ client' = [client EXCEPT ![c] = "streaming"]
    /\ shown' = [shown EXCEPT ![c] = state]
    /\ UNCHANGED <<loopVars, seen, subscribed, queue, overflowed>>

Deliver(c) ==
    /\ client[c] = "streaming"
    /\ queue[c] # <<>>
    /\ queue' = [queue EXCEPT ![c] = Tail(@)]
    /\ shown' = IF Head(queue[c]).kind = "status"
                THEN [shown EXCEPT ![c] = Head(queue[c]).value] ELSE shown
    /\ UNCHANGED <<loopVars, seen, subscribed, client, overflowed>>

\* The browser goes.  Only inside the loop of the generator is there a finally
\* that takes the queue off the bus; before it, the queue stays there for ever.
Leave(c) ==
    /\ client[c] \in {"opened", "streaming"}
    /\ client' = [client EXCEPT ![c] = "gone"]
    /\ subscribed' = IF client[c] = "streaming" THEN subscribed \ {c} ELSE subscribed
    /\ shown' = [shown EXCEPT ![c] = None]
    /\ UNCHANGED <<loopVars, seen, queue, overflowed>>

-----------------------------------------------------------------------------
FeedNext ==
    \/ StartFeed \/ Attempt \/ Connected \/ ConnectionEnds \/ StopFeed
    \/ \E m \in Messages : Receive(m)
    \/ \E c \in Clients : Subscribe(c) \/ Greet(c) \/ Deliver(c) \/ Leave(c)

FeedSpec == FeedInit /\ [][FeedNext]_feedVars

-----------------------------------------------------------------------------
(* Properties *)

\* A browser that has read everything sent to it, and whose queue never
\* overflowed, shows the state in which the connection to the source really is,
\* at whatever moment of a reconnection it opened its stream (until the server
\* shuts down, which it does not announce).
ShownIsTrue ==
    \A c \in Clients :
        client[c] = "streaming" /\ queue[c] = <<>> /\ c \notin overflowed
            /\ loop \notin {"off", "scheduled"}
        => shown[c] = state
=============================================================================

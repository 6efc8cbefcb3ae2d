----------------------------- MODULE ConfigState -----------------------------
(***************************************************************************)
(* The settings that the admin pages edit: config_state_service.py,        *)
(* api/admin_config.py and config_change_notifier.py.                      *)
(*                                                                         *)
(* A handler runs without an await, so updates do not interleave; but the  *)
(* process may be killed between its two files, or inside the writing of   *)
(* one (both are written in place), so the writing is two steps each.      *)
(* Numbers are in halves: 5 stands for 2.5.                                *)
(***************************************************************************)
EXTENDS Naturals, Sequences, FiniteSets, SequencesExt

CONSTANTS
    Keys,           \* settings
    Definition,     \* of each: [type, editable, bounded, lo, hi, options, default]
    Inputs,         \* raw values of requests: [kind, val]
    MaxHistory,     \* _MAX_HISTORY
    StreamMax,      \* size of a listener's queue
    Pages,          \* admin pages that listen
    MaxUpdates,     \* bound on the updates
    Invalid,
    NaN             \* the float that compares with nothing

ASSUME ConfigAssumption == MaxHistory \in Nat \ {0}

VARIABLES
    overrides,      \* config_overrides.json: <<"ok", value of each key>> or <<"torn">>
    history,        \* config_history.json: <<"ok", entries>> or <<"torn">>
    request,        \* the update under way
    pages,          \* pages whose stream is open
    inbox,          \* their queues
    interrupted,    \* history: an update was cut off
    updates

configVars == <<overrides, history, request, pages, inbox, interrupted, updates>>

NoRequest == [step |-> "none"]
Unset == <<"unset">>

ConfigInit ==
    /\ overrides = <<"ok", [k \in Keys |-> Unset]>>
    /\ history = <<"ok", <<>>>>
    /\ request = NoRequest
    /\ pages = {}
    /\ inbox = [p \in Pages |-> <<>>]
    /\ interrupted = FALSE
    /\ updates = 0

-----------------------------------------------------------------------------
(* validate_value() *)

\* NaN is neither below nor above any bound.
WithinBounds(d, v) == ~d.bounded \/ v = NaN \/ v \in d.lo .. d.hi

IsWhole(v) == v # NaN /\ v % 2 = 0

\* The value that is stored, or Invalid.  A text may hold a number; for an
\* integer a fraction is refused, not rounded.
ValidateValue(k, x) ==
    LET d == Definition[k] IN
    CASE ~d.editable -> Invalid
      [] d.type = "integer" /\ x.kind \in {"number", "numeral"} ->
            IF IsWhole(x.val) /\ WithinBounds(d, x.val) THEN <<"integer", x.val>> ELSE Invalid
      [] d.type = "float" /\ x.kind \in {"number", "numeral"} ->
            IF WithinBounds(d, x.val) THEN <<"float", x.val>> ELSE Invalid
      [] d.type = "boolean" /\ x.kind = "boolean" -> <<"boolean", x.val>>
      [] d.type = "string" /\ x.kind \in {"word", "numeral"} ->
            IF d.options = {} \/ x.val \in d.options THEN <<"string", x.val>> ELSE Invalid
      [] OTHER -> Invalid

ResolveValue(k) ==
    IF overrides[2][k] = Unset THEN Definition[k].default ELSE overrides[2][k]

-----------------------------------------------------------------------------
(* PUT /api/admin/config/<key> *)

\* A value that is refused changes nothing; a torn file is an error.  From here
\* the overrides are open for writing.
UpdateConfig(k, x) ==
    /\ request.step = "none"
    /\ updates < MaxUpdates
    /\ ValidateValue(k, x) # Invalid
    /\ overrides[1] = "ok"
    /\ request' = [step |-> "overrides", key |-> k, old |-> ResolveValue(k),
                   new |-> ValidateValue(k, x),
                   values |-> [overrides[2] EXCEPT ![k] = ValidateValue(k, x)]]
    /\ overrides' = <<"torn">>
    /\ updates' = updates + 1
    /\ UNCHANGED <<history, pages, inbox, interrupted>>

OverridesSaved ==
    /\ request.step = "overrides"
    /\ overrides' = <<"ok", request.values>>
    /\ request' = [request EXCEPT !.step = "history"]
    /\ UNCHANGED <<history, pages, inbox, interrupted, updates>>

Entry(r) == [key |-> r.key, old |-> r.old, new |-> r.new]

\* TrimNewest keeps the wrong end.
TrimNewest(h) == SubSeq(h, 1, IF Len(h) < MaxHistory THEN Len(h) ELSE MaxHistory)

Trim(h) == IF Len(h) > MaxHistory THEN SubSeq(h, Len(h) - MaxHistory + 1, Len(h)) ELSE h

\* The history cannot be read: the override stays, nobody is told.
AppendHistory ==
    /\ request.step = "history"
    /\ IF history[1] = "ok"
       THEN /\ request' = [step |-> "broadcast", key |-> request.key,
                           old |-> request.old, new |-> request.new,
                           values |-> Trim(Append(history[2], Entry(request)))]
            /\ history' = <<"torn">>
            /\ UNCHANGED interrupted
       ELSE /\ request' = NoRequest
            /\ interrupted' = TRUE
            /\ UNCHANGED history
    /\ UNCHANGED <<overrides, pages, inbox, updates>>

\* The history is saved and every page with room in its queue is told.
Broadcast ==
    /\ request.step = "broadcast"
    /\ history' = <<"ok", request.values>>
    /\ inbox' = [p \in Pages |->
                    IF p \in pages /\ Len(inbox[p]) < StreamMax
                    THEN Append(inbox[p], <<request.key, request.new>>) ELSE inbox[p]]
    /\ request' = NoRequest
    /\ UNCHANGED <<overrides, pages, interrupted, updates>>

-----------------------------------------------------------------------------
(* GET /api/admin/config/stream *)

OpenPage(p) ==
    /\ request.step = "none"
    /\ p \notin pages
    /\ pages' = pages \cup {p}
    /\ UNCHANGED <<overrides, history, request, inbox, interrupted, updates>>

SendToPage(p) ==
    /\ request.step = "none"
    /\ p \in pages /\ inbox[p] # <<>>
    /\ inbox' = [inbox EXCEPT ![p] = Tail(@)]
    /\ UNCHANGED <<overrides, history, request, pages, interrupted, updates>>

\* The finally of stream() takes the queue out of the list.
ClosePage(p) ==
    /\ request.step = "none"
    /\ p \in pages
    /\ pages' = pages \ {p}
    /\ inbox' = [inbox EXCEPT ![p] = <<>>]
    /\ UNCHANGED <<overrides, history, request, interrupted, updates>>

\* The process is killed and starts again: the files stay as they are.
RestartConfig ==
    /\ interrupted' = (interrupted \/ request.step # "none")
    /\ request' = NoRequest
    /\ pages' = {}
    /\ inbox' = [p \in Pages |-> <<>>]
    /\ UNCHANGED <<overrides, history, updates>>

-----------------------------------------------------------------------------
ConfigNext ==
    \/ \E k \in Keys, x \in Inputs : UpdateConfig(k, x)
    \/ OverridesSaved \/ AppendHistory \/ Broadcast \/ RestartConfig
    \/ \E p \in Pages : OpenPage(p) \/ SendToPage(p) \/ ClosePage(p)

ConfigSpec == ConfigInit /\ [][ConfigNext]_configVars

-----------------------------------------------------------------------------
(* Properties *)

\* Between the entries i and j there is none of the key of i.
Adjacent(h, i, j) == i < j /\ \A m \in DOMAIN h : i < m /\ m < j => h[m].key # h[i].key

\* The entries of a key follow from one another, and the newest one has its value.
Accounts(h, value) ==
    /\ \A i, j \in DOMAIN h :
           Adjacent(h, i, j) /\ h[i].key = h[j].key => h[j].old = h[i].new
    /\ \A i \in DOMAIN h : Adjacent(h, i, Len(h) + 1) => h[i].new = value[h[i].key]

\* The history accounts for the settings: the newest entry of a key has the value
\* that is in force, and the entries of a key follow from one another, however
\* long the history has been, unless an update was cut off between its files.
HistoryAccountsForValues ==
    ~interrupted /\ request.step = "none" =>
        /\ Len(history[2]) <= MaxHistory
        /\ Accounts(history[2], [k \in Keys |-> ResolveValue(k)])
=============================================================================

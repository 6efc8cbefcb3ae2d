--------------------------- MODULE OperatorGateway ---------------------------
(***************************************************************************)
(* The operator's side of the server: sessions and their CSRF tokens       *)
(* (operator_session.py, operator_auth.py, api/admin_session.py), the      *)
(* audit log that any write to may fail (operator_audit_log.py), and the   *)
(* docker commands, which only docker_operation_gateway.py runs.           *)
(*                                                                         *)
(* One event loop: a step ends where the code awaits.                      *)
(***************************************************************************)
EXTENDS Naturals, Sequences, FiniteSets

CONSTANTS
    Sessions,       \* the ids create_session() may draw
    Requests,       \* requests that come with a bearer token
    Callers,        \* who runs docker commands: a job, a shutdown
    Plan            \* the operations of each caller, in order

Catalog == {"restart:martin", "restart:osrm:walking", "restart:osrm:driving",
            "exec:profile_rebuild:extract", "exec:profile_rebuild:partition",
            "exec:profile_rebuild:customize", "restart:profile",
            "stop:operator-gateway", "stop:backend-operator"}

\* A caller has each of its commands run once.
Distinct(plan) == \A i, j \in DOMAIN plan : plan[i] = plan[j] => i = j

ASSUME OperatorAssumption ==
    /\ Cardinality(Catalog) = 9
    /\ Plan \in [Callers -> Seq(STRING)]
    /\ \A c \in Callers : Plan[c] # <<>> /\ Distinct(Plan[c])

VARIABLES
    session,        \* _sessions, and what became of each id
    cookies,        \* the sessions a browser was given
    granted,        \* history: what the principals of accepted requests rest on
    audit,          \* the records in operator_audit.log
    at,             \* where execute_operation stands, per caller
    todo,           \* the operations the caller has not finished with
    executed,       \* history: the docker commands that were started
    told            \* history: what execute_operation answered

operatorVars == <<session, cookies, granted, audit, at, todo, executed, told>>
accessVars == <<session, cookies, granted>>
dockerVars == <<at, todo, executed, told>>

OperatorInit ==
    /\ session = [s \in Sessions |-> "unused"]
    /\ cookies = {}
    /\ granted = {}
    /\ audit = {}
    /\ at = [c \in Callers |-> "idle"]
    /\ todo = Plan
    /\ executed = {}
    /\ told = {}

-----------------------------------------------------------------------------
(* The audit log *)

\* _write(): appended, or an AuditSinkError that the caller may not ignore.
Logged(record) == audit' = audit \cup {record}
Lost == UNCHANGED audit

\* A record whose loss is accepted.
BestEffort(record) == Logged(record) \/ Lost

-----------------------------------------------------------------------------
(* Sessions *)

\* get_session(): a session that has expired is deleted as it is looked up.
LookedUp(s) == IF session[s] = "expired" THEN [session EXCEPT ![s] = "gone"] ELSE session

Expire(s) ==
    /\ session[s] = "live"
    /\ session' = [session EXCEPT ![s] = "expired"]
    /\ UNCHANGED <<cookies, granted, audit, dockerVars>>

LoginRejected ==
    /\ BestEffort(<<"login", "rejected">>)
    /\ UNCHANGED <<accessVars, dockerVars>>

\* login(): the session exists before it is audited; without the record the
\* browser gets a 500 and no cookie, and the session stays until it expires.
Login(s) ==
    /\ session[s] = "unused"
    /\ session' = [session EXCEPT ![s] = "live"]
    /\ \/ Logged(<<"login", s>>) /\ cookies' = cookies \cup {s}
       \/ Lost /\ UNCHANGED cookies
    /\ UNCHANGED <<granted, dockerVars>>

\* get_current_operator(): every rejection is audited if possible, an acceptance
\* without its record is a 500.
Bearer(r) ==
    /\ \/ BestEffort(<<"bearer", "rejected">>) /\ UNCHANGED granted
       \/ Logged(<<"bearer", r>>) /\ granted' = granted \cup {<<"bearer", r>>}
       \/ Lost /\ UNCHANGED granted
    /\ UNCHANGED <<session, cookies, dockerVars>>

\* get_current_operator_or_session() of a request with a cookie: a live session
\* decides, and a wrong CSRF token of an unsafe method is not tried as a bearer;
\* without one the bearer token is.
RequestWithCookie(s, safe, csrfMatches) ==
    /\ s \in cookies
    /\ session' = LookedUp(s)
    /\ IF session'[s] = "live"
       THEN /\ granted' = IF safe \/ csrfMatches
                          THEN granted \cup {<<"login", s>>} ELSE granted
            /\ UNCHANGED audit
       ELSE BestEffort(<<"bearer", "rejected">>) /\ UNCHANGED granted
    /\ UNCHANGED <<cookies, dockerVars>>

\* logout() and get_admin_session(): unsafe, so the CSRF token must match.
Logout(s, csrfMatches) ==
    /\ s \in cookies
    /\ IF LookedUp(s)[s] = "live" /\ csrfMatches
       THEN /\ session' = [session EXCEPT ![s] = "gone"]
            /\ cookies' = cookies \ {s}
            /\ BestEffort(<<"logout", s>>)
       ELSE session' = LookedUp(s) /\ UNCHANGED <<cookies, audit>>
    /\ UNCHANGED <<granted, dockerVars>>

-----------------------------------------------------------------------------
(* execute_operation() *)

Current(c) == Head(todo[c])

\* What the caller does with an answer: a job goes on while the command
\* succeeded (_run_docker_operation() turns every DockerOperationError into a
\* failure), _perform_shutdown() goes on after every DockerOperationError.  An
\* AuditSinkError that escapes ends both.
GoesOn(c, answer) ==
    \/ answer = "success"
    \/ c = "shutdown" /\ answer # "AuditSinkError"

Answer(c, answer) ==
    LET rest == IF GoesOn(c, answer) THEN Tail(todo[c]) ELSE <<>> IN
    /\ told' = told \cup {<<c, Current(c), answer>>}
    /\ todo' = [todo EXCEPT ![c] = rest]
    /\ at' = [at EXCEPT ![c] = IF rest = <<>> THEN "ended" ELSE "idle"]

\* A shutdown is accepted with a session; its first record is best effort.  It
\* waits before it stops anything.
RequestShutdown(s) ==
    /\ at["shutdown"] = "idle" /\ todo["shutdown"] = Plan["shutdown"]
    /\ s \in cookies /\ session[s] = "live"
    /\ at' = [at EXCEPT !["shutdown"] = "delayed"]
    /\ BestEffort(<<"shutdown_requested", s>>)
    /\ granted' = granted \cup {<<"login", s>>}
    /\ UNCHANGED <<session, cookies, todo, executed, told>>

\* Nothing is started without a record of the attempt.
Begin(c) ==
    /\ todo[c] # <<>>
    /\ IF c = "shutdown" /\ todo[c] = Plan[c] THEN at[c] = "delayed" ELSE at[c] = "idle"
    /\ \/ /\ Current(c) \in Catalog
          /\ Logged(<<c, Current(c), "attempting">>)
          /\ at' = [at EXCEPT ![c] = "spawning"]
          /\ UNCHANGED <<todo, told>>
       \/ /\ Current(c) \in Catalog
          /\ Lost
          /\ Answer(c, "AUDIT_SINK_UNAVAILABLE")
       \/ /\ Current(c) \notin Catalog
          /\ Lost
          /\ Answer(c, "UNKNOWN_OPERATION")
    /\ UNCHANGED <<accessVars, executed>>

Spawned(c) ==
    /\ at[c] = "spawning"
    /\ at' = [at EXCEPT ![c] = "running"]
    /\ executed' = executed \cup {<<c, Current(c)>>}
    /\ UNCHANGED <<accessVars, audit, todo, told>>

\* The record of a command that could not start, or that ran out of time, is
\* written outside of any handler: when it fails, the AuditSinkError escapes.
SpawnFailed(c) ==
    /\ at[c] = "spawning"
    /\ \/ Logged(<<c, Current(c), "failure">>) /\ Answer(c, "SPAWN_FAILED")
       \/ Lost /\ Answer(c, "AuditSinkError")
    /\ UNCHANGED <<accessVars, executed>>

TimedOut(c) ==
    /\ at[c] = "running"
    /\ \/ Logged(<<c, Current(c), "timeout">>) /\ Answer(c, "timeout")
       \/ Lost /\ Answer(c, "AuditSinkError")
    /\ UNCHANGED <<accessVars, executed>>

\* CompletedBestEffort answers whatever became of the record.
CompletedBestEffort(c, result) ==
    /\ at[c] = "running"
    /\ BestEffort(<<c, Current(c), result>>)
    /\ Answer(c, result)
    /\ UNCHANGED <<accessVars, executed>>

Completed(c, result) ==
    /\ at[c] = "running"
    /\ \/ Logged(<<c, Current(c), result>>) /\ Answer(c, result)
       \/ Lost /\ Answer(c, "AUDIT_SINK_FAILURE_POST_EXEC")
    /\ UNCHANGED <<accessVars, executed>>

\* The process ends, by its own stop command or otherwise: sessions are in
\* memory only, and so is every operation under way.
Restart ==
    /\ session' = [s \in Sessions |-> IF session[s] \in {"live", "expired"} THEN "gone"
                                      ELSE session[s]]
    /\ at' = [c \in Callers |-> IF at[c] = "idle" /\ todo[c] = Plan[c] THEN "idle" ELSE "ended"]
    /\ UNCHANGED <<cookies, granted, audit, todo, executed, told>>

-----------------------------------------------------------------------------
OperatorNext ==
    \/ LoginRejected \/ Restart
    \/ \E s \in Sessions :
        \/ Expire(s) \/ Login(s) \/ RequestShutdown(s)
        \/ \E safe, matches \in BOOLEAN : RequestWithCookie(s, safe, matches)
        \/ \E matches \in BOOLEAN : Logout(s, matches)
    \/ \E r \in Requests : Bearer(r)
    \/ \E c \in Callers :
        \/ Begin(c) \/ Spawned(c) \/ SpawnFailed(c) \/ TimedOut(c)
        \/ \E result \in {"success", "failure"} : Completed(c, result)

OperatorSpec == OperatorInit /\ [][OperatorNext]_operatorVars

-----------------------------------------------------------------------------
(* Properties *)

\* The audit log accounts for what the operator server admits, however writes to it fail in
\* between: whoever was accepted as the operator is in it with the login or the token they
\* came in by; an answer that reports how a command ended is backed by both of its records;
\* and "the audit log is unavailable" is never said of a command that was started.
AuditAccounts ==
    /\ granted \subseteq audit
    /\ \A t \in told :
        /\ t[3] \in {"success", "failure", "timeout"} =>
               {<<t[1], t[2], "attempting">>, t} \subseteq audit
        /\ t[3] = "AUDIT_SINK_UNAVAILABLE" => <<t[1], t[2]>> \notin executed
=============================================================================

---------------------------- MODULE ServiceProofs ---------------------------
(***************************************************************************)
(* Theorems about the operator's side and about the services that answer   *)
(* the browser, for any instance.  The operator's side: what the audit log *)
(* accounts for, what the history of the settings accounts for, and what   *)
(* holds when the data operations console calls everything OK.  The        *)
(* services: which warnings a place is told of, which shelters are listed, *)
(* how the risk of a place and of a route is made up, what the scores of a *)
(* simulation mean, and what the screen shows of what the live sources     *)
(* report.                                                                 *)
(***************************************************************************)
EXTENDS OperatorGateway, ConfigState, DataConsole, WeatherAlerts, ShelterRegistry, Simulation,
        LiveSections, SequenceTheorems, FiniteSetTheorems, WellFoundedInduction, TLAPS

-----------------------------------------------------------------------------
(* Induction over numbers, of a set instead of a predicate *)

\* What holds of 0, and of n + 1 when it holds of n, holds of every natural number.
LEMMA Induction ==
    ASSUME NEW S, 0 \in S, \A n \in Nat : n \in S => n + 1 \in S
    PROVE  Nat \subseteq S
<1> DEFINE T == Nat \ S
           R == OpToRel(<, Nat)
<1>1. IsWellFoundedOn(R, Nat)
  BY NatLessThanWellFounded
<1>2. SUFFICES ASSUME T # {} PROVE FALSE
  OBVIOUS
<1>3. T \subseteq Nat
  OBVIOUS
<1>4. \E m \in T : \A y \in T : <<y, m>> \notin R
  <2> HIDE DEF R, T
  <2> QED
    BY <1>1, <1>2, <1>3, WFMin
<1>5. PICK m \in T : \A y \in T : <<y, m>> \notin R
  BY <1>4
<1>6. m \in Nat /\ m # 0
  OBVIOUS
<1>7. m - 1 \in Nat /\ m - 1 < m /\ (m - 1) + 1 = m
  BY <1>6
<1>8. <<m - 1, m>> \in R
  BY <1>6, <1>7 DEF OpToRel
<1>9. m - 1 \in S
  BY <1>5, <1>7, <1>8
<1> QED
  BY <1>7, <1>9

\* A set of integers that is bounded, and not empty, has a greatest one.
LEMMA MaxOfBounded ==
    ASSUME NEW s \in SUBSET Int, s # {}, NEW b \in Int, \A y \in s : y <= b
    PROVE  Max(s) \in s /\ \A y \in s : y <= Max(s)
<1> DEFINE T == {b - y : y \in s}
           R == OpToRel(<, Nat)
<1>1. T \subseteq Nat /\ T # {}
  <2>1. \A y \in s : b - y \in Nat
    OBVIOUS
  <2> QED
    BY <2>1
<1>2. \E m \in T : \A x \in T : <<x, m>> \notin R
  <2>1. IsWellFoundedOn(R, Nat)
    BY NatLessThanWellFounded
  <2> HIDE DEF T, R
  <2> QED
    BY <1>1, <2>1, WFMin
<1>3. PICK m \in T : \A x \in T : <<x, m>> \notin R
  BY <1>2
<1>4. PICK top \in s : m = b - top
  OBVIOUS
<1>5. \A y \in s : y <= top
  <2> SUFFICES ASSUME NEW y \in s, ~(y <= top) PROVE FALSE
    OBVIOUS
  <2>1. b - y \in T /\ b - y \in Nat /\ m \in Nat /\ b - y < m
    BY <1>1, <1>4
  <2> QED
    BY <1>3, <2>1 DEF OpToRel
<1> QED
  BY <1>4, <1>5 DEF Max

\* The greatest of the first k numbers.
LEMMA MaxOfInterval ==
    ASSUME NEW k \in Nat, k > 0
    PROVE  Max(1..k) = k /\ (1..k) \ {k} = 1..(k - 1)
<1>1. (1..k) \ {k} = 1..(k - 1)
  OBVIOUS
<1>2. k \in 1..k /\ \A y \in 1..k : y <= k
  OBVIOUS
<1>3. \A x \in 1..k : (\A y \in 1..k : y <= x) => x = k
  BY <1>2
<1> QED
  BY <1>1, <1>2, <1>3 DEF Max

\* A fold of the sets within S, one picked element after the other.
Folds(it, S, V, base, pick, step) ==
    /\ it \in [SUBSET S -> V]
    /\ \A s \in SUBSET S :
           it[s] = IF s = {} THEN base ELSE step[<<it[s \ {pick[s]}], pick[s]>>]

\* A function that is defined by recursion over the subsets of a finite set exists.
LEMMA FoldExists ==
    ASSUME NEW S, IsFiniteSet(S), NEW V, NEW base \in V,
           NEW pick, \A s \in SUBSET S : s # {} => pick[s] \in s,
           NEW step, \A v \in V, x \in S : step[<<v, x>>] \in V
    PROVE  \E it : Folds(it, S, V, base, pick, step)
<1> DEFINE small(n) == {s \in SUBSET S : Cardinality(s) <= n}
           Solves(f, n) == \A s \in small(n) :
               f[s] = IF s = {} THEN base ELSE step[<<f[s \ {pick[s]}], pick[s]>>]
           G == {n \in Nat : \E f \in [small(n) -> V] : Solves(f, n)}
<1>0. \A s \in SUBSET S : /\ IsFiniteSet(s) /\ Cardinality(s) \in Nat
                          /\ Cardinality(s) = 0 <=> s = {}
                          /\ s # {} => Cardinality(s \ {pick[s]}) = Cardinality(s) - 1
  BY FS_Subset, FS_CardinalityType, FS_EmptySet, FS_RemoveElement
<1>1. 0 \in G
  <2>1. small(0) = {{}}
    <3>1. ASSUME NEW s \in SUBSET S PROVE (Cardinality(s) <= 0) <=> (s = {})
      <4>1. Cardinality(s) \in Nat /\ (Cardinality(s) = 0 <=> s = {})
        BY <1>0
      <4> QED
        BY <4>1
    <3> QED
      BY <3>1
  <2>2. [s \in small(0) |-> base] \in [small(0) -> V] /\ Solves([s \in small(0) |-> base], 0)
    BY <2>1
  <2> QED
    BY <2>2
<1>2. ASSUME NEW n \in Nat, n \in G PROVE n + 1 \in G
  <2>1. PICK f \in [small(n) -> V] : Solves(f, n)
    BY <1>2
  <2> DEFINE g == [s \in small(n + 1) |->
                     IF s = {} THEN base ELSE step[<<f[s \ {pick[s]}], pick[s]>>]]
  <2>2. \A s \in small(n + 1) : s # {} => s \ {pick[s]} \in small(n) /\ pick[s] \in S
    <3> SUFFICES ASSUME NEW s \in SUBSET S, Cardinality(s) <= n + 1, s # {}
                 PROVE  s \ {pick[s]} \in small(n) /\ pick[s] \in S
      OBVIOUS
    <3>1. pick[s] \in s /\ s \ {pick[s]} \in SUBSET S
      OBVIOUS
    <3>2. Cardinality(s) \in Nat /\ Cardinality(s \ {pick[s]}) = Cardinality(s) - 1
      BY <1>0
    <3>3. Cardinality(s \ {pick[s]}) <= n
      BY <3>2
    <3> QED
      BY <3>1, <3>3
  <2>3. g \in [small(n + 1) -> V]
    BY <2>2
  <2>4. \A s \in small(n) : s \in small(n + 1) /\ g[s] = f[s]
    <3> TAKE s \in small(n)
    <3>0. s \in SUBSET S /\ Cardinality(s) <= n /\ Cardinality(s) \in Nat
      BY <1>0
    <3>1. s \in small(n + 1)
      BY <3>0
    <3> QED
      BY <2>1, <3>1
  <2>5. Solves(g, n + 1)
    BY <2>2, <2>4
  <2> HIDE DEF g, small, Solves
  <2> QED
    BY <2>3, <2>5
<1>3. Cardinality(S) \in G
  <2> HIDE DEF G
  <2> QED
    BY <1>1, <1>2, Induction, FS_CardinalityType
<1>4. small(Cardinality(S)) = SUBSET S
  BY FS_Subset, <1>0
<1> QED
  BY <1>3, <1>4 DEF Folds

-----------------------------------------------------------------------------
(* The audit log *)

Steps == {"idle", "delayed", "spawning", "running", "ended"}
Results == {"success", "failure", "timeout", "SPAWN_FAILED", "UNKNOWN_OPERATION", "AuditSinkError",
            "AUDIT_SINK_UNAVAILABLE", "AUDIT_SINK_FAILURE_POST_EXEC"}

OperatorType ==
    /\ at \in [Callers -> Steps]
    /\ todo \in [Callers -> Seq(STRING)]
    /\ told \subseteq Callers \X STRING \X Results

\* A principal rests on a login or a token that was recorded, and a browser has no
\* cookie whose login was not.
PrincipalsAreRecorded ==
    /\ granted \subseteq audit
    /\ \A s \in cookies : <<"login", s>> \in audit

\* A command that is being started, or runs, has its first record.
AttemptsAreRecorded ==
    \A c \in Callers : at[c] \in {"spawning", "running"} =>
        todo[c] # <<>> /\ <<c, todo[c][1], "attempting">> \in audit

\* Of what a caller still has to do nothing was started, but what runs; nor was
\* any of it answered.
RestIsAhead ==
    \A c \in Callers : at[c] # "ended" =>
        /\ Distinct(todo[c])
        /\ \A i \in DOMAIN todo[c] :
               /\ <<c, todo[c][i]>> \in executed => i = 1 /\ at[c] = "running"
               /\ \A t \in told : <<t[1], t[2]>> # <<c, todo[c][i]>>

AuditInv ==
    /\ OperatorType
    /\ PrincipalsAreRecorded
    /\ AttemptsAreRecorded
    /\ RestIsAhead
    /\ AuditAccounts

\* A list of commands without its first one.
LEMMA RestOfPlan ==
    ASSUME NEW p \in Seq(STRING), p # <<>>
    PROVE  /\ Head(p) = p[1] /\ p[1] \in STRING /\ 1 \in DOMAIN p
           /\ Tail(p) \in Seq(STRING)
           /\ \A i \in DOMAIN Tail(p) : Tail(p)[i] = p[i + 1] /\ i + 1 \in DOMAIN p /\ i + 1 # 1
           /\ Distinct(p) => Distinct(Tail(p))
           /\ Distinct(p) => \A i \in DOMAIN Tail(p) : Tail(p)[i] # p[1]
<1>1. /\ Head(p) = p[1] /\ p[1] \in STRING /\ DOMAIN p = 1..Len(p) /\ Len(p) \in Nat \ {0}
      /\ Tail(p) \in Seq(STRING) /\ DOMAIN Tail(p) = 1..(Len(p) - 1)
      /\ \A i \in 1..(Len(p) - 1) : Tail(p)[i] = p[i + 1]
  BY HeadTailProperties
<1>2. \A i \in DOMAIN Tail(p) : Tail(p)[i] = p[i + 1] /\ i + 1 \in DOMAIN p /\ i + 1 # 1
  BY <1>1
<1>3. \A i, j \in DOMAIN Tail(p) : i + 1 = j + 1 => i = j
  BY <1>1
<1>4. Distinct(p) => Distinct(Tail(p))
  BY <1>2, <1>3 DEF Distinct
<1>5. Distinct(p) => \A i \in DOMAIN Tail(p) : Tail(p)[i] # p[1]
  BY <1>1, <1>2 DEF Distinct
<1> QED
  BY <1>1, <1>2, <1>4, <1>5

LEMMA EmptyPlan == <<>> \in Seq(STRING) /\ DOMAIN <<>> = {} /\ Distinct(<<>>)
<1>1. <<>> \in Seq(STRING) /\ DOMAIN <<>> = {}
  OBVIOUS
<1> QED
  BY <1>1 DEF Distinct

LEMMA AuditInvInit == OperatorInit => AuditInv
  BY OperatorAssumption
     DEF OperatorInit, AuditInv, OperatorType, Steps, PrincipalsAreRecorded, AttemptsAreRecorded,
         RestIsAhead, AuditAccounts

\* Records are only added, so what was accounted for stays so, as long as nothing
\* is started or answered.
LEMMA AccessKeeps ==
    ASSUME AuditInv, audit \subseteq audit', PrincipalsAreRecorded', UNCHANGED dockerVars
    PROVE  AuditInv'
  BY DEF AuditInv, OperatorType, PrincipalsAreRecorded, AttemptsAreRecorded, RestIsAhead,
         AuditAccounts, dockerVars

\* An answer: the command is off the list; the answer is truthful if it is backed
\* by its records, or if the command was not started.
LEMMA AnswerKeeps ==
    ASSUME AuditInv, NEW c \in Callers, NEW answer \in Results, Answer(c, answer),
           todo[c] # <<>>, at[c] # "ended",
           audit \subseteq audit', UNCHANGED <<cookies, granted, executed>>,
           answer \in {"success", "failure", "timeout"} =>
               {<<c, todo[c][1], "attempting">>, <<c, todo[c][1], answer>>} \subseteq audit',
           answer = "AUDIT_SINK_UNAVAILABLE" => at[c] # "running"
    PROVE  AuditInv'
<1> DEFINE op == todo[c][1]
           rest == todo'[c]
<1>1. /\ todo[c] \in Seq(STRING) /\ Distinct(todo[c]) /\ op \in STRING /\ Head(todo[c]) = op
      /\ 1 \in DOMAIN todo[c]
  BY RestOfPlan DEF AuditInv, OperatorType, RestIsAhead
<1>2. /\ told' = told \cup {<<c, op, answer>>}
      /\ rest \in {Tail(todo[c]), <<>>}
      /\ todo' = [todo EXCEPT ![c] = rest]
      /\ at' = [at EXCEPT ![c] = IF rest = <<>> THEN "ended" ELSE "idle"]
  BY <1>1 DEF Answer, Current, AuditInv, OperatorType
<1>3. /\ rest \in Seq(STRING) /\ Distinct(rest)
      /\ \A i \in DOMAIN rest : rest[i] # op
      /\ \A i \in DOMAIN rest : \E j \in DOMAIN todo[c] : j # 1 /\ rest[i] = todo[c][j]
  <2>1. CASE rest = Tail(todo[c])
    <3>1. /\ Tail(todo[c]) \in Seq(STRING) /\ Distinct(Tail(todo[c]))
          /\ \A i \in DOMAIN Tail(todo[c]) :
                 /\ Tail(todo[c])[i] # op
                 /\ Tail(todo[c])[i] = todo[c][i + 1] /\ i + 1 \in DOMAIN todo[c] /\ i + 1 # 1
      BY <1>1, RestOfPlan
    <3> HIDE DEF rest, op
    <3> QED
      BY <2>1, <3>1
  <2>2. CASE rest = <<>>
    <3> HIDE DEF rest, op
    <3> QED
      BY <2>2, EmptyPlan
  <2> QED
    BY <1>2, <2>1, <2>2
<1>4. at' \in [Callers -> Steps]
  BY <1>2 DEF AuditInv, OperatorType, Steps
<1>5. OperatorType'
  <2>1. todo' \in [Callers -> Seq(STRING)]
    BY <1>2, <1>3 DEF AuditInv, OperatorType
  <2>2. <<c, op, answer>> \in Callers \X STRING \X Results
    BY <1>1
  <2> QED
    BY <1>2, <1>4, <2>1, <2>2 DEF AuditInv, OperatorType
<1>6. \A o \in Callers \ {c} : todo'[o] = todo[o] /\ at'[o] = at[o]
  BY <1>2 DEF AuditInv, OperatorType
<1>7. at'[c] \in {"idle", "ended"}
  BY <1>2 DEF AuditInv, OperatorType
<1> HIDE DEF op, rest
<1>8. PrincipalsAreRecorded' /\ AttemptsAreRecorded'
  BY <1>6, <1>7 DEF AuditInv, PrincipalsAreRecorded, AttemptsAreRecorded
<1>9. RestIsAhead'
  <2> SUFFICES ASSUME NEW o \in Callers, at'[o] # "ended"
               PROVE  /\ Distinct(todo'[o])
                      /\ \A i \in DOMAIN todo'[o] :
                            /\ <<o, todo'[o][i]>> \in executed => i = 1 /\ at'[o] = "running"
                            /\ \A t \in told' : <<t[1], t[2]>> # <<o, todo'[o][i]>>
    BY DEF RestIsAhead
  <2>1. CASE o = c
    <3>1. \A i \in DOMAIN rest : <<c, rest[i]>> \notin executed
      BY <1>3 DEF AuditInv, RestIsAhead
    <3>2. \A i \in DOMAIN rest : \A t \in told : <<t[1], t[2]>> # <<c, rest[i]>>
      <4> SUFFICES ASSUME NEW i \in DOMAIN rest, NEW t \in told
                   PROVE  <<t[1], t[2]>> # <<c, rest[i]>>
        OBVIOUS
      <4>1. PICK j \in DOMAIN todo[c] : rest[i] = todo[c][j]
        BY <1>3
      <4>2. <<t[1], t[2]>> # <<c, todo[c][j]>>
        BY DEF AuditInv, RestIsAhead
      <4> QED
        BY <4>1, <4>2
    <3>3. \A i \in DOMAIN rest : <<c, op>> # <<c, rest[i]>>
      BY <1>3
    <3>4. \A t \in told' : \A i \in DOMAIN rest : <<t[1], t[2]>> # <<c, rest[i]>>
      BY <1>2, <3>2, <3>3
    <3> QED
      BY <2>1, <1>3, <3>1, <3>4 DEF rest
  <2>2. CASE o # c
    BY <2>2, <1>2, <1>6 DEF AuditInv, RestIsAhead
  <2> QED
    BY <2>1, <2>2
<1>10. AuditAccounts'
  <2>1. \A t \in told : /\ t[3] \in {"success", "failure", "timeout"} =>
                               {<<t[1], t[2], "attempting">>, t} \subseteq audit'
                        /\ t[3] = "AUDIT_SINK_UNAVAILABLE" => <<t[1], t[2]>> \notin executed'
    BY DEF AuditInv, AuditAccounts
  <2>2. answer = "AUDIT_SINK_UNAVAILABLE" => <<c, op>> \notin executed'
    BY <1>1 DEF AuditInv, RestIsAhead, op
  <2>3. granted' \subseteq audit'
    BY DEF AuditInv, AuditAccounts
  <2> QED
    BY <1>2, <2>1, <2>2, <2>3 DEF AuditAccounts, op
<1> QED
  BY <1>5, <1>8, <1>9, <1>10 DEF AuditInv

LEMMA AuditInvStep == AuditInv /\ [OperatorNext]_operatorVars => AuditInv'
<1> SUFFICES ASSUME AuditInv, [OperatorNext]_operatorVars
             PROVE  AuditInv'
  OBVIOUS
<1>1. PrincipalsAreRecorded
  BY DEF AuditInv
<1> USE DEF Logged, Lost, BestEffort
<1>2. CASE LoginRejected
  BY <1>1, <1>2, AccessKeeps DEF LoginRejected, accessVars, PrincipalsAreRecorded
<1>3. CASE Restart
  <2>1. at' \in [Callers -> Steps] /\ UNCHANGED <<cookies, granted, audit, todo, executed, told>>
        /\ \A c \in Callers : at'[c] \in {"idle", "ended"} /\ (at'[c] = "idle" => at[c] = "idle")
    BY <1>3 DEF Restart, Steps
  <2> QED
    BY <2>1 DEF AuditInv, OperatorType, PrincipalsAreRecorded, AttemptsAreRecorded, RestIsAhead,
                AuditAccounts
<1>4. ASSUME NEW s \in Sessions, Expire(s)
      PROVE  AuditInv'
  BY <1>1, <1>4, AccessKeeps DEF Expire, PrincipalsAreRecorded
<1>5. ASSUME NEW s \in Sessions, Login(s)
      PROVE  AuditInv'
  BY <1>1, <1>5, AccessKeeps DEF Login, PrincipalsAreRecorded
<1>6. ASSUME NEW s \in Sessions, RequestShutdown(s)
      PROVE  AuditInv'
  <2>1. audit \subseteq audit' /\ PrincipalsAreRecorded'
    BY <1>1, <1>6 DEF RequestShutdown, PrincipalsAreRecorded
  <2>2. /\ UNCHANGED <<todo, executed, told>> /\ at["shutdown"] = "idle"
        /\ at' \in [Callers -> Steps]
        /\ \A c \in Callers : at'[c] = at[c] \/ (at[c] = "idle" /\ at'[c] = "delayed")
    BY <1>6 DEF RequestShutdown, AuditInv, OperatorType, Steps
  <2> QED
    BY <2>1, <2>2 DEF AuditInv, OperatorType, PrincipalsAreRecorded, AttemptsAreRecorded,
                      RestIsAhead, AuditAccounts
<1>7. ASSUME NEW s \in Sessions, NEW safe \in BOOLEAN, NEW matches \in BOOLEAN,
             RequestWithCookie(s, safe, matches)
      PROVE  AuditInv'
  BY <1>1, <1>7, AccessKeeps DEF RequestWithCookie, PrincipalsAreRecorded
<1>8. ASSUME NEW s \in Sessions, NEW matches \in BOOLEAN, Logout(s, matches)
      PROVE  AuditInv'
  BY <1>1, <1>8, AccessKeeps DEF Logout, PrincipalsAreRecorded
<1>9. ASSUME NEW r \in Requests, Bearer(r)
      PROVE  AuditInv'
  BY <1>1, <1>9, AccessKeeps DEF Bearer, PrincipalsAreRecorded
<1>10. ASSUME NEW c \in Callers, Begin(c)
       PROVE  AuditInv'
  <2>1. /\ todo[c] # <<>> /\ at[c] \in {"idle", "delayed"}
        /\ UNCHANGED <<cookies, granted, executed>>
        /\ Current(c) = todo[c][1]
    BY <1>10, RestOfPlan DEF Begin, accessVars, Current, AuditInv, OperatorType
  <2>2. CASE Logged(<<c, Current(c), "attempting">>) /\ at' = [at EXCEPT ![c] = "spawning"]
             /\ UNCHANGED <<todo, told>>
    <3>1. /\ at' \in [Callers -> Steps] /\ at'[c] = "spawning"
          /\ \A o \in Callers \ {c} : at'[o] = at[o]
      BY <2>2 DEF AuditInv, OperatorType, Steps
    <3>2. audit \subseteq audit' /\ <<c, todo[c][1], "attempting">> \in audit'
      BY <2>1, <2>2
    <3> QED
      BY <2>1, <2>2, <3>1, <3>2
         DEF AuditInv, OperatorType, PrincipalsAreRecorded, AttemptsAreRecorded, RestIsAhead,
             AuditAccounts
  <2>3. CASE Lost /\ Answer(c, "AUDIT_SINK_UNAVAILABLE")
    <3>1. audit \subseteq audit' /\ Answer(c, "AUDIT_SINK_UNAVAILABLE")
      BY <2>3
    <3>2. at[c] # "ended" /\ at[c] # "running"
      BY <2>1
    <3> QED
      BY <2>1, <3>1, <3>2, AnswerKeeps DEF Results
  <2>4. CASE Lost /\ Answer(c, "UNKNOWN_OPERATION")
    <3>1. audit \subseteq audit' /\ Answer(c, "UNKNOWN_OPERATION")
      BY <2>4
    <3>2. at[c] # "ended" /\ at[c] # "running"
      BY <2>1
    <3> QED
      BY <2>1, <3>1, <3>2, AnswerKeeps DEF Results
  <2> QED
    BY <1>10, <2>2, <2>3, <2>4 DEF Begin
<1>11. ASSUME NEW c \in Callers, Spawned(c)
       PROVE  AuditInv'
  <2>1. /\ at[c] = "spawning" /\ UNCHANGED <<cookies, granted, audit, todo, told>>
        /\ todo[c] # <<>> /\ Current(c) = todo[c][1] /\ 1 \in DOMAIN todo[c]
        /\ Distinct(todo[c])
    BY <1>11, RestOfPlan
       DEF Spawned, accessVars, Current, AuditInv, OperatorType, AttemptsAreRecorded, RestIsAhead
  <2>2. /\ at' \in [Callers -> Steps] /\ at'[c] = "running"
        /\ \A o \in Callers \ {c} : at'[o] = at[o]
    BY <1>11 DEF Spawned, AuditInv, OperatorType, Steps
  <2>3. executed' = executed \cup {<<c, todo[c][1]>>}
    BY <1>11, <2>1 DEF Spawned
  <2>4. \A i \in DOMAIN todo[c] : todo[c][i] = todo[c][1] => i = 1
    BY <2>1 DEF Distinct
  <2>5. RestIsAhead'
    BY <2>1, <2>2, <2>3, <2>4 DEF AuditInv, RestIsAhead
  <2>6. AuditAccounts'
    <3>1. \A t \in told : <<t[1], t[2]>> # <<c, todo[c][1]>>
      BY <2>1 DEF AuditInv, RestIsAhead
    <3> QED
      BY <2>1, <2>3, <3>1 DEF AuditInv, AuditAccounts
  <2> QED
    BY <2>1, <2>2, <2>5, <2>6
       DEF AuditInv, OperatorType, PrincipalsAreRecorded, AttemptsAreRecorded
<1>12. ASSUME NEW c \in Callers,
              SpawnFailed(c) \/ TimedOut(c) \/ (\E r \in {"success", "failure"} : Completed(c, r))
       PROVE  AuditInv'
  <2>1. /\ at[c] \in {"spawning", "running"} /\ audit \subseteq audit'
        /\ UNCHANGED <<cookies, granted, executed>>
    BY <1>12 DEF SpawnFailed, TimedOut, Completed, accessVars
  <2>2. /\ todo[c] # <<>> /\ <<c, todo[c][1], "attempting">> \in audit
        /\ Current(c) = todo[c][1]
    BY <2>1, RestOfPlan DEF Current, AuditInv, OperatorType, AttemptsAreRecorded
  <2>3. \E answer \in Results :
            /\ Answer(c, answer)
            /\ answer # "AUDIT_SINK_UNAVAILABLE"
            /\ answer \in {"success", "failure", "timeout"} => <<c, todo[c][1], answer>> \in audit'
    <3>1. CASE SpawnFailed(c)
      BY <3>1, <2>2 DEF SpawnFailed, Results
    <3>2. CASE TimedOut(c)
      BY <3>2, <2>2 DEF TimedOut, Results
    <3>3. ASSUME NEW r \in {"success", "failure"}, Completed(c, r)
          PROVE  \E answer \in Results :
                     /\ Answer(c, answer)
                     /\ answer # "AUDIT_SINK_UNAVAILABLE"
                     /\ answer \in {"success", "failure", "timeout"} =>
                            <<c, todo[c][1], answer>> \in audit'
      BY <3>3, <2>2 DEF Completed, Results
    <3> QED
      BY <1>12, <3>1, <3>2, <3>3
  <2> QED
    BY <2>1, <2>2, <2>3, AnswerKeeps DEF Results
<1>13. CASE UNCHANGED operatorVars
  BY <1>1, <1>13, AccessKeeps DEF operatorVars, dockerVars, PrincipalsAreRecorded
<1> QED
  BY <1>2, <1>3, <1>4, <1>5, <1>6, <1>7, <1>8, <1>9, <1>10, <1>11, <1>12, <1>13 DEF OperatorNext

\* Whichever writes of the audit log fail, whoever logs in, asks or shuts down
\* between them, and whatever commands the callers have run.
THEOREM AuditAccountsForAll == OperatorSpec => []AuditAccounts
<1>1. AuditInv => AuditAccounts
  BY DEF AuditInv
<1> QED
  BY AuditInvInit, AuditInvStep, <1>1, PTL DEF OperatorSpec

-----------------------------------------------------------------------------
(* The history of the settings *)

SettingValues == {ValidateValue(k, x) : k \in Keys, x \in Inputs}
                 \cup {Definition[k].default : k \in Keys}
Entries == [key: Keys, old: SettingValues, new: SettingValues]

\* The values in force under the overrides v.
Resolved(v) == [k \in Keys |-> IF v[k] = Unset THEN Definition[k].default ELSE v[k]]
Overrides == [Keys -> SettingValues \cup {Unset}]

\* The overrides that are in force, or will be once they are written.
NextValues == IF request.step = "overrides" THEN request.values ELSE overrides[2]

\* A request that has not reached the history replaces one value of those that
\* the history accounts for; one that has carries the whole history.
Pending ==
    /\ request.key \in Keys
    /\ request.old \in SettingValues /\ request.new \in SettingValues
    /\ Resolved(NextValues)[request.key] = request.new
    /\ history[2] \in Seq(Entries) /\ Len(history[2]) <= MaxHistory
    /\ Accounts(history[2], [Resolved(NextValues) EXCEPT ![request.key] = request.old])

ConfigInv ==
    ~interrupted =>
        /\ NextValues \in Overrides
        /\ \/ /\ request.step = "none"
              /\ history[2] \in Seq(Entries) /\ Len(history[2]) <= MaxHistory
              /\ Accounts(history[2], Resolved(NextValues))
           \/ request.step \in {"overrides", "history"} /\ Pending
           \/ /\ request.step = "broadcast"
              /\ request.values \in Seq(Entries) /\ Len(request.values) <= MaxHistory
              /\ Accounts(request.values, Resolved(NextValues))

\* A value that is stored is never taken for no value.
LEMMA ValuesAreSet ==
    ASSUME NEW k \in Keys, NEW x \in Inputs, ValidateValue(k, x) # Invalid
    PROVE  ValidateValue(k, x) # Unset
  BY DEF ValidateValue, Unset

\* An entry more: the one before it of the same key is the one that accounted for
\* the value it replaces.
LEMMA AppendAccounts ==
    ASSUME NEW h \in Seq(Entries), NEW value \in [Keys -> SettingValues],
           NEW k \in Keys, NEW new \in SettingValues, Accounts(h, value)
    PROVE  LET e == [key |-> k, old |-> value[k], new |-> new] IN
           /\ Append(h, e) \in Seq(Entries)
           /\ Accounts(Append(h, e), [value EXCEPT ![k] = new])
<1> DEFINE e == [key |-> k, old |-> value[k], new |-> new]
           n == Len(h) + 1
           g == Append(h, e)
<1>1. e \in Entries /\ e.key = k /\ e.old = value[k] /\ e.new = new
  BY DEF Entries
<1>2. /\ g \in Seq(Entries) /\ DOMAIN g = 1..n /\ Len(g) = n /\ n \in Nat \ {0}
      /\ g[n] = e /\ DOMAIN h = 1..(n - 1) /\ Len(h) = n - 1
      /\ \A i \in 1..(n - 1) : g[i] = h[i] /\ h[i] \in Entries
  BY <1>1, AppendProperties
<1> HIDE DEF e, n, g
<1>3. ASSUME NEW i \in DOMAIN g, NEW j \in DOMAIN g, Adjacent(g, i, j), g[i].key = g[j].key
      PROVE  g[j].old = g[i].new
  <2>1. i < j /\ i \in 1..(n - 1) /\ j \in 1..n
        /\ \A m \in 1..n : i < m /\ m < j => g[m].key # g[i].key
    BY <1>2, <1>3 DEF Adjacent
  <2>2. Adjacent(h, i, j)
    BY <1>2, <2>1 DEF Adjacent
  <2>3. CASE j = n
    BY <1>1, <1>2, <1>3, <2>1, <2>2, <2>3 DEF Accounts
  <2>4. CASE j # n
    BY <1>2, <1>3, <2>1, <2>2, <2>4 DEF Accounts
  <2> QED
    BY <2>3, <2>4
<1>4. ASSUME NEW i \in DOMAIN g, Adjacent(g, i, n + 1)
      PROVE  g[i].new = [value EXCEPT ![k] = new][g[i].key]
  <2>1. CASE i = n
    BY <1>1, <1>2, <2>1
  <2>2. CASE i # n
    <3>1. i \in 1..(n - 1) /\ g[i].key # k /\ g[i].key \in Keys
          /\ \A m \in 1..n : i < m => g[m].key # g[i].key
      <4>1. i \in 1..(n - 1) /\ \A m \in 1..n : i < m => g[m].key # g[i].key
        BY <1>2, <1>4, <2>2 DEF Adjacent
      <4>2. g[n].key = k /\ i < n /\ n \in 1..n
        BY <1>1, <1>2, <4>1
      <4> QED
        BY <1>2, <4>1, <4>2 DEF Entries
    <3>2. Adjacent(h, i, n)
      BY <1>2, <3>1 DEF Adjacent
    <3>3. h[i].new = value[h[i].key]
      BY <1>2, <3>1, <3>2 DEF Accounts
    <3> QED
      BY <1>2, <3>1, <3>3
  <2> QED
    BY <2>1, <2>2
<1> QED
  BY <1>2, <1>3, <1>4 DEF Accounts, e, g

\* The newest entries account for the same values.
LEMMA TrimAccounts ==
    ASSUME NEW h \in Seq(Entries), NEW value, Accounts(h, value)
    PROVE  Trim(h) \in Seq(Entries) /\ Len(Trim(h)) <= MaxHistory /\ Accounts(Trim(h), value)
<1> DEFINE d == Len(h) - MaxHistory
           g == SubSeq(h, d + 1, Len(h))
<1>1. MaxHistory \in Nat \ {0} /\ Len(h) \in Nat /\ DOMAIN h = 1..Len(h)
  BY ConfigAssumption
<1>2. CASE ~(Len(h) > MaxHistory)
  BY <1>1, <1>2 DEF Trim
<1>3. CASE Len(h) > MaxHistory
  <2>1. d \in Nat /\ Len(h) = d + MaxHistory
    BY <1>1, <1>3
  <2>2. /\ g \in Seq(Entries) /\ Len(g) = MaxHistory /\ DOMAIN g = 1..MaxHistory
        /\ \A i \in 1..MaxHistory : g[i] = h[i + d]
    <3> HIDE DEF d
    <3>1. d + 1 \in Int /\ Len(h) \in Int /\ d + 1 <= Len(h) /\ Len(h) - (d + 1) + 1 = MaxHistory
      BY <1>1, <2>1
    <3>2. \A i \in (d + 1) .. Len(h) : h[i] \in Entries
      BY <1>1, <2>1
    <3>3. /\ g \in Seq(Entries) /\ Len(g) = MaxHistory
          /\ \A i \in 1..MaxHistory : g[i] = h[(d + 1) + i - 1]
      BY <3>1, <3>2, SubSeqProperties
    <3>4. \A i \in 1..MaxHistory : (d + 1) + i - 1 = i + d
      BY <1>1, <2>1
    <3> HIDE DEF g
    <3>5. DOMAIN g = 1..MaxHistory
      BY <1>1, <3>3
    <3> QED
      BY <3>3, <3>4, <3>5
  <2> HIDE DEF d, g
  <2>3. \A i \in 1..MaxHistory : i + d \in DOMAIN h
    BY <1>1, <2>1
  <2>4. \A m \in DOMAIN h : m > d => m - d \in 1..MaxHistory /\ (m - d) + d = m
    BY <1>1, <2>1
  <2>5. ASSUME NEW i \in 1..MaxHistory, NEW j \in 1..(MaxHistory + 1), Adjacent(g, i, j)
        PROVE  Adjacent(h, i + d, j + d)
    <3>1. i + d < j + d
      BY <2>1, <2>5, <1>1 DEF Adjacent
    <3>2. ASSUME NEW m \in DOMAIN h, i + d < m, m < j + d
          PROVE  h[m].key # h[i + d].key
      <4>1. m - d \in 1..MaxHistory /\ i < m - d /\ m - d < j /\ g[m - d] = h[m]
        BY <1>1, <2>1, <2>2, <2>4, <3>2
      <4> QED
        BY <2>2, <2>5, <4>1 DEF Adjacent
    <3> QED
      BY <3>1, <3>2 DEF Adjacent
  <2>6. \A i, j \in 1..MaxHistory :
            Adjacent(g, i, j) /\ g[i].key = g[j].key => g[j].old = g[i].new
    BY <1>1, <2>2, <2>3, <2>5 DEF Accounts
  <2>7. \A i \in 1..MaxHistory : Adjacent(g, i, MaxHistory + 1) => g[i].new = value[g[i].key]
    <3> SUFFICES ASSUME NEW i \in 1..MaxHistory, Adjacent(g, i, MaxHistory + 1)
                 PROVE  g[i].new = value[g[i].key]
      OBVIOUS
    <3>1. Adjacent(h, i + d, (MaxHistory + 1) + d) /\ (MaxHistory + 1) + d = Len(h) + 1
      BY <1>1, <2>1, <2>5
    <3> QED
      BY <2>2, <2>3, <3>1 DEF Accounts
  <2>8. Trim(h) = g
    BY <1>3 DEF Trim, g, d
  <2> QED
    BY <1>1, <2>2, <2>6, <2>7, <2>8 DEF Accounts
<1> QED
  BY <1>2, <1>3

LEMMA ResolvedType ==
    ASSUME NEW v \in Overrides
    PROVE  Resolved(v) \in [Keys -> SettingValues]
  BY DEF Resolved, Overrides, SettingValues

LEMMA ConfigInvInit == ConfigInit => ConfigInv
  BY ConfigAssumption
     DEF ConfigInit, ConfigInv, NextValues, Overrides, NoRequest, Accounts

LEMMA ConfigInvStep == ConfigInv /\ [ConfigNext]_configVars => ConfigInv'
<1> DEFINE Rest ==
        /\ NextValues \in Overrides
        /\ \/ /\ request.step = "none"
              /\ history[2] \in Seq(Entries) /\ Len(history[2]) <= MaxHistory
              /\ Accounts(history[2], Resolved(NextValues))
           \/ request.step \in {"overrides", "history"} /\ Pending
           \/ /\ request.step = "broadcast"
              /\ request.values \in Seq(Entries) /\ Len(request.values) <= MaxHistory
              /\ Accounts(request.values, Resolved(NextValues))
<1> SUFFICES ASSUME ConfigInv, [ConfigNext]_configVars, ~interrupted'
             PROVE  Rest'
  BY DEF ConfigInv
<1>1. ASSUME NEW k \in Keys, NEW x \in Inputs, UpdateConfig(k, x)
      PROVE  Rest'
  <2> DEFINE new == ValidateValue(k, x)
             v == overrides[2]
             w == [v EXCEPT ![k] = new]
  <2>1. /\ request.step = "none" /\ ~interrupted /\ v \in Overrides /\ UNCHANGED history
        /\ history[2] \in Seq(Entries) /\ Len(history[2]) <= MaxHistory
        /\ Accounts(history[2], Resolved(v))
    BY <1>1 DEF UpdateConfig, ConfigInv, NextValues
  <2>2. new \in SettingValues /\ new # Unset
    BY <1>1, ValuesAreSet DEF UpdateConfig, SettingValues
  <2>3. /\ request'.step = "overrides" /\ request'.key = k /\ request'.new = new
        /\ request'.values = w /\ request'.old = Resolved(v)[k]
    BY <1>1 DEF UpdateConfig, ResolveValue, Resolved
  <2> HIDE DEF new
  <2>4. w \in Overrides /\ Resolved(w) = [Resolved(v) EXCEPT ![k] = new]
    BY <2>1, <2>2 DEF Overrides, Resolved
  <2>5. Resolved(v) \in [Keys -> SettingValues]
    BY <2>1, ResolvedType
  <2> HIDE DEF v, w
  <2>6. [Resolved(w) EXCEPT ![k] = Resolved(v)[k]] = Resolved(v)
    BY <2>4, <2>5
  <2>7. NextValues' = w
    BY <2>3 DEF NextValues
  <2> QED
    BY <2>1, <2>2, <2>3, <2>4, <2>5, <2>6, <2>7 DEF Pending
<1>2. CASE OverridesSaved
  <2>1. /\ request.step = "overrides" /\ ~interrupted /\ UNCHANGED history
        /\ request'.step = "history" /\ request'.key = request.key /\ request'.old = request.old
        /\ request'.new = request.new /\ overrides'[2] = request.values
    BY <1>2 DEF OverridesSaved
  <2>2. NextValues' = NextValues /\ NextValues \in Overrides /\ Pending
    BY <2>1 DEF NextValues, ConfigInv
  <2> QED
    BY <2>1, <2>2 DEF Pending
<1>3. CASE AppendHistory
  <2>1. /\ request.step = "history" /\ ~interrupted /\ Pending /\ NextValues \in Overrides
        /\ NextValues' = NextValues
        /\ request'.step = "broadcast"
        /\ request'.values = Trim(Append(history[2], Entry(request)))
    BY <1>3 DEF AppendHistory, ConfigInv, NextValues
  <2> DEFINE k == request.key
             now == Resolved(NextValues)
             before == [now EXCEPT ![k] = request.old]
  <2>2. now \in [Keys -> SettingValues] /\ k \in Keys /\ request.old \in SettingValues
        /\ request.new \in SettingValues /\ now[k] = request.new
    BY <2>1, ResolvedType DEF Pending
  <2> HIDE DEF now, k
  <2>3. /\ before \in [Keys -> SettingValues] /\ before[k] = request.old
        /\ [before EXCEPT ![k] = request.new] = now
    BY <2>2
  <2>4. history[2] \in Seq(Entries) /\ Accounts(history[2], before)
    BY <2>1 DEF Pending, now, k
  <2> HIDE DEF before
  <2>5. LET e == [key |-> k, old |-> before[k], new |-> request.new] IN
        /\ Append(history[2], e) \in Seq(Entries)
        /\ Accounts(Append(history[2], e), now)
    BY <2>2, <2>3, <2>4, AppendAccounts
  <2>6. Append(history[2], Entry(request)) \in Seq(Entries)
        /\ Accounts(Append(history[2], Entry(request)), now)
    BY <2>3, <2>5 DEF Entry, k
  <2> QED
    BY <2>1, <2>6, TrimAccounts DEF now
<1>4. CASE Broadcast
  <2>1. /\ request.step = "broadcast" /\ ~interrupted /\ history'[2] = request.values
        /\ request'.step = "none" /\ NextValues' = NextValues
    BY <1>4 DEF Broadcast, NoRequest, NextValues
  <2> QED
    BY <2>1 DEF ConfigInv
<1>5. CASE RestartConfig
  <2>1. /\ request.step = "none" /\ ~interrupted /\ UNCHANGED history
        /\ request'.step = "none" /\ NextValues' = NextValues
    BY <1>5 DEF RestartConfig, NoRequest, NextValues
  <2> QED
    BY <2>1 DEF ConfigInv
<1>6. ASSUME NEW p \in Pages, OpenPage(p) \/ SendToPage(p) \/ ClosePage(p)
      PROVE  Rest'
  BY <1>6 DEF OpenPage, SendToPage, ClosePage, ConfigInv, NextValues, Pending
<1>7. CASE UNCHANGED configVars
  BY <1>7 DEF configVars, ConfigInv, NextValues, Pending
<1> QED
  BY <1>1, <1>2, <1>3, <1>4, <1>5, <1>6, <1>7 DEF ConfigNext

\* Whatever settings are changed, in whatever order, and however much of the
\* history was cut: as long as no update was interrupted, its entries lead to the
\* values in force.
THEOREM HistoryAccounts == ConfigSpec => []HistoryAccountsForValues
<1>1. ConfigInv => HistoryAccountsForValues
  BY DEF ConfigInv, HistoryAccountsForValues, NextValues, Resolved, ResolveValue, Pending
<1> QED
  BY ConfigInvInit, ConfigInvStep, <1>1, PTL DEF ConfigSpec
-----------------------------------------------------------------------------
(* The console *)

\* Every field is one that was there at first or has been seen since.
SightInv == sight = [f \in DOMAIN Sights |-> sight[f]] /\ \A f \in DOMAIN Sights : sight[f] \in SeenOf(f)

LEMMA SightInvInit == ConsoleInit => SightInv
  BY ConsoleAssumption DEF ConsoleInit, SightInv, SeenOf

LEMMA SightInvStep == SightInv /\ [ConsoleNext]_sight => SightInv'
<1> SUFFICES ASSUME SightInv, [ConsoleNext]_sight PROVE SightInv'
  OBVIOUS
<1>1. CASE UNCHANGED sight
  BY <1>1 DEF SightInv
<1>2. CASE Observe
  <2>1. PICK f \in DOMAIN Sights : \E v \in Sights[f] : sight' = [sight EXCEPT ![f] = v]
    BY <1>2 DEF Observe
  <2>2. PICK v \in Sights[f] : sight' = [sight EXCEPT ![f] = v]
    BY <2>1
  <2> QED
    BY <2>2 DEF SightInv, SeenOf
<1> QED
  BY <1>1, <1>2 DEF ConsoleNext

Statuses == {"ERROR", "WARNING", "UNKNOWN", "OK", "NOT_APPLICABLE", "UNOBSERVED"}

\* The sections only say what can be graded.
LEMMA SectionsAreStatuses == ASSUME NEW o PROVE Range(ConsoleSections(o)) \subseteq Statuses
<1>1. UpstreamSection(o) \in Statuses
  BY DEF UpstreamSection, SourceSection, Statuses
<1>2. CanonicalSection(o) \in Statuses
  BY DEF CanonicalSection, Statuses
<1>3. DerivedSection(o) \in Statuses
  BY DEF DerivedSection, Statuses
<1>4. RuntimeSection(o) \in Statuses
  BY DEF RuntimeSection, Statuses
<1>5. BackendSection(o) \in Statuses
  BY DEF BackendSection, Statuses
<1>6. RecordSection(o) \in Statuses
  BY DEF RecordSection, Statuses
<1>7. TileSection(o) \in Statuses
  BY DEF TileSection, Statuses
<1> QED
  BY <1>1, <1>2, <1>3, <1>4, <1>5, <1>6, <1>7 DEF Range, ConsoleSections

\* Overall OK is the worst, so that no section is worse than that.
LEMMA NothingIsWorse ==
    ASSUME NEW o, Overall(o) = "OK"
    PROVE  \A name \in DOMAIN ConsoleSections(o) :
               ConsoleSections(o)[name] \in {"OK", "NOT_APPLICABLE", "UNOBSERVED"}
<1> DEFINE grades == {Grade(status) : status \in Range(ConsoleSections(o))}
<1>1. Max(grades) = 0
  BY DEF Overall
<1>2. grades \subseteq -1 .. 3 /\ grades # {}
  BY SectionsAreStatuses DEF Statuses, Grade, Range, ConsoleSections
<1>3. \A g \in grades : g <= Max(grades)
  <2>1. \E x \in grades : \A y \in grades : x >= y
    <3>1. CASE 3 \in grades
      BY <3>1, <1>2
    <3>2. CASE 3 \notin grades /\ 2 \in grades
      BY <3>2, <1>2
    <3>3. CASE 3 \notin grades /\ 2 \notin grades /\ 1 \in grades
      BY <3>3, <1>2
    <3>4. CASE 3 \notin grades /\ 2 \notin grades /\ 1 \notin grades /\ 0 \in grades
      BY <3>4, <1>2
    <3>5. CASE 3 \notin grades /\ 2 \notin grades /\ 1 \notin grades /\ 0 \notin grades
      BY <3>5, <1>2
    <3> QED
      BY <3>1, <3>2, <3>3, <3>4, <3>5
  <2> HIDE DEF grades
  <2> QED
    BY <2>1, <1>2 DEF Max
<1> QED
  <2> SUFFICES ASSUME NEW name \in DOMAIN ConsoleSections(o)
               PROVE  ConsoleSections(o)[name] \in {"OK", "NOT_APPLICABLE", "UNOBSERVED"}
    OBVIOUS
  <2>1. ConsoleSections(o)[name] \in Range(ConsoleSections(o))
    BY DEF Range
  <2>2. Grade(ConsoleSections(o)[name]) <= 0
    BY <2>1, <1>1, <1>3
  <2> QED
    BY <2>1, <2>2, SectionsAreStatuses DEF Statuses, Grade

\* A source that is OK is made of the registered files.
LEMMA SourceIsRegistered ==
    ASSUME NEW o, SourceSection(o) = "OK",
           o.def.expected = [n \in DOMAIN o.def.expected |-> o.def.expected[n]]
    PROVE  /\ ShaByName(SourceRecord(o).files) = o.def.expected
           /\ Missing \notin Range(o.def.expected)
           /\ ToSet(NamesOf(SourceRecord(o).files)) = DOMAIN o.def.expected
<1> DEFINE files == SourceRecord(o).files
           actual == ShaByName(files)
<1>1. SourceValidity(o) = "valid"
  BY DEF SourceSection
<1>2. Identity(o.def, files) = "EXPECTED_SOURCE_MATCH"
  BY <1>1 DEF SourceValidity
<1>3. /\ DOMAIN actual = DOMAIN o.def.expected
      /\ \A n \in DOMAIN actual : ~Differs(o.def, actual, n) /\ Missing \notin {actual[n], o.def.expected[n]}
  BY <1>2 DEF Identity
<1>4. \A n \in DOMAIN actual : actual[n] = o.def.expected[n] /\ o.def.expected[n] # Missing
  BY <1>3 DEF Differs
<1>5. DOMAIN actual = ToSet(NamesOf(files)) /\ actual = [n \in DOMAIN actual |-> actual[n]]
  BY DEF ShaByName
<1> HIDE DEF actual, files
<1>6. actual = o.def.expected
  BY <1>3, <1>4, <1>5
<1>7. Missing \notin Range(o.def.expected)
  BY <1>3, <1>4 DEF Range
<1> QED
  BY <1>3, <1>5, <1>6, <1>7 DEF actual, files

\* A runtime that is OK is what this node would publish, with its record verified.
LEMMA RuntimeIsOurs ==
    ASSUME NEW o, RuntimeSection(o) \in {"OK", "NOT_APPLICABLE", "UNOBSERVED"},
           RecordSection(o) \in {"OK", "NOT_APPLICABLE", "UNOBSERVED"}
    PROVE  /\ o.view.ok /\ o.view.artifact \notin o.def.superseded
           /\ o.view.artifact # Missing /\ SourceSha(o) = o.view.artifact
           /\ RecordStatus(o) = "VERIFIED"
<1>1. RuntimeStatus(o) = "published"
  BY DEF RuntimeSection
<1>2. /\ o.view.ok /\ o.view.artifact \notin o.def.superseded
      /\ o.view.artifact # Missing /\ SourceSha(o) = o.view.artifact
  BY <1>1 DEF RuntimeStatus
<1>3. RecordStatus(o) = "VERIFIED"
  BY <1>2 DEF RecordSection, HasRecord
<1> QED
  BY <1>2, <1>3

\* Whatever the files of the node say, each from a time of its own: when the console
\* calls everything OK, the chain from the source to the tile holds.
THEOREM ConsoleTellsTheTruth == ConsoleSpec => []OkChainHolds
<1>1. SightInv => OkChainHolds
  <2> SUFFICES ASSUME SightInv, Overall(sight) = "OK"
               PROVE  OkChainHolds
    BY DEF OkChainHolds
  <2> DEFINE o == sight
             Fine == {"OK", "NOT_APPLICABLE", "UNOBSERVED"}
  <2>1. /\ UpstreamSection(o) \in Fine /\ CanonicalSection(o) \in Fine /\ DerivedSection(o) \in Fine
        /\ RuntimeSection(o) \in Fine /\ RecordSection(o) \in Fine /\ TileSection(o) \in Fine
    BY NothingIsWorse DEF ConsoleSections
  <2>2. /\ o.meta = Missing \/ o.meta = [source |-> o.meta.source, artifact |-> o.meta.artifact]
        /\ o.def.expected = [n \in DOMAIN o.def.expected |-> o.def.expected[n]]
        /\ RegionCodes(o.def, DOMAIN o.def.expected) \subseteq {o.def.code}
    BY ConsoleAssumption DEF SightInv
  <2>3. o.upstream = Missing => SourceSection(o) = "OK"
    BY <2>1 DEF UpstreamSection, SourceSection
  <2>4. o.upstream = Missing =>
           /\ ShaByName(SourceRecord(o).files) = o.def.expected
           /\ Missing \notin Range(o.def.expected)
           /\ RegionCodes(o.def, ToSet(NamesOf(SourceRecord(o).files))) \subseteq {o.def.code}
    BY <2>2, <2>3, SourceIsRegistered
  <2>5. o.upstream # Missing =>
           /\ \A i \in o.upstream.inputs : i.actual = i.expected /\ i.source = "OK"
           /\ o.upstream.output = o.upstream.expected
    BY <2>1 DEF UpstreamSection
  <2>6. /\ o.view.ok /\ o.view.artifact \notin o.def.superseded
        /\ o.view.artifact # Missing /\ SourceSha(o) = o.view.artifact
        /\ RecordStatus(o) = "VERIFIED"
    BY <2>1, RuntimeIsOurs
  <2>7. Flood(o) /\ o.canonical # Missing =>
           /\ o.meta = [source |-> o.canonical, artifact |-> o.view.artifact]
           /\ o.view.record.canonical = o.canonical
    <3> SUFFICES ASSUME Flood(o), o.canonical # Missing
                 PROVE  /\ o.meta = [source |-> o.canonical, artifact |-> o.view.artifact]
                        /\ o.view.record.canonical = o.canonical
      OBVIOUS
    <3>1. o.meta # Missing /\ o.canonical = o.meta.source
      BY <2>1 DEF DerivedSection
    <3>2. o.meta.artifact = o.view.artifact
      BY <3>1, <2>6 DEF SourceSha, HasMeta
    <3>3. o.view.record.artifact = o.view.artifact /\ o.view.record.canonical = o.meta.source
      BY <3>1, <3>2, <2>6 DEF RecordStatus
    <3> QED
      BY <3>1, <3>2, <3>3, <2>2
  <2>8. ~Flood(o) => o.canonical = o.view.artifact
    BY <2>6 DEF SourceSha
  <2>9. o.def.tile # "not_applicable" /\ o.view.tile # Missing => o.tile.mirror = o.view.tile
    BY <2>1, <2>6 DEF TileSection
  <2> QED
    BY <2>4, <2>5, <2>6, <2>7, <2>8, <2>9 DEF OkChainHolds
<1> QED
  BY SightInvInit, SightInvStep, <1>1, PTL DEF ConsoleSpec

-----------------------------------------------------------------------------
(* Warnings *)

AlertReports == [at : Nat, area : AlertAreas, code : AlertCodes, lifted : BOOLEAN]

\* What Latest() may have kept.
Kept == UNION {[D -> AlertReports] : D \in SUBSET (AlertAreas \X AlertCodes)}

LEMMA NewerKeeps ==
    ASSUME NEW kept \in Kept, NEW e \in AlertReports
    PROVE  Newer(kept, e) \in Kept
<1>1. PICK D \in SUBSET (AlertAreas \X AlertCodes) : kept \in [D -> AlertReports]
  BY DEF Kept
<1>2. Pair(e) \in AlertAreas \X AlertCodes
  BY DEF Pair, AlertReports
<1>3. [p \in DOMAIN kept \cup {Pair(e)} |-> IF p = Pair(e) THEN e ELSE kept[p]]
          \in [D \cup {Pair(e)} -> AlertReports]
  BY <1>1
<1>4. D \cup {Pair(e)} \in SUBSET (AlertAreas \X AlertCodes)
  BY <1>2
<1>5. [p \in DOMAIN kept \cup {Pair(e)} |-> IF p = Pair(e) THEN e ELSE kept[p]] \in Kept
  BY <1>3, <1>4 DEF Kept
<1> QED
  BY <1>5 DEF Newer

\* Latest() is built up report by report.
LEMMA LatestByReport ==
    ASSUME NEW entries \in Seq(AlertReports)
    PROVE  \E h : /\ h[0] = <<>> /\ h[Len(entries)] = Latest(entries)
                  /\ \A k \in 1..Len(entries) : h[k] = Newer(h[k - 1], entries[k])
<1> DEFINE n == Len(entries)
           Is(it) == it = [s \in SUBSET DOMAIN entries |->
                             IF s = {} THEN <<>> ELSE Newer(it[s \ {Max(s)}], entries[Max(s)])]
           iter == CHOOSE it : Is(it)
           pick == [s \in SUBSET (1..n) |-> IF s = {} THEN 0 ELSE Max(s)]
           step == [p \in Kept \X (1..n) |-> Newer(p[1], entries[p[2]])]
<1>1. n \in Nat /\ DOMAIN entries = 1..n /\ \A k \in 1..n : entries[k] \in AlertReports
  BY ElementOfSeq, LenProperties
<1>2. <<>> \in Kept
  <2>1. <<>> \in [{} -> AlertReports]
    OBVIOUS
  <2> QED
    BY <2>1 DEF Kept
<1>3. \A s \in SUBSET (1..n) : s # {} => pick[s] \in s /\ pick[s] = Max(s)
  <2> TAKE s \in SUBSET (1..n)
  <2> SUFFICES ASSUME s # {} PROVE Max(s) \in s
    OBVIOUS
  <2> QED
    <3>1. s \in SUBSET Int /\ n \in Int /\ \A y \in s : y <= n
      BY <1>1
    <3> QED
      BY <3>1, MaxOfBounded
<1>4. \A v \in Kept, k \in 1..n : step[<<v, k>>] = Newer(v, entries[k]) /\ step[<<v, k>>] \in Kept
  BY <1>1, NewerKeeps
<1>5. \E it : Is(it)
  <2>1. PICK it : Folds(it, 1..n, Kept, <<>>, pick, step)
    <3>1. IsFiniteSet(1..n)
      BY <1>1, FS_Interval
    <3>2. \A s \in SUBSET (1..n) : s # {} => pick[s] \in s
      BY <1>3
    <3>3. \A v \in Kept, x \in 1..n : step[<<v, x>>] \in Kept
      BY <1>4
    <3> HIDE DEF pick, step, n
    <3> QED
      BY ONLY <1>2, <3>1, <3>2, <3>3, FoldExists, Zenon
  <2>2. \A s \in SUBSET (1..n) :
            it[s] = IF s = {} THEN <<>> ELSE Newer(it[s \ {Max(s)}], entries[Max(s)])
    <3> HIDE DEF pick, step
    <3> QED
      BY <2>1, <1>1, <1>3, <1>4 DEF Folds
  <2>3. Is(it)
    BY <2>1, <2>2, <1>1 DEF Folds
  <2> QED
    BY <2>3
<1>6. Is(iter)
  <2> HIDE DEF Is
  <2> QED
    BY <1>5
<1>7. Latest(entries) = iter[1..n]
  BY <1>1 DEF Latest, FoldLeft, MapThenFoldSet
<1> DEFINE h == [k \in 0..n |-> iter[1..k]]
<1>8. h[0] = <<>> /\ h[n] = Latest(entries)
  <2> HIDE DEF iter
  <2> QED
    BY <1>1, <1>6, <1>7
<1>9. \A k \in 1..n : h[k] = Newer(h[k - 1], entries[k])
  <2> TAKE k \in 1..n
  <2>1. Max(1..k) = k /\ (1..k) \ {k} = 1..(k - 1) /\ 1..k # {} /\ 1..k \in SUBSET (1..n)
    BY <1>1, MaxOfInterval
  <2>2. iter[1..k] = Newer(iter[1..(k - 1)], entries[k])
    <3> HIDE DEF iter
    <3> QED
      BY <1>1, <1>6, <2>1
  <2> QED
    BY <1>1, <2>2
<1> HIDE DEF h
<1> QED
  BY <1>8, <1>9

\* Report i is the last word on its kind of warning among the first k.
LastAmong(entries, k, i) ==
    \A j \in 1..k : Pair(entries[j]) = Pair(entries[i]) =>
        entries[j].at < entries[i].at \/ (entries[j].at = entries[i].at /\ j <= i)

\* `kept` has the last word on each kind of warning that the first k reports are about.
Settles(kept, entries, k) ==
    /\ DOMAIN kept = {Pair(entries[i]) : i \in 1..k}
    /\ \A p \in DOMAIN kept : \E i \in 1..k :
           Pair(entries[i]) = p /\ kept[p] = entries[i] /\ LastAmong(entries, k, i)

LEMMA ReportsInFile ==
    ASSUME NEW entries \in Seq(AlertReports)
    PROVE  /\ Len(entries) \in Nat /\ DOMAIN entries = 1..Len(entries)
           /\ \A i \in 1..Len(entries) : entries[i] \in AlertReports /\ entries[i].at \in Nat
<1>1. Len(entries) \in Nat /\ DOMAIN entries = 1..Len(entries)
  BY LenProperties
<1>2. \A i \in 1..Len(entries) : entries[i] \in AlertReports
  BY ElementOfSeq
<1> QED
  BY <1>1, <1>2 DEF AlertReports

LEMMA NewerSettles ==
    ASSUME NEW entries \in Seq(AlertReports), NEW k \in 1..Len(entries),
           NEW kept, Settles(kept, entries, k - 1)
    PROVE  Settles(Newer(kept, entries[k]), entries, k)
<1> DEFINE e == entries[k]
           new == Newer(kept, e)
<1>1. /\ Len(entries) \in Nat /\ k \in Nat /\ k > 0
      /\ 1..k = (1..(k - 1)) \cup {k}
      /\ \A i \in 1..k : entries[i].at \in Nat
  BY ReportsInFile
<1>2. ASSUME Pair(e) \in DOMAIN kept, kept[Pair(e)].at > e.at
      PROVE  Settles(kept, entries, k)
  <2>1. PICK i \in 1..(k - 1) :
            Pair(entries[i]) = Pair(e) /\ kept[Pair(e)] = entries[i] /\ LastAmong(entries, k - 1, i)
    BY <1>2 DEF Settles
  <2>2. DOMAIN kept = {Pair(entries[j]) : j \in 1..k}
    BY <1>1, <2>1 DEF Settles
  <2>3. ASSUME NEW p \in DOMAIN kept
        PROVE  \E j \in 1..k : Pair(entries[j]) = p /\ kept[p] = entries[j] /\ LastAmong(entries, k, j)
    <3>1. PICK j \in 1..(k - 1) :
              Pair(entries[j]) = p /\ kept[p] = entries[j] /\ LastAmong(entries, k - 1, j)
      BY DEF Settles
    <3>2. Pair(e) = p => entries[k].at < entries[j].at
      BY <1>1, <1>2, <3>1
    <3>3. LastAmong(entries, k, j)
      BY <1>1, <3>1, <3>2 DEF LastAmong
    <3> QED
      BY <1>1, <3>1, <3>3
  <2> QED
    BY <2>2, <2>3 DEF Settles
<1>3. ASSUME ~(Pair(e) \in DOMAIN kept /\ kept[Pair(e)].at > e.at)
      PROVE  Settles(new, entries, k)
  <2>1. new = [p \in DOMAIN kept \cup {Pair(e)} |-> IF p = Pair(e) THEN e ELSE kept[p]]
    BY <1>3 DEF Newer
  <2>2. DOMAIN new = {Pair(entries[j]) : j \in 1..k}
    <3>1. DOMAIN new = DOMAIN kept \cup {Pair(e)}
      BY <2>1
    <3> QED
      BY <1>1, <3>1 DEF Settles
  <2>3. new[Pair(e)] = entries[k]
    BY <2>1
  <2>4. LastAmong(entries, k, k)
    <3> SUFFICES ASSUME NEW j \in 1..(k - 1), Pair(entries[j]) = Pair(e)
                 PROVE  entries[j].at <= entries[k].at
      BY <1>1 DEF LastAmong
    <3>1. Pair(e) \in DOMAIN kept
      BY DEF Settles
    <3>2. PICK i \in 1..(k - 1) :
            Pair(entries[i]) = Pair(e) /\ kept[Pair(e)] = entries[i] /\ LastAmong(entries, k - 1, i)
      BY <3>1 DEF Settles
    <3>3. entries[j].at <= entries[i].at /\ entries[i].at <= entries[k].at
      BY <1>1, <1>3, <3>1, <3>2 DEF LastAmong
    <3> QED
      BY <1>1, <3>3
  <2>5. ASSUME NEW p \in DOMAIN new, p # Pair(e)
        PROVE  \E j \in 1..k : Pair(entries[j]) = p /\ new[p] = entries[j] /\ LastAmong(entries, k, j)
    <3>1. p \in DOMAIN kept /\ new[p] = kept[p]
      BY <2>1, <2>5
    <3>2. PICK j \in 1..(k - 1) :
              Pair(entries[j]) = p /\ kept[p] = entries[j] /\ LastAmong(entries, k - 1, j)
      BY <3>1 DEF Settles
    <3>3. LastAmong(entries, k, j)
      BY <1>1, <2>5, <3>2 DEF LastAmong
    <3> QED
      BY <1>1, <3>1, <3>2, <3>3
  <2> HIDE DEF new
  <2> QED
    BY <1>1, <2>2, <2>3, <2>4, <2>5 DEF Settles
<1> QED
  BY <1>2, <1>3 DEF Newer

\* Latest() has the last word on each kind of warning.
LEMMA LatestSettles ==
    ASSUME NEW entries \in Seq(AlertReports)
    PROVE  Settles(Latest(entries), entries, Len(entries))
<1> DEFINE n == Len(entries)
<1>1. PICK h : /\ h[0] = <<>> /\ h[n] = Latest(entries)
               /\ \A k \in 1..n : h[k] = Newer(h[k - 1], entries[k])
  BY LatestByReport
<1> DEFINE S == {k \in Nat : k \in 0..n => Settles(h[k], entries, k)}
<1>2. n \in Nat
  BY LenProperties
<1>3. 0 \in S
  BY <1>1 DEF Settles
<1>4. ASSUME NEW k \in Nat, k \in S PROVE k + 1 \in S
  <2> SUFFICES ASSUME k + 1 \in 0..n PROVE Settles(h[k + 1], entries, k + 1)
    OBVIOUS
  <2>1. k + 1 \in 1..n /\ (k + 1) - 1 = k /\ k \in 0..n
    BY <1>2
  <2>2. Settles(h[k], entries, k) /\ h[k + 1] = Newer(h[k], entries[k + 1])
    BY <1>1, <1>4, <2>1
  <2>3. Settles(Newer(h[k], entries[k + 1]), entries, k + 1)
    BY <2>1, <2>2, NewerSettles
  <2> QED
    BY <2>2, <2>3
<1>5. n \in S
  <2> HIDE DEF S
  <2> QED
    BY <1>2, <1>3, <1>4, Induction
<1> QED
  BY <1>1, <1>2, <1>5

\* The reports of the new file are reports.
FileType == publisher = "r8" => issued \in Nat /\ reports \in Seq(AlertReports)

LEMMA FileTypeHolds == AlertSpec => []FileType
<1>1. AlertInit => FileType
  BY EmptySeq DEF AlertInit, FileType
<1>2. FileType /\ [AlertNext]_alertVars => FileType'
  <2> SUFFICES ASSUME FileType, [AlertNext]_alertVars PROVE FileType'
    OBVIOUS
  <2>1. ASSUME NEW area \in AlertAreas, NEW code \in AlertCodes, NEW lifted \in BOOLEAN,
               IssueReport(area, code, lifted)
        PROVE  FileType'
    <3>1. PICK when \in {issued, issued + 1} :
              LET e == [at |-> when, area |-> area, code |-> code, lifted |-> lifted] IN
              /\ issued' = when
              /\ reports' \in {Append(reports, e)}
                              \cup IF when > issued THEN {<<e>> \o reports} ELSE {}
      BY <2>1 DEF IssueReport
    <3> DEFINE e == [at |-> when, area |-> area, code |-> code, lifted |-> lifted]
    <3>2. issued \in Nat /\ reports \in Seq(AlertReports)
      BY <2>1 DEF IssueReport, FileType
    <3>3. when \in Nat /\ e \in AlertReports
      BY <3>2 DEF AlertReports
    <3>4. <<e>> \in Seq(AlertReports)
      BY <3>3
    <3> HIDE DEF e
    <3>5. Append(reports, e) \in Seq(AlertReports) /\ <<e>> \o reports \in Seq(AlertReports)
      BY <3>2, <3>3, <3>4, AppendProperties, ConcatProperties
    <3> QED
      BY <3>1, <3>3, <3>5 DEF FileType, e
  <2>2. ASSUME NEW how \in {"legacy", "down"}, PublisherChanges(how) PROVE FileType'
    BY <2>2 DEF PublisherChanges, FileType
  <2>3. CASE UNCHANGED alertVars
    BY <2>3 DEF alertVars, FileType
  <2> QED
    BY <2>1, <2>2, <2>3 DEF AlertNext
<1> QED
  BY <1>1, <1>2, PTL DEF AlertSpec

\* A place is told of a kind of warning that is in force in its area, and of no other,
\* however many reports there are and in whatever order they stand in the file.
THEOREM InForceIsListedHolds == AlertSpec => []InForceIsListed
<1>1. FileType => InForceIsListed
  <2> SUFFICES ASSUME FileType, publisher = "r8", NEW city \in DOMAIN CityArea, NEW code \in AlertCodes
               PROVE  (LastWord(CityArea[city], code) = "in_force")
                      <=> (\E a \in AlertsForLocation(city).alerts : a.code = code)
    BY DEF InForceIsListed
  <2> DEFINE area == CityArea[city]
             n == Len(reports)
             latest == Latest(reports)
             about == {i \in DOMAIN reports : Pair(reports[i]) = <<area, code>>}
             last == CHOOSE i \in about : \A j \in about :
                         \/ reports[j].at < reports[i].at
                         \/ reports[j].at = reports[i].at /\ j <= i
  <2>1. /\ reports \in Seq(AlertReports) /\ DOMAIN reports = 1..n /\ n \in Nat
        /\ \A i \in 1..n : reports[i] \in AlertReports /\ reports[i].at \in Nat
    BY ReportsInFile DEF FileType
  <2>2. Settles(latest, reports, n)
    BY <2>1, LatestSettles
  <2>3. (\E a \in AlertsForLocation(city).alerts : a.code = code)
        <=> <<area, code>> \in DOMAIN latest /\ ~latest[<<area, code>>].lifted
    <3>1. AlertsForLocation(city).alerts = {i \in R8Items(reports) : i.area = area}
      BY DEF AlertsForLocation, FilteredForCity
    <3>2. \A p \in DOMAIN latest : /\ p = <<latest[p].area, latest[p].code>>
                                   /\ AlertItem(latest[p]).area = latest[p].area
                                   /\ AlertItem(latest[p]).code = latest[p].code
      BY <2>2 DEF Settles, Pair, AlertItem
    <3>3. R8Items(reports) = {AlertItem(latest[p]) : p \in {q \in DOMAIN latest : ~latest[q].lifted}}
      BY DEF R8Items
    <3> HIDE DEF latest
    <3>4. ASSUME NEW a \in AlertsForLocation(city).alerts, a.code = code
          PROVE  <<area, code>> \in DOMAIN latest /\ ~latest[<<area, code>>].lifted
      <4>1. PICK p \in DOMAIN latest : ~latest[p].lifted /\ a = AlertItem(latest[p])
        BY <3>1, <3>3
      <4>2. p = <<area, code>>
        BY <3>1, <3>2, <3>4, <4>1
      <4> QED
        BY <4>1, <4>2
    <3>5. ASSUME <<area, code>> \in DOMAIN latest, ~latest[<<area, code>>].lifted
          PROVE  \E a \in AlertsForLocation(city).alerts : a.code = code
      <4> DEFINE a == AlertItem(latest[<<area, code>>])
      <4>1. a \in R8Items(reports)
        BY <3>3, <3>5
      <4>2. a.area = area /\ a.code = code
        BY <3>2, <3>5
      <4> QED
        BY <3>1, <4>1, <4>2
    <3> QED
      BY <3>4, <3>5
  <2>4. CASE about = {}
    <3>1. <<area, code>> \notin DOMAIN latest
      BY <2>1, <2>2, <2>4 DEF Settles
    <3>2. LastWord(area, code) = "never"
      BY <2>4 DEF LastWord
    <3> QED
      BY <2>3, <3>1, <3>2
  <2>5. CASE about # {}
    <3>1. <<area, code>> \in DOMAIN latest
      BY <2>1, <2>2, <2>5 DEF Settles
    <3>2. PICK i \in 1..n : /\ Pair(reports[i]) = <<area, code>> /\ latest[<<area, code>>] = reports[i]
                            /\ LastAmong(reports, n, i)
      BY <2>2, <3>1 DEF Settles
    <3>3. i \in about /\ \A j \in about : \/ reports[j].at < reports[i].at
                                          \/ reports[j].at = reports[i].at /\ j <= i
      BY <2>1, <3>2 DEF LastAmong
    <3>4. \A k \in about : (\A j \in about : \/ reports[j].at < reports[k].at
                                             \/ reports[j].at = reports[k].at /\ j <= k) => k = i
      BY <2>1, <3>3
    <3>5. last = i
      BY <3>3, <3>4
    <3>6. LastWord(area, code) = IF reports[i].lifted THEN "lifted" ELSE "in_force"
      <4> HIDE DEF about
      <4>1. LastWord(area, code) = IF about = {} THEN "never" ELSE IF reports[last].lifted THEN "lifted" ELSE "in_force"
        BY DEF LastWord, about
      <4> HIDE DEF last
      <4> QED
        BY <2>5, <3>5, <4>1
    <3> QED
      BY <2>3, <3>1, <3>2, <3>6
  <2> QED
    BY <2>4, <2>5
<1> QED
  BY <1>1, FileTypeHolds, PTL

-----------------------------------------------------------------------------
(* Lists *)

IsList(s) == s \in Seq(ToSet(s))

LEMMA SequencesAreLists ==
    ASSUME NEW T, NEW s \in Seq(T)
    PROVE  IsList(s)
BY DEF IsList, ToSet

LEMMA ListProperties ==
    ASSUME NEW s, IsList(s)
    PROVE  /\ Len(s) \in Nat /\ DOMAIN s = 1..Len(s)
           /\ (s = <<>>) <=> (Len(s) = 0)
           /\ s # <<>> => /\ Head(s) = s[1] /\ Len(Tail(s)) = Len(s) - 1 /\ IsList(Tail(s))
                          /\ \A i \in 1..(Len(s) - 1) : Tail(s)[i] = s[i + 1]
<1>1. s \in Seq(ToSet(s))
  BY DEF IsList
<1>2. Len(s) \in Nat /\ DOMAIN s = 1..Len(s) /\ ((s = <<>>) <=> (Len(s) = 0))
  BY <1>1, LenProperties, EmptySeq
<1>3. ASSUME s # <<>>
      PROVE  /\ Head(s) = s[1] /\ Len(Tail(s)) = Len(s) - 1 /\ IsList(Tail(s))
             /\ \A i \in 1..(Len(s) - 1) : Tail(s)[i] = s[i + 1]
  <2>1. Tail(s) \in Seq(ToSet(s)) /\ Head(s) = s[1] /\ Len(Tail(s)) = Len(s) - 1
        /\ \A i \in 1..(Len(s) - 1) : Tail(s)[i] = s[i + 1]
    BY <1>1, <1>2, <1>3, HeadTailProperties
  <2>2. Tail(s) \in Seq(ToSet(Tail(s)))
    BY <2>1, SequencesAreLists DEF IsList
  <2> QED
    BY <2>1, <2>2 DEF IsList
<1> QED
  BY <1>2, <1>3

\* FlattenSeq() is built up part by part.
LEMMA FlattenByPart ==
    ASSUME NEW parts, Len(parts) \in Nat, Len(parts) > 0
    PROVE  \E h : /\ h[1] = parts[1] /\ h[Len(parts)] = FlattenSeq(parts)
                  /\ \A k \in 2..Len(parts) : h[k] = h[k - 1] \o parts[k]
<1> DEFINE n == Len(parts)
           Is(f, k) == f = [i \in 1..k |-> IF i = 1 THEN parts[i] ELSE f[i - 1] \o parts[i]]
           S == {k \in Nat : k > 0 => \E f : Is(f, k)}
<1>1. ASSUME NEW k \in Nat, k > 0, NEW f, Is(f, k) PROVE \E g : Is(g, k + 1)
  <2> DEFINE g == [i \in 1..(k + 1) |-> IF i <= k THEN f[i] ELSE f[k] \o parts[i]]
  <2>1. \A i \in 1..k : f[i] = IF i = 1 THEN parts[i] ELSE f[i - 1] \o parts[i]
    BY <1>1
  <2>2. \A i \in 1..(k + 1) : g[i] = IF i = 1 THEN parts[i] ELSE g[i - 1] \o parts[i]
    <3> TAKE i \in 1..(k + 1)
    <3>1. CASE i = 1
      BY <1>1, <2>1, <3>1
    <3>2. CASE i # 1 /\ i <= k
      <4>1. i \in 1..k /\ i - 1 \in 1..k /\ i - 1 <= k
        BY <1>1, <3>2
      <4>2. g[i] = f[i] /\ g[i - 1] = f[i - 1]
        BY <4>1
      <4> QED
        BY <2>1, <3>2, <4>1, <4>2
    <3>3. CASE i = k + 1
      <4>1. k \in 1..(k + 1) /\ i - 1 = k /\ ~(i <= k) /\ i # 1
        BY <1>1, <3>3
      <4>2. g[i] = f[k] \o parts[i]
        BY <4>1
      <4>3. g[k] = f[k]
        BY <1>1, <4>1
      <4> QED
        BY <4>1, <4>2, <4>3
    <3> QED
      BY <1>1, <3>1, <3>2, <3>3
  <2>3. Is(g, k + 1)
    BY <2>2
  <2> HIDE DEF Is
  <2> QED
    BY <2>3
<1>2. \E f : Is(f, 1)
  <2>1. Is([i \in 1..1 |-> parts[1]], 1)
    OBVIOUS
  <2> HIDE DEF Is
  <2> QED
    BY <2>1
<1>3. \A k \in Nat : k \in S => k + 1 \in S
  <2> HIDE DEF Is
  <2> TAKE k \in Nat
  <2>1. CASE k = 0
    BY <1>2, <2>1
  <2>2. CASE k > 0
    BY <1>1, <2>2
  <2> QED
    BY <2>1, <2>2
<1>4. n \in S
  <2>1. 0 \in S
    OBVIOUS
  <2> HIDE DEF S
  <2> QED
    BY <1>3, <2>1, Induction
<1> DEFINE flatten == CHOOSE f : Is(f, n)
<1>5. Is(flatten, n)
  <2> HIDE DEF Is
  <2>1. \E f : Is(f, n)
    BY <1>4
  <2> QED
    BY <2>1
<1>6. FlattenSeq(parts) = flatten[n]
  BY DEF FlattenSeq
<1> HIDE DEF flatten
<1>7. \A i \in 1..n : flatten[i] = IF i = 1 THEN parts[i] ELSE flatten[i - 1] \o parts[i]
  BY <1>5
<1>8. flatten[1] = parts[1]
  BY <1>7
<1>9. \A k \in 2..n : flatten[k] = flatten[k - 1] \o parts[k]
  <2> TAKE k \in 2..n
  <2>1. k \in 1..n /\ k # 1
    OBVIOUS
  <2> QED
    BY <1>7, <2>1
<1> QED
  BY <1>6, <1>8, <1>9

\* The lists, one after the other, are a list of what is in them.
LEMMA FlattenIsList ==
    ASSUME NEW T, NEW parts \in Seq(Seq(T))
    PROVE  FlattenSeq(parts) \in Seq(T)
<1>1. Len(parts) \in Nat /\ \A i \in 1..Len(parts) : parts[i] \in Seq(T)
  BY LenProperties, ElementOfSeq
<1>2. CASE Len(parts) = 0
  BY <1>2, EmptySeq DEF FlattenSeq
<1>3. CASE Len(parts) > 0
  <2>1. PICK h : /\ h[1] = parts[1] /\ h[Len(parts)] = FlattenSeq(parts)
                 /\ \A k \in 2..Len(parts) : h[k] = h[k - 1] \o parts[k]
    BY <1>1, <1>3, FlattenByPart
  <2> DEFINE S == {k \in Nat : k \in 1..Len(parts) => h[k] \in Seq(T)}
  <2>2. 0 \in S
    OBVIOUS
  <2>3. ASSUME NEW k \in Nat, k \in S PROVE k + 1 \in S
    <3> SUFFICES ASSUME k + 1 \in 1..Len(parts) PROVE h[k + 1] \in Seq(T)
      OBVIOUS
    <3>1. CASE k = 0
      BY <1>1, <1>3, <2>1, <3>1
    <3>2. CASE k > 0
      <4>0. k \in 1..Len(parts) /\ k + 1 \in 2..Len(parts) /\ (k + 1) - 1 = k
        BY <1>1, <3>2
      <4>1. h[k] \in Seq(T) /\ parts[k + 1] \in Seq(T) /\ h[k + 1] = h[k] \o parts[k + 1]
        BY <1>1, <2>1, <2>3, <4>0
      <4> QED
        BY <4>1, ConcatProperties
    <3> QED
      BY <3>1, <3>2
  <2>4. Len(parts) \in S
    <3> HIDE DEF S
    <3> QED
      BY <1>1, <2>2, <2>3, Induction
  <2> QED
    BY <1>1, <1>3, <2>1, <2>4
<1> QED
  BY <1>1, <1>2, <1>3

-----------------------------------------------------------------------------
(* The list of shelters *)

\* What reading every set of the first n files gives, the last of the set read last.
Reads(it, w, list, paths, n) ==
    it = [s \in SUBSET (1..n) |->
            IF s = {} THEN list ELSE ReadPath(w, it[s \ {Max(s)}], paths[Max(s)])]

LEMMA ReadingExists ==
    ASSUME NEW w, NEW list, NEW paths, NEW n \in Nat
    PROVE  \E it : Reads(it, w, list, paths, n)
<1> DEFINE small(k) == {s \in SUBSET (1..n) : Cardinality(s) <= k}
           Solves(f, k) == \A s \in small(k) :
               f[s] = IF s = {} THEN list ELSE ReadPath(w, f[s \ {Max(s)}], paths[Max(s)])
           G == {k \in Nat : \E f : Solves(f, k)}
<1>0. \A s \in SUBSET (1..n) : /\ IsFiniteSet(s) /\ Cardinality(s) \in Nat
                               /\ Cardinality(s) = 0 <=> s = {}
                               /\ s # {} => /\ Max(s) \in s
                                            /\ Cardinality(s \ {Max(s)}) = Cardinality(s) - 1
  <2> TAKE s \in SUBSET (1..n)
  <2>1. IsFiniteSet(s) /\ Cardinality(s) \in Nat /\ (Cardinality(s) = 0 <=> s = {})
    <3>1. IsFiniteSet(1..n)
      BY FS_Interval
    <3>2. IsFiniteSet(s)
      BY <3>1, FS_Subset
    <3> QED
      BY <3>2, FS_CardinalityType, FS_EmptySet
  <2>2. ASSUME s # {} PROVE Max(s) \in s
    <3>1. s \in SUBSET Int /\ n \in Int /\ \A y \in s : y <= n
      OBVIOUS
    <3> QED
      BY <2>2, <3>1, MaxOfBounded
  <2> QED
    BY <2>1, <2>2, FS_RemoveElement
<1>1. 0 \in G
  <2>1. \A s \in small(0) : s = {}
    <3> TAKE s \in small(0)
    <3>1. Cardinality(s) \in Nat /\ (Cardinality(s) = 0 <=> s = {}) /\ Cardinality(s) <= 0
      BY <1>0
    <3> QED
      BY <3>1
  <2>2. Solves([s \in small(0) |-> list], 0)
    BY <2>1
  <2> HIDE DEF Solves
  <2> QED
    BY <2>2
<1>2. ASSUME NEW k \in Nat, k \in G PROVE k + 1 \in G
  <2>1. PICK f : Solves(f, k)
    BY <1>2
  <2> DEFINE g == [s \in small(k + 1) |->
                     IF s = {} THEN list ELSE ReadPath(w, f[s \ {Max(s)}], paths[Max(s)])]
  <2>2. \A s \in small(k) : s \in small(k + 1) /\ g[s] = f[s]
    <3> TAKE s \in small(k)
    <3>1. s \in SUBSET (1..n) /\ Cardinality(s) <= k /\ Cardinality(s) \in Nat
      BY <1>0
    <3>2. s \in small(k + 1)
      BY <3>1
    <3> QED
      BY <2>1, <3>2
  <2>3. \A s \in small(k + 1) : s # {} => s \ {Max(s)} \in small(k)
    <3> SUFFICES ASSUME NEW s \in SUBSET (1..n), Cardinality(s) <= k + 1, s # {}
                 PROVE  s \ {Max(s)} \in small(k)
      OBVIOUS
    <3>1. Cardinality(s) \in Nat /\ Cardinality(s \ {Max(s)}) = Cardinality(s) - 1
      BY <1>0
    <3>2. Cardinality(s \ {Max(s)}) <= k
      BY <3>1
    <3> QED
      BY <3>2
  <2>4. Solves(g, k + 1)
    <3> TAKE s \in small(k + 1)
    <3>1. CASE s = {}
      BY <3>1
    <3>2. CASE s # {}
      <4>1. g[s \ {Max(s)}] = f[s \ {Max(s)}]
        BY <2>2, <2>3, <3>2
      <4>2. g[s] = ReadPath(w, f[s \ {Max(s)}], paths[Max(s)])
        BY <3>2
      <4> HIDE DEF g
      <4> QED
        BY <3>2, <4>1, <4>2
    <3> QED
      BY <3>1, <3>2
  <2> HIDE DEF g, small, Solves
  <2> QED
    BY <2>4
<1>3. n \in G
  <2> HIDE DEF G
  <2> QED
    BY <1>1, <1>2, Induction
<1>4. PICK f : Solves(f, n)
  BY <1>3
<1>5. small(n) = SUBSET (1..n)
  <2>1. \A s \in SUBSET (1..n) : Cardinality(s) <= n
    <3>1. IsFiniteSet(1..n) /\ Cardinality(1..n) = n
      BY FS_Interval
    <3> QED
      BY <3>1, FS_Subset
  <2> QED
    BY <2>1
<1> DEFINE it == [s \in SUBSET (1..n) |-> f[s]]
<1>6. ASSUME NEW s \in SUBSET (1..n)
      PROVE  it[s] = IF s = {} THEN list ELSE ReadPath(w, it[s \ {Max(s)}], paths[Max(s)])
  <2>1. s \ {Max(s)} \in SUBSET (1..n)
    OBVIOUS
  <2>2. f[s] = IF s = {} THEN list ELSE ReadPath(w, f[s \ {Max(s)}], paths[Max(s)])
    BY <1>4, <1>5
  <2> QED
    BY <2>1, <2>2
<1>7. Reads(it, w, list, paths, n)
  BY <1>6 DEF Reads
<1> HIDE DEF it
<1> QED
  BY <1>7

\* The list is built up file by file.
LEMMA ReadByFile ==
    ASSUME NEW w, NEW list, NEW paths, IsList(paths)
    PROVE  \E h : /\ h[0] = list /\ h[Len(paths)] = LoadPaths(w, list, paths)
                  /\ \A k \in 1..Len(paths) : h[k] = ReadPath(w, h[k - 1], paths[k])
<1> DEFINE n == Len(paths)
           iter == CHOOSE it : Reads(it, w, list, paths, n)
<1>1. n \in Nat /\ DOMAIN paths = 1..n
  BY ListProperties
<1>2. Reads(iter, w, list, paths, n)
  <2> HIDE DEF n
  <2> QED
    BY <1>1, ReadingExists
<1>3. LoadPaths(w, list, paths) = iter[1..n]
  BY <1>1 DEF LoadPaths, FoldLeft, MapThenFoldSet, Reads
<1> HIDE DEF iter
<1> DEFINE h == [k \in 0..n |-> iter[1..k]]
<1>4. h[0] = list /\ h[n] = LoadPaths(w, list, paths)
  BY <1>1, <1>2, <1>3 DEF Reads
<1>5. \A k \in 1..n : h[k] = ReadPath(w, h[k - 1], paths[k])
  <2> TAKE k \in 1..n
  <2>1. Max(1..k) = k /\ (1..k) \ {k} = 1..(k - 1) /\ 1..k # {} /\ 1..k \in SUBSET (1..n)
    BY <1>1, MaxOfInterval
  <2>2. iter[1..k] = ReadPath(w, iter[1..(k - 1)], paths[k])
    BY <1>1, <1>2, <2>1 DEF Reads
  <2> QED
    BY <1>1, <2>2
<1> HIDE DEF h
<1> QED
  BY <1>4, <1>5

\* To read a list of files is to read the first and then the rest.
LEMMA ReadFirst ==
    ASSUME NEW w, NEW list, NEW paths, IsList(paths)
    PROVE  /\ paths = <<>> => LoadPaths(w, list, paths) = list
           /\ paths # <<>> => LoadPaths(w, list, paths)
                                = LoadPaths(w, ReadPath(w, list, Head(paths)), Tail(paths))
<1> DEFINE n == Len(paths)
<1>1. PICK h : /\ h[0] = list /\ h[n] = LoadPaths(w, list, paths)
               /\ \A k \in 1..n : h[k] = ReadPath(w, h[k - 1], paths[k])
  BY ReadByFile
<1>2. paths = <<>> => LoadPaths(w, list, paths) = list
  BY <1>1, ListProperties
<1>3. ASSUME paths # <<>>
      PROVE  LoadPaths(w, list, paths) = LoadPaths(w, ReadPath(w, list, Head(paths)), Tail(paths))
  <2> DEFINE rest == Tail(paths)
             first == ReadPath(w, list, Head(paths))
  <2>1. /\ n \in Nat /\ n > 0 /\ Head(paths) = paths[1] /\ Len(rest) = n - 1 /\ IsList(rest)
        /\ \A i \in 1..(n - 1) : rest[i] = paths[i + 1]
    BY <1>3, ListProperties
  <2>2. PICK g : /\ g[0] = first /\ g[n - 1] = LoadPaths(w, first, rest)
                 /\ \A k \in 1..(n - 1) : g[k] = ReadPath(w, g[k - 1], rest[k])
    <3> HIDE DEF first, rest
    <3> QED
      BY <2>1, ReadByFile
  <2> DEFINE S == {k \in Nat : k \in 0..(n - 1) => g[k] = h[k + 1]}
  <2>3. 0 \in S
    BY <1>1, <2>1, <2>2
  <2>4. ASSUME NEW k \in Nat, k \in S PROVE k + 1 \in S
    <3> SUFFICES ASSUME k + 1 \in 0..(n - 1) PROVE g[k + 1] = h[(k + 1) + 1]
      OBVIOUS
    <3>1. /\ k \in 0..(n - 1) /\ k + 1 \in 1..(n - 1) /\ (k + 1) - 1 = k
          /\ (k + 1) + 1 \in 1..n /\ ((k + 1) + 1) - 1 = k + 1
      BY <2>1
    <3>2. g[k] = h[k + 1] /\ rest[k + 1] = paths[(k + 1) + 1]
      BY <2>1, <2>4, <3>1
    <3> QED
      BY <1>1, <2>2, <3>1, <3>2
  <2>5. n - 1 \in S
    <3>1. n - 1 \in Nat
      BY <2>1
    <3> HIDE DEF S
    <3> QED
      BY <2>3, <2>4, <3>1, Induction
  <2>6. g[n - 1] = h[n]
    BY <2>1, <2>5
  <2> QED
    BY <1>1, <2>2, <2>6
<1> QED
  BY <1>2, <1>3

\* What the flat side has for the datasets that the registry knows to be active.
FlatList == LoadPaths(flatWorld, <<>>, ResolvePaths(flatWorld, held.mappings))

NothingPublished ==
    shelterCurrent = "absent"
    \/ (IsVersion(shelterCurrent) /\ ShelterTrees[shelterCurrent] = NoShelters)

WorldType ==
    /\ shelterCurrent \in DOMAIN ShelterTrees \cup {"absent", "dangling", "not_a_link"}
    /\ flatWorld \in FlatWorlds
    /\ mappingFile \in Seq(DOMAIN LayerOf)
    /\ settled \in 0..(ShelterTtl + 1)

HeldType ==
    /\ held = [list |-> held.list, age |-> held.age, version |-> held.version,
               mappings |-> held.mappings]
    /\ held.age \in 0..(ShelterTtl + 1)
    /\ held.mappings \in Seq(DOMAIN LayerOf)

VisitType ==
    /\ visit = [phase |-> visit.phase, todo |-> visit.todo, list |-> visit.list,
                before |-> visit.before, steady |-> visit.steady]
    /\ visit.phase \in {"idle", "answered", "loading", "reading"} /\ visit.steady \in BOOLEAN
    /\ IsList(visit.todo)

ShelterType == WorldType /\ HeldType /\ VisitType

\* A list that came from a version is the list of that version.
HeldFromVersion ==
    held.version # NoShelters =>
        /\ IsVersion(held.version) /\ ShelterTrees[held.version] # NoShelters
        /\ held.list = LoadFiles(ShelterTrees[held.version])

\* Without a link, a list that was read after the last change is that of the flat side.
HeldFromFlat ==
    shelterCurrent = "absent" /\ settled > held.age /\ held.list # NoShelters
        => held.list = FlatList

\* A visit that reads files, and saw no change, will have the flat side when it is done.
ReadingOn ==
    visit.phase = "reading" =>
        /\ held.version = NoShelters
        /\ visit.steady \/ settled > 0 =>
               NothingPublished /\ LoadPaths(flatWorld, visit.list, visit.todo) = FlatList

\* The list of before a load is still held.
LoadingOn == visit.phase = "loading" => visit.before = held.list

ShelterInv ==
    /\ ShelterType
    /\ HeldFromVersion
    /\ HeldFromFlat
    /\ ReadingOn
    /\ LoadingOn
    /\ NewestSheltersAreListed

LEMMA AbsentIsNoVersion == "absent" \notin DOMAIN ShelterTrees
BY ShelterAssumption

LEMMA TtlIsNumber == ShelterTtl \in Nat
BY ShelterAssumption

\* The files to read are a list.
LEMMA PathsAreList ==
    ASSUME NEW w \in FlatWorlds, NEW m \in Seq(DOMAIN LayerOf)
    PROVE  IsList(ResolvePaths(w, m))
<1>1. CASE m = <<>>
  BY <1>1, ShelterAssumption DEF ResolvePaths, IsList
<1>2. CASE m # <<>>
  <2> DEFINE names == {w.state[d].runtime : d \in DOMAIN w.state}
                        \cup {w.state[d].validated : d \in DOMAIN w.state}
             parts == [i \in DOMAIN m |-> ExactFile(w, m[i])]
  <2>1. ASSUME NEW d PROVE ExactFile(w, d) \in Seq(names)
    <3>1. CASE d \notin DOMAIN w.state
      BY <3>1, EmptySeq DEF ExactFile
    <3>2. CASE d \in DOMAIN w.state
      <4>1. w.state[d].runtime \in names /\ w.state[d].validated \in names
        BY <3>2
      <4> HIDE DEF names
      <4>2. /\ <<w.state[d].runtime>> \in Seq(names) /\ <<w.state[d].validated>> \in Seq(names)
            /\ <<>> \in Seq(names)
        BY <4>1, EmptySeq
      <4>3. ExactFile(w, d) \in {<<w.state[d].runtime>>, <<w.state[d].validated>>, <<>>}
        BY <3>2 DEF ExactFile
      <4> QED
        BY <4>2, <4>3
    <3> QED
      BY <3>1, <3>2
  <2>2. Len(m) \in Nat /\ DOMAIN m = 1..Len(m)
    BY LenProperties
  <2>3. parts \in [1..Len(m) -> Seq(names)]
    BY <2>1, <2>2
  <2>4. parts \in Seq(Seq(names))
    BY <2>2, <2>3, SeqDef
  <2>5. FlattenSeq(parts) \in Seq(names)
    BY <2>4, FlattenIsList
  <2> HIDE DEF names
  <2> QED
    BY <1>2, <2>5, SequencesAreLists DEF ResolvePaths
<1> QED
  BY <1>1, <1>2

LEMMA ShelterInvInit == ShelterInit => ShelterInv
<1> SUFFICES ASSUME ShelterInit PROVE ShelterInv
  OBVIOUS
<1> USE DEF ShelterInit, NoVisit, Started
<1>1. \A d \in DOMAIN LayerOf : <<d>> \in Seq(DOMAIN LayerOf)
  OBVIOUS
<1>2. <<>> \in Seq(DOMAIN LayerOf) /\ IsList(<<>>)
  BY EmptySeq DEF IsList
<1>3. mappingFile \in Seq(DOMAIN LayerOf)
  BY <1>1, <1>2
<1>4. ShelterType
  <2>1. WorldType
    BY <1>3, TtlIsNumber DEF WorldType
  <2>2. HeldType
    BY <1>3, TtlIsNumber DEF HeldType
  <2>3. VisitType
    BY <1>2 DEF VisitType
  <2> QED
    BY <2>1, <2>2, <2>3 DEF ShelterType
<1>5. HeldFromVersion /\ HeldFromFlat /\ ReadingOn /\ LoadingOn /\ NewestSheltersAreListed
  BY DEF HeldFromVersion, HeldFromFlat, ReadingOn, LoadingOn, NewestSheltersAreListed
<1> QED
  BY <1>4, <1>5 DEF ShelterInv

LEMMA AskSheltersKeeps == ShelterInv /\ AskShelters => ShelterInv'
<1> SUFFICES ASSUME ShelterInv, AskShelters PROVE ShelterInv'
  OBVIOUS
<1> USE DEF ShelterInv, ShelterType, AskShelters, NoVisit
<1>1. ShelterType'
  <2>1. IsList(<<>>)
    BY EmptySeq DEF IsList
  <2> QED
    BY <2>1 DEF WorldType, HeldType, VisitType
<1>2. HeldFromVersion' /\ HeldFromFlat'
  BY DEF HeldFromVersion, HeldFromFlat, FlatList, IsVersion
<1>3. ReadingOn' /\ LoadingOn'
  BY DEF ReadingOn, LoadingOn
<1>4. NewestSheltersAreListed'
  <2> SUFFICES ASSUME visit'.phase = "answered" PROVE NewestSheltersAreListed'
    BY DEF NewestSheltersAreListed
  <2>1. ~IsStaleList /\ visit'.list = held.list /\ visit'.before = held.list
    OBVIOUS
  <2>2. CASE IsVersion(shelterCurrent)
    <3>1. held.version = shelterCurrent /\ shelterCurrent # NoShelters
      BY <2>1, <2>2, ShelterAssumption DEF IsStaleList, Peeked, IsVersion
    <3>2. ShelterTrees[shelterCurrent] # NoShelters /\ held.list = LoadFiles(ShelterTrees[shelterCurrent])
      BY <3>1 DEF HeldFromVersion
    <3> QED
      BY <2>1, <2>2, <3>2, AbsentIsNoVersion DEF NewestSheltersAreListed, IsVersion
  <2>3. CASE shelterCurrent = "absent"
    <3>1. settled > ShelterTtl => held.list = FlatList
      BY <2>1, <2>3, ShelterAssumption DEF HeldFromFlat, IsStaleList, WorldType, HeldType, VisitType
    <3>2. ~IsVersion(shelterCurrent)
      BY <2>3, ShelterAssumption DEF IsVersion
    <3> QED
      BY <2>1, <2>3, <3>1, <3>2 DEF NewestSheltersAreListed, IsVersion, FlatList
  <2>4. CASE ~IsVersion(shelterCurrent) /\ shelterCurrent # "absent"
    BY <2>1, <2>4 DEF NewestSheltersAreListed, IsVersion
  <2> QED
    BY <2>2, <2>3, <2>4
<1> QED
  BY <1>1, <1>2, <1>3, <1>4

LEMMA LoadVersionKeeps == ShelterInv /\ LoadVersion => ShelterInv'
<1> SUFFICES ASSUME ShelterInv, LoadVersion PROVE ShelterInv'
  OBVIOUS
<1> USE DEF ShelterInv, ShelterType, LoadVersion, NoVisit, Answering
<1>0. shelterCurrent # "absent"
  BY ShelterAssumption DEF IsVersion
<1>1. ShelterType'
  <2>1. IsList(<<>>)
    BY EmptySeq DEF IsList
  <2>2. WorldType'
    BY DEF WorldType
  <2>3. HeldType'
    <3>1. held' = [list |-> LoadFiles(ShelterTrees[shelterCurrent]), age |-> 0,
                   version |-> shelterCurrent, mappings |-> held.mappings]
      BY DEF HeldType
    <3>2. held.mappings \in Seq(DOMAIN LayerOf) /\ 0 \in 0..(ShelterTtl + 1)
      BY TtlIsNumber DEF HeldType
    <3> QED
      BY ONLY <3>1, <3>2 DEF HeldType
  <2>4. VisitType'
    BY <2>1 DEF VisitType
  <2> QED
    BY <2>2, <2>3, <2>4
<1>2. HeldFromVersion' /\ HeldFromFlat'
  BY <1>0 DEF WorldType, HeldType, VisitType, HeldFromVersion, HeldFromFlat, IsVersion
<1>3. ReadingOn' /\ LoadingOn'
  BY DEF ReadingOn, LoadingOn
<1>4. NewestSheltersAreListed'
  <2>1. visit'.list = LoadFiles(ShelterTrees[shelterCurrent]) /\ UNCHANGED shelterCurrent
    OBVIOUS
  <2> QED
    BY <2>1, AbsentIsNoVersion DEF NewestSheltersAreListed, IsVersion
<1> QED
  BY <1>1, <1>2, <1>3, <1>4

LEMMA KeepListKeeps == ShelterInv /\ KeepList => ShelterInv'
<1> SUFFICES ASSUME ShelterInv, KeepList PROVE ShelterInv'
  OBVIOUS
<1> USE DEF ShelterInv, ShelterType, KeepList, NoVisit, Answering
<1>0. shelterCurrent # "absent" /\ ~IsVersion(shelterCurrent)
  BY ShelterAssumption DEF IsVersion
<1>1. ShelterType' /\ held'.list = held.list /\ held'.version = held.version
  <2>1. IsList(<<>>)
    BY EmptySeq DEF IsList
  <2>2. WorldType'
    BY TtlIsNumber DEF WorldType
  <2>3. HeldType' /\ held'.list = held.list /\ held'.version = held.version
    BY TtlIsNumber DEF HeldType
  <2>4. VisitType' /\ visit'.phase = "answered"
    BY <2>1 DEF VisitType
  <2> QED
    BY <2>2, <2>3, <2>4
<1>2. HeldFromVersion' /\ HeldFromFlat'
  BY <1>0, <1>1 DEF HeldFromVersion, HeldFromFlat, IsVersion
<1>3. ReadingOn' /\ LoadingOn'
  BY DEF ReadingOn, LoadingOn
<1>4. NewestSheltersAreListed'
  BY <1>0 DEF NewestSheltersAreListed, IsVersion, LoadingOn
<1> QED
  BY <1>1, <1>2, <1>3, <1>4

LEMMA ResolveFlatKeeps == ShelterInv /\ ResolveFlat => ShelterInv'
<1> SUFFICES ASSUME ShelterInv, ResolveFlat PROVE ShelterInv'
  OBVIOUS
<1> USE DEF ShelterInv, ShelterType, ResolveFlat
<1>0. IsList(ResolvePaths(flatWorld, held.mappings))
  BY PathsAreList DEF WorldType, HeldType, VisitType
<1>1. ShelterType' /\ held'.list = held.list /\ held'.mappings = held.mappings /\ held'.age = held.age
      /\ held'.version = NoShelters
  BY <1>0 DEF WorldType, HeldType, VisitType
<1>2. HeldFromVersion' /\ HeldFromFlat'
  BY <1>1 DEF HeldFromVersion, HeldFromFlat, FlatList
<1>3. ReadingOn' /\ LoadingOn'
  BY <1>1 DEF ReadingOn, LoadingOn, NothingPublished, IsVersion, FlatList, WorldType, HeldType, VisitType
<1>4. NewestSheltersAreListed'
  BY DEF NewestSheltersAreListed, WorldType, HeldType, VisitType
<1> QED
  BY <1>1, <1>2, <1>3, <1>4

LEMMA ReadFlatFileKeeps == ShelterInv /\ ReadFlatFile => ShelterInv'
<1> SUFFICES ASSUME ShelterInv, ReadFlatFile PROVE ShelterInv'
  OBVIOUS
<1> USE DEF ShelterInv, ShelterType, ReadFlatFile
<1>0. IsList(Tail(visit.todo))
      /\ LoadPaths(flatWorld, visit.list, visit.todo)
           = LoadPaths(flatWorld, ReadPath(flatWorld, visit.list, Head(visit.todo)), Tail(visit.todo))
  BY ListProperties, ReadFirst DEF WorldType, HeldType, VisitType
<1>1. ShelterType' /\ visit'.phase = "reading" /\ visit'.steady = visit.steady
      /\ visit'.todo = Tail(visit.todo)
      /\ visit'.list = ReadPath(flatWorld, visit.list, Head(visit.todo))
  BY <1>0 DEF WorldType, HeldType, VisitType
<1>2. HeldFromVersion' /\ HeldFromFlat'
  BY DEF HeldFromVersion, HeldFromFlat, FlatList, IsVersion
<1>3. ReadingOn'
  BY <1>0, <1>1 DEF ReadingOn, NothingPublished, IsVersion, FlatList
<1>4. LoadingOn' /\ NewestSheltersAreListed'
  BY <1>1 DEF NewestSheltersAreListed, LoadingOn
<1> QED
  BY <1>1, <1>2, <1>3, <1>4

LEMMA FinishFlatKeeps == ShelterInv /\ FinishFlat => ShelterInv'
<1> SUFFICES ASSUME ShelterInv, FinishFlat PROVE ShelterInv'
  OBVIOUS
<1> USE DEF ShelterInv, ShelterType, FinishFlat, NoVisit, Answering
<1>0. LoadPaths(flatWorld, visit.list, visit.todo) = visit.list
  BY ReadFirst DEF WorldType, HeldType, VisitType
<1>1. /\ ShelterType' /\ held'.list = visit.list /\ held'.age = 0 /\ held'.mappings = held.mappings
      /\ held'.version = NoShelters
      /\ visit'.phase = "answered" /\ visit'.list = visit.list /\ visit'.steady = visit.steady
  <2>1. IsList(<<>>)
    BY EmptySeq DEF IsList
  <2>2. WorldType'
    BY TtlIsNumber DEF WorldType
  <2>3. HeldType' /\ held'.list = visit.list /\ held'.age = 0 /\ held'.mappings = held.mappings
        /\ held'.version = NoShelters
    <3>1. held' = [list |-> visit.list, age |-> 0, version |-> held.version,
                   mappings |-> held.mappings]
      BY DEF HeldType
    <3>2. held.mappings \in Seq(DOMAIN LayerOf) /\ 0 \in 0..(ShelterTtl + 1)
      BY TtlIsNumber DEF HeldType
    <3>3. held.version = NoShelters
      BY DEF ReadingOn
    <3> QED
      BY ONLY <3>1, <3>2, <3>3 DEF HeldType
  <2>4. VisitType' /\ visit'.phase = "answered" /\ visit'.list = visit.list /\ visit'.steady = visit.steady
    BY <2>1 DEF VisitType
  <2> QED
    BY <2>2, <2>3, <2>4
<1>2. HeldFromVersion' /\ HeldFromFlat'
  BY <1>0, <1>1 DEF HeldFromVersion, HeldFromFlat, FlatList, ReadingOn
<1>3. ReadingOn' /\ LoadingOn'
  BY <1>1 DEF ReadingOn, LoadingOn
<1>4. NewestSheltersAreListed'
  <2> SUFFICES ASSUME visit.steady PROVE NewestSheltersAreListed'
    BY <1>1 DEF NewestSheltersAreListed
  <2>1. NothingPublished /\ visit'.list = FlatList /\ FlatList' = FlatList
    BY <1>0, <1>1 DEF ReadingOn, FlatList
  <2>2. ("absent" \notin DOMAIN ShelterTrees)
    BY ShelterAssumption
  <2> QED
    BY <2>1, <2>2 DEF NewestSheltersAreListed, NothingPublished, IsVersion, FlatList
<1> QED
  BY <1>1, <1>2, <1>3, <1>4

LEMMA RestartPublicKeeps == ShelterInv /\ RestartPublic => ShelterInv'
<1> SUFFICES ASSUME ShelterInv, RestartPublic PROVE ShelterInv'
  OBVIOUS
<1> USE DEF ShelterInv, ShelterType, RestartPublic, NoVisit, Started
<1>1. ShelterType'
  <2>1. IsList(<<>>)
    BY EmptySeq DEF IsList
  <2>2. WorldType'
    BY DEF WorldType
  <2>3. HeldType'
    <3>1. mappingFile \in Seq(DOMAIN LayerOf) /\ 0 \in 0..(ShelterTtl + 1)
      BY TtlIsNumber DEF WorldType
    <3> QED
      BY <3>1 DEF HeldType
  <2>4. VisitType'
    BY <2>1 DEF VisitType
  <2> QED
    BY <2>2, <2>3, <2>4
<1>2. HeldFromVersion' /\ HeldFromFlat' /\ ReadingOn' /\ LoadingOn' /\ NewestSheltersAreListed'
  BY DEF HeldFromVersion, HeldFromFlat, ReadingOn, LoadingOn, NewestSheltersAreListed
<1> QED
  BY <1>1, <1>2

\* What happens outside under a visit makes it unsteady.
LEMMA WorldKeeps ==
    ASSUME ShelterInv, ChangesWorld, UNCHANGED held, ShelterType', settled' \in {0, settled},
           settled' # 0 => UNCHANGED <<shelterCurrent, flatWorld>>
    PROVE  ShelterInv'
<1> USE DEF ShelterInv, ShelterType, ChangesWorld
<1>1. /\ visit'.steady = FALSE /\ visit'.phase = visit.phase /\ visit'.todo = visit.todo
      /\ visit'.list = visit.list /\ visit'.before = visit.before
  BY DEF WorldType, HeldType, VisitType
<1>2. HeldFromVersion' /\ LoadingOn'
  BY <1>1 DEF HeldFromVersion, LoadingOn, IsVersion
<1>3. HeldFromFlat'
  BY DEF HeldFromFlat, FlatList, WorldType, HeldType, VisitType
<1>4. ReadingOn'
  BY <1>1 DEF ReadingOn, FlatList, NothingPublished, IsVersion, WorldType, HeldType, VisitType
<1>5. NewestSheltersAreListed'
  BY <1>1 DEF NewestSheltersAreListed
<1> QED
  BY <1>2, <1>3, <1>4, <1>5

LEMMA OutsideKeeps ==
    ASSUME ShelterInv,
           \/ ChangeLink \/ ChangeFlat
           \/ \E d \in DOMAIN LayerOf : SetActiveMapping(d) \/ UnsetActiveMapping(d)
    PROVE  ShelterInv'
<1> USE DEF ShelterInv, ShelterType
<1>1. CASE ChangeLink
  <2>1. WorldType' /\ HeldType' /\ VisitType'
    <3>1. WorldType'
      BY <1>1, TtlIsNumber DEF ChangeLink, WorldType
    <3>2. HeldType'
      BY <1>1 DEF ChangeLink, HeldType
    <3>3. VisitType'
      BY <1>1 DEF ChangeLink, ChangesWorld, VisitType
    <3> QED
      BY <3>1, <3>2, <3>3
  <2> QED
    BY <1>1, <2>1, WorldKeeps DEF ChangeLink
<1>2. CASE ChangeFlat
  <2>1. WorldType' /\ HeldType' /\ VisitType'
    <3>1. WorldType'
      BY <1>2, TtlIsNumber DEF ChangeFlat, WorldType
    <3>2. HeldType'
      BY <1>2 DEF ChangeFlat, HeldType
    <3>3. VisitType'
      BY <1>2 DEF ChangeFlat, ChangesWorld, VisitType
    <3> QED
      BY <3>1, <3>2, <3>3
  <2> QED
    BY <1>2, <2>1, WorldKeeps DEF ChangeFlat
<1>3. ASSUME NEW d \in DOMAIN LayerOf, SetActiveMapping(d) PROVE ShelterInv'
  <2>1. mappingFile \in Seq(DOMAIN LayerOf) /\ Len(mappingFile) \in Nat
        /\ DOMAIN mappingFile = 1..Len(mappingFile)
        /\ \A i \in 1..Len(mappingFile) : mappingFile[i] \in DOMAIN LayerOf
    BY LenProperties, ElementOfSeq DEF WorldType, HeldType, VisitType
  <2>2. Append(mappingFile, d) \in Seq(DOMAIN LayerOf)
    BY <2>1, AppendProperties
  <2>3. [i \in DOMAIN mappingFile |-> IF i \in SameLayer(d) THEN d ELSE mappingFile[i]]
          \in Seq(DOMAIN LayerOf)
    BY <2>1, SeqDef
  <2>4. mappingFile' \in Seq(DOMAIN LayerOf)
    BY <1>3, <2>2, <2>3 DEF SetActiveMapping
  <2>5. ShelterType'
    BY <1>3, <2>4 DEF SetActiveMapping, ChangesWorld, WorldType, HeldType, VisitType
  <2> QED
    BY <1>3, <2>5, WorldKeeps DEF SetActiveMapping
<1>4. ASSUME NEW d \in DOMAIN LayerOf, UnsetActiveMapping(d) PROVE ShelterInv'
  <2> DEFINE i == CHOOSE j \in SameLayer(d) : TRUE
             n == Len(mappingFile)
  <2>1. mappingFile \in Seq(DOMAIN LayerOf) /\ n \in Nat /\ DOMAIN mappingFile = 1..n
    BY LenProperties DEF WorldType, HeldType, VisitType
  <2>2. i \in 1..n
    BY <1>4, <2>1 DEF UnsetActiveMapping, SameLayer
  <2> HIDE DEF i
  <2>3. SubSeq(mappingFile, 1, i - 1) \in Seq(DOMAIN LayerOf)
        /\ SubSeq(mappingFile, i + 1, n) \in Seq(DOMAIN LayerOf)
    <3>1. /\ \A k \in 1..(i - 1) : k \in 1..n
          /\ \A k \in (i + 1)..n : k \in 1..n
      BY <2>1, <2>2
    <3> QED
      BY <2>1, <2>2, <3>1, SubSeqProperties
  <2>4. mappingFile' = SubSeq(mappingFile, 1, i - 1) \o SubSeq(mappingFile, i + 1, n)
    BY <1>4 DEF UnsetActiveMapping, RemoveAt, i
  <2>5. mappingFile' \in Seq(DOMAIN LayerOf)
    BY <2>3, <2>4, ConcatProperties
  <2>6. ShelterType'
    BY <1>4, <2>5 DEF UnsetActiveMapping, ChangesWorld, WorldType, HeldType, VisitType
  <2> QED
    BY <1>4, <2>6, WorldKeeps DEF UnsetActiveMapping
<1> QED
  BY <1>1, <1>2, <1>3, <1>4

LEMMA TickSheltersKeeps == ShelterInv /\ TickShelters => ShelterInv'
<1> SUFFICES ASSUME ShelterInv, TickShelters PROVE ShelterInv'
  OBVIOUS
<1> USE DEF ShelterInv, ShelterType, TickShelters, NoVisit
<1>1. /\ ShelterType' /\ held'.list = held.list /\ held'.version = held.version
      /\ held'.mappings = held.mappings
      /\ held'.age = IF held.age > ShelterTtl THEN held.age ELSE held.age + 1
      /\ visit'.phase = "idle"
  <2>1. IsList(<<>>)
    BY EmptySeq DEF IsList
  <2>2. WorldType'
    BY TtlIsNumber DEF WorldType
  <2>3. HeldType' /\ held'.list = held.list /\ held'.version = held.version /\ held'.mappings = held.mappings
        /\ held'.age = IF held.age > ShelterTtl THEN held.age ELSE held.age + 1
    BY TtlIsNumber DEF HeldType
  <2>4. VisitType' /\ visit'.phase = "idle"
    BY <2>1 DEF VisitType
  <2> QED
    BY <2>2, <2>3, <2>4
<1>2. settled' > held'.age => settled > held.age
  BY <1>1, ShelterAssumption DEF WorldType, HeldType, VisitType
<1>3. HeldFromVersion' /\ HeldFromFlat'
  BY <1>1, <1>2 DEF HeldFromVersion, HeldFromFlat, FlatList, IsVersion
<1>4. ReadingOn' /\ LoadingOn' /\ NewestSheltersAreListed'
  BY <1>1 DEF ReadingOn, LoadingOn, NewestSheltersAreListed
<1> QED
  BY <1>1, <1>3, <1>4

\* Whatever the versions, the flat files and the mappings, and whatever happens to them, the
\* list of shelters that is answered is the newest one.
THEOREM NewestSheltersHold == ShelterSpec => []NewestSheltersAreListed
<1>1. ShelterInv /\ UNCHANGED shelterVars => ShelterInv'
  <2> SUFFICES ASSUME ShelterInv, UNCHANGED shelterVars PROVE ShelterInv'
    OBVIOUS
  <2> USE DEF shelterVars, ShelterInv, ShelterType
  <2>1. WorldType' /\ HeldType' /\ VisitType'
    BY DEF WorldType, HeldType, VisitType
  <2>2. HeldFromVersion' /\ HeldFromFlat' /\ LoadingOn'
    BY DEF HeldFromVersion, HeldFromFlat, LoadingOn, FlatList, IsVersion
  <2>3. ReadingOn'
    BY DEF ReadingOn, FlatList, NothingPublished, IsVersion
  <2>4. NewestSheltersAreListed'
    BY DEF NewestSheltersAreListed, IsVersion
  <2> QED
    BY <2>1, <2>2, <2>3, <2>4
<1>2. ShelterInv /\ [ShelterNext]_shelterVars => ShelterInv'
  BY <1>1, AskSheltersKeeps, LoadVersionKeeps, KeepListKeeps, ResolveFlatKeeps, ReadFlatFileKeeps,
     FinishFlatKeeps, RestartPublicKeeps, OutsideKeeps, TickSheltersKeeps DEF ShelterNext
<1>3. ShelterInv => NewestSheltersAreListed
  BY DEF ShelterInv
<1> QED
  BY <1>2, <1>3, ShelterInvInit, PTL DEF ShelterSpec

-----------------------------------------------------------------------------
(* The risk of a place and of a route: what is not known                   *)

\* The samples of a route ahead, while they are taken.
Samples(first) ==
    [taken : {s \in Seq(Points) : s # <<>> /\ s[1] = first}, next : Nat]

\* A route ahead is sampled where it begins.
LEMMA FirstIsSampled ==
    ASSUME NEW path \in Seq([at : Points, metres : Nat]), path # <<>>
    PROVE  /\ SampleRoute(path) \in Seq(Points)
           /\ path[1].at \in ToSet(SampleRoute(path))
<1> DEFINE Taken(s, v) ==
               LET walked == v.metres - path[1].metres IN
               IF walked >= s.next /\ Len(s.taken) < AheadSamples
               THEN [taken |-> Append(s.taken, v.at), next |-> s.next + SampleMetres] ELSE s
           list == Tail(path)
           n == Len(list)
           first == path[1].at
           base == [taken |-> <<first>>, next |-> SampleMetres]
           Is(it) == it = [s \in SUBSET DOMAIN list |->
                             IF s = {} THEN base ELSE Taken(it[s \ {Max(s)}], list[Max(s)])]
           iter == CHOOSE it : Is(it)
           pick == [s \in SUBSET (1..n) |-> IF s = {} THEN 0 ELSE Max(s)]
           step == [p \in Samples(first) \X (1..n) |-> Taken(p[1], list[p[2]])]
<1>1. /\ n \in Nat /\ DOMAIN list = 1..n /\ first \in Points
      /\ \A k \in 1..n : list[k] \in [at : Points, metres : Nat]
  <2>1. list \in Seq([at : Points, metres : Nat])
    BY HeadTailProperties
  <2>2. path[1] \in [at : Points, metres : Nat]
    <3>1. Len(path) \in Nat /\ Len(path) # 0
      BY EmptySeq, LenProperties
    <3>2. 1 \in 1..Len(path)
      BY <3>1
    <3> QED
      BY <3>2, ElementOfSeq
  <2> HIDE DEF list
  <2> QED
    BY <2>1, <2>2, ElementOfSeq, LenProperties
<1>2. base \in Samples(first)
  <2>1. <<first>> \in Seq(Points) /\ <<first>> # <<>> /\ <<first>>[1] = first
    BY <1>1
  <2>2. SampleMetres \in Nat
    BY RiskAssumption
  <2> HIDE DEF first
  <2> QED
    BY <2>1, <2>2 DEF Samples
<1>3. \A s \in SUBSET (1..n) : s # {} => pick[s] \in s /\ pick[s] = Max(s)
  <2> TAKE s \in SUBSET (1..n)
  <2> SUFFICES ASSUME s # {} PROVE Max(s) \in s
    OBVIOUS
  <2>1. s \in SUBSET Int /\ n \in Int /\ \A y \in s : y <= n
    BY <1>1
  <2> QED
    BY <2>1, MaxOfBounded
<1>4. ASSUME NEW s \in Samples(first), NEW v \in [at : Points, metres : Nat]
      PROVE  Taken(s, v) \in Samples(first)
  <2>1. s.taken \in Seq(Points) /\ s.taken # <<>> /\ s.taken[1] = first /\ s.next \in Nat
    BY DEF Samples
  <2>2. /\ Append(s.taken, v.at) \in Seq(Points) /\ Append(s.taken, v.at) # <<>>
        /\ Append(s.taken, v.at)[1] = first
    <3> DEFINE taken == s.taken
               point == v.at
    <3>1. taken \in Seq(Points) /\ taken # <<>> /\ taken[1] = first /\ point \in Points
      BY <2>1
    <3> HIDE DEF taken, point, first
    <3>2. Len(taken) \in Nat /\ Len(taken) # 0
      BY <3>1, EmptySeq, LenProperties
    <3>3. /\ Append(taken, point) \in Seq(Points) /\ Append(taken, point) # <<>>
          /\ \A i \in 1..Len(taken) : Append(taken, point)[i] = taken[i]
      BY <3>1, AppendProperties
    <3>4. Append(taken, point)[1] = taken[1]
      BY <3>2, <3>3
    <3> QED
      BY <3>1, <3>3, <3>4 DEF taken, point
  <2>3. s.next + SampleMetres \in Nat
    BY <2>1, RiskAssumption
  <2> HIDE DEF first
  <2> QED
    BY <2>2, <2>3 DEF Samples
<1> HIDE DEF list, base, first
<1>5. \A v \in Samples(first), k \in 1..n :
          step[<<v, k>>] = Taken(v, list[k]) /\ step[<<v, k>>] \in Samples(first)
  <2> TAKE v \in Samples(first), k \in 1..n
  <2>1. list[k] \in [at : Points, metres : Nat]
    BY <1>1
  <2>2. Taken(v, list[k]) \in Samples(first)
    BY <1>4, <2>1
  <2> HIDE DEF Taken
  <2> QED
    BY <2>2
<1>6. \E it : Is(it)
  <2>1. PICK it : Folds(it, 1..n, Samples(first), base, pick, step)
    <3>1. IsFiniteSet(1..n)
      BY <1>1, FS_Interval
    <3>2. \A s \in SUBSET (1..n) : s # {} => pick[s] \in s
      BY <1>3
    <3>3. \A v \in Samples(first), x \in 1..n : step[<<v, x>>] \in Samples(first)
      BY <1>5
    <3> HIDE DEF pick, step, n
    <3> QED
      BY ONLY <1>2, <3>1, <3>2, <3>3, FoldExists, Zenon
  <2>2. \A s \in SUBSET (1..n) :
            it[s] = IF s = {} THEN base ELSE Taken(it[s \ {Max(s)}], list[Max(s)])
    <3> HIDE DEF pick, step, Taken
    <3> QED
      BY <2>1, <1>1, <1>3, <1>5 DEF Folds
  <2>3. Is(it)
    BY <2>1, <2>2, <1>1 DEF Folds
  <2> QED
    BY <2>3
<1>7. Is(iter)
  <2> HIDE DEF Is
  <2> QED
    BY <1>6
<1>8. SampleRoute(path) = iter[1..n].taken
  BY <1>1 DEF SampleRoute, FoldLeft, MapThenFoldSet, list, base, first
<1> DEFINE S == {k \in Nat : k \in 0..n => iter[1..k] \in Samples(first)}
<1>9. 0 \in S
  <2> HIDE DEF iter, Taken
  <2> QED
    BY <1>1, <1>2, <1>7
<1>10. ASSUME NEW k \in Nat, k \in S PROVE k + 1 \in S
  <2> HIDE DEF iter, Taken
  <2> SUFFICES ASSUME k + 1 \in 0..n PROVE iter[1..(k + 1)] \in Samples(first)
    BY DEF S
  <2>1. /\ k + 1 \in 1..n /\ (k + 1) - 1 = k /\ k \in 0..n
        /\ Max(1..(k + 1)) = k + 1 /\ (1..(k + 1)) \ {k + 1} = 1..k
        /\ 1..(k + 1) # {} /\ 1..(k + 1) \in SUBSET (1..n)
    <3>0. k \in Nat /\ n \in Nat /\ k + 1 \in 0..n
      BY <1>1
    <3> HIDE DEF n
    <3>1. k + 1 \in 1..n /\ k + 1 \in Nat /\ k + 1 > 0 /\ (k + 1) - 1 = k /\ k \in 0..n
      BY ONLY <3>0
    <3>2. Max(1..(k + 1)) = k + 1 /\ (1..(k + 1)) \ {k + 1} = 1..((k + 1) - 1)
      BY ONLY <3>1, MaxOfInterval
    <3>3. 1..(k + 1) # {} /\ 1..(k + 1) \in SUBSET (1..n)
      <4>1. 1 \in 1..(k + 1) /\ \A y \in 1..(k + 1) : y \in 1..n
        BY ONLY <3>0, <3>1
      <4> QED
        BY ONLY <4>1
    <3> QED
      BY <3>1, <3>2, <3>3
  <2>2. iter[1..(k + 1)] = Taken(iter[1..k], list[k + 1])
    <3> HIDE DEF iter, Taken
    <3> QED
      BY <1>1, <1>7, <2>1
  <2>3. iter[1..k] \in Samples(first)
    BY <1>10, <2>1
  <2> HIDE DEF iter, Taken
  <2> QED
    BY <1>1, <1>4, <2>1, <2>2, <2>3
<1>11. n \in S
  <2> HIDE DEF S
  <2> QED
    BY <1>1, <1>9, <1>10, Induction
<1>12. iter[1..n] \in Samples(first)
  BY <1>1, <1>11
<1>13. SampleRoute(path) \in Seq(Points) /\ SampleRoute(path) # <<>> /\ SampleRoute(path)[1] = first
  <2> HIDE DEF iter
  <2> QED
    BY <1>8, <1>12 DEF Samples
<1> HIDE DEF iter
<1> QED
  <2>1. 1 \in DOMAIN SampleRoute(path)
    BY <1>13, EmptySeq, LenProperties
  <2> QED
    BY <1>13, <2>1 DEF ToSet, first

\* Whatever the zones and the warnings are, the level is one of five.
LEMMA LevelIsKnown ==
    ASSUME NEW a, NEW precip, NEW combined
    PROVE  /\ RiskLevel(a, precip, combined)
                  \in {"emergency", "warning", "advisory", "unknown", "none"}
           /\ \/ a.severity = "unknown" \/ a.status = "unavailable"
              \/ precip.status = "unavailable" \/ precip.severity = "unknown"
              => RiskLevel(a, precip, combined) # "none"
<1> DEFINE known == KnownRank(a, precip, combined)
<1> HIDE DEF known
<1> QED
  BY DEF RiskLevel, known

\* Rain that could not be read, or of which nothing is known, is summed up as such.
LEMMA UnknownRain ==
    ASSUME NEW r, NothingKnown(r)
    PROVE  \/ PrecipitationSummary(r).status = "unavailable"
           \/ PrecipitationSummary(r).severity = "unknown"
<1>1. CASE r.down
  BY <1>1 DEF PrecipitationSummary
<1>2. CASE ~r.down
  <2>1. {r.now} \cup ToSet(r.ahead) = {"unknown"}
    BY <1>2 DEF NothingKnown
  <2>2. {IntensityRank(i) : i \in {"unknown"}} = {-1}
    BY DEF IntensityRank
  <2>3. Max({-1}) = -1
    BY MaxOfBounded
  <2>4. PrecipSeverity({"unknown"}) = "unknown"
    BY <2>2, <2>3 DEF PrecipSeverity
  <2> QED
    BY <1>2, <2>1, <2>4 DEF PrecipitationSummary
<1> QED
  BY <1>1, <1>2

\* One sample with an unknown level keeps a route ahead from being called free of risk.
LEMMA UnknownAhead ==
    ASSUME NEW path \in Seq([at : Points, metres : Nat]), NEW segment \in 0..(Len(path) - 1),
           NEW p \in {SubSeq(path, segment + 1, Len(path))[1].at}
                         \cup ToSet(SampleRoute(SubSeq(path, segment + 1, Len(path)))),
           NothingKnown(world.rain[p])
    PROVE  RouteAhead(world, path, segment) # "none"
<1> DEFINE ahead == SubSeq(path, segment + 1, Len(path))
           samples == SampleRoute(ahead)
           none == [status |-> "ok", severity |-> "none"]
           levels == {LevelRank(PointRisk(world, none, q)) : q \in ToSet(samples)} \cup {0}
           worst == Max(levels)
           l == PointRisk(world, none, p)
<1>1. ahead \in Seq([at : Points, metres : Nat]) /\ ahead # <<>>
  <2>1. /\ ahead \in Seq([at : Points, metres : Nat])
        /\ Len(ahead) = Len(path) - segment
    <3>1. /\ Len(path) \in Int /\ segment + 1 \in Int
          /\ segment + 1 <= Len(path) /\ Len(path) - (segment + 1) + 1 = Len(path) - segment
      BY LenProperties
    <3>2. \A i \in segment + 1..Len(path) : path[i] \in [at : Points, metres : Nat]
      <4>1. \A i \in segment + 1..Len(path) : i \in 1..Len(path)
        BY <3>1
      <4> QED
        BY <4>1, ElementOfSeq
    <3> HIDE DEF ahead
    <3> QED
      BY <3>1, <3>2, SubSeqProperties DEF ahead
  <2>2. Len(ahead) >= 1
    BY <2>1, LenProperties
  <2> HIDE DEF ahead
  <2>3. Len(<<>>) = 0
    BY EmptySeq
  <2> QED
    BY <2>1, <2>2, <2>3
<1>2. p \in ToSet(samples)
  <2>1. p = ahead[1].at \/ p \in ToSet(samples)
    OBVIOUS
  <2> HIDE DEF ahead
  <2>2. ahead[1].at \in ToSet(samples)
    BY <1>1, FirstIsSampled
  <2> HIDE DEF samples
  <2> QED
    BY <2>1, <2>2
<1>3. levels \in SUBSET Int /\ levels # {} /\ \A y \in levels : y \in 0..4
  <2>1. \A k : LevelRank(k) \in 0..4
    BY DEF LevelRank
  <2> QED
    BY <2>1
<1>4. LevelRank(l) \in levels
  BY <1>2
<1>5. LevelRank(l) >= 1
  <2>1. l \in {"emergency", "warning", "advisory", "unknown", "none"} /\ l # "none"
    BY LevelIsKnown, UnknownRain DEF PointRisk
  <2> HIDE DEF l
  <2> QED
    BY <2>1 DEF LevelRank
<1>6. worst \in 1..4
  <2> HIDE DEF levels, samples, ahead, none, l
  <2>1. levels \in SUBSET Int /\ levels # {} /\ 4 \in Int /\ \A y \in levels : y <= 4
    BY <1>3
  <2>2. Max(levels) \in levels /\ \A y \in levels : y <= Max(levels)
    BY ONLY <2>1, MaxOfBounded, Zenon
  <2> QED
    <3> DEFINE rank == LevelRank(l)
    <3>1. rank \in 0..4 /\ rank >= 1 /\ rank <= worst /\ worst \in 0..4
      BY <1>3, <1>4, <1>5, <2>2
    <3> HIDE DEF rank
    <3> QED
      BY <3>1
<1>7. RankLevel[worst] # "none"
  <2> HIDE DEF worst
  <2> QED
    BY <1>6 DEF RankLevel
<1>8. RouteAhead(world, path, segment) = IF worst = 0 THEN "none" ELSE RankLevel[worst]
  BY DEF RouteAhead
<1> HIDE DEF worst
<1> QED
  BY <1>6, <1>7, <1>8

\* A place whose warnings or rain could not be read, a route ahead with such a sample, from
\* whichever segment, and a compared route whose forecast says nothing, are not called free
\* of risk, however long the routes are and however many of their points are sampled.
THEOREM WhatIsUnknownIsNotNone == RiskSpec => []UnknownIsNotNone
<1>1. UnknownIsNotNone
  <2>1. ASSUME NEW p \in Points,
               NothingKnown(world.rain[p]) \/ world.alerts.status = "unavailable"
                   \/ world.alerts.severity = "unknown"
        PROVE  RiskContext(world, p) # "none"
    BY <2>1, LevelIsKnown, UnknownRain DEF RiskContext, PointRisk
  <2>2. ASSUME NEW r \in DOMAIN Routes, NEW segment \in 0..(Len(Routes[r].path) - 1),
               NEW p \in {SubSeq(Routes[r].path, segment + 1, Len(Routes[r].path))[1].at}
                             \cup ToSet(SampleRoute(SubSeq(Routes[r].path, segment + 1,
                                                          Len(Routes[r].path)))),
               NothingKnown(world.rain[p])
        PROVE  RouteAhead(world, Routes[r].path, segment) # "none"
    <3>1. Routes[r].path \in Seq([at : Points, metres : Nat])
      BY RiskAssumption
    <3> QED
      BY <2>2, <3>1, UnknownAhead
  <2>3. ASSUME NEW r \in DOMAIN Routes, Len(Routes[r].path) >= 2,
               ~world.rain[Routes[r].path[Len(Routes[r].path) \div 2 + 1].at].down,
               NothingKnown(world.rain[Routes[r].path[Len(Routes[r].path) \div 2 + 1].at])
        PROVE  AssessRoute(world, Routes[r]).level # "none"
    <3> DEFINE path == Routes[r].path
               points == SampleUniform(path)
               rain == world.rain[path[Len(path) \div 2 + 1].at]
               weather == RouteWeather(world, path)
               score == Bounded(SafetyScore(Exposure(world, points), Len(points))
                                - WeatherPenalty(weather.intensity, Exposure(world, points))
                                  * Len(points), Len(points))
    <3>1. PrecipitationSummary(rain).status = "ok"
      BY <2>3 DEF PrecipitationSummary
    <3>2. PrecipitationSummary(rain).severity = "unknown"
      BY <2>3, <3>1, UnknownRain
    <3>3. weather.risk = "unknown"
      <4> HIDE DEF path
      <4> QED
        BY <3>1, <3>2 DEF RouteWeather
    <3>4. Len(path) \in Nat
      BY RiskAssumption, LenProperties
    <3>5. AssessRoute(world, Routes[r]).level = ToRiskLevel(score, Len(points), weather.risk)
      <4>1. ~(Len(path) < 2)
        BY <2>3, <3>4
      <4> QED
        BY <4>1 DEF AssessRoute
    <3> HIDE DEF score, weather, points
    <3>6. ToRiskLevel(score, Len(points), "unknown") # "none"
      BY DEF ToRiskLevel
    <3> QED
      BY <3>3, <3>5, <3>6
  <2> QED
    BY <2>1, <2>2, <2>3 DEF UnknownIsNotNone
<1> QED
  BY <1>1, PTL DEF RiskSpec

-----------------------------------------------------------------------------
(* Sums over a set, and the greatest of a set                              *)

\* The sum of g over the subsets of S, one chosen element after the other.
Sums(it, S, g) ==
    /\ it \in [SUBSET S -> Int]
    /\ \A s \in SUBSET S :
           it[s] = IF s = {} THEN 0
                   ELSE g[CHOOSE x \in s : TRUE] + it[s \ {CHOOSE x \in s : TRUE}]

\* The sum of a function over a finite set exists.
LEMMA SumExists ==
    ASSUME NEW S, IsFiniteSet(S), NEW g \in [S -> Int]
    PROVE  \E it : Sums(it, S, g)
<1> DEFINE pick == [s \in SUBSET S |-> CHOOSE x \in s : TRUE]
           step == [p \in Int \X S |-> g[p[2]] + p[1]]
<1>1. \A s \in SUBSET S : s # {} => pick[s] \in s
  OBVIOUS
<1>2. \A v \in Int, x \in S : step[<<v, x>>] \in Int /\ step[<<v, x>>] = g[x] + v
  OBVIOUS
<1>3. PICK it : Folds(it, S, Int, 0, pick, step)
  <2>1. \A v \in Int, x \in S : step[<<v, x>>] \in Int
    BY <1>2
  <2>2. 0 \in Int
    OBVIOUS
  <2> HIDE DEF pick, step
  <2> QED
    BY ONLY IsFiniteSet(S), <1>1, <2>1, <2>2, FoldExists, Zenon
<1>4. it \in [SUBSET S -> Int]
  BY <1>3 DEF Folds
<1>5. ASSUME NEW s \in SUBSET S, s # {}
      PROVE  it[s] = g[CHOOSE x \in s : TRUE] + it[s \ {CHOOSE x \in s : TRUE}]
  <2>1. pick[s] = (CHOOSE x \in s : TRUE) /\ pick[s] \in S
    BY <1>1, <1>5
  <2>2. it[s] = step[<<it[s \ {pick[s]}], pick[s]>>]
    <3> HIDE DEF pick, step
    <3> QED
      BY <1>3, <1>5 DEF Folds
  <2>3. it[s \ {pick[s]}] \in Int
    BY <1>4
  <2> HIDE DEF pick, step
  <2> QED
    BY <1>2, <2>1, <2>2, <2>3
<1>6. it[{}] = 0
  BY <1>3 DEF Folds
<1> QED
  BY <1>4, <1>5, <1>6 DEF Sums

\* Whatever follows the recursion is the sum.
LEMMA SumIsDefined ==
    ASSUME NEW S, IsFiniteSet(S), NEW g \in [S -> Int], NEW f,
           f = [s \in SUBSET S |-> IF s = {} THEN 0 ELSE g[CHOOSE x \in s : TRUE]
                                                       + f[s \ {CHOOSE x \in s : TRUE}]]
    PROVE  Sums(f, S, g)
<1> DEFINE T == {n \in Nat : \A s \in SUBSET S : Cardinality(s) = n => f[s] \in Int}
<1>1. \A s \in SUBSET S : IsFiniteSet(s) /\ Cardinality(s) \in Nat
                          /\ (Cardinality(s) = 0 <=> s = {})
                          /\ \A x \in s : Cardinality(s \ {x}) = Cardinality(s) - 1
  BY FS_Subset, FS_CardinalityType, FS_EmptySet, FS_RemoveElement
<1>2. \A s \in SUBSET S :
          f[s] = IF s = {} THEN 0
                 ELSE g[CHOOSE x \in s : TRUE] + f[s \ {CHOOSE x \in s : TRUE}]
  OBVIOUS
<1>3. 0 \in T
  <2>1. \A s \in SUBSET S : Cardinality(s) = 0 => f[s] = 0
    BY <1>1, <1>2
  <2> QED
    BY <2>1
<1>4. ASSUME NEW n \in Nat, n \in T PROVE n + 1 \in T
  <2> SUFFICES ASSUME NEW s \in SUBSET S, Cardinality(s) = n + 1 PROVE f[s] \in Int
    OBVIOUS
  <2> DEFINE x == CHOOSE y \in s : TRUE
  <2>1. s # {} /\ x \in s
    BY <1>1
  <2>2. f[s] = g[x] + f[s \ {x}]
    BY <1>2, <2>1
  <2>3. Cardinality(s \ {x}) = (n + 1) - 1 /\ s \ {x} \in SUBSET S
    BY <1>1, <2>1
  <2> HIDE DEF x
  <2>4. f[s \ {x}] \in Int /\ g[x] \in Int
    BY <1>4, <2>1, <2>3
  <2> QED
    BY <2>2, <2>4
<1>5. Nat \subseteq T
  <2> HIDE DEF T
  <2> QED
    BY <1>3, <1>4, Induction
<1>6. f \in [SUBSET S -> Int]
  BY <1>1, <1>5
<1> QED
  BY <1>2, <1>6 DEF Sums

\* It does not matter in which order the elements are added.
Lessens(it, S, g) == \A s \in SUBSET S, x \in S : x \in s => it[s] = g[x] + it[s \ {x}]

LEMMA SumWithout ==
    ASSUME NEW S, IsFiniteSet(S), NEW g \in [S -> Int], NEW it, Sums(it, S, g)
    PROVE  Lessens(it, S, g)
<1> DEFINE Right(s) == \A x \in s : it[s] = g[x] + it[s \ {x}]
           T == {n \in Nat : \A s \in SUBSET S : Cardinality(s) = n => Right(s)}
<1>1. \A s \in SUBSET S : it[s] \in Int
  BY DEF Sums
<1>2. \A s \in SUBSET S : IsFiniteSet(s) /\ Cardinality(s) \in Nat
                          /\ (Cardinality(s) = 0 <=> s = {})
                          /\ \A x \in s : Cardinality(s \ {x}) = Cardinality(s) - 1
  BY FS_Subset, FS_CardinalityType, FS_EmptySet, FS_RemoveElement
<1>3. 0 \in T
  BY <1>2
<1>4. ASSUME NEW n \in Nat, n \in T PROVE n + 1 \in T
  <2> SUFFICES ASSUME NEW s \in SUBSET S, Cardinality(s) = n + 1, NEW x \in s
               PROVE  it[s] = g[x] + it[s \ {x}]
    OBVIOUS
  <2> DEFINE y == CHOOSE z \in s : TRUE
  <2>1. y \in s
    OBVIOUS
  <2>2. it[s] = g[y] + it[s \ {y}]
    BY <2>1 DEF Sums
  <2> HIDE DEF y
  <2>3. CASE x = y
    BY <2>2, <2>3
  <2>4. CASE x # y
    <3>1. x \in s \ {y} /\ y \in s \ {x} /\ (s \ {x}) \ {y} = (s \ {y}) \ {x}
      BY <2>1, <2>4
    <3>2. Cardinality(s \ {x}) = n /\ Cardinality(s \ {y}) = n
      <4>1. Cardinality(s \ {x}) = (n + 1) - 1 /\ Cardinality(s \ {y}) = (n + 1) - 1
        BY <1>2, <2>1
      <4> QED
        BY <4>1
    <3>3. Right(s \ {x}) /\ Right(s \ {y})
      BY <1>4, <3>2
    <3>4. it[s \ {x}] = g[y] + it[(s \ {x}) \ {y}] /\ it[s \ {y}] = g[x] + it[(s \ {x}) \ {y}]
      BY <3>1, <3>3
    <3>5. it[(s \ {x}) \ {y}] \in Int /\ g[x] \in Int /\ g[y] \in Int
      BY <1>1, <2>1
    <3> QED
      BY <2>2, <3>4, <3>5
  <2> QED
    BY <2>3, <2>4
<1>5. Nat \subseteq T
  <2> HIDE DEF T
  <2> QED
    BY <1>3, <1>4, Induction
<1> QED
  BY <1>2, <1>5 DEF Lessens

\* More elements and greater ones have a greater sum, when what is added is not negative.
LEMMA SumGrows ==
    ASSUME NEW S, IsFiniteSet(S), NEW g \in [S -> Int], NEW it, Sums(it, S, g),
           NEW R \in SUBSET S, NEW f \in [R -> Int], NEW jt, Sums(jt, R, f),
           \A x \in R : f[x] <= g[x], \A x \in S : 0 <= g[x]
    PROVE  it[S] \in Int /\ jt[R] \in Int /\ jt[R] <= it[S]
<1> DEFINE Below(s) == jt[s \cap R] <= it[s]
           T == {n \in Nat : \A s \in SUBSET S : Cardinality(s) = n => Below(s)}
<1>0. IsFiniteSet(R)
  BY FS_Subset
<1>1. \A s \in SUBSET S : it[s] \in Int /\ jt[s \cap R] \in Int
  BY DEF Sums
<1>2. \A s \in SUBSET S : IsFiniteSet(s) /\ Cardinality(s) \in Nat
                          /\ (Cardinality(s) = 0 <=> s = {})
                          /\ \A x \in s : Cardinality(s \ {x}) = Cardinality(s) - 1
  BY FS_Subset, FS_CardinalityType, FS_EmptySet, FS_RemoveElement
<1>3. \A s \in SUBSET S, x \in S : x \in s => it[s] = g[x] + it[s \ {x}]
  BY SumWithout DEF Lessens
<1>4. \A s \in SUBSET R, x \in R : x \in s => jt[s] = f[x] + jt[s \ {x}]
  BY <1>0, SumWithout DEF Lessens
<1>5. 0 \in T
  <2>1. it[{}] = 0 /\ jt[{}] = 0
    BY DEF Sums
  <2>2. {} \cap R = {}
    OBVIOUS
  <2>3. \A s \in SUBSET S : Cardinality(s) = 0 => s = {}
    BY <1>2
  <2> QED
    BY <2>1, <2>2, <2>3
<1>6. ASSUME NEW n \in Nat, n \in T PROVE n + 1 \in T
  <2> SUFFICES ASSUME NEW s \in SUBSET S, Cardinality(s) = n + 1 PROVE Below(s)
    <3> HIDE DEF Below
    <3> QED
      OBVIOUS
  <2>1. PICK x \in s : TRUE
    BY <1>2
  <2>2. it[s] = g[x] + it[s \ {x}] /\ g[x] \in Int /\ 0 <= g[x]
    BY <1>3
  <2>3. jt[(s \ {x}) \cap R] <= it[s \ {x}]
    <3>1. Cardinality(s \ {x}) = (n + 1) - 1
      BY <1>2
    <3> QED
      BY <1>6, <3>1
  <2>4. it[s \ {x}] \in Int /\ jt[(s \ {x}) \cap R] \in Int
    BY <1>1
  <2>5. CASE x \in R
    <3>1. (s \cap R) \ {x} = (s \ {x}) \cap R /\ s \cap R \in SUBSET R /\ x \in s \cap R
      BY <2>5
    <3>2. jt[s \cap R] = f[x] + jt[(s \ {x}) \cap R] /\ f[x] \in Int /\ f[x] <= g[x]
      BY <1>4, <2>5, <3>1
    <3> QED
      BY <2>2, <2>3, <2>4, <3>2
  <2>6. CASE x \notin R
    <3>1. s \cap R = (s \ {x}) \cap R
      BY <2>6
    <3> QED
      BY <2>2, <2>3, <2>4, <3>1
  <2> QED
    BY <2>5, <2>6
<1>7. Nat \subseteq T
  <2> HIDE DEF T
  <2> QED
    BY <1>5, <1>6, Induction
<1>8. S \cap R = R /\ S \in SUBSET S
  OBVIOUS
<1> QED
  BY <1>1, <1>2, <1>7, <1>8

\* A sum of numbers none of which is negative is at least each of them.
LEMMA SumIsAtLeast ==
    ASSUME NEW S, IsFiniteSet(S), NEW g \in [S -> Int], NEW it, Sums(it, S, g),
           \A x \in S : 0 <= g[x], NEW x \in S
    PROVE  it[S] \in Int /\ g[x] <= it[S]
<1> DEFINE f == [y \in {x} |-> g[y]]
<1>1. {x} \in SUBSET S /\ IsFiniteSet({x}) /\ f \in [{x} -> Int] /\ f[x] = g[x]
  BY FS_Singleton
<1> HIDE DEF f
<1>2. PICK jt : Sums(jt, {x}, f)
  BY <1>1, SumExists
<1>3. jt[{x}] = f[x]
  <2> DEFINE y == CHOOSE z \in {x} : TRUE
  <2>1. y = x /\ {x} \ {x} = {} /\ {x} # {} /\ {x} \in SUBSET {x}
    OBVIOUS
  <2>2. jt[{}] = 0
    BY <1>2 DEF Sums
  <2>3. jt[{x}] = IF {x} = {} THEN 0 ELSE f[y] + jt[{x} \ {y}]
    BY <1>2, <2>1 DEF Sums
  <2> HIDE DEF y
  <2> QED
    BY <1>1, <2>1, <2>2, <2>3
<1>4. it[S] \in Int /\ jt[{x}] \in Int /\ jt[{x}] <= it[S]
  <2>1. \A y \in {x} : f[y] <= g[y]
    BY <1>1
  <2> QED
    BY <1>1, <1>2, <2>1, SumGrows
<1> QED
  BY <1>1, <1>3, <1>4

\* The greatest and the least of two.
LEMMA OfTwo ==
    ASSUME NEW a \in Int, NEW b \in Int
    PROVE  /\ Max({a, b}) = IF a >= b THEN a ELSE b
           /\ Min({a, b}) = IF a <= b THEN a ELSE b
<1>1. Max({a, b}) = IF a >= b THEN a ELSE b
  <2>1. \A x \in {a, b} : (\A y \in {a, b} : y <= x) <=> x = IF a >= b THEN a ELSE b
    OBVIOUS
  <2>2. (IF a >= b THEN a ELSE b) \in {a, b}
    OBVIOUS
  <2> QED
    BY <2>1, <2>2 DEF Max
<1>2. Min({a, b}) = IF a <= b THEN a ELSE b
  <2>1. \A x \in {a, b} : (\A y \in {a, b} : x <= y) <=> x = IF a <= b THEN a ELSE b
    OBVIOUS
  <2>2. (IF a <= b THEN a ELSE b) \in {a, b}
    OBVIOUS
  <2> QED
    BY <2>1, <2>2 DEF Min
<1> QED
  BY <1>1, <1>2

\* A set that has as great an element for each of another has as great a greatest one.
LEMMA MaxGrows ==
    ASSUME NEW lo \in Int, NEW hi \in Int, NEW s \in SUBSET (lo..hi), NEW t \in SUBSET (lo..hi),
           s # {}, \A y \in s : \E z \in t : y <= z
    PROVE  Max(s) \in s /\ Max(t) \in t /\ Max(s) <= Max(t) /\ \A y \in s : y <= Max(s)
<1>1. /\ s \in SUBSET Int /\ s # {} /\ hi \in Int /\ \A y \in s : y <= hi
      /\ t \in SUBSET Int /\ t # {} /\ \A y \in t : y <= hi
  <2>1. PICK y \in s : TRUE
    OBVIOUS
  <2>2. t # {}
    BY <2>1
  <2>3. \A z \in lo..hi : z \in Int /\ z <= hi
    OBVIOUS
  <2> QED
    BY <2>2, <2>3
<1>2. Max(s) \in s /\ \A y \in s : y <= Max(s)
  BY ONLY <1>1, MaxOfBounded, Zenon
<1>3. Max(t) \in t /\ \A y \in t : y <= Max(t)
  BY ONLY <1>1, MaxOfBounded, Zenon
<1> QED
  <2> DEFINE a == Max(s)
             b == Max(t)
  <2>1. a \in s /\ b \in t /\ (\A y \in s : y <= a) /\ \A y \in t : y <= b
    BY <1>2, <1>3
  <2> HIDE DEF a, b
  <2>2. PICK z \in t : a <= z
    BY <2>1
  <2>3. z <= b /\ z \in Int /\ a \in Int /\ b \in Int
    BY <1>1, <2>1
  <2>4. a <= b
    BY <2>2, <2>3
  <2> QED
    BY <2>1, <2>4 DEF a, b

-----------------------------------------------------------------------------
(* The risk of a place and of a route: what is worse                       *)

RiskWorlds == [alerts : Alerts, rain : [Points -> Forecast], zones : [Points -> Zones],
               kikikuru : Kikikurus]

RiskType == world \in RiskWorlds

LEMMA RiskTypeHolds == RiskSpec => []RiskType
<1>1. RiskInit => RiskType
  BY DEF RiskInit, RiskWorlds, RiskType
<1>2. RiskType /\ [RiskNext]_world => RiskType'
  BY DEF RiskType, RiskWorlds, RiskNext, AlertsChange, KikikuruChanges, RainChanges, ZonesReloaded
<1> QED
  BY <1>1, <1>2, PTL DEF RiskSpec

\* What the premise of WorseIsNeverSafer says of two worlds.
Worse(old, new) ==
    /\ old \in RiskWorlds /\ new \in RiskWorlds
    /\ WorseAlerts(old.alerts, new.alerts) /\ old.kikikuru = new.kikikuru
    /\ \A p \in Points : WorseRain(old.rain[p], new.rain[p]) /\ WorseZone(old.zones[p], new.zones[p])

\* All that a forecast tells of a place.
Told(r) == {r.now} \cup ToSet(r.ahead)
IntensityRanks(r) == {IntensityRank(i) : i \in Told(r)}

LEMMA RanksAreBounded ==
    /\ \A i : IntensityRank(i) \in -1..4
    /\ \A r : IntensityRanks(r) \in SUBSET (-1..4) /\ IntensityRanks(r) # {}
<1>1. \A i : IntensityRank(i) \in -1..4
  BY DEF IntensityRank
<1> QED
  BY <1>1 DEF IntensityRanks, Told

\* Worse rain has as great an intensity for each of the other.
LEMMA ToldGrows ==
    ASSUME NEW a, NEW b, a.ahead \in Seq(STRING), b.ahead \in Seq(STRING), WorseRain(a, b)
    PROVE  /\ \A i \in Told(a) : \E j \in Told(b) : IntensityRank(i) <= IntensityRank(j)
           /\ (\A i \in Told(a) : IntensityRank(i) = -1) => Told(a) = Told(b)
           /\ a.ahead = <<>> <=> b.ahead = <<>>
           /\ \A k \in DOMAIN a.ahead : k \in DOMAIN b.ahead
                                        /\ IntensityRank(a.ahead[k]) <= IntensityRank(b.ahead[k])
           /\ IntensityRank(a.now) <= IntensityRank(b.now)
<1> DEFINE s == a.ahead
           t == b.ahead
<1>1. s \in Seq(STRING) /\ t \in Seq(STRING) /\ Len(s) = Len(t)
  BY DEF WorseRain
<1>2. DOMAIN s = 1..Len(s) /\ DOMAIN t = 1..Len(s)
  <2> HIDE DEF s, t
  <2> QED
    BY <1>1, LenProperties
<1>3. \A i, j : WorseIntensity(i, j) => /\ IntensityRank(i) <= IntensityRank(j)
                                        /\ IntensityRank(i) = -1 => i = j
  <2> TAKE i, j
  <2>1. IntensityRank(i) \in -1..4 /\ IntensityRank(j) \in -1..4
    BY RanksAreBounded
  <2> QED
    BY <2>1 DEF WorseIntensity
<1>4. WorseIntensity(a.now, b.now) /\ \A k \in DOMAIN s : WorseIntensity(s[k], t[k])
  BY DEF WorseRain
<1>5. s = <<>> <=> t = <<>>
  <2> HIDE DEF s, t
  <2> QED
    BY <1>1, EmptySeq
<1>6. Told(a) = {a.now} \cup {s[k] : k \in DOMAIN s} /\ Told(b) = {b.now} \cup {t[k] : k \in DOMAIN s}
  BY <1>2 DEF Told, ToSet
<1> HIDE DEF s, t
<1>7. \A i \in Told(a) : \E j \in Told(b) : IntensityRank(i) <= IntensityRank(j)
  BY <1>3, <1>4, <1>6
<1>8. ASSUME \A i \in Told(a) : IntensityRank(i) = -1 PROVE Told(a) = Told(b)
  <2>1. a.now = b.now /\ \A k \in DOMAIN s : s[k] = t[k]
    BY <1>3, <1>4, <1>6, <1>8
  <2> QED
    BY <1>6, <2>1
<1>9. IntensityRank(a.now) <= IntensityRank(b.now)
      /\ \A k \in DOMAIN s : k \in DOMAIN t /\ IntensityRank(s[k]) <= IntensityRank(t[k])
  BY <1>2, <1>3, <1>4
<1> QED
  BY <1>5, <1>7, <1>8, <1>9 DEF s, t

\* Worse rain is summed up as worse, and as unknown when the other is.
LEMMA SeverityGrows ==
    ASSUME NEW a, NEW b, a.ahead \in Seq(STRING), b.ahead \in Seq(STRING), WorseRain(a, b)
    PROVE  /\ PrecipitationSummary(a).status = PrecipitationSummary(b).status
           /\ SeverityRank(PrecipitationSummary(a).severity)
              <= SeverityRank(PrecipitationSummary(b).severity)
           /\ PrecipitationSummary(a).severity = "unknown"
              <=> PrecipitationSummary(b).severity = "unknown"
<1> DEFINE x == Max(IntensityRanks(a))
           y == Max(IntensityRanks(b))
<1>1. x \in -1..4 /\ y \in -1..4 /\ x <= y /\ (x = -1 => y = -1)
  <2>1. /\ -1 \in Int /\ 4 \in Int /\ IntensityRanks(a) \in SUBSET (-1..4) /\ IntensityRanks(a) # {}
        /\ IntensityRanks(b) \in SUBSET (-1..4)
    BY RanksAreBounded
  <2>2. \A v \in IntensityRanks(a) : \E w \in IntensityRanks(b) : v <= w
    BY ToldGrows DEF IntensityRanks
  <2>3. x \in IntensityRanks(a) /\ y \in IntensityRanks(b) /\ x <= y
        /\ \A v \in IntensityRanks(a) : v <= x
    BY ONLY <2>1, <2>2, MaxGrows, Zenon
  <2>4. ASSUME x = -1 PROVE y = -1
    <3>1. \A i \in Told(a) : IntensityRank(i) = -1
      <4> TAKE i \in Told(a)
      <4>1. IntensityRank(i) <= -1 /\ IntensityRank(i) \in -1..4
        BY <2>3, <2>4, RanksAreBounded DEF IntensityRanks
      <4> QED
        BY <4>1
    <3>2. Told(a) = Told(b)
      BY <3>1, ToldGrows
    <3> QED
      BY <2>4, <3>2 DEF IntensityRanks
  <2> HIDE DEF x, y
  <2> QED
    BY <2>1, <2>3, <2>4
<1>2. a.down = b.down
  BY DEF WorseRain
<1>3. PrecipSeverity(Told(a)) = CASE x = -1 -> "unknown" [] x = 0 -> "none" [] x \in 1..2 -> "advisory"
                                  [] OTHER -> "warning"
  BY DEF PrecipSeverity, IntensityRanks
<1>4. PrecipSeverity(Told(b)) = CASE y = -1 -> "unknown" [] y = 0 -> "none" [] y \in 1..2 -> "advisory"
                                  [] OTHER -> "warning"
  BY DEF PrecipSeverity, IntensityRanks
<1>5. /\ PrecipitationSummary(a).severity = IF a.down THEN "none" ELSE PrecipSeverity(Told(a))
      /\ PrecipitationSummary(b).severity = IF a.down THEN "none" ELSE PrecipSeverity(Told(b))
      /\ PrecipitationSummary(a).status = PrecipitationSummary(b).status
  BY <1>2 DEF PrecipitationSummary, Told
<1> HIDE DEF x, y
<1>6. /\ SeverityRank(PrecipSeverity(Told(a))) <= SeverityRank(PrecipSeverity(Told(b)))
      /\ PrecipSeverity(Told(a)) = "unknown" <=> PrecipSeverity(Told(b)) = "unknown"
  BY <1>1, <1>3, <1>4 DEF SeverityRank
<1>7. SeverityRank("none") <= SeverityRank("none")
  BY DEF SeverityRank
<1> QED
  BY <1>5, <1>6, <1>7

\* The worst of now and ahead is at least as bad.
LEMMA RainRankGrows ==
    ASSUME NEW a, NEW b, a.ahead \in Seq(STRING), b.ahead \in Seq(STRING), WorseRain(a, b)
    PROVE  /\ RainRank(PrecipitationSummary(a)) \in Int /\ RainRank(PrecipitationSummary(b)) \in Int
           /\ RainRank(PrecipitationSummary(a)) <= RainRank(PrecipitationSummary(b))
<1> DEFINE p == PrecipitationSummary(a)
           q == PrecipitationSummary(b)
           Ranks(z) == {IntensityRank(z.current)}
                       \cup IF z.ahead = <<>> THEN {0} ELSE {IntensityRank(i) : i \in ToSet(z.ahead)}
<1>1. /\ IntensityRank(p.current) <= IntensityRank(q.current)
      /\ p.ahead = <<>> <=> q.ahead = <<>>
      /\ \A k \in DOMAIN p.ahead : k \in DOMAIN q.ahead
                                   /\ IntensityRank(p.ahead[k]) <= IntensityRank(q.ahead[k])
  <2>1. a.down = b.down
    BY DEF WorseRain
  <2>2. CASE a.down
    <3>1. p.current = "unknown" /\ q.current = "unknown" /\ p.ahead = <<>> /\ q.ahead = <<>>
      BY <2>1, <2>2 DEF PrecipitationSummary
    <3>2. IntensityRank("unknown") <= IntensityRank("unknown")
      BY DEF IntensityRank
    <3> HIDE DEF p, q
    <3> QED
      BY <3>1, <3>2
  <2>3. CASE ~a.down
    <3>1. p.current = a.now /\ q.current = b.now /\ p.ahead = a.ahead /\ q.ahead = b.ahead
      BY <2>1, <2>3 DEF PrecipitationSummary
    <3> HIDE DEF p, q
    <3> QED
      BY <3>1, ToldGrows
  <2> QED
    BY <2>2, <2>3
<1> HIDE DEF p, q
<1>2. /\ -1 \in Int /\ 4 \in Int /\ Ranks(p) \in SUBSET (-1..4) /\ Ranks(p) # {}
      /\ Ranks(q) \in SUBSET (-1..4)
  BY RanksAreBounded
<1>3. \A v \in Ranks(p) : \E w \in Ranks(q) : v <= w
  <2> TAKE v \in Ranks(p)
  <2>1. CASE v = IntensityRank(p.current)
    BY <1>1, <2>1
  <2>2. CASE p.ahead = <<>> /\ v = 0
    BY <1>1, <2>2
  <2>3. CASE p.ahead # <<>> /\ \E k \in DOMAIN p.ahead : v = IntensityRank(p.ahead[k])
    <3>1. PICK k \in DOMAIN p.ahead : v = IntensityRank(p.ahead[k])
      BY <2>3
    <3>2. IntensityRank(q.ahead[k]) \in Ranks(q)
      BY <1>1, <2>3, <3>1 DEF ToSet
    <3> QED
      BY <1>1, <3>1, <3>2
  <2> QED
    BY <2>1, <2>2, <2>3 DEF ToSet
<1> HIDE DEF Ranks
<1>4. Max(Ranks(p)) \in Ranks(p) /\ Max(Ranks(q)) \in Ranks(q) /\ Max(Ranks(p)) <= Max(Ranks(q))
  BY ONLY <1>2, <1>3, MaxGrows, Zenon
<1>5. RainRank(p) = Max(Ranks(p)) /\ RainRank(q) = Max(Ranks(q))
  BY DEF RainRank, Ranks
<1> QED
  BY <1>2, <1>4, <1>5 DEF p, q

\* Stronger rain over more zones makes as grave a level for each of the other.
LEMMA CombinedGrows ==
    ASSUME NEW i \in Int, NEW j \in Int, i <= j, NEW a, NEW b, WorseZone(a, b)
    PROVE  \A c \in CombinedLevels(i, a) :
               \E d \in CombinedLevels(j, b) : SeverityRank(c) <= SeverityRank(d)
<1>1. \A h : Inside(a, h) => Inside(b, h)
  BY DEF WorseZone, Inside
<1>2. /\ SeverityRank("emergency") = 4 /\ SeverityRank("warning") = 3 /\ SeverityRank("advisory") = 2
  BY DEF SeverityRank
<1> SUFFICES ASSUME NEW c \in CombinedLevels(i, a)
             PROVE  \E d \in CombinedLevels(j, b) : SeverityRank(c) <= SeverityRank(d)
  OBVIOUS
<1>3. CASE \E h \in {"flood", "inland_flood"} :
               Inside(a, h) /\ i >= 2 /\ c = IF i >= 4 THEN "emergency" ELSE "warning"
  <2>1. PICK h \in {"flood", "inland_flood"} :
               Inside(a, h) /\ i >= 2 /\ c = IF i >= 4 THEN "emergency" ELSE "warning"
    BY <1>3
  <2>2. Inside(b, h) /\ j >= 2
    BY <1>1, <2>1
  <2> DEFINE d == IF j >= 4 THEN "emergency" ELSE "warning"
  <2>3. d \in CombinedLevels(j, b)
    BY <2>2 DEF CombinedLevels
  <2>4. SeverityRank(c) <= SeverityRank(d)
    BY <1>2, <2>1
  <2> QED
    BY <2>3, <2>4
<1>4. CASE Inside(a, "landslide") /\ i >= 2 /\ c = IF i >= 3 THEN "emergency" ELSE "warning"
  <2>1. Inside(b, "landslide") /\ j >= 2
    BY <1>1, <1>4
  <2> DEFINE d == IF j >= 3 THEN "emergency" ELSE "warning"
  <2>2. d \in CombinedLevels(j, b)
    BY <2>1 DEF CombinedLevels
  <2>3. SeverityRank(c) <= SeverityRank(d)
    BY <1>2, <1>4
  <2> QED
    BY <2>2, <2>3
<1>5. CASE Inside(a, "lowland_poor_drainage") /\ i >= 1 /\ c = "advisory"
  <2>1. Inside(b, "lowland_poor_drainage") /\ j >= 1
    BY <1>1, <1>5
  <2>2. "advisory" \in CombinedLevels(j, b)
    BY <2>1 DEF CombinedLevels
  <2> QED
    BY <1>2, <1>5, <2>2
<1> QED
  BY <1>3, <1>4, <1>5 DEF CombinedLevels

LEMMA LevelRanks ==
    /\ \A l : LevelRank(l) \in 0..4
    /\ \A s : SeverityRank(s) \in {0, 2, 3, 4}
    /\ \A s, t : LevelRank(s) <= LevelRank(t) => SeverityRank(s) <= SeverityRank(t)
    /\ \A t : LevelRank("unknown") <= LevelRank(t) => t = "unknown" \/ SeverityRank(t) >= 2
  BY DEF LevelRank, SeverityRank

\* The grades of a place that are known.
Grades(a, precip, combined) ==
    {SeverityRank(a.severity), Min({SeverityRank(precip.severity), 3})}
    \cup {SeverityRank(c) : c \in combined}

LEMMA GradesAreBounded ==
    ASSUME NEW a, NEW precip, NEW combined
    PROVE  /\ Grades(a, precip, combined) \in SUBSET (0..4)
           /\ KnownRank(a, precip, combined) \in Grades(a, precip, combined)
           /\ \A y \in Grades(a, precip, combined) : y <= KnownRank(a, precip, combined)
<1> DEFINE s == Grades(a, precip, combined)
<1>1. \A y \in s : y \in 0..4
  <2>1. \A x : SeverityRank(x) \in 0..4
    BY LevelRanks
  <2>2. \A x \in 0..4 : Min({x, 3}) \in 0..4
    BY OfTwo
  <2> QED
    BY <2>1, <2>2 DEF Grades
<1>2. s # {}
  BY DEF Grades
<1> HIDE DEF s
<1>3. s \in SUBSET Int /\ s # {} /\ 4 \in Int /\ \A y \in s : y <= 4
  BY <1>1, <1>2
<1>4. Max(s) \in s /\ \A y \in s : y <= Max(s)
  BY ONLY <1>3, MaxOfBounded, Zenon
<1> QED
  BY <1>1, <1>4 DEF s, Grades, KnownRank

\* Worse warnings, rain and zones never make the level of a place less grave.
LEMMA LevelGrows ==
    ASSUME NEW a, NEW b, WorseAlerts(a, b), NEW p, NEW q, p.status = q.status,
           SeverityRank(p.severity) <= SeverityRank(q.severity),
           p.severity = "unknown" <=> q.severity = "unknown",
           NEW s, NEW t, \A c \in s : \E d \in t : SeverityRank(c) <= SeverityRank(d)
    PROVE  LevelRank(RiskLevel(a, p, s)) <= LevelRank(RiskLevel(b, q, t))
<1> DEFINE k == KnownRank(a, p, s)
           l == KnownRank(b, q, t)
<1>1. /\ a.status = b.status /\ LevelRank(a.severity) <= LevelRank(b.severity)
      /\ SeverityRank(a.severity) <= SeverityRank(b.severity)
  BY LevelRanks DEF WorseAlerts
<1>2. \A y \in Grades(a, p, s) : \E z \in Grades(b, q, t) : y <= z
  <2> TAKE y \in Grades(a, p, s)
  <2>1. CASE y = SeverityRank(a.severity)
    BY <1>1, <2>1 DEF Grades
  <2>2. CASE y = Min({SeverityRank(p.severity), 3})
    <3>1. \A c \in 0..4 : Min({c, 3}) = IF c <= 3 THEN c ELSE 3
      <4> TAKE c \in 0..4
      <4>1. c \in Int /\ 3 \in Int
        OBVIOUS
      <4> QED
        BY ONLY <4>1, OfTwo, Zenon
    <3>2. SeverityRank(p.severity) \in 0..4 /\ SeverityRank(q.severity) \in 0..4
      BY LevelRanks
    <3>3. y <= Min({SeverityRank(q.severity), 3})
      BY <2>2, <3>1, <3>2
    <3> QED
      BY <3>3 DEF Grades
  <2>3. CASE \E c \in s : y = SeverityRank(c)
    BY <2>3 DEF Grades
  <2> QED
    BY <2>1, <2>2, <2>3 DEF Grades
<1>3. k \in 0..4 /\ l \in 0..4 /\ k <= l /\ SeverityRank(b.severity) <= l
  <2>1. /\ k \in Grades(a, p, s) /\ Grades(a, p, s) \in SUBSET (0..4)
        /\ Grades(b, q, t) \in SUBSET (0..4) /\ l \in Grades(b, q, t)
        /\ \A z \in Grades(b, q, t) : z <= l
    BY GradesAreBounded
  <2>2. PICK z \in Grades(b, q, t) : k <= z
    BY <1>2, <2>1
  <2>3. SeverityRank(b.severity) <= l
    BY <2>1 DEF Grades
  <2> HIDE DEF k, l
  <2>4. k \in 0..4 /\ l \in 0..4 /\ z \in 0..4 /\ z <= l /\ k <= z
    BY <2>1, <2>2
  <2> QED
    BY <2>3, <2>4
<1> DEFINE Open1 == a.severity = "unknown" \/ a.status = "unavailable"
                    \/ p.status = "unavailable" \/ p.severity = "unknown"
           Open2 == b.severity = "unknown" \/ b.status = "unavailable"
                    \/ q.status = "unavailable" \/ q.severity = "unknown"
<1>4. /\ RiskLevel(a, p, s) = CASE k = 4 -> "emergency" [] k = 3 -> "warning" [] k = 2 -> "advisory"
                                [] OTHER -> IF Open1 THEN "unknown" ELSE "none"
      /\ RiskLevel(b, q, t) = CASE l = 4 -> "emergency" [] l = 3 -> "warning" [] l = 2 -> "advisory"
                                [] OTHER -> IF Open2 THEN "unknown" ELSE "none"
  BY DEF RiskLevel
<1>5. Open1 => Open2 \/ l >= 2
  <2>1. CASE a.severity = "unknown"
    <3>1. b.severity = "unknown" \/ SeverityRank(b.severity) >= 2
      BY <1>1, <2>1, LevelRanks
    <3>2. SeverityRank(b.severity) \in Int
      BY LevelRanks
    <3> HIDE DEF k, l
    <3> QED
      BY <1>3, <3>1, <3>2
  <2>2. CASE a.severity # "unknown"
    BY <1>1, <2>2
  <2> QED
    BY <2>1, <2>2
<1> HIDE DEF k, l, Open1, Open2
<1> QED
  BY <1>3, <1>4, <1>5 DEF LevelRank

LEMMA ForecastsAreLists ==
    ASSUME NEW w \in RiskWorlds, NEW p \in Points
    PROVE  w.rain[p].ahead \in Seq(STRING)
  BY RiskAssumption DEF RiskWorlds

\* The level of a place, under any warnings.
LEMMA PointGrows ==
    ASSUME NEW old, NEW new, Worse(old, new), NEW p \in Points, NEW a, NEW b, WorseAlerts(a, b)
    PROVE  LevelRank(PointRisk(old, a, p)) <= LevelRank(PointRisk(new, b, p))
<1> DEFINE x == PrecipitationSummary(old.rain[p])
           y == PrecipitationSummary(new.rain[p])
           s == CombinedLevels(RainRank(x), old.zones[p])
           t == CombinedLevels(RainRank(y), new.zones[p])
<1>1. /\ old.rain[p].ahead \in Seq(STRING) /\ new.rain[p].ahead \in Seq(STRING)
      /\ WorseRain(old.rain[p], new.rain[p]) /\ WorseZone(old.zones[p], new.zones[p])
  BY ForecastsAreLists DEF Worse
<1>2. /\ x.status = y.status /\ SeverityRank(x.severity) <= SeverityRank(y.severity)
      /\ x.severity = "unknown" <=> y.severity = "unknown"
  BY <1>1, SeverityGrows
<1>3. RainRank(x) \in Int /\ RainRank(y) \in Int /\ RainRank(x) <= RainRank(y)
  BY <1>1, RainRankGrows
<1> HIDE DEF x, y
<1>4. \A c \in s : \E d \in t : SeverityRank(c) <= SeverityRank(d)
  BY <1>1, <1>3, CombinedGrows
<1> HIDE DEF s, t
<1>5. LevelRank(RiskLevel(a, x, s)) <= LevelRank(RiskLevel(b, y, t))
  BY <1>2, <1>4, LevelGrows
<1> QED
  BY <1>5 DEF PointRisk, x, y, s, t

\* The level of the route ahead.
LEMMA AheadGrows ==
    ASSUME NEW old, NEW new, Worse(old, new), NEW r \in DOMAIN Routes
    PROVE  LevelRank(RouteAhead(old, Routes[r].path, 0)) <= LevelRank(RouteAhead(new, Routes[r].path, 0))
<1> DEFINE path == Routes[r].path
           samples == SampleRoute(path)
           none == [status |-> "ok", severity |-> "none"]
           Levels(w) == {LevelRank(PointRisk(w, none, p)) : p \in ToSet(samples)} \cup {0}
<1>1. path \in Seq([at : Points, metres : Nat])
  BY RiskAssumption
<1>2. SubSeq(path, 0 + 1, Len(path)) = path
  <2> HIDE DEF path
  <2> QED
    BY <1>1, SubSeqProperties, LenProperties
<1>3. \A p \in ToSet(samples) : p \in Points
  <2> HIDE DEF path
  <2>1. samples \in Seq(Points)
    <3>1. CASE path = <<>>
      BY <3>1, EmptySeq DEF SampleRoute
    <3>2. CASE path # <<>>
      BY <1>1, <3>2, FirstIsSampled
    <3> QED
      BY <3>1, <3>2
  <2> HIDE DEF samples
  <2> QED
    BY <2>1, ElementOfSeq, LenProperties DEF ToSet
<1>4. \A w : Levels(w) \in SUBSET (0..4) /\ 0 \in Levels(w)
  BY LevelRanks
<1>5. \A y \in Levels(old) : \E z \in Levels(new) : y <= z
  <2> TAKE y \in Levels(old)
  <2>1. CASE y = 0
    BY <2>1
  <2>2. CASE \E p \in ToSet(samples) : y = LevelRank(PointRisk(old, none, p))
    <3>1. PICK p \in ToSet(samples) : y = LevelRank(PointRisk(old, none, p))
      BY <2>2
    <3>2. WorseAlerts(none, none)
      BY LevelRanks DEF WorseAlerts
    <3>3. p \in Points
      BY <1>3
    <3> HIDE DEF none, samples
    <3>4. LevelRank(PointRisk(old, none, p)) <= LevelRank(PointRisk(new, none, p))
      BY <3>2, <3>3, PointGrows
    <3> QED
      BY <3>1, <3>4
  <2> QED
    BY <2>1, <2>2
<1> HIDE DEF Levels, samples, none, path
<1>6. /\ 0 \in Int /\ 4 \in Int /\ Levels(old) # {} /\ Levels(old) \in SUBSET (0..4)
      /\ Levels(new) \in SUBSET (0..4)
  BY <1>4
<1>7. /\ Max(Levels(old)) \in Levels(old) /\ Max(Levels(new)) \in Levels(new)
      /\ Max(Levels(old)) <= Max(Levels(new))
  BY ONLY <1>5, <1>6, MaxGrows, Zenon
<1>8. \A w : RouteAhead(w, path, 0) = LET worst == Max(Levels(w)) IN
                                         IF worst = 0 THEN "none" ELSE RankLevel[worst]
  BY <1>2 DEF RouteAhead, Levels, samples, none
<1>9. \A m \in 0..4 : LevelRank(IF m = 0 THEN "none" ELSE RankLevel[m]) = m
  <2> SUFFICES ASSUME NEW m \in 1..4 PROVE LevelRank(RankLevel[m]) = m
    BY DEF LevelRank
  <2>1. m = 1 \/ m = 2 \/ m = 3 \/ m = 4
    OBVIOUS
  <2> QED
    BY <2>1 DEF LevelRank, RankLevel
<1>10. Max(Levels(old)) \in 0..4 /\ Max(Levels(new)) \in 0..4
  BY <1>6, <1>7
<1> QED
  <2>1. LevelRank(RouteAhead(old, path, 0)) = Max(Levels(old))
    BY <1>8, <1>9, <1>10
  <2>2. LevelRank(RouteAhead(new, path, 0)) = Max(Levels(new))
    BY <1>8, <1>9, <1>10
  <2> QED
    BY <1>7, <2>1, <2>2 DEF path

-----------------------------------------------------------------------------
(* The scores of a route                                                   *)

\* What a route is exposed to, and what is at least as much.
Exposures == UNION {[D -> Nat] : D \in SUBSET DOMAIN Base}
MoreExposed(e, f) ==
    /\ e \in Exposures /\ f \in Exposures /\ DOMAIN e \subseteq DOMAIN f
    /\ \A h \in DOMAIN e : e[h] <= f[h]

LEMMA Product ==
    ASSUME NEW a \in Nat, NEW b \in Nat, NEW c \in Nat, a <= b
    PROVE  a * c \in Nat /\ b * c \in Nat /\ a * c <= b * c /\ c * a \in Nat /\ c * a <= c * b
<1>1. (b - a) * c >= 0 /\ (b - a) * c = b * c - a * c
  OBVIOUS
<1>2. a * c \in Nat /\ b * c \in Nat /\ c * a = a * c /\ c * b = b * c
  OBVIOUS
<1> QED
  BY <1>1, <1>2

\* More zones, more samples inside them.
LEMMA ExposureGrows ==
    ASSUME NEW old, NEW new, Worse(old, new), NEW points \in Seq(Points)
    PROVE  MoreExposed(Exposure(old, points), Exposure(new, points))
<1> DEFINE In(w, h) == {i \in DOMAIN points : Inside(w.zones[points[i]], h)}
<1>1. /\ DOMAIN points = 1..Len(points) /\ Len(points) \in Nat
      /\ \A i \in DOMAIN points : points[i] \in Points
  BY ElementOfSeq, LenProperties
<1>2. IsFiniteSet(DOMAIN points)
  BY <1>1, FS_Interval
<1>3. \A w, h : In(w, h) \in SUBSET DOMAIN points
  OBVIOUS
<1>4. \A h : In(old, h) \in SUBSET In(new, h)
  BY <1>1 DEF Worse, WorseZone, Inside
<1> HIDE DEF In
<1>5. \A w, h : IsFiniteSet(In(w, h)) /\ Cardinality(In(w, h)) \in Nat
  BY <1>2, <1>3, FS_Subset, FS_CardinalityType
<1>6. \A h : Cardinality(In(old, h)) <= Cardinality(In(new, h))
  BY <1>4, <1>5, FS_Subset
<1>7. \A w : Exposure(w, points) =
                 [h \in {k \in DOMAIN Base : Cardinality(In(w, k)) > 0} |-> Cardinality(In(w, h))]
  BY DEF Exposure, In
<1>8. \A w : Exposure(w, points) \in Exposures
  <2> TAKE w
  <2> DEFINE D == {k \in DOMAIN Base : Cardinality(In(w, k)) > 0}
  <2>1. D \in SUBSET DOMAIN Base
    OBVIOUS
  <2>2. Exposure(w, points) = [h \in D |-> Cardinality(In(w, h))]
    BY <1>7
  <2> HIDE DEF D
  <2>3. Exposure(w, points) \in [D -> Nat]
    BY <1>5, <2>2
  <2> QED
    BY <2>1, <2>3 DEF Exposures
<1>9. DOMAIN Exposure(old, points) \subseteq DOMAIN Exposure(new, points)
  <2> SUFFICES ASSUME NEW h \in DOMAIN Base, Cardinality(In(old, h)) > 0
               PROVE  Cardinality(In(new, h)) > 0
    BY <1>7
  <2>1. Cardinality(In(old, h)) \in Nat /\ Cardinality(In(new, h)) \in Nat
        /\ Cardinality(In(old, h)) <= Cardinality(In(new, h))
    BY <1>5, <1>6
  <2> QED
    BY <2>1
<1>10. \A h \in DOMAIN Exposure(old, points) : Exposure(old, points)[h] <= Exposure(new, points)[h]
  <2> TAKE h \in DOMAIN Exposure(old, points)
  <2>1. h \in DOMAIN Exposure(new, points)
    BY <1>9
  <2>2. /\ Exposure(old, points)[h] = Cardinality(In(old, h))
        /\ Exposure(new, points)[h] = Cardinality(In(new, h))
    BY <1>7, <2>1
  <2> QED
    BY <1>6, <2>2
<1> QED
  BY <1>8, <1>9, <1>10 DEF MoreExposed

\* The hazards that are scored are seven.
LEMMA Scored ==
    /\ DOMAIN Base = {"tsunami", "flood", "storm_surge", "landslide", "inland_flood",
                      "pseudo_inland_flood", "lowland_poor_drainage"}
    /\ IsFiniteSet(DOMAIN Base)
    /\ \A h \in DOMAIN Base : Base[h] \in Nat /\ Least[h] \in Nat
    /\ \A h : LowlandBonus(h) \in Nat
<1> DEFINE D == {"tsunami", "flood", "storm_surge", "landslide", "inland_flood",
                 "pseudo_inland_flood", "lowland_poor_drainage"}
<1>1. DOMAIN Base = D
  BY DEF Base
<1>2. \A h \in D : Base[h] \in Nat /\ Least[h] \in Nat
  <2> TAKE h \in D
  <2>1. CASE h = "tsunami"
    BY <2>1 DEF Base, Least
  <2>2. CASE h = "flood"
    BY <2>2 DEF Base, Least
  <2>3. CASE h = "storm_surge"
    BY <2>3 DEF Base, Least
  <2>4. CASE h = "landslide"
    BY <2>4 DEF Base, Least
  <2>5. CASE h = "inland_flood"
    BY <2>5 DEF Base, Least
  <2>6. CASE h = "pseudo_inland_flood"
    BY <2>6 DEF Base, Least
  <2>7. CASE h = "lowland_poor_drainage"
    BY <2>7 DEF Base, Least
  <2> QED
    BY <2>1, <2>2, <2>3, <2>4, <2>5, <2>6, <2>7
<1>3. IsFiniteSet(D)
  <2> DEFINE A == {"tsunami", "flood", "storm_surge"}
             B == {"landslide", "inland_flood", "pseudo_inland_flood", "lowland_poor_drainage"}
  <2>1. \A S, x : IsFiniteSet(S) => IsFiniteSet(S \cup {x})
    BY FS_AddElement
  <2>2. IsFiniteSet({"tsunami"}) /\ IsFiniteSet({"landslide"})
    BY FS_Singleton
  <2>3. IsFiniteSet(A)
    <3>1. A = ({"tsunami"} \cup {"flood"}) \cup {"storm_surge"}
      OBVIOUS
    <3>2. IsFiniteSet({"tsunami"} \cup {"flood"})
      BY ONLY <2>1, <2>2, Zenon
    <3>3. IsFiniteSet(({"tsunami"} \cup {"flood"}) \cup {"storm_surge"})
      BY ONLY <2>1, <3>2, Zenon
    <3> HIDE DEF A
    <3> QED
      BY ONLY <3>1, <3>3, Zenon
  <2>4. IsFiniteSet(B)
    <3>1. B = (({"landslide"} \cup {"inland_flood"}) \cup {"pseudo_inland_flood"})
              \cup {"lowland_poor_drainage"}
      OBVIOUS
    <3>2. IsFiniteSet({"landslide"} \cup {"inland_flood"})
      BY ONLY <2>1, <2>2, Zenon
    <3>3. IsFiniteSet(({"landslide"} \cup {"inland_flood"}) \cup {"pseudo_inland_flood"})
      BY ONLY <2>1, <3>2, Zenon
    <3>4. IsFiniteSet((({"landslide"} \cup {"inland_flood"}) \cup {"pseudo_inland_flood"})
                      \cup {"lowland_poor_drainage"})
      BY ONLY <2>1, <3>3, Zenon
    <3> HIDE DEF B
    <3> QED
      BY ONLY <3>1, <3>4, Zenon
  <2>5. D = A \cup B
    OBVIOUS
  <2> HIDE DEF A, B
  <2> QED
    BY <2>3, <2>4, <2>5, FS_Union
<1>4. \A h : LowlandBonus(h) \in Nat
  BY DEF LowlandBonus
<1> QED
  BY <1>1, <1>2, <1>3, <1>4

\* More exposure, more penalty for each hazard.
LEMMA HazardPenaltyGrows ==
    ASSUME NEW e, NEW f, MoreExposed(e, f), NEW n \in Nat
    PROVE  /\ \A h \in DOMAIN e : HazardPenalty(e, n, h) \in Nat
                                  /\ HazardPenalty(e, n, h) <= HazardPenalty(f, n, h)
           /\ \A h \in DOMAIN f : HazardPenalty(f, n, h) \in Nat
<1>0. \A h \in DOMAIN Base, k \in Nat : Base[h] * k \in Nat /\ Least[h] * n \in Nat
                                        /\ LowlandBonus(h) * n \in Nat
  BY Scored
<1>1. /\ DOMAIN e \subseteq DOMAIN f /\ DOMAIN f \subseteq DOMAIN Base
      /\ (\A h \in DOMAIN e : e[h] \in Nat /\ e[h] <= f[h]) /\ \A h \in DOMAIN f : f[h] \in Nat
  BY DEF MoreExposed, Exposures
<1>2. ASSUME NEW g \in Exposures, NEW h \in DOMAIN g
      PROVE  LET a == Base[h] * g[h]
                 b == Least[h] * n IN
             /\ a \in Nat /\ b \in Nat
             /\ HazardPenalty(g, n, h) = (IF a >= b THEN a ELSE b)
                    + IF "lowland_poor_drainage" \in DOMAIN g THEN LowlandBonus(h) * n ELSE 0
  <2> DEFINE a == Base[h] * g[h]
             b == Least[h] * n
  <2>1. a \in Nat /\ b \in Nat
    BY <1>0 DEF Exposures
  <2>2. a \in Int /\ b \in Int
    BY <2>1
  <2>3. Max({a, b}) = IF a >= b THEN a ELSE b
    <3> HIDE DEF a, b
    <3> QED
      BY ONLY <2>2, OfTwo, Zenon
  <2> QED
    BY <2>1, <2>3 DEF HazardPenalty
<1>3. e \in Exposures /\ f \in Exposures
  BY DEF MoreExposed
<1>4. ASSUME NEW h \in DOMAIN f PROVE HazardPenalty(f, n, h) \in Nat
  <2> DEFINE a == Base[h] * f[h]
             b == Least[h] * n
             c == LowlandBonus(h) * n
  <2>1. a \in Nat /\ b \in Nat /\ c \in Nat
    BY <1>0, <1>1
  <2>2. HazardPenalty(f, n, h) = (IF a >= b THEN a ELSE b)
            + IF "lowland_poor_drainage" \in DOMAIN f THEN c ELSE 0
    BY <1>2, <1>3
  <2> HIDE DEF a, b, c
  <2> QED
    BY <2>1, <2>2
<1>5. ASSUME NEW h \in DOMAIN e
      PROVE  HazardPenalty(e, n, h) \in Nat /\ HazardPenalty(e, n, h) <= HazardPenalty(f, n, h)
  <2> DEFINE a == Base[h] * e[h]
             d == Base[h] * f[h]
             b == Least[h] * n
             c == LowlandBonus(h) * n
  <2>1. a \in Nat /\ b \in Nat /\ c \in Nat /\ d \in Nat
    BY <1>0, <1>1
  <2>2. a <= d
    <3>1. Base[h] \in Nat /\ e[h] \in Nat /\ f[h] \in Nat /\ e[h] <= f[h]
      BY <1>1, Scored
    <3> QED
      BY ONLY <3>1, Product
  <2>3. HazardPenalty(e, n, h) = (IF a >= b THEN a ELSE b)
            + IF "lowland_poor_drainage" \in DOMAIN e THEN c ELSE 0
    BY <1>2, <1>3
  <2>4. HazardPenalty(f, n, h) = (IF d >= b THEN d ELSE b)
            + IF "lowland_poor_drainage" \in DOMAIN f THEN c ELSE 0
    BY <1>1, <1>2, <1>3
  <2>5. "lowland_poor_drainage" \in DOMAIN e => "lowland_poor_drainage" \in DOMAIN f
    BY <1>1
  <2> HIDE DEF a, b, c, d
  <2> QED
    BY <2>1, <2>2, <2>3, <2>4, <2>5
<1> QED
  BY <1>4, <1>5

LEMMA BoundedIs ==
    ASSUME NEW n \in Nat
    PROVE  \A c \in Int : Bounded(c, n) = IF c > 100 * n THEN 100 * n ELSE IF c < 0 THEN 0 ELSE c
<1> TAKE c \in Int
<1> DEFINE top == 100 * n
           m == Min({top, c})
<1>1. top \in Nat
  OBVIOUS
<1>2. m = IF top <= c THEN top ELSE c
  <2>1. top \in Int /\ c \in Int
    BY <1>1
  <2> HIDE DEF top
  <2> QED
    BY ONLY <2>1, OfTwo, Zenon
<1> HIDE DEF top, m
<1>3. Max({0, m}) = IF 0 >= m THEN 0 ELSE m
  <2>1. 0 \in Int /\ m \in Int
    BY <1>1, <1>2
  <2> QED
    BY ONLY <2>1, OfTwo, Zenon
<1> QED
  BY <1>1, <1>2, <1>3 DEF Bounded, top, m

LEMMA BoundedType ==
    ASSUME NEW a \in Int, NEW n \in Nat
    PROVE  /\ Bounded(a, n) \in 0..(100 * n)
           /\ \A b \in Int : a <= b => Bounded(a, n) <= Bounded(b, n)
  BY BoundedIs

\* The penalties of a route, and their sum.
RoutePenalties(e, n) == [h \in DOMAIN e |-> HazardPenalty(e, n, h)]

LEMMA PenaltiesAreSummed ==
    ASSUME NEW e \in Exposures, NEW n \in Nat
    PROVE  \E it : /\ Sums(it, DOMAIN e, RoutePenalties(e, n))
                   /\ SafetyScore(e, n) = Bounded(100 * n - it[DOMAIN e], n)
<1> DEFINE D == DOMAIN e
           g == RoutePenalties(e, n)
           Is(it) == it = [s \in SUBSET D |->
                             IF s = {} THEN 0
                             ELSE HazardPenalty(e, n, CHOOSE x \in s : TRUE)
                                  + it[s \ {CHOOSE x \in s : TRUE}]]
           iter == CHOOSE it : Is(it)
<1>1. D \cap DOMAIN Base = D /\ IsFiniteSet(D)
  <2>1. D \in SUBSET DOMAIN Base
    BY DEF Exposures
  <2> QED
    BY <2>1, Scored, FS_Subset
<1>2. g \in [D -> Int]
  <2>1. MoreExposed(e, e)
    BY DEF MoreExposed, Exposures
  <2>2. \A h \in D : HazardPenalty(e, n, h) \in Nat
    BY <2>1, HazardPenaltyGrows
  <2> QED
    BY <2>2 DEF RoutePenalties
<1>3. \A it : Sums(it, D, g) => Is(it)
  <2> TAKE it
  <2> SUFFICES ASSUME Sums(it, D, g) PROVE Is(it)
    OBVIOUS
  <2>1. \A s \in SUBSET D : s # {} => /\ (CHOOSE x \in s : TRUE) \in D
                                      /\ g[CHOOSE x \in s : TRUE]
                                         = HazardPenalty(e, n, CHOOSE x \in s : TRUE)
    BY DEF RoutePenalties
  <2> HIDE DEF g, D
  <2> QED
    BY <2>1 DEF Sums
<1>4. PICK it : Sums(it, D, g)
  <2> HIDE DEF g, D
  <2> QED
    BY ONLY <1>1, <1>2, SumExists, Zenon
<1>5. Is(iter)
  <2>1. Is(it)
    BY <1>3, <1>4
  <2> HIDE DEF Is
  <2> QED
    BY <2>1
<1>6. Sums(iter, D, g)
  <2>1. iter = [s \in SUBSET D |-> IF s = {} THEN 0 ELSE g[CHOOSE x \in s : TRUE]
                                                        + iter[s \ {CHOOSE x \in s : TRUE}]]
    <3>1. \A s \in SUBSET D : s # {} => g[CHOOSE x \in s : TRUE]
                                         = HazardPenalty(e, n, CHOOSE x \in s : TRUE)
      BY DEF RoutePenalties
    <3> HIDE DEF iter, g, D
    <3> QED
      BY <1>5, <3>1
  <2> HIDE DEF iter, g, D
  <2> QED
    BY ONLY <1>1, <1>2, <2>1, SumIsDefined, Zenon
<1>7. SafetyScore(e, n) = Bounded(100 * n - iter[D], n)
  BY <1>1 DEF SafetyScore, MapThenSumSet, MapThenFoldSet
<1> HIDE DEF iter
<1> QED
  BY <1>6, <1>7

\* More exposure never scores better.
LEMMA ScoreFalls ==
    ASSUME NEW e, NEW f, MoreExposed(e, f), NEW n \in Nat
    PROVE  /\ SafetyScore(e, n) \in 0..(100 * n) /\ SafetyScore(f, n) \in 0..(100 * n)
           /\ SafetyScore(f, n) <= SafetyScore(e, n)
<1> DEFINE R == DOMAIN e
           S == DOMAIN f
           p == RoutePenalties(e, n)
           q == RoutePenalties(f, n)
<1>1. e \in Exposures /\ f \in Exposures /\ R \in SUBSET S /\ S \in SUBSET DOMAIN Base
  BY DEF MoreExposed, Exposures
<1>2. PICK jt : Sums(jt, R, p) /\ SafetyScore(e, n) = Bounded(100 * n - jt[R], n)
  BY <1>1, PenaltiesAreSummed
<1>3. PICK it : Sums(it, S, q) /\ SafetyScore(f, n) = Bounded(100 * n - it[S], n)
  BY <1>1, PenaltiesAreSummed
<1>4. /\ IsFiniteSet(S) /\ q \in [S -> Int] /\ p \in [R -> Int]
      /\ (\A x \in R : p[x] <= q[x]) /\ \A x \in S : 0 <= q[x]
  <2>1. IsFiniteSet(S)
    BY <1>1, Scored, FS_Subset
  <2>2. /\ \A h \in R : HazardPenalty(e, n, h) \in Nat
                         /\ HazardPenalty(e, n, h) <= HazardPenalty(f, n, h)
        /\ \A h \in S : HazardPenalty(f, n, h) \in Nat
    BY HazardPenaltyGrows
  <2>3. q \in [S -> Int] /\ p \in [R -> Int]
    BY <2>2 DEF RoutePenalties
  <2>4. (\A x \in R : p[x] <= q[x]) /\ \A x \in S : 0 <= q[x]
    BY <1>1, <2>2 DEF RoutePenalties
  <2> QED
    BY <2>1, <2>3, <2>4
<1> HIDE DEF R, S, p, q
<1>5. it[S] \in Int /\ jt[R] \in Int /\ jt[R] <= it[S]
  BY ONLY <1>1, <1>2, <1>3, <1>4, SumGrows, Zenon
<1> DEFINE a == 100 * n - it[S]
           b == 100 * n - jt[R]
<1>6. a \in Int /\ b \in Int /\ a <= b
  BY <1>5
<1> HIDE DEF a, b
<1>7. Bounded(a, n) \in 0..(100 * n) /\ Bounded(b, n) \in 0..(100 * n)
      /\ Bounded(a, n) <= Bounded(b, n)
  BY <1>6, BoundedType
<1> QED
  BY <1>2, <1>3, <1>7 DEF a, b

\* The sum of a function over a set, as the weather's penalty adds it.
SumOver(g, S) == MapThenSumSet(LAMBDA h : g[h], S)

LEMMA SumOverIs ==
    ASSUME NEW S, IsFiniteSet(S), NEW g, \A x \in S : g[x] \in Nat
    PROVE  \E it : Sums(it, S, [x \in S |-> g[x]]) /\ SumOver(g, S) = it[S]
<1> DEFINE c == [x \in S |-> g[x]]
           Is(it) == it = [s \in SUBSET S |->
                             IF s = {} THEN 0 ELSE g[CHOOSE x \in s : TRUE]
                                                   + it[s \ {CHOOSE x \in s : TRUE}]]
           iter == CHOOSE it : Is(it)
<1>1. \A s \in SUBSET S : s # {} => c[CHOOSE x \in s : TRUE] = g[CHOOSE x \in s : TRUE]
  OBVIOUS
<1>2. c \in [S -> Int]
  OBVIOUS
<1>3. PICK it : Sums(it, S, c)
  <2> HIDE DEF c
  <2> QED
    BY ONLY IsFiniteSet(S), <1>2, SumExists, Zenon
<1>4. Is(it)
  <2> HIDE DEF c
  <2> QED
    BY <1>1, <1>3 DEF Sums
<1>5. Is(iter)
  <2> HIDE DEF Is
  <2> QED
    BY <1>4
<1>6. Sums(iter, S, c)
  <2>1. iter = [s \in SUBSET S |-> IF s = {} THEN 0 ELSE c[CHOOSE x \in s : TRUE]
                                                        + iter[s \ {CHOOSE x \in s : TRUE}]]
    <3> HIDE DEF iter, c
    <3> QED
      BY <1>1, <1>5
  <2> HIDE DEF iter, c
  <2> QED
    BY ONLY IsFiniteSet(S), <1>2, <2>1, SumIsDefined, Zenon
<1>7. SumOver(g, S) = iter[S]
  BY DEF SumOver, MapThenSumSet, MapThenFoldSet
<1> HIDE DEF iter
<1> QED
  BY <1>6, <1>7

LEMMA SumOverGrows ==
    ASSUME NEW S, IsFiniteSet(S), NEW g, NEW R \in SUBSET S, NEW f,
           \A x \in S : g[x] \in Nat, \A x \in R : f[x] \in Nat /\ f[x] <= g[x]
    PROVE  SumOver(g, S) \in Nat /\ SumOver(f, R) \in Nat /\ SumOver(f, R) <= SumOver(g, S)
<1> DEFINE p == [x \in R |-> f[x]]
           q == [x \in S |-> g[x]]
           none == [x \in {} |-> f[x]]
<1>1. IsFiniteSet(R) /\ IsFiniteSet({})
  BY FS_Subset, FS_EmptySet
<1>2. PICK it : Sums(it, S, q) /\ SumOver(g, S) = it[S]
  BY SumOverIs
<1>3. PICK jt : Sums(jt, R, p) /\ SumOver(f, R) = jt[R]
  BY <1>1, SumOverIs
<1>4. /\ q \in [S -> Int] /\ p \in [R -> Int] /\ (\A x \in R : p[x] <= q[x])
      /\ (\A x \in S : 0 <= q[x]) /\ \A x \in R : 0 <= p[x]
  OBVIOUS
<1>5. none \in [{} -> Int] /\ {} \in SUBSET R /\ \A x \in {} : none[x] <= p[x]
  OBVIOUS
<1>6. PICK kt : Sums(kt, {}, none)
  <2> HIDE DEF none
  <2> QED
    BY ONLY <1>1, <1>5, SumExists, Zenon
<1> HIDE DEF p, q, none
<1>7. it[S] \in Int /\ jt[R] \in Int /\ jt[R] <= it[S]
  BY <1>2, <1>3, <1>4, SumGrows
<1>8. kt[{}] <= jt[R] /\ kt[{}] = 0
  <2>1. kt[{}] <= jt[R]
    BY <1>1, <1>3, <1>4, <1>5, <1>6, SumGrows
  <2>2. kt[{}] = 0
    BY <1>6 DEF Sums
  <2> QED
    BY <2>1, <2>2
<1> QED
  BY <1>2, <1>3, <1>7, <1>8

\* What the penalty of the weather is made of.
Strong == [flood |-> 15, landslide |-> 15, inland_flood |-> 10, storm_surge |-> 10]
Severe == [flood |-> 30, landslide |-> 25, inland_flood |-> 15, storm_surge |-> 20]
WeatherBase(i) ==
    CASE i = "severe" -> 30 [] i = "strong" -> 15 [] i = "moderate" -> 5 [] i = "weak" -> 2 [] OTHER -> 0
Met(e) == DOMAIN e \cap DOMAIN Strong

LEMMA MetGrows ==
    ASSUME NEW e, NEW f, MoreExposed(e, f)
    PROVE  /\ IsFiniteSet(Met(f)) /\ Met(e) \in SUBSET Met(f)
           /\ \A h \in Met(f) : Strong[h] \in Nat /\ Severe[h] \in Nat /\ Strong[h] <= Severe[h]
<1>1. Met(e) \in SUBSET Met(f) /\ Met(f) \in SUBSET DOMAIN Base
  BY DEF MoreExposed, Exposures, Met
<1>2. IsFiniteSet(Met(f))
  BY <1>1, Scored, FS_Subset
<1>3. ASSUME NEW h \in Met(f)
      PROVE  Strong[h] \in Nat /\ Severe[h] \in Nat /\ Strong[h] <= Severe[h]
  <2>1. CASE h = "flood"
    BY <2>1 DEF Strong, Severe
  <2>2. CASE h = "landslide"
    BY <2>2 DEF Strong, Severe
  <2>3. CASE h = "inland_flood"
    BY <2>3 DEF Strong, Severe
  <2>4. CASE h = "storm_surge"
    BY <2>4 DEF Strong, Severe
  <2> QED
    BY <2>1, <2>2, <2>3, <2>4 DEF Met, Strong
<1> QED
  BY <1>1, <1>2, <1>3

LEMMA WeatherPenaltyIs ==
    ASSUME NEW i, NEW e
    PROVE  WeatherPenalty(i, e) =
               WeatherBase(i) + CASE i = "severe" -> SumOver(Severe, Met(e))
                                  [] i = "strong" -> SumOver(Strong, Met(e)) [] OTHER -> 0
  BY DEF WeatherPenalty, WeatherBase, SumOver, Met, Severe, Strong, MapThenSumSet, MapThenFoldSet

\* Stronger rain on a route that is more exposed costs no less.
LEMMA WeatherPenaltyGrows ==
    ASSUME NEW e, NEW f, MoreExposed(e, f), NEW i, NEW j, IntensityRank(i) <= IntensityRank(j)
    PROVE  WeatherPenalty(i, e) \in Nat /\ WeatherPenalty(j, f) \in Nat
           /\ WeatherPenalty(i, e) <= WeatherPenalty(j, f)
<1> DEFINE x == SumOver(Strong, Met(e))
           y == SumOver(Severe, Met(e))
           u == SumOver(Strong, Met(f))
           v == SumOver(Severe, Met(f))
<1>0. /\ IsFiniteSet(Met(f)) /\ Met(e) \in SUBSET Met(f)
      /\ \A h \in Met(f) : Strong[h] \in Nat /\ Severe[h] \in Nat /\ Strong[h] <= Severe[h]
  BY MetGrows
<1>1. x \in Nat /\ u \in Nat /\ x <= u
  BY <1>0, SumOverGrows
<1>2. y \in Nat /\ v \in Nat /\ y <= v
  BY <1>0, SumOverGrows
<1>3. x <= v
  BY <1>0, SumOverGrows
<1>4. /\ WeatherPenalty(i, e) = WeatherBase(i) + (CASE i = "severe" -> y [] i = "strong" -> x [] OTHER -> 0)
      /\ WeatherPenalty(j, f) = WeatherBase(j) + (CASE j = "severe" -> v [] j = "strong" -> u [] OTHER -> 0)
  BY WeatherPenaltyIs
<1> HIDE DEF x, y, u, v
<1>5. /\ IntensityRank(j) = 4 => j = "severe"
      /\ IntensityRank(j) = 3 => j = "strong"
      /\ IntensityRank(j) <= 2 => j \notin {"severe", "strong"}
      /\ IntensityRank(j) \in -1..4
  BY DEF IntensityRank
<1>6. WeatherBase(i) \in Nat /\ WeatherBase(j) \in Nat /\ WeatherBase(i) <= WeatherBase(j)
  BY DEF WeatherBase, IntensityRank
<1>7. CASE j = "severe"
  <2>1. i = "severe" \/ i = "strong" \/ i \notin {"severe", "strong"}
    OBVIOUS
  <2> QED
    BY <1>1, <1>2, <1>3, <1>4, <1>6, <1>7, <2>1
<1>8. CASE j = "strong"
  <2>1. i # "severe"
    BY <1>8 DEF IntensityRank
  <2> QED
    BY <1>1, <1>2, <1>3, <1>4, <1>6, <1>8, <2>1
<1>9. CASE j \notin {"severe", "strong"}
  <2>1. i \notin {"severe", "strong"}
    BY <1>9 DEF IntensityRank
  <2> QED
    BY <1>4, <1>6, <1>9, <2>1
<1> QED
  BY <1>7, <1>8, <1>9

\* The strongest intensity that is told.
LEMMA StrongestIsTold ==
    ASSUME NEW r
    PROVE  LET i == CHOOSE k \in Told(r) : \A j \in Told(r) : IntensityRank(j) <= IntensityRank(k) IN
           i \in Told(r) /\ \A j \in Told(r) : IntensityRank(j) <= IntensityRank(i)
<1> DEFINE s == IntensityRanks(r)
<1>1. s \in SUBSET Int /\ s # {} /\ 4 \in Int /\ \A y \in s : y <= 4
  <2>1. s \in SUBSET (-1..4) /\ s # {}
    BY RanksAreBounded
  <2>2. \A y \in -1..4 : y \in Int /\ y <= 4
    OBVIOUS
  <2> QED
    BY <2>1, <2>2
<1>2. Max(s) \in s /\ \A y \in s : y <= Max(s)
  <2> HIDE DEF s
  <2> QED
    BY ONLY <1>1, MaxOfBounded, Zenon
<1>3. \E k \in Told(r) : \A j \in Told(r) : IntensityRank(j) <= IntensityRank(k)
  BY <1>2 DEF IntensityRanks
<1> QED
  BY <1>3

\* The weather of a route under worse rain.
LEMMA RouteWeatherGrows ==
    ASSUME NEW old, NEW new, Worse(old, new), NEW path \in Seq([at : Points, metres : Nat]),
           Len(path) >= 2
    PROVE  /\ IntensityRank(RouteWeather(old, path).intensity)
              <= IntensityRank(RouteWeather(new, path).intensity)
           /\ SeverityRank(RouteWeather(old, path).risk) <= SeverityRank(RouteWeather(new, path).risk)
           /\ RouteWeather(old, path).risk = "unknown" => RouteWeather(new, path).risk = "unknown"
<1> DEFINE p == path[Len(path) \div 2 + 1].at
           a == old.rain[p]
           b == new.rain[p]
           Strongest(r) == CHOOSE i \in Told(r) : \A j \in Told(r) : IntensityRank(j) <= IntensityRank(i)
<1>1. p \in Points
  <2>1. Len(path) \in Nat /\ Len(path) \div 2 + 1 \in 1..Len(path)
    BY LenProperties
  <2>2. path[Len(path) \div 2 + 1] \in [at : Points, metres : Nat]
    BY <2>1, ElementOfSeq
  <2> QED
    BY <2>2
<1> HIDE DEF p
<1>2. a.ahead \in Seq(STRING) /\ b.ahead \in Seq(STRING) /\ WorseRain(a, b)
  BY <1>1, ForecastsAreLists DEF Worse
<1>3. a.down = b.down
  BY <1>2 DEF WorseRain
<1>4. \A w \in {old, new} : RouteWeather(w, path) =
          IF w.rain[p].down THEN [intensity |-> "unknown", risk |-> "unavailable"]
          ELSE [intensity |-> Strongest(w.rain[p]),
                risk |-> PrecipitationSummary(w.rain[p]).severity]
  BY DEF RouteWeather, PrecipitationSummary, Told, p
<1> HIDE DEF a, b
<1>5. /\ SeverityRank(PrecipitationSummary(a).severity) <= SeverityRank(PrecipitationSummary(b).severity)
      /\ PrecipitationSummary(a).severity = "unknown" => PrecipitationSummary(b).severity = "unknown"
  BY <1>2, SeverityGrows
<1>6. IntensityRank(Strongest(a)) <= IntensityRank(Strongest(b))
  <2>1. Strongest(a) \in Told(a)
    BY StrongestIsTold
  <2>2. \A j \in Told(b) : IntensityRank(j) <= IntensityRank(Strongest(b))
    BY StrongestIsTold
  <2> HIDE DEF Strongest
  <2>3. PICK j \in Told(b) : IntensityRank(Strongest(a)) <= IntensityRank(j)
    BY <1>2, <2>1, ToldGrows
  <2>4. \A i : IntensityRank(i) \in -1..4
    BY RanksAreBounded
  <2> QED
    BY <2>2, <2>3, <2>4
<1> HIDE DEF Strongest
<1>7. CASE a.down
  <2>1. RouteWeather(old, path) = [intensity |-> "unknown", risk |-> "unavailable"]
        /\ RouteWeather(new, path) = [intensity |-> "unknown", risk |-> "unavailable"]
    BY <1>3, <1>4, <1>7 DEF a, b
  <2> QED
    BY <2>1 DEF IntensityRank, SeverityRank
<1>8. CASE ~a.down
  <2>1. /\ RouteWeather(old, path)
           = [intensity |-> Strongest(a), risk |-> PrecipitationSummary(a).severity]
        /\ RouteWeather(new, path)
           = [intensity |-> Strongest(b), risk |-> PrecipitationSummary(b).severity]
    BY <1>3, <1>4, <1>8 DEF a, b
  <2> QED
    BY <1>5, <1>6, <2>1
<1> QED
  BY <1>7, <1>8

-----------------------------------------------------------------------------
(* The samples of a route that is scored                                   *)

LEMMA Quotient ==
    ASSUME NEW a \in Nat, NEW b \in Nat, b > 0
    PROVE  a \div b \in Nat /\ (a \div b) * b <= a
  OBVIOUS

\* Every point that is sampled is a point of the route.
LEMMA SampledPoints ==
    ASSUME NEW path \in Seq([at : Points, metres : Nat]), Len(path) >= 1, NEW count \in Nat \ {0}
    PROVE  SampledWithLast(path, count) \in Seq(Points)
<1> DEFINE len == Len(path)
           m == Min({count, len})
           step == Max({1, len \div m})
           top == (len - 1) \div step + 1
           taken == [i \in 1..top |-> path[(i - 1) * step + 1].at]
<1>1. len \in Nat /\ len >= 1 /\ \A i \in 1..len : path[i].at \in Points
  <2>1. len \in Nat /\ \A i \in 1..len : path[i] \in [at : Points, metres : Nat]
    BY ElementOfSeq, LenProperties
  <2> QED
    BY <2>1
<1> HIDE DEF len
<1>2. m \in Nat /\ m > 0
  <2>1. m = IF count <= len THEN count ELSE len
    <3>1. count \in Int /\ len \in Int
      BY <1>1
    <3> QED
      BY ONLY <3>1, OfTwo, Zenon DEF m
  <2> HIDE DEF m
  <2> QED
    BY <1>1, <2>1
<1> HIDE DEF m
<1>3. step \in Nat /\ step >= 1
  <2> DEFINE q == len \div m
  <2>1. q \in Nat
    BY <1>1, <1>2, Quotient
  <2> HIDE DEF q
  <2>2. Max({1, q}) = IF 1 >= q THEN 1 ELSE q
    <3>1. 1 \in Int /\ q \in Int
      BY <2>1
    <3> QED
      BY ONLY <3>1, OfTwo, Zenon
  <2> QED
    BY <2>1, <2>2 DEF q
<1> HIDE DEF step
<1>4. top \in Nat /\ top >= 1 /\ (top - 1) * step <= len - 1
  <2>1. len - 1 \in Nat /\ step \in Nat /\ step > 0
    BY <1>1, <1>3
  <2> DEFINE q == (len - 1) \div step
  <2>2. q \in Nat /\ q * step <= len - 1
    BY <2>1, Quotient
  <2> HIDE DEF q
  <2>3. top = q + 1
    BY DEF q
  <2> HIDE DEF top
  <2>4. top - 1 = q /\ top \in Nat /\ top >= 1
    BY <2>2, <2>3
  <2> QED
    BY <2>2, <2>4
<1> HIDE DEF top
<1>5. \A i \in 1..top : path[(i - 1) * step + 1].at \in Points
  <2> TAKE i \in 1..top
  <2>1. i - 1 \in Nat /\ top - 1 \in Nat /\ i - 1 <= top - 1
    BY <1>4
  <2>2. (i - 1) * step \in Nat /\ (i - 1) * step <= (top - 1) * step
    <3> DEFINE x == i - 1
               y == top - 1
    <3>1. x \in Nat /\ y \in Nat /\ x <= y /\ step \in Nat
      BY <1>3, <2>1
    <3> HIDE DEF x, y
    <3>2. x * step \in Nat /\ x * step <= y * step
      BY ONLY <3>1, Product
    <3> QED
      BY <3>2 DEF x, y
  <2> DEFINE k == (i - 1) * step
             l == (top - 1) * step
  <2>3. k \in Nat /\ l \in Int /\ k <= l /\ l <= len - 1
    BY <1>3, <1>4, <2>1, <2>2
  <2> HIDE DEF k, l
  <2>4. k + 1 \in 1..len
    BY <1>1, <2>3
  <2> QED
    BY <1>1, <2>4 DEF k
<1>6. taken \in Seq(Points)
  <2>1. taken \in [1..top -> Points]
    BY <1>5
  <2> HIDE DEF taken
  <2> QED
    BY <1>4, <2>1, SeqDef
<1> HIDE DEF taken
<1>7. Last(path).at \in Points
  BY <1>1 DEF Last, len
<1>8. Append(taken, Last(path).at) \in Seq(Points)
  BY <1>6, <1>7, AppendProperties
<1>9. SampledWithLast(path, count) = IF Last(taken) = Last(path).at THEN taken
                                     ELSE Append(taken, Last(path).at)
  BY DEF SampledWithLast, taken, top, step, m, len
<1> QED
  BY <1>6, <1>8, <1>9

LEMMA UniformPoints ==
    ASSUME NEW path \in Seq([at : Points, metres : Nat]), Len(path) >= 1
    PROVE  SampleUniform(path) \in Seq(Points)
<1> DEFINE taken == SampledWithLast(path, MaxSamples)
           m == Min({Len(taken), MaxSamples})
<1>1. MaxSamples \in Nat \ {0}
  BY RiskAssumption
<1>2. taken \in Seq(Points) /\ Len(taken) \in Nat
  <2>1. taken \in Seq(Points)
    BY <1>1, SampledPoints
  <2> HIDE DEF taken
  <2> QED
    BY <2>1, LenProperties
<1> HIDE DEF taken
<1>3. m \in 0..Len(taken)
  <2>1. m = IF Len(taken) <= MaxSamples THEN Len(taken) ELSE MaxSamples
    <3>1. Len(taken) \in Int /\ MaxSamples \in Int
      BY <1>1, <1>2
    <3> QED
      BY ONLY <3>1, OfTwo, Zenon DEF m
  <2> HIDE DEF m
  <2> QED
    BY <1>1, <1>2, <2>1
<1> HIDE DEF m
<1>4. SubSeq(taken, 1, m) \in Seq(Points)
  <2>1. 1 \in 1..(Len(taken) + 1) /\ m \in (1 - 1)..Len(taken)
    BY <1>2, <1>3
  <2> QED
    BY <1>2, <2>1, SubSeqProperties
<1>5. [i \in DOMAIN path |-> path[i].at] \in Seq(Points)
  <2>1. DOMAIN path = 1..Len(path) /\ Len(path) \in Nat
        /\ \A i \in 1..Len(path) : path[i] \in [at : Points, metres : Nat]
    BY ElementOfSeq, LenProperties
  <2>2. [i \in DOMAIN path |-> path[i].at] \in [1..Len(path) -> Points]
    BY <2>1
  <2> QED
    BY <2>1, <2>2, SeqDef
<1> QED
  BY <1>4, <1>5 DEF SampleUniform, taken, m

-----------------------------------------------------------------------------
(* The two scorings of a route                                             *)

\* A lower score under a graver rain is as grave a level.
LEMMA RiskLevelGrows ==
    ASSUME NEW n \in Nat, NEW a \in Int, NEW b \in Int, b <= a, NEW x, NEW y,
           SeverityRank(x) <= SeverityRank(y), x = "unknown" => y = "unknown"
    PROVE  LevelRank(ToRiskLevel(a, n, x)) <= LevelRank(ToRiskLevel(b, n, y))
<1> DEFINE p == 30 * n
           q == 50 * n
           r == 75 * n
           i == SeverityRank(x)
           j == SeverityRank(y)
<1>1. p \in Int /\ q \in Int /\ r \in Int /\ p <= q /\ q <= r /\ i \in {0, 2, 3, 4} /\ j \in {0, 2, 3, 4}
      /\ i <= j
  BY LevelRanks
<1>2. /\ ToRiskLevel(a, n, x) = IF a < p \/ i >= 4 THEN "emergency" ELSE IF a < q \/ i = 3 THEN "warning"
                                ELSE IF a < r \/ i = 2 THEN "advisory"
                                ELSE IF x = "unknown" THEN "unknown" ELSE "none"
      /\ ToRiskLevel(b, n, y) = IF b < p \/ j >= 4 THEN "emergency" ELSE IF b < q \/ j = 3 THEN "warning"
                                ELSE IF b < r \/ j = 2 THEN "advisory"
                                ELSE IF y = "unknown" THEN "unknown" ELSE "none"
  BY DEF ToRiskLevel
<1> HIDE DEF p, q, r, i, j
<1>3. /\ LevelRank("emergency") = 4 /\ LevelRank("warning") = 3 /\ LevelRank("advisory") = 2
      /\ LevelRank("unknown") = 1 /\ LevelRank("none") = 0
  BY DEF LevelRank
<1> QED
  BY <1>1, <1>2, <1>3

\* The comparison of routes.
LEMMA RouteGrows ==
    ASSUME NEW old, NEW new, Worse(old, new), NEW r \in DOMAIN Routes
    PROVE  /\ LevelRank(AssessRoute(old, Routes[r]).level) <= LevelRank(AssessRoute(new, Routes[r]).level)
           /\ AssessRoute(old, Routes[r]).score >= AssessRoute(new, Routes[r]).score
<1> DEFINE path == Routes[r].path
           points == SampleUniform(path)
           n == Len(points)
           e == Exposure(old, points)
           f == Exposure(new, points)
           x == RouteWeather(old, path)
           y == RouteWeather(new, path)
           a == SafetyScore(e, n) - WeatherPenalty(x.intensity, e) * n
           b == SafetyScore(f, n) - WeatherPenalty(y.intensity, f) * n
<1>1. path \in Seq([at : Points, metres : Nat]) /\ Len(path) \in Nat
  <2>1. path \in Seq([at : Points, metres : Nat])
    BY RiskAssumption
  <2> HIDE DEF path
  <2> QED
    BY <2>1, LenProperties
<1>2. /\ AssessRoute(old, Routes[r]) =
             IF Len(path) < 2 THEN [level |-> "unknown", score |-> 50, samples |-> 1]
             ELSE [level |-> ToRiskLevel(Bounded(a, n), n, x.risk), score |-> Bounded(a, n), samples |-> n]
      /\ AssessRoute(new, Routes[r]) =
             IF Len(path) < 2 THEN [level |-> "unknown", score |-> 50, samples |-> 1]
             ELSE [level |-> ToRiskLevel(Bounded(b, n), n, y.risk), score |-> Bounded(b, n), samples |-> n]
  BY DEF AssessRoute
<1> HIDE DEF path
<1>3. CASE Len(path) < 2
  <2>1. AssessRoute(old, Routes[r]) = AssessRoute(new, Routes[r])
        /\ AssessRoute(old, Routes[r]) = [level |-> "unknown", score |-> 50, samples |-> 1]
    BY <1>2, <1>3
  <2> QED
    BY <2>1, LevelRanks
<1>4. CASE Len(path) >= 2
  <2>1. points \in Seq(Points) /\ n \in Nat
    <3>1. points \in Seq(Points)
      <4>1. Len(path) >= 1
        BY <1>1, <1>4
      <4> QED
        BY <1>1, <4>1, UniformPoints
    <3> HIDE DEF points
    <3> QED
      BY <3>1, LenProperties
  <2> HIDE DEF points, n
  <2>2. MoreExposed(e, f)
    BY <2>1, ExposureGrows
  <2>3. /\ IntensityRank(x.intensity) <= IntensityRank(y.intensity)
        /\ SeverityRank(x.risk) <= SeverityRank(y.risk)
        /\ x.risk = "unknown" => y.risk = "unknown"
    BY <1>1, <1>4, RouteWeatherGrows
  <2> HIDE DEF e, f, x, y
  <2>4. /\ WeatherPenalty(x.intensity, e) \in Nat /\ WeatherPenalty(y.intensity, f) \in Nat
        /\ WeatherPenalty(x.intensity, e) <= WeatherPenalty(y.intensity, f)
    BY <2>2, <2>3, WeatherPenaltyGrows
  <2>5. /\ SafetyScore(e, n) \in Int /\ SafetyScore(f, n) \in Int
        /\ SafetyScore(f, n) <= SafetyScore(e, n)
    <3>1. /\ SafetyScore(e, n) \in 0..(100 * n) /\ SafetyScore(f, n) \in 0..(100 * n)
          /\ SafetyScore(f, n) <= SafetyScore(e, n)
      BY <2>1, <2>2, ScoreFalls
    <3> QED
      BY <3>1
  <2>6. /\ WeatherPenalty(x.intensity, e) * n \in Nat /\ WeatherPenalty(y.intensity, f) * n \in Nat
        /\ WeatherPenalty(x.intensity, e) * n <= WeatherPenalty(y.intensity, f) * n
    BY ONLY <2>1, <2>4, Product
  <2>7. a \in Int /\ b \in Int /\ b <= a
    BY <2>5, <2>6
  <2> HIDE DEF a, b
  <2>8. Bounded(a, n) \in Int /\ Bounded(b, n) \in Int /\ Bounded(b, n) <= Bounded(a, n)
    <3>1. /\ Bounded(a, n) \in 0..(100 * n) /\ Bounded(b, n) \in 0..(100 * n)
          /\ Bounded(b, n) <= Bounded(a, n)
      BY <2>1, <2>7, BoundedType
    <3> QED
      BY <3>1
  <2>9. LevelRank(ToRiskLevel(Bounded(a, n), n, x.risk))
        <= LevelRank(ToRiskLevel(Bounded(b, n), n, y.risk))
    BY <2>1, <2>3, <2>8, RiskLevelGrows
  <2>10. /\ AssessRoute(old, Routes[r]).level = ToRiskLevel(Bounded(a, n), n, x.risk)
         /\ AssessRoute(old, Routes[r]).score = Bounded(a, n)
         /\ AssessRoute(new, Routes[r]).level = ToRiskLevel(Bounded(b, n), n, y.risk)
         /\ AssessRoute(new, Routes[r]).score = Bounded(b, n)
    BY <1>1, <1>2, <1>4
  <2> QED
    BY <2>8, <2>9, <2>10
<1> QED
  BY <1>1, <1>3, <1>4

\* The kikikuru: which kinds raise the penalty, and by how much.
Raised(w) == IF w.kikikuru.status # "ok" THEN {}
             ELSE {k \in DOMAIN KikikuruBase : w.kikikuru[k] \in {"caution", "danger"}}
Overlaps(e, k) == KikikuruHazards[k] \cap DOMAIN e # {}
KindPenalty(w, e, k) == KikikuruBase[k] * (IF Overlaps(e, k) THEN 2 ELSE 1)
                                        * (IF w.kikikuru[k] = "danger" THEN 2 ELSE 1)
KindPenalties(w, e) == [k \in Raised(w) |-> KindPenalty(w, e, k)]
Meets(w, e) == \E k \in Raised(w) : Overlaps(e, k)

LEMMA Kinds ==
    /\ DOMAIN KikikuruBase = {"inund", "flood", "land"}
    /\ \A w : IsFiniteSet(Raised(w)) /\ Raised(w) \subseteq {"inund", "flood", "land"}
    /\ \A w, e, k : k \in Raised(w) => KindPenalty(w, e, k) \in 1..16
    /\ \A w, e, f, k : k \in Raised(w) /\ DOMAIN e \subseteq DOMAIN f
                       => KindPenalty(w, e, k) <= KindPenalty(w, f, k)
<1>1. DOMAIN KikikuruBase = {"inund", "flood", "land"}
  BY DEF KikikuruBase
<1>2. \A w : Raised(w) \subseteq {"inund", "flood", "land"}
  BY <1>1 DEF Raised
<1>3. IsFiniteSet({"inund", "flood", "land"})
  <2>1. {"inund", "flood", "land"} = ({"inund"} \cup {"flood"}) \cup {"land"}
    OBVIOUS
  <2>2. IsFiniteSet({"inund"} \cup {"flood"})
    BY ONLY FS_Singleton, FS_AddElement, Zenon
  <2>3. IsFiniteSet(({"inund"} \cup {"flood"}) \cup {"land"})
    BY ONLY <2>2, FS_AddElement, Zenon
  <2> QED
    BY ONLY <2>1, <2>3, Zenon
<1>4. \A w : IsFiniteSet(Raised(w))
  BY <1>2, <1>3, FS_Subset
<1>5. \A k \in {"inund", "flood", "land"} : KikikuruBase[k] \in {3, 4}
  BY DEF KikikuruBase
<1>6. ASSUME NEW w, NEW e, NEW k, k \in Raised(w) PROVE KindPenalty(w, e, k) \in 1..16
  <2>1. KikikuruBase[k] \in {3, 4}
    BY <1>2, <1>5, <1>6
  <2> QED
    BY <2>1 DEF KindPenalty
<1>7. ASSUME NEW w, NEW e, NEW f, NEW k, k \in Raised(w), DOMAIN e \subseteq DOMAIN f
      PROVE  KindPenalty(w, e, k) <= KindPenalty(w, f, k)
  <2>1. KikikuruBase[k] \in {3, 4}
    BY <1>2, <1>5, <1>7
  <2>2. Overlaps(e, k) => Overlaps(f, k)
    BY <1>7 DEF Overlaps
  <2> QED
    BY <2>1, <2>2 DEF KindPenalty
<1> QED
  BY <1>1, <1>2, <1>4, <1>6, <1>7

LEMMA KindsAreSummed ==
    ASSUME NEW w, NEW e
    PROVE  \E it : /\ Sums(it, Raised(w), KindPenalties(w, e))
                   /\ KikikuruAdjustment(w, e) =
                          [penalty |-> Min({it[Raised(w)], IF Meets(w, e) THEN 30 ELSE 20}),
                           max_level |-> IF Meets(w, e) THEN "danger" ELSE "caution"]
<1> DEFINE D == Raised(w)
           g == KindPenalties(w, e)
           Is(it) == it = [s \in SUBSET D |->
                             IF s = {} THEN 0
                             ELSE KindPenalty(w, e, CHOOSE x \in s : TRUE)
                                  + it[s \ {CHOOSE x \in s : TRUE}]]
           iter == CHOOSE it : Is(it)
<1>1. IsFiniteSet(D) /\ g \in [D -> Int]
  BY Kinds DEF KindPenalties
<1>2. \A s \in SUBSET D : s # {} => /\ (CHOOSE x \in s : TRUE) \in D
                                    /\ g[CHOOSE x \in s : TRUE]
                                       = KindPenalty(w, e, CHOOSE x \in s : TRUE)
  BY DEF KindPenalties
<1>3. PICK it : Sums(it, D, g)
  <2> HIDE DEF g, D
  <2> QED
    BY ONLY <1>1, SumExists, Zenon
<1>4. Is(it)
  <2> HIDE DEF g, D
  <2> QED
    BY <1>2, <1>3 DEF Sums
<1>5. Is(iter)
  <2> HIDE DEF Is
  <2> QED
    BY <1>4
<1>6. Sums(iter, D, g)
  <2>1. iter = [s \in SUBSET D |-> IF s = {} THEN 0 ELSE g[CHOOSE x \in s : TRUE]
                                                        + iter[s \ {CHOOSE x \in s : TRUE}]]
    <3> HIDE DEF iter, g, D
    <3> QED
      BY <1>2, <1>5
  <2> HIDE DEF iter, g, D
  <2> QED
    BY ONLY <1>1, <2>1, SumIsDefined, Zenon
<1>7. KikikuruAdjustment(w, e) =
          [penalty |-> Min({iter[D], IF Meets(w, e) THEN 30 ELSE 20}),
           max_level |-> IF Meets(w, e) THEN "danger" ELSE "caution"]
  BY DEF KikikuruAdjustment, MapThenSumSet, MapThenFoldSet, Raised, Meets, Overlaps, KindPenalty
<1> HIDE DEF iter
<1> QED
  BY <1>6, <1>7

\* The adjustment grows with the exposure, and is nothing only when no kind is raised.
LEMMA AdjustmentGrows ==
    ASSUME NEW old, NEW new, Worse(old, new), NEW e, NEW f, MoreExposed(e, f)
    PROVE  LET a == KikikuruAdjustment(old, e)
               b == KikikuruAdjustment(new, f) IN
           /\ a.penalty \in Nat /\ b.penalty \in Nat /\ a.penalty <= b.penalty
           /\ a.penalty = 0 => b.penalty = 0
           /\ a.max_level \in {"caution", "danger"} /\ b.max_level \in {"caution", "danger"}
           /\ a.max_level = "danger" => b.max_level = "danger"
<1> DEFINE D == Raised(old)
           p == KindPenalties(old, e)
           q == KindPenalties(old, f)
           c == IF Meets(old, e) THEN 30 ELSE 20
           d == IF Meets(old, f) THEN 30 ELSE 20
<1>1. /\ Raised(new) = Raised(old) /\ KindPenalties(new, f) = KindPenalties(old, f)
      /\ Meets(new, f) = Meets(old, f)
  <2>1. new.kikikuru = old.kikikuru
    BY DEF Worse
  <2> QED
    BY <2>1 DEF Raised, KindPenalties, KindPenalty, Meets
<1>2. DOMAIN e \subseteq DOMAIN f
  BY DEF MoreExposed
<1>3. Meets(old, e) => Meets(old, f)
  BY <1>2 DEF Meets, Overlaps
<1>4. PICK jt : /\ Sums(jt, D, p)
                /\ KikikuruAdjustment(old, e) = [penalty |-> Min({jt[D], c}),
                       max_level |-> IF Meets(old, e) THEN "danger" ELSE "caution"]
  BY KindsAreSummed
<1>5. PICK it : /\ Sums(it, D, q)
                /\ KikikuruAdjustment(new, f) = [penalty |-> Min({it[D], d}),
                       max_level |-> IF Meets(old, f) THEN "danger" ELSE "caution"]
  BY <1>1, KindsAreSummed
<1>6. IsFiniteSet(D) /\ D \in SUBSET D
  BY Kinds
<1>7. /\ p \in [D -> Int] /\ q \in [D -> Int]
      /\ \A k \in D : p[k] <= q[k] /\ 0 < p[k] /\ 0 <= p[k] /\ 0 <= q[k]
  <2>1. \A k \in D : KindPenalty(old, e, k) \in 1..16 /\ KindPenalty(old, f, k) \in 1..16
                     /\ KindPenalty(old, e, k) <= KindPenalty(old, f, k)
    BY <1>2, Kinds
  <2> HIDE DEF D
  <2> QED
    BY <2>1 DEF KindPenalties, D
<1> HIDE DEF D, p, q
<1>8. it[D] \in Int /\ jt[D] \in Int /\ jt[D] <= it[D]
  BY <1>4, <1>5, <1>6, <1>7, SumGrows
<1>9. CASE D = {}
  <2>1. it[D] = 0 /\ jt[D] = 0
    BY <1>4, <1>5, <1>6, <1>9 DEF Sums
  <2>2. Min({0, c}) = 0 /\ Min({0, d}) = 0
    <3>1. \A k \in {20, 30} : Min({0, k}) = 0
      BY OfTwo
    <3> QED
      BY <3>1
  <2> QED
    BY <1>3, <1>4, <1>5, <2>1, <2>2
<1>10. CASE D # {}
  <2>1. PICK k \in D : TRUE
    BY <1>10
  <2>2. p[k] <= jt[D] /\ 0 < p[k] /\ p[k] \in Int
    BY <1>4, <1>6, <1>7, SumIsAtLeast
  <2>3. 0 < jt[D] /\ jt[D] <= it[D]
    BY <1>8, <2>2
  <2>4. c \in {20, 30} /\ d \in {20, 30} /\ c <= d
    BY <1>3
  <2> HIDE DEF c, d
  <2>5. Min({jt[D], c}) = IF jt[D] <= c THEN jt[D] ELSE c
    <3>1. jt[D] \in Int /\ c \in Int
      BY <1>8, <2>4
    <3> QED
      BY ONLY <3>1, OfTwo, Zenon
  <2>6. Min({it[D], d}) = IF it[D] <= d THEN it[D] ELSE d
    <3>1. it[D] \in Int /\ d \in Int
      BY <1>8, <2>4
    <3> QED
      BY ONLY <3>1, OfTwo, Zenon
  <2>7. Min({jt[D], c}) \in Nat /\ Min({it[D], d}) \in Nat /\ Min({jt[D], c}) <= Min({it[D], d})
        /\ Min({jt[D], c}) # 0
    BY <1>8, <2>3, <2>4, <2>5, <2>6
  <2> QED
    BY <1>3, <1>4, <1>5, <2>7
<1> QED
  BY <1>9, <1>10

\* A lower score is never a safer level.
LEMMA ScoreLevelGrows ==
    ASSUME NEW n \in Nat, NEW a \in Int, NEW b \in Int, b <= a
    PROVE  /\ ScoreRank(ScoreLevel(a, n)) <= ScoreRank(ScoreLevel(b, n))
           /\ ScoreLevel(a, n) = "danger" => ScoreLevel(b, n) = "danger"
           /\ ScoreLevel(a, n) \in {"safe", "caution", "danger"}
<1> DEFINE p == 50 * n
           q == 75 * n
<1>1. p \in Int /\ q \in Int /\ p <= q
  OBVIOUS
<1>2. /\ ScoreLevel(a, n) = CASE a >= q -> "safe" [] a >= p /\ a < q -> "caution" [] OTHER -> "danger"
      /\ ScoreLevel(b, n) = CASE b >= q -> "safe" [] b >= p /\ b < q -> "caution" [] OTHER -> "danger"
  BY DEF ScoreLevel
<1> HIDE DEF p, q
<1> QED
  BY <1>1, <1>2 DEF ScoreRank

\* The scoring of one route, with the kikikuru.
LEMMA RouteRiskGrows ==
    ASSUME NEW old, NEW new, Worse(old, new), NEW r \in DOMAIN Routes
    PROVE  ScoreRank(AssessRouteRisk(old, Routes[r].path))
           <= ScoreRank(AssessRouteRisk(new, Routes[r].path))
<1> DEFINE path == Routes[r].path
           points == SampledWithLast(path, MaxSamples)
           n == Len(points)
           e == Exposure(old, points)
           f == Exposure(new, points)
           a == KikikuruAdjustment(old, e)
           b == KikikuruAdjustment(new, f)
           x == SafetyScore(e, n)
           y == SafetyScore(f, n)
           u == Max({0, x - a.penalty * n})
           v == Max({0, y - b.penalty * n})
           Level(adjustment, fixed, adjusted) ==
               CASE adjustment.penalty = 0 -> ScoreLevel(fixed, n)
                 [] adjustment.penalty > 0 /\ adjustment.max_level = "caution"
                      /\ ScoreLevel(adjusted, n) = "danger" -> "caution"
                 [] OTHER -> ScoreLevel(adjusted, n)
<1>1. path \in Seq([at : Points, metres : Nat]) /\ Len(path) \in Nat
  <2>1. path \in Seq([at : Points, metres : Nat])
    BY RiskAssumption
  <2> HIDE DEF path
  <2> QED
    BY <2>1, LenProperties
<1>2. /\ AssessRouteRisk(old, path) = IF Len(path) < 2 THEN "refused" ELSE Level(a, x, u)
      /\ AssessRouteRisk(new, path) = IF Len(path) < 2 THEN "refused" ELSE Level(b, y, v)
  BY DEF AssessRouteRisk
<1> HIDE DEF path
<1>3. CASE Len(path) < 2
  BY <1>2, <1>3 DEF ScoreRank, path
<1>4. CASE Len(path) >= 2
  <2>1. points \in Seq(Points) /\ n \in Nat
    <3>1. Len(path) >= 1 /\ MaxSamples \in Nat \ {0}
      BY <1>1, <1>4, RiskAssumption
    <3>2. points \in Seq(Points)
      BY <1>1, <3>1, SampledPoints
    <3> HIDE DEF points
    <3> QED
      BY <3>2, LenProperties
  <2> HIDE DEF points, n
  <2>2. MoreExposed(e, f)
    BY <2>1, ExposureGrows
  <2> HIDE DEF e, f
  <2>3. x \in Int /\ y \in Int /\ y <= x
    <3>1. x \in 0..(100 * n) /\ y \in 0..(100 * n) /\ y <= x
      BY <2>1, <2>2, ScoreFalls
    <3> QED
      BY <3>1
  <2>4. /\ a.penalty \in Nat /\ b.penalty \in Nat /\ a.penalty <= b.penalty
        /\ a.penalty = 0 => b.penalty = 0
        /\ a.max_level \in {"caution", "danger"} /\ b.max_level \in {"caution", "danger"}
        /\ a.max_level = "danger" => b.max_level = "danger"
    BY <2>2, AdjustmentGrows
  <2> HIDE DEF x, y, a, b
  <2>5. a.penalty * n \in Nat /\ b.penalty * n \in Nat /\ a.penalty * n <= b.penalty * n
    BY ONLY <2>1, <2>4, Product
  <2>6. u \in Int /\ v \in Int /\ v <= u
    <3> DEFINE s == x - a.penalty * n
               t == y - b.penalty * n
    <3>1. s \in Int /\ t \in Int /\ t <= s /\ 0 \in Int
      BY <2>3, <2>5
    <3> HIDE DEF s, t
    <3>2. Max({0, s}) = IF 0 >= s THEN 0 ELSE s
      BY ONLY <3>1, OfTwo, Zenon
    <3>3. Max({0, t}) = IF 0 >= t THEN 0 ELSE t
      BY ONLY <3>1, OfTwo, Zenon
    <3> QED
      BY <3>1, <3>2, <3>3 DEF s, t
  <2> HIDE DEF u, v
  <2>7. /\ ScoreRank(ScoreLevel(x, n)) <= ScoreRank(ScoreLevel(y, n))
        /\ ScoreLevel(x, n) \in {"safe", "caution", "danger"}
    BY <2>1, <2>3, ScoreLevelGrows
  <2>8. /\ ScoreRank(ScoreLevel(u, n)) <= ScoreRank(ScoreLevel(v, n))
        /\ ScoreLevel(u, n) = "danger" => ScoreLevel(v, n) = "danger"
        /\ ScoreLevel(u, n) \in {"safe", "caution", "danger"}
        /\ ScoreLevel(v, n) \in {"safe", "caution", "danger"}
    <3>1. v <= v
      BY <2>6
    <3> QED
      BY <2>1, <2>6, <3>1, ScoreLevelGrows
  <2>9. ScoreRank(Level(a, x, u)) <= ScoreRank(Level(b, y, v))
    <3>1. CASE a.penalty = 0
      <4>1. Level(a, x, u) = ScoreLevel(x, n) /\ Level(b, y, v) = ScoreLevel(y, n)
        BY <2>4, <3>1
      <4> QED
        BY <2>7, <4>1
    <3>2. CASE a.penalty # 0
      <4>1. a.penalty > 0 /\ b.penalty > 0 /\ b.penalty # 0
        BY <2>4, <3>2
      <4>2. /\ Level(a, x, u) = IF a.max_level = "caution" /\ ScoreLevel(u, n) = "danger"
                                THEN "caution" ELSE ScoreLevel(u, n)
            /\ Level(b, y, v) = IF b.max_level = "caution" /\ ScoreLevel(v, n) = "danger"
                                THEN "caution" ELSE ScoreLevel(v, n)
        BY <4>1
      <4> HIDE DEF Level
      <4> QED
        BY <2>4, <2>8, <4>2 DEF ScoreRank
    <3> QED
      BY <3>1, <3>2
  <2> QED
    BY <1>2, <1>1, <1>4, <2>9 DEF path
<1> QED
  BY <1>1, <1>3, <1>4

\* Stronger rain, a graver warning or one more hazard zone never makes a place or a route
\* look safer, for any routes, forecasts, warnings, zones and kikikuru: not the level of a
\* place, not that of the route ahead, and not the level or the score of a route in either
\* of the two scorings.
THEOREM MoreDangerNeverLooksSafer == RiskSpec => WorseIsNeverSafer
<1>1. ASSUME NEW old, NEW new, Worse(old, new) PROVE NoSafer(old, new)
  <2>1. ASSUME NEW p \in Points
        PROVE  LevelRank(RiskContext(old, p)) <= LevelRank(RiskContext(new, p))
    BY <1>1, PointGrows DEF RiskContext, Worse
  <2>2. ASSUME NEW r \in DOMAIN Routes
        PROVE  LET path == Routes[r].path
                   before == AssessRoute(old, Routes[r])
                   after == AssessRoute(new, Routes[r]) IN
               /\ LevelRank(RouteAhead(old, path, 0)) <= LevelRank(RouteAhead(new, path, 0))
               /\ LevelRank(before.level) <= LevelRank(after.level) /\ before.score >= after.score
               /\ ScoreRank(AssessRouteRisk(old, path)) <= ScoreRank(AssessRouteRisk(new, path))
    BY <1>1, AheadGrows, RouteGrows, RouteRiskGrows
  <2> QED
    BY <2>1, <2>2 DEF NoSafer
<1>2. RiskType /\ RiskType' /\ [RiskNext]_world =>
          \/ UNCHANGED world
          \/ \A old \in {world}, new \in {world'} :
                 /\ old # new
                 /\ WorseAlerts(old.alerts, new.alerts) /\ old.kikikuru = new.kikikuru
                 /\ \A p \in Points : WorseRain(old.rain[p], new.rain[p])
                                       /\ WorseZone(old.zones[p], new.zones[p])
                 => NoSafer(old, new)
  BY <1>1 DEF RiskType, Worse
<1> QED
  BY <1>2, RiskTypeHolds, PTL DEF RiskSpec, WorseIsNeverSafer

-----------------------------------------------------------------------------
(* A simulated route: what its penalties add up to                         *)

\* A sum is the sum of its parts.
Parts(C, A, B) == A \cap B = {} /\ C = A \cup B

LEMMA SumOfParts ==
    ASSUME NEW S, IsFiniteSet(S), NEW g \in [S -> Int], NEW it, Sums(it, S, g),
           NEW A \in SUBSET S, NEW B \in SUBSET S, NEW C \in SUBSET S, Parts(C, A, B)
    PROVE  it[A] \in Int /\ it[B] \in Int /\ it[C] = it[A] + it[B]
<1> DEFINE Adds(a) == it[a \cup B] = it[a] + it[B]
           T == {n \in Nat : \A a \in SUBSET A : Cardinality(a) = n => Adds(a)}
<1>1. \A s \in SUBSET S : it[s] \in Int
  BY DEF Sums
<1>2. \A a \in SUBSET A : IsFiniteSet(a) /\ Cardinality(a) \in Nat
                          /\ (Cardinality(a) = 0 <=> a = {})
                          /\ \A x \in a : Cardinality(a \ {x}) = Cardinality(a) - 1
  BY FS_Subset, FS_CardinalityType, FS_EmptySet, FS_RemoveElement
<1>3. \A s \in SUBSET S, x \in S : x \in s => it[s] = g[x] + it[s \ {x}]
  <2>1. IsFiniteSet(S) /\ g \in [S -> Int] /\ Sums(it, S, g)
    OBVIOUS
  <2>2. Lessens(it, S, g)
    BY ONLY <2>1, SumWithout, Zenon
  <2> QED
    BY ONLY <2>2 DEF Lessens
<1>4. 0 \in T
  <2>1. it[{}] = 0 /\ it[B] \in Int
    BY <1>1 DEF Sums
  <2>2. Adds({})
    BY <2>1
  <2> HIDE DEF Adds
  <2> QED
    BY <1>2, <2>2
<1>5. ASSUME NEW n \in Nat, n \in T PROVE n + 1 \in T
  <2> SUFFICES ASSUME NEW a \in SUBSET A, Cardinality(a) = n + 1 PROVE Adds(a)
    <3> HIDE DEF Adds
    <3> QED
      OBVIOUS
  <2>1. PICK x \in a : TRUE
    BY <1>2
  <2>2. Adds(a \ {x})
    <3>1. Cardinality(a \ {x}) = (n + 1) - 1 /\ a \ {x} \in SUBSET A
      BY <1>2
    <3> HIDE DEF Adds
    <3> QED
      BY <1>5, <3>1
  <2>3. (a \cup B) \ {x} = (a \ {x}) \cup B /\ x \in S
    BY DEF Parts
  <2>4. it[a \cup B] = g[x] + it[(a \ {x}) \cup B] /\ it[a] = g[x] + it[a \ {x}]
    BY <1>3, <2>3
  <2>5. /\ it[(a \ {x}) \cup B] \in Int /\ it[a \ {x}] \in Int /\ it[B] \in Int /\ g[x] \in Int
    BY <1>1, <2>3
  <2> QED
    BY <2>2, <2>4, <2>5
<1>6. Nat \subseteq T
  <2> HIDE DEF T
  <2> QED
    BY <1>4, <1>5, Induction
<1>7. it[A \cup B] = it[A] + it[B]
  <2>1. A \in SUBSET A
    OBVIOUS
  <2> QED
    BY <1>2, <1>6, <2>1
<1> QED
  BY <1>1, <1>7 DEF Parts

\* f counts under other names what g counts; the names of A are B.
Renames(m, R, f, S, g) ==
    /\ m \in [R -> S]
    /\ \A x, y \in R : m[x] = m[y] => x = y
    /\ \A x \in R : f[x] = g[m[x]]
Onto(m, A, B) == (\A x \in A : m[x] \in B) /\ \A y \in B : \E x \in A : y = m[x]

\* The sum is the same.
LEMMA SumOfImage ==
    ASSUME NEW S, IsFiniteSet(S), NEW g \in [S -> Int], NEW it, Sums(it, S, g),
           NEW R, IsFiniteSet(R), NEW f \in [R -> Int], NEW jt, Sums(jt, R, f),
           NEW m, Renames(m, R, f, S, g), NEW A \in SUBSET R, NEW B \in SUBSET S, Onto(m, A, B)
    PROVE  it[B] = jt[A] /\ jt[A] \in Int
<1> DEFINE Image(s) == {m[x] : x \in s}
           Same(s) == it[Image(s)] = jt[s]
           T == {n \in Nat : \A s \in SUBSET R : Cardinality(s) = n => Same(s)}
<1>1. \A s \in SUBSET R : jt[s] \in Int /\ Image(s) \in SUBSET S
  BY DEF Sums, Renames
<1>2. \A s \in SUBSET R : IsFiniteSet(s) /\ Cardinality(s) \in Nat
                          /\ (Cardinality(s) = 0 <=> s = {})
                          /\ \A x \in s : Cardinality(s \ {x}) = Cardinality(s) - 1
  BY FS_Subset, FS_CardinalityType, FS_EmptySet, FS_RemoveElement
<1>3. \A s \in SUBSET S, x \in S : x \in s => it[s] = g[x] + it[s \ {x}]
  <2>1. IsFiniteSet(S) /\ g \in [S -> Int] /\ Sums(it, S, g)
    OBVIOUS
  <2>2. Lessens(it, S, g)
    BY ONLY <2>1, SumWithout, Zenon
  <2> QED
    BY ONLY <2>2 DEF Lessens
<1>4. \A s \in SUBSET R, x \in R : x \in s => jt[s] = f[x] + jt[s \ {x}]
  <2>1. IsFiniteSet(R) /\ f \in [R -> Int] /\ Sums(jt, R, f)
    OBVIOUS
  <2>2. Lessens(jt, R, f)
    BY ONLY <2>1, SumWithout, Zenon
  <2> QED
    BY ONLY <2>2 DEF Lessens
<1>5. 0 \in T
  <2>1. it[{}] = 0 /\ jt[{}] = 0
    BY DEF Sums
  <2>2. Image({}) = {}
    OBVIOUS
  <2>3. Same({})
    BY <2>1, <2>2
  <2> HIDE DEF Same
  <2> QED
    BY <1>2, <2>3
<1>6. ASSUME NEW n \in Nat, n \in T PROVE n + 1 \in T
  <2> SUFFICES ASSUME NEW s \in SUBSET R, Cardinality(s) = n + 1 PROVE Same(s)
    <3> HIDE DEF Same
    <3> QED
      OBVIOUS
  <2>1. PICK x \in s : TRUE
    BY <1>2
  <2>2. Same(s \ {x})
    <3>1. Cardinality(s \ {x}) = (n + 1) - 1 /\ s \ {x} \in SUBSET R
      BY <1>2
    <3> HIDE DEF Same
    <3> QED
      BY <1>6, <3>1
  <2>3. Image(s) \ {m[x]} = Image(s \ {x}) /\ m[x] \in Image(s) /\ m[x] \in S /\ x \in R
        /\ f[x] = g[m[x]]
    BY DEF Renames
  <2>4. Image(s) \in SUBSET S
    BY <1>1
  <2>5. it[Image(s)] = g[m[x]] + it[Image(s \ {x})]
    <3>1. it[Image(s)] = g[m[x]] + it[Image(s) \ {m[x]}]
      <4> HIDE DEF Image
      <4> QED
        BY <1>3, <2>3, <2>4
    <3> QED
      BY <2>3, <3>1
  <2>6. jt[s] = f[x] + jt[s \ {x}]
    BY <1>4, <2>3
  <2> QED
    BY <2>2, <2>3, <2>5, <2>6
<1>7. Nat \subseteq T
  <2> HIDE DEF T
  <2> QED
    BY <1>5, <1>6, Induction
<1>8. B = Image(A)
  BY DEF Onto
<1> HIDE DEF Image
<1> QED
  BY <1>1, <1>2, <1>7, <1>8

\* What adds nothing.
LEMMA SumOfNothing ==
    ASSUME NEW S, IsFiniteSet(S), NEW g \in [S -> Int], NEW it, Sums(it, S, g),
           NEW A \in SUBSET S, \A x \in A : g[x] = 0
    PROVE  it[A] = 0
<1> DEFINE T == {n \in Nat : \A a \in SUBSET A : Cardinality(a) = n => it[a] = 0}
<1>1. \A a \in SUBSET A : IsFiniteSet(a) /\ Cardinality(a) \in Nat
                          /\ (Cardinality(a) = 0 <=> a = {})
                          /\ \A x \in a : Cardinality(a \ {x}) = Cardinality(a) - 1
  BY FS_Subset, FS_CardinalityType, FS_EmptySet, FS_RemoveElement
<1>2. \A s \in SUBSET S, x \in S : x \in s => it[s] = g[x] + it[s \ {x}]
  <2>1. IsFiniteSet(S) /\ g \in [S -> Int] /\ Sums(it, S, g)
    OBVIOUS
  <2>2. Lessens(it, S, g)
    BY ONLY <2>1, SumWithout, Zenon
  <2> QED
    BY ONLY <2>2 DEF Lessens
<1>3. 0 \in T
  BY <1>1 DEF Sums
<1>4. ASSUME NEW n \in Nat, n \in T PROVE n + 1 \in T
  <2> SUFFICES ASSUME NEW a \in SUBSET A, Cardinality(a) = n + 1 PROVE it[a] = 0
    OBVIOUS
  <2>1. PICK x \in a : TRUE
    BY <1>1
  <2>2. Cardinality(a \ {x}) = (n + 1) - 1 /\ a \ {x} \in SUBSET A
    BY <1>1
  <2>3. it[a \ {x}] = 0
    BY <1>4, <2>2
  <2>4. it[a] = g[x] + it[a \ {x}] /\ g[x] = 0
    BY <1>2
  <2> QED
    BY <2>3, <2>4
<1>5. Nat \subseteq T
  <2> HIDE DEF T
  <2> QED
    BY <1>3, <1>4, Induction
<1>6. A \in SUBSET A
  OBVIOUS
<1> QED
  BY <1>1, <1>5, <1>6

\* What the penalties of a list add up to.
LEMMA ListedIsSum ==
    ASSUME NEW P, IsFiniteSet(P), \A e \in P : e.points \in Nat
    PROVE  \E it : /\ Sums(it, P, [e \in P |-> e.points])
                   /\ MapThenSumSet(LAMBDA e : e.points, P) = it[P]
<1> DEFINE c == [e \in P |-> e.points]
           Is(it) == it = [s \in SUBSET P |->
                             IF s = {} THEN 0 ELSE (CHOOSE x \in s : TRUE).points
                                                   + it[s \ {CHOOSE x \in s : TRUE}]]
           iter == CHOOSE it : Is(it)
<1>1. \A s \in SUBSET P : s # {} => c[CHOOSE x \in s : TRUE] = (CHOOSE x \in s : TRUE).points
  OBVIOUS
<1>2. c \in [P -> Int]
  OBVIOUS
<1>3. PICK it : Sums(it, P, c)
  <2> HIDE DEF c
  <2> QED
    BY ONLY IsFiniteSet(P), <1>2, SumExists, Zenon
<1>4. Is(it)
  <2> HIDE DEF c
  <2> QED
    BY <1>1, <1>3 DEF Sums
<1>5. Is(iter)
  <2> HIDE DEF Is
  <2> QED
    BY <1>4
<1>6. Sums(iter, P, c)
  <2>1. iter = [s \in SUBSET P |-> IF s = {} THEN 0 ELSE c[CHOOSE x \in s : TRUE]
                                                        + iter[s \ {CHOOSE x \in s : TRUE}]]
    <3> HIDE DEF iter, c
    <3> QED
      BY <1>1, <1>5
  <2> HIDE DEF iter, c
  <2> QED
    BY ONLY IsFiniteSet(P), <1>2, <2>1, SumIsDefined, Zenon
<1>7. MapThenSumSet(LAMBDA e : e.points, P) = iter[P]
  BY DEF MapThenSumSet, MapThenFoldSet
<1> HIDE DEF iter
<1> QED
  BY <1>6, <1>7

\* What a hazard adds to the penalty of the rain.
Extra(i, h) ==
    IF h \notin DOMAIN Strong THEN 0
    ELSE CASE i = "severe" -> Severe[h] [] i = "strong" -> Strong[h] [] OTHER -> 0
Extras(i, e) == [h \in DOMAIN e |-> Extra(i, h)]

LEMMA ExtraType ==
    ASSUME NEW i, NEW h
    PROVE  Extra(i, h) \in Nat /\ WeatherBase(i) \in Nat
<1>1. DOMAIN Strong = {"flood", "landslide", "inland_flood", "storm_surge"}
  BY DEF Strong
<1>2. WeatherBase(i) \in Nat
  BY DEF WeatherBase
<1>3. CASE h \notin DOMAIN Strong
  BY <1>2, <1>3 DEF Extra
<1>4. CASE h \in DOMAIN Strong
  <2>1. Strong[h] \in Nat /\ Severe[h] \in Nat
    BY <1>1, <1>4 DEF Strong, Severe
  <2> QED
    BY <1>2, <1>4, <2>1 DEF Extra
<1> QED
  BY <1>3, <1>4

\* The sum over the hazards that rain meets, among all.
LEMMA MetIsSummed ==
    ASSUME NEW D \in SUBSET DOMAIN Base, NEW g, \A x \in D \cap DOMAIN Strong : g[x] \in Nat,
           NEW f \in [D -> Int], NEW it, Sums(it, D, f),
           \A h \in D \cap DOMAIN Strong : f[h] = g[h],
           \A h \in D \ DOMAIN Strong : f[h] = 0
    PROVE  SumOver(g, D \cap DOMAIN Strong) = it[D]
<1> DEFINE A == D \cap DOMAIN Strong
           B == D \ DOMAIN Strong
           c == [x \in A |-> g[x]]
           m == [x \in A |-> x]
<1>1. IsFiniteSet(D) /\ IsFiniteSet(A)
  <2>1. IsFiniteSet(D)
    BY Scored, FS_Subset
  <2>2. A \in SUBSET D
    OBVIOUS
  <2> HIDE DEF A
  <2> QED
    BY <2>1, <2>2, FS_Subset
<1>2. A \in SUBSET D /\ B \in SUBSET D /\ A \cap B = {} /\ A \cup B = D
  OBVIOUS
<1>3. \A x \in A : g[x] \in Nat
  OBVIOUS
<1>4. c \in [A -> Int] /\ m \in [A -> D] /\ (\A x, y \in A : m[x] = m[y] => x = y)
      /\ (\A x \in A : c[x] = f[m[x]])
      /\ (\A x \in A : m[x] \in A) /\ \A y \in A : \E x \in A : y = m[x]
  OBVIOUS
<1>5. PICK jt : Sums(jt, A, c) /\ SumOver(g, A) = jt[A]
  <2> HIDE DEF A
  <2> QED
    BY <1>1, <1>3, SumOverIs
<1>6. \A x \in B : f[x] = 0
  OBVIOUS
<1> HIDE DEF A, B, c, m
<1>7. it[A] = jt[A] /\ jt[A] \in Int
  <2>1. /\ IsFiniteSet(D) /\ f \in [D -> Int] /\ Sums(it, D, f)
        /\ IsFiniteSet(A) /\ c \in [A -> Int] /\ Sums(jt, A, c)
        /\ Renames(m, A, c, D, f) /\ A \in SUBSET A /\ A \in SUBSET D /\ Onto(m, A, A)
    BY <1>1, <1>2, <1>4, <1>5 DEF Renames, Onto
  <2> QED
    BY ONLY <2>1, SumOfImage, Zenon
<1>8. it[B] = 0
  BY <1>1, <1>2, <1>6, SumOfNothing
<1>9. it[D] = it[A] + it[B]
  <2>1. IsFiniteSet(D) /\ Sums(it, D, f) /\ A \in SUBSET D /\ B \in SUBSET D /\ D \in SUBSET D
        /\ Parts(D, A, B)
    BY <1>1, <1>2 DEF Parts
  <2> QED
    BY <2>1, SumOfParts
<1>10. it[D] = jt[A]
  BY <1>7, <1>8, <1>9
<1> QED
  BY <1>5, <1>10 DEF A

\* Rain costs as much as it does alone, and what each hazard adds.
LEMMA WeatherIsSummed ==
    ASSUME NEW i, NEW e, DOMAIN e \in SUBSET DOMAIN Base,
           NEW it, Sums(it, DOMAIN e, Extras(i, e))
    PROVE  WeatherPenalty(i, e) = WeatherBase(i) + it[DOMAIN e]
<1> DEFINE D == DOMAIN e
           f == Extras(i, e)
<1>1. /\ f \in [D -> Int] /\ (\A h \in D : f[h] = Extra(i, h))
      /\ (\A h \in D \ DOMAIN Strong : f[h] = 0)
      /\ \A h \in D : f[h] \in Nat
  BY ExtraType DEF Extras, Extra
<1>2. \A h \in D \cap DOMAIN Strong : Strong[h] \in Nat /\ Severe[h] \in Nat
  <2>1. \A h \in DOMAIN Strong : Extra("severe", h) = Severe[h] /\ Extra("strong", h) = Strong[h]
    BY DEF Extra
  <2> QED
    BY <2>1, ExtraType
<1>3. WeatherPenalty(i, e) =
          WeatherBase(i) + CASE i = "severe" -> SumOver(Severe, Met(e))
                             [] i = "strong" -> SumOver(Strong, Met(e)) [] OTHER -> 0
  BY WeatherPenaltyIs
<1>4. Met(e) = D \cap DOMAIN Strong
  BY DEF Met
<1>5. CASE i = "severe"
  <2>1. \A h \in D \cap DOMAIN Strong : f[h] = Severe[h]
    BY <1>1, <1>5 DEF Extra
  <2> HIDE DEF f
  <2>2. SumOver(Severe, D \cap DOMAIN Strong) = it[D]
    BY <1>1, <1>2, <2>1, MetIsSummed DEF f
  <2> QED
    BY <1>3, <1>4, <1>5, <2>2
<1>6. CASE i = "strong"
  <2>1. \A h \in D \cap DOMAIN Strong : f[h] = Strong[h]
    BY <1>1, <1>6 DEF Extra
  <2> HIDE DEF f
  <2>2. SumOver(Strong, D \cap DOMAIN Strong) = it[D]
    BY <1>1, <1>2, <2>1, MetIsSummed DEF f
  <2> QED
    BY <1>3, <1>4, <1>6, <2>2
<1>7. CASE i \notin {"severe", "strong"}
  <2>1. \A h \in D : f[h] = 0
    BY <1>1, <1>7 DEF Extra
  <2>2. IsFiniteSet(D)
    BY Scored, FS_Subset
  <2>3. it[D] = 0
    <3>1. D \in SUBSET D
      OBVIOUS
    <3> HIDE DEF f, D
    <3>2. Sums(it, D, f)
      BY DEF D, f
    <3> QED
      BY <1>1, <2>1, <2>2, <3>1, <3>2, SumOfNothing
  <2> QED
    BY <1>3, <1>7, <2>3
<1> QED
  BY <1>5, <1>6, <1>7

\* What rain costs where there is no hazard, and where there is one.
LEMMA WeatherOfOne ==
    ASSUME NEW i, NEW h \in DOMAIN Base
    PROVE  /\ WeatherPenalty(i, <<>>) = WeatherBase(i)
           /\ WeatherPenalty(i, [k \in {h} |-> 1]) = WeatherBase(i) + Extra(i, h)
<1>1. ASSUME NEW e, DOMAIN e \in SUBSET DOMAIN Base
      PROVE  \E it : /\ Sums(it, DOMAIN e, Extras(i, e))
                     /\ WeatherPenalty(i, e) = WeatherBase(i) + it[DOMAIN e]
  <2>1. IsFiniteSet(DOMAIN e)
    BY <1>1, Scored, FS_Subset
  <2>2. Extras(i, e) \in [DOMAIN e -> Int]
    <3>1. \A k : Extra(i, k) \in Int
      BY ExtraType
    <3> QED
      BY <3>1 DEF Extras
  <2>3. PICK it : Sums(it, DOMAIN e, Extras(i, e))
    BY <2>1, <2>2, SumExists
  <2> QED
    BY <1>1, <2>3, WeatherIsSummed
<1>2. WeatherPenalty(i, <<>>) = WeatherBase(i)
  <2>1. DOMAIN <<>> = {}
    OBVIOUS
  <2>2. PICK it : /\ Sums(it, {}, Extras(i, <<>>))
                  /\ WeatherPenalty(i, <<>>) = WeatherBase(i) + it[{}]
    BY <1>1, <2>1
  <2>3. it[{}] = 0
    BY <2>2 DEF Sums
  <2> QED
    BY <2>2, <2>3, ExtraType
<1>3. WeatherPenalty(i, [k \in {h} |-> 1]) = WeatherBase(i) + Extra(i, h)
  <2> DEFINE e == [k \in {h} |-> 1]
  <2>1. DOMAIN e = {h}
    OBVIOUS
  <2> HIDE DEF e
  <2>2. PICK it : /\ Sums(it, {h}, Extras(i, e))
                  /\ WeatherPenalty(i, e) = WeatherBase(i) + it[{h}]
    BY <1>1, <2>1
  <2>3. it[{h}] = Extra(i, h)
    <3>1. Extras(i, e)[h] = Extra(i, h)
      BY <2>1 DEF Extras
    <3>2. (CHOOSE x \in {h} : TRUE) = h /\ {h} # {} /\ {h} \ {h} = {} /\ {h} \in SUBSET {h}
      OBVIOUS
    <3>3. it[{}] = 0
      BY <2>2 DEF Sums
    <3>4. it[{h}] = Extras(i, e)[CHOOSE x \in {h} : TRUE] + it[{h} \ {CHOOSE x \in {h} : TRUE}]
      BY <2>2, <3>2 DEF Sums
    <3> QED
      BY <3>1, <3>2, <3>3, <3>4, ExtraType
  <2> QED
    BY <2>2, <2>3 DEF e
<1> QED
  BY <1>2, <1>3

\* The list of penalties of a route that is exposed to e, in its three parts.
PenaltyList(i, e) ==
    LET alone == WeatherPenalty(i, <<>>) IN
    {[type |-> <<i>>, points |-> alone] : x \in {y \in {i} : alone > 0}}
    \cup {[type |-> <<h>>, points |-> HazardPenalty(e, 1, h)] : h \in DOMAIN e}
    \cup {p \in {[type |-> <<i, h>>, points |-> WeatherPenalty(i, [k \in {h} |-> 1]) - alone] :
                   h \in DOMAIN e} : p.points > 0}
OfRain(i) == {p \in {[type |-> <<i>>, points |-> WeatherBase(i)]} : WeatherBase(i) > 0}
OfHazard(e, h) == [type |-> <<h>>, points |-> HazardPenalty(e, 1, h)]
OfHazards(e) == {OfHazard(e, h) : h \in DOMAIN e}
OfBoth(i, h) == [type |-> <<i, h>>, points |-> Extra(i, h)]
Graver(i, e) == {h \in DOMAIN e : Extra(i, h) > 0}
OfAllBoth(i, e) == {OfBoth(i, h) : h \in Graver(i, e)}

LEMMA PenaltyParts ==
    ASSUME NEW i, NEW e \in Exposures
    PROVE  PenaltyList(i, e) = (OfRain(i) \cup OfHazards(e)) \cup OfAllBoth(i, e)
<1> DEFINE alone == WeatherPenalty(i, <<>>)
           both(h) == [type |-> <<i, h>>, points |-> WeatherPenalty(i, [k \in {h} |-> 1]) - alone]
<1>1. DOMAIN e \in SUBSET DOMAIN Base
  BY DEF Exposures
<1>2. alone = WeatherBase(i)
  <2>1. "flood" \in DOMAIN Base
    BY Scored
  <2> QED
    BY <2>1, WeatherOfOne
<1>3. \A h \in DOMAIN e : both(h) = OfBoth(i, h)
  <2> TAKE h \in DOMAIN e
  <2>1. WeatherPenalty(i, [k \in {h} |-> 1]) = WeatherBase(i) + Extra(i, h)
    BY <1>1, WeatherOfOne
  <2>2. WeatherPenalty(i, [k \in {h} |-> 1]) - alone = Extra(i, h)
    BY <1>2, <2>1, ExtraType
  <2> QED
    BY <2>2 DEF OfBoth
<1>4. \A h : OfBoth(i, h).points = Extra(i, h)
  BY DEF OfBoth
<1>5. {[type |-> <<i>>, points |-> alone] : x \in {y \in {i} : alone > 0}} = OfRain(i)
  BY <1>2 DEF OfRain
<1>6. {[type |-> <<h>>, points |-> HazardPenalty(e, 1, h)] : h \in DOMAIN e} = OfHazards(e)
  BY DEF OfHazards, OfHazard
<1>7. {p \in {both(h) : h \in DOMAIN e} : p.points > 0} = OfAllBoth(i, e)
  <2> HIDE DEF both
  <2>1. {p \in {both(h) : h \in DOMAIN e} : p.points > 0}
        = {p \in {OfBoth(i, h) : h \in DOMAIN e} : p.points > 0}
    BY <1>3
  <2>2. {p \in {OfBoth(i, h) : h \in DOMAIN e} : p.points > 0} = OfAllBoth(i, e)
    BY <1>4 DEF OfAllBoth, Graver
  <2> QED
    BY <2>1, <2>2
<1> QED
  BY <1>5, <1>6, <1>7 DEF PenaltyList

\* The parts have no penalty in common.
LEMMA PartsAreApart ==
    ASSUME NEW i, NEW e \in Exposures
    PROVE  /\ OfRain(i) \cap OfHazards(e) = {}
           /\ (OfRain(i) \cup OfHazards(e)) \cap OfAllBoth(i, e) = {}
<1>1. WeatherBase(i) > 0 => i \notin DOMAIN Base
  BY Scored DEF WeatherBase
<1>2. DOMAIN e \in SUBSET DOMAIN Base
  BY DEF Exposures
<1>3. \A a, b : (<<a>> = <<b>> => a = b) /\ \A c : <<a>> # <<b, c>>
  OBVIOUS
<1>4. \A p \in OfRain(i) : p.type = <<i>> /\ WeatherBase(i) > 0
  BY DEF OfRain
<1>5. \A p \in OfHazards(e) : \E h \in DOMAIN e : p.type = <<h>>
  BY DEF OfHazards, OfHazard
<1>6. \A p \in OfAllBoth(i, e) : \E h \in DOMAIN e : p.type = <<i, h>>
  BY DEF OfAllBoth, OfBoth, Graver
<1>7. OfRain(i) \cap OfHazards(e) = {}
  BY <1>1, <1>2, <1>3, <1>4, <1>5
<1>8. OfRain(i) \cap OfAllBoth(i, e) = {}
  BY <1>3, <1>4, <1>6
<1>9. OfHazards(e) \cap OfAllBoth(i, e) = {}
  BY <1>3, <1>5, <1>6
<1> QED
  BY <1>7, <1>8, <1>9

\* All penalties add up to those of the hazards and that of the weather.
LEMMA PenaltiesAddUp ==
    ASSUME NEW i, NEW e \in Exposures,
           NEW jt, Sums(jt, DOMAIN e, RoutePenalties(e, 1))
    PROVE  /\ jt[DOMAIN e] \in Nat /\ WeatherPenalty(i, e) \in Nat
           /\ MapThenSumSet(LAMBDA p : p.points, PenaltyList(i, e))
              = jt[DOMAIN e] + WeatherPenalty(i, e)
<1> DEFINE D == DOMAIN e
           P == PenaltyList(i, e)
           A == OfRain(i)
           B == OfHazards(e)
           C == OfAllBoth(i, e)
           G == Graver(i, e)
           g == [p \in P |-> p.points]
           f == RoutePenalties(e, 1)
           x == Extras(i, e)
           m == [h \in D |-> OfHazard(e, h)]
           n == [h \in G |-> OfBoth(i, h)]
           y == [h \in G |-> Extra(i, h)]
           same == [h \in G |-> h]
<1>1. D \in SUBSET DOMAIN Base /\ IsFiniteSet(D) /\ G \in SUBSET D /\ IsFiniteSet(G)
  <2>1. D \in SUBSET DOMAIN Base
    BY DEF Exposures
  <2>2. G \in SUBSET D
    BY DEF Graver
  <2> HIDE DEF D, G
  <2> QED
    BY <2>1, <2>2, Scored, FS_Subset
<1>2. P = (A \cup B) \cup C /\ A \cap B = {} /\ (A \cup B) \cap C = {}
  BY PenaltyParts, PartsAreApart
<1>3. \A h \in D : HazardPenalty(e, 1, h) \in Nat
  <2>1. MoreExposed(e, e) /\ 1 \in Nat
    BY DEF MoreExposed, Exposures
  <2> QED
    BY <2>1, HazardPenaltyGrows
<1>4. IsFiniteSet(A) /\ IsFiniteSet(B) /\ IsFiniteSet(C)
  <2>1. IsFiniteSet(A)
    <3>1. A \in SUBSET {[type |-> <<i>>, points |-> WeatherBase(i)]}
      BY DEF OfRain
    <3>2. IsFiniteSet({[type |-> <<i>>, points |-> WeatherBase(i)]})
      BY FS_Singleton
    <3> HIDE DEF A
    <3> QED
      BY <3>1, <3>2, FS_Subset
  <2>2. IsFiniteSet(B)
    <3>1. m \in [D -> B] /\ \A p \in B : \E h \in D : m[h] = p
      BY DEF OfHazards
    <3>2. m \in Surjection(D, B)
      <4> HIDE DEF m
      <4> QED
        BY <3>1 DEF Surjection
    <3> HIDE DEF m, D, B
    <3> QED
      BY <1>1, <3>2, FS_Surjection
  <2>3. IsFiniteSet(C)
    <3>1. n \in [G -> C] /\ \A p \in C : \E h \in G : n[h] = p
      BY DEF OfAllBoth
    <3>2. n \in Surjection(G, C)
      <4> HIDE DEF n
      <4> QED
        BY <3>1 DEF Surjection
    <3> HIDE DEF n, G, C
    <3> QED
      BY <1>1, <3>2, FS_Surjection
  <2> QED
    BY <2>1, <2>2, <2>3
<1>5. IsFiniteSet(P)
  <2> HIDE DEF A, B, C, P
  <2>1. IsFiniteSet(A \cup B)
    BY <1>4, FS_Union
  <2> QED
    BY <1>2, <1>4, <2>1, FS_Union
<1>6. \A p \in P : p.points \in Nat
  <2>1. \A p \in A : p.points \in Nat
    BY ExtraType DEF OfRain
  <2>2. \A p \in B : p.points \in Nat
    BY <1>3 DEF OfHazards, OfHazard
  <2>3. \A p \in C : p.points \in Nat
    BY ExtraType DEF OfAllBoth, OfBoth
  <2> HIDE DEF A, B, C, P
  <2> QED
    BY <1>2, <2>1, <2>2, <2>3
<1>7. PICK it : Sums(it, P, g) /\ MapThenSumSet(LAMBDA p : p.points, P) = it[P]
  <2> HIDE DEF P
  <2> QED
    BY <1>5, <1>6, ListedIsSum
<1>8. g \in [P -> Int] /\ A \in SUBSET P /\ B \in SUBSET P /\ C \in SUBSET P /\ A \cup B \in SUBSET P
  <2>1. g \in [P -> Int]
    <3> HIDE DEF P
    <3> QED
      BY <1>6
  <2> HIDE DEF A, B, C, P, g
  <2> QED
    BY <1>2, <2>1
<1>9. it[P] = (it[A] + it[B]) + it[C] /\ it[A] \in Int /\ it[B] \in Int /\ it[C] \in Int
  <2> DEFINE AB == A \cup B
  <2>1. IsFiniteSet(P) /\ g \in [P -> Int] /\ Sums(it, P, g) /\ A \in SUBSET P /\ B \in SUBSET P
        /\ AB \in SUBSET P /\ C \in SUBSET P /\ P \in SUBSET P
    BY <1>5, <1>7, <1>8
  <2>2. Parts(AB, A, B) /\ Parts(P, AB, C)
    <3> HIDE DEF P, A, B, C
    <3> QED
      BY <1>2 DEF Parts
  <2> HIDE DEF A, B, C, P, AB, g
  <2>3. it[A] \in Int /\ it[B] \in Int /\ it[AB] = it[A] + it[B]
    BY ONLY <2>1, <2>2, SumOfParts, SMTT(60)
  <2>4. it[C] \in Int /\ it[P] = it[AB] + it[C]
    BY ONLY <2>1, <2>2, SumOfParts, SMTT(60)
  <2> QED
    BY <2>3, <2>4
<1>10. it[A] = WeatherBase(i)
  <2> DEFINE p == [type |-> <<i>>, points |-> WeatherBase(i)]
  <2>1. CASE WeatherBase(i) > 0
    <3>1. A = {p} /\ p.points = WeatherBase(i)
      BY <2>1 DEF OfRain
    <3>2. p \in P /\ {p} \in SUBSET P /\ g[p] = WeatherBase(i)
      BY <1>2, <3>1
    <3>3. \A s \in SUBSET P, z \in P : z \in s => it[s] = g[z] + it[s \ {z}]
      <4> HIDE DEF P, g
      <4>1. IsFiniteSet(P) /\ g \in [P -> Int] /\ Sums(it, P, g)
        BY <1>5, <1>7, <1>8
      <4>2. Lessens(it, P, g)
        BY ONLY <4>1, SumWithout, Zenon
      <4> QED
        BY ONLY <4>2 DEF Lessens
    <3>4. it[{p}] = g[p] + it[{p} \ {p}]
      <4> HIDE DEF P, g, p
      <4> QED
        BY <3>2, <3>3
    <3>5. {p} \ {p} = {} /\ it[{}] = 0
      BY <1>7 DEF Sums
    <3>6. it[{p}] = it[A]
      BY <3>1
    <3>7. WeatherBase(i) + 0 = WeatherBase(i)
      BY ExtraType
    <3> HIDE DEF P, A, g, p
    <3> QED
      BY <3>2, <3>4, <3>5, <3>6, <3>7
  <2>2. CASE ~(WeatherBase(i) > 0)
    <3>1. A = {} /\ WeatherBase(i) = 0
      BY <2>2, ExtraType DEF OfRain
    <3>2. it[{}] = 0
      BY <1>7 DEF Sums
    <3> HIDE DEF A
    <3> QED
      BY <3>1, <3>2
  <2> QED
    BY <2>1, <2>2
<1>11. f \in [D -> Int]
  BY <1>3 DEF RoutePenalties
<1>12. it[B] = jt[D] /\ jt[D] \in Int
  <2>1. Renames(m, D, f, P, g)
    <3>1. \A h, k \in D : m[h] = m[k] => h = k
      <4>1. \A h \in D : m[h].type[1] = h
        BY DEF OfHazard
      <4> HIDE DEF m, D
      <4> QED
        BY <4>1
    <3>2. \A h \in D : m[h] \in B /\ m[h] \in P
      BY <1>2 DEF OfHazards
    <3>3. \A h \in D : f[h] = m[h].points
      BY DEF RoutePenalties, OfHazard
    <3>4. m \in [D -> P]
      <4> HIDE DEF D, P
      <4>1. m = [h \in D |-> m[h]]
        OBVIOUS
      <4> HIDE DEF m
      <4> QED
        BY <3>2, <4>1
    <3> HIDE DEF m, f, P, D, B
    <3> QED
      BY <3>1, <3>2, <3>3, <3>4 DEF Renames
  <2>2. Onto(m, D, B)
    BY DEF Onto, OfHazards
  <2>3. IsFiniteSet(P) /\ g \in [P -> Int] /\ Sums(it, P, g) /\ IsFiniteSet(D) /\ f \in [D -> Int]
        /\ Sums(jt, D, f) /\ D \in SUBSET D /\ B \in SUBSET P
    BY <1>1, <1>5, <1>7, <1>8, <1>11
  <2> HIDE DEF P, D, B, m, f, g
  <2> QED
    BY ONLY <2>1, <2>2, <2>3, SumOfImage, Zenon
<1>13. PICK kt : Sums(kt, D, x)
  <2>1. x \in [D -> Int]
    <3>1. \A h : Extra(i, h) \in Int
      BY ExtraType
    <3> QED
      BY <3>1 DEF Extras
  <2> HIDE DEF x, D
  <2> QED
    BY ONLY <1>1, <2>1, SumExists, Zenon
<1>14. WeatherPenalty(i, e) = WeatherBase(i) + kt[D]
  BY <1>1, <1>13, WeatherIsSummed
<1>15. PICK lt : Sums(lt, G, y)
  <2>1. y \in [G -> Int]
    <3>1. \A h : Extra(i, h) \in Int
      BY ExtraType
    <3> QED
      BY <3>1
  <2> HIDE DEF y, G
  <2> QED
    BY ONLY <1>1, <2>1, SumExists, Zenon
<1>16. y \in [G -> Int] /\ x \in [D -> Int] /\ (\A h \in G : y[h] = x[h] /\ y[h] = Extra(i, h))
       /\ \A h \in D \ G : x[h] = 0
  <2>1. \A h : Extra(i, h) \in Nat
    BY ExtraType
  <2> QED
    BY <2>1 DEF Extras, Graver
<1>17. it[C] = lt[G] /\ lt[G] \in Int
  <2>1. Renames(n, G, y, P, g)
    <3>1. \A h, k \in G : n[h] = n[k] => h = k
      <4>1. \A h \in G : n[h].type[2] = h
        BY DEF OfBoth
      <4> HIDE DEF n, G
      <4> QED
        BY <4>1
    <3>2. \A h \in G : n[h] \in C /\ n[h] \in P
      BY <1>2 DEF OfAllBoth
    <3>3. \A h \in G : y[h] = n[h].points
      BY DEF OfBoth
    <3>4. n \in [G -> P]
      <4> HIDE DEF G, P
      <4>1. n = [h \in G |-> n[h]]
        OBVIOUS
      <4> HIDE DEF n
      <4> QED
        BY <3>2, <4>1
    <3> HIDE DEF n, y, P, G, C
    <3> QED
      BY <3>1, <3>2, <3>3, <3>4 DEF Renames
  <2>2. Onto(n, G, C)
    BY DEF Onto, OfAllBoth
  <2>3. IsFiniteSet(P) /\ g \in [P -> Int] /\ Sums(it, P, g) /\ IsFiniteSet(G) /\ y \in [G -> Int]
        /\ Sums(lt, G, y) /\ G \in SUBSET G /\ C \in SUBSET P
    BY <1>1, <1>5, <1>7, <1>8, <1>15, <1>16
  <2> HIDE DEF P, G, C, n, y, g
  <2> QED
    BY ONLY <2>1, <2>2, <2>3, SumOfImage, Zenon
<1>18. kt[G] = lt[G]
  <2>1. Renames(same, G, y, D, x) /\ Onto(same, G, G)
    <3>1. \A h \in G : same[h] = h
      OBVIOUS
    <3>2. same \in [G -> D]
      BY <1>1
    <3> HIDE DEF G, D, x, y, same
    <3> QED
      BY <1>16, <3>1, <3>2 DEF Renames, Onto
  <2>2. IsFiniteSet(D) /\ x \in [D -> Int] /\ Sums(kt, D, x) /\ IsFiniteSet(G) /\ y \in [G -> Int]
        /\ Sums(lt, G, y) /\ G \in SUBSET G /\ G \in SUBSET D
    BY <1>1, <1>13, <1>15, <1>16
  <2> HIDE DEF D, G, x, y, same
  <2> QED
    BY ONLY <2>1, <2>2, SumOfImage
<1>19. kt[D] = kt[G]
  <2> DEFINE H == D \ G
  <2>1. IsFiniteSet(D) /\ x \in [D -> Int] /\ Sums(kt, D, x) /\ G \in SUBSET D /\ H \in SUBSET D
        /\ D \in SUBSET D
    BY <1>1, <1>13, <1>16
  <2>2. Parts(D, G, H)
    BY <1>1 DEF Parts
  <2>0. \A h \in H : x[h] = 0
    BY <1>16
  <2> HIDE DEF D, G, H, x
  <2>3. kt[H] = 0
    BY ONLY <2>0, <2>1, SumOfNothing
  <2>4. kt[G] \in Int /\ kt[H] \in Int /\ kt[D] = kt[G] + kt[H]
    BY ONLY <2>1, <2>2, SumOfParts, SMTT(60)
  <2> QED
    BY <2>3, <2>4
<1>20. jt[D] \in Nat /\ kt[D] \in Nat
  <2>1. \A h \in D : f[h] \in Nat /\ x[h] \in Nat
    BY <1>3, ExtraType DEF RoutePenalties, Extras
  <2> DEFINE none == [h \in {} |-> 0]
  <2>2. none \in [{} -> Int] /\ {} \in SUBSET D /\ (\A h \in {} : none[h] <= f[h])
        /\ (\A h \in {} : none[h] <= x[h]) /\ IsFiniteSet({})
    BY FS_EmptySet
  <2> HIDE DEF none
  <2>3. PICK zt : Sums(zt, {}, none)
    BY ONLY <2>2, SumExists, Zenon
  <2>4. zt[{}] = 0
    BY <2>3 DEF Sums
  <2>5. (\A h \in D : 0 <= f[h]) /\ (\A h \in D : 0 <= x[h]) /\ Sums(jt, D, f)
    BY <2>1
  <2> HIDE DEF D, f, x
  <2>6. jt[D] \in Int /\ zt[{}] <= jt[D]
    BY ONLY <1>1, <1>11, <2>2, <2>3, <2>5, SumGrows, Zenon
  <2>7. kt[D] \in Int /\ zt[{}] <= kt[D]
    BY ONLY <1>1, <1>13, <1>16, <2>2, <2>3, <2>5, SumGrows, Zenon
  <2> QED
    BY <2>4, <2>6, <2>7
<1> HIDE DEF P, A, B, C, D, G
<1> QED
  <2>1. it[P] = (WeatherBase(i) + jt[D]) + kt[D] /\ WeatherBase(i) \in Nat
    BY <1>9, <1>10, <1>12, <1>17, <1>18, <1>19, ExtraType
  <2>2. it[P] = jt[D] + WeatherPenalty(i, e) /\ WeatherPenalty(i, e) \in Nat
    BY <1>14, <1>20, <2>1
  <2>3. MapThenSumSet(LAMBDA p : p.points, P) = jt[D] + WeatherPenalty(i, e)
    BY <1>7, <2>2
  <2> QED
    BY <1>20, <2>2, <2>3 DEF D, P

-----------------------------------------------------------------------------
(* What an operator can try                                                *)

AllHazards == [unavailable : BOOLEAN, inside : SUBSET DOMAIN Base]
AllWeather == [unknown : BOOLEAN, severity : {"none", "advisory", "warning", "emergency"},
               now : STRING, ahead : STRING]
AllOverrides == UNION {[D -> AllHazards] : D \in SUBSET (1..3)}
Trials == [weather : AllWeather, hazards : AllHazards, overrides : AllOverrides, lengths : Lengths]

TrialType == trial = <<>> \/ trial \in Trials

\* The weather and the routes of a trial do not change.
SameRoutes(old, new) == new.weather = old.weather /\ new.lengths = old.lengths

LEMMA TrialStep ==
    ASSUME TrialType, [SimulationNext]_trial
    PROVE  /\ TrialType'
           /\ trial # <<>> => trial \in Trials /\ trial' \in Trials /\ SameRoutes(trial, trial')
<1>1. CASE FirstTrial
  <2>1. PICK lengths \in Lengths, weather \in WeatherScenarios :
          trial' = [weather |-> weather, hazards |-> [unavailable |-> FALSE, inside |-> {}],
                    overrides |-> <<>>, lengths |-> lengths]
    BY <1>1 DEF FirstTrial
  <2>2. weather \in AllWeather
    BY SimulationAssumption DEF AllWeather
  <2>3. [unavailable |-> FALSE, inside |-> {}] \in AllHazards
    BY DEF AllHazards
  <2>4. <<>> \in AllOverrides
    <3>1. <<>> \in [{} -> AllHazards] /\ {} \in SUBSET (1..3)
      OBVIOUS
    <3> QED
      BY <3>1 DEF AllOverrides
  <2>5. trial' \in Trials
    BY <2>1, <2>2, <2>3, <2>4 DEF Trials
  <2> QED
    BY <1>1, <2>5 DEF TrialType, FirstTrial
<1>2. CASE SetHazards
  <2>1. trial # <<>> /\ trial \in Trials
    BY <1>2 DEF TrialType, SetHazards
  <2>2. PICK hazards \in HazardScenarios : trial' = [trial EXCEPT !.hazards = hazards]
    BY <1>2 DEF SetHazards
  <2>3. hazards \in AllHazards
    BY SimulationAssumption DEF AllHazards
  <2>4. trial' \in Trials /\ SameRoutes(trial, trial')
    BY <2>1, <2>2, <2>3 DEF Trials, SameRoutes
  <2> QED
    BY <2>1, <2>4 DEF TrialType
<1>3. CASE \E r \in 1..3 : OverrideRoute(r)
  <2>1. PICK r \in 1..3 : OverrideRoute(r)
    BY <1>3
  <2>2. trial # <<>> /\ trial \in Trials
    BY <2>1 DEF TrialType, OverrideRoute
  <2> DEFINE o == trial.overrides
  <2>3. PICK hazards \in HazardScenarios :
          trial' = [trial EXCEPT !.overrides = [s \in DOMAIN o \cup {r} |->
                                                  IF s = r THEN hazards ELSE o[s]]]
    BY <2>1 DEF OverrideRoute
  <2>4. hazards \in AllHazards
    BY SimulationAssumption DEF AllHazards
  <2> DEFINE n == [s \in DOMAIN o \cup {r} |-> IF s = r THEN hazards ELSE o[s]]
  <2>5. o \in AllOverrides
    BY <2>2 DEF Trials
  <2>6. n \in AllOverrides
    <3>1. PICK D \in SUBSET (1..3) : o \in [D -> AllHazards]
      BY <2>5 DEF AllOverrides
    <3> HIDE DEF o
    <3>2. n \in [D \cup {r} -> AllHazards] /\ D \cup {r} \in SUBSET (1..3)
      BY <2>4, <3>1
    <3> QED
      BY <3>2 DEF AllOverrides
  <2>7. trial' = [trial EXCEPT !.overrides = n]
    BY <2>3
  <2> HIDE DEF n
  <2>8. trial' \in Trials /\ SameRoutes(trial, trial')
    BY <2>2, <2>6, <2>7 DEF Trials, SameRoutes
  <2> QED
    BY <2>2, <2>8 DEF TrialType
<1>4. CASE UNCHANGED trial
  BY <1>4 DEF TrialType, SameRoutes
<1> QED
  BY <1>1, <1>2, <1>3, <1>4 DEF SimulationNext

LEMMA TrialTypeHolds == SimulationSpec => []TrialType
<1>1. SimulationInit => TrialType
  BY DEF SimulationInit, TrialType
<1>2. TrialType /\ [SimulationNext]_trial => TrialType'
  BY TrialStep
<1> QED
  BY <1>1, <1>2, PTL DEF SimulationSpec

LEMMA HazardsOfRoute ==
    ASSUME NEW t \in Trials, NEW r
    PROVE  HazardsOf(t, r) \in AllHazards
<1>1. t.hazards \in AllHazards /\ t.overrides \in AllOverrides
  BY DEF Trials
<1>2. r \in DOMAIN t.overrides => t.overrides[r] \in AllHazards
  BY <1>1 DEF AllOverrides
<1> QED
  BY <1>1, <1>2 DEF HazardsOf

LEMMA ExposureOfType ==
    ASSUME NEW h \in AllHazards
    PROVE  ExposureOf(h) \in Exposures
<1> DEFINE D == IF h.unavailable THEN {} ELSE h.inside
<1>1. D \in SUBSET DOMAIN Base
  BY DEF AllHazards
<1>2. [k \in D |-> 1] \in [D -> Nat]
  OBVIOUS
<1> HIDE DEF D
<1>3. [k \in D |-> 1] \in Exposures
  BY <1>1, <1>2 DEF Exposures
<1> QED
  BY <1>3 DEF ExposureOf, D

\* The score loses what the penalties add up to, as long as there is something to lose.
LEMMA PenaltiesExplain ==
    ASSUME NEW t \in Trials
    PROVE  PenaltiesExplainTheScore(t)
<1> SUFFICES ASSUME NEW r \in DOMAIN t.lengths
             PROVE  LET listed == MapThenSumSet(LAMBDA e : e.points, Penalties(t.weather, HazardsOf(t, r)))
                        lost == 100 - ScoreOf(t, r)
                    IN  listed = lost \/ (lost = 100 /\ listed > 100)
  BY DEF PenaltiesExplainTheScore
<1> DEFINE h == HazardsOf(t, r)
           e == ExposureOf(h)
           i == MaxIntensity(t.weather)
           listed == MapThenSumSet(LAMBDA p : p.points, PenaltyList(i, e))
<1>1. e \in Exposures
  BY HazardsOfRoute, ExposureOfType
<1>2. Penalties(t.weather, h) = PenaltyList(i, e)
  BY DEF Penalties, PenaltyList
<1>3. PICK jt : /\ Sums(jt, DOMAIN e, RoutePenalties(e, 1))
                /\ SafetyScore(e, 1) = Bounded(100 * 1 - jt[DOMAIN e], 1)
  <2> HIDE DEF e
  <2> QED
    BY <1>1, PenaltiesAreSummed
<1> DEFINE a == jt[DOMAIN e]
           b == WeatherPenalty(i, e)
<1>4. a \in Nat /\ b \in Nat /\ listed = a + b
  <2> HIDE DEF e, i
  <2> QED
    BY <1>1, <1>3, PenaltiesAddUp
<1>5. ScoreOf(t, r) = Bounded(Bounded(100 * 1 - a, 1) - b, 1)
  BY <1>3 DEF ScoreOf, SimulatedScore
<1>6. MapThenSumSet(LAMBDA p : p.points, Penalties(t.weather, h)) = listed
  BY <1>2
<1> HIDE DEF a, b, listed, e, i, h
<1>7. \A c \in Int : Bounded(c, 1) = IF c > 100 THEN 100 ELSE IF c < 0 THEN 0 ELSE c
  BY BoundedIs
<1>8. ScoreOf(t, r) = IF a + b > 100 THEN 0 ELSE 100 - (a + b)
  <2> DEFINE s == Bounded(100 * 1 - a, 1)
  <2>1. s = IF a > 100 THEN 0 ELSE 100 - a
    BY <1>4, <1>7
  <2> HIDE DEF s
  <2>2. Bounded(s - b, 1) = IF a + b > 100 THEN 0 ELSE 100 - (a + b)
    BY <1>4, <1>7, <2>1
  <2> QED
    BY <1>5, <2>2 DEF s
<1>9. listed = 100 - ScoreOf(t, r) \/ (100 - ScoreOf(t, r) = 100 /\ listed > 100)
  BY <1>4, <1>8
<1> QED
  BY <1>6, <1>9 DEF h

-----------------------------------------------------------------------------
(* Which route is recommended                                              *)

\* Of the first n numbers one is before all others, in a strict order.
LEMMA TopExists ==
    ASSUME NEW n \in Nat, NEW B,
           \A r, s \in 1..n : r # s => <<r, s>> \in B \/ <<s, r>> \in B,
           \A r, s, u \in 1..n : <<r, s>> \in B /\ <<s, u>> \in B => <<r, u>> \in B
    PROVE  n > 0 => \E r \in 1..n : \A s \in (1..n) \ {r} : <<r, s>> \in B
<1> DEFINE Top(k) == \E r \in 1..k : \A s \in (1..k) \ {r} : <<r, s>> \in B
           T == {k \in Nat : 0 < k /\ k <= n => Top(k)}
<1>1. 0 \in T
  OBVIOUS
<1>2. ASSUME NEW k \in Nat, k \in T PROVE k + 1 \in T
  <2> SUFFICES ASSUME k + 1 <= n PROVE Top(k + 1)
    <3> HIDE DEF Top
    <3> QED
      OBVIOUS
  <2>1. CASE k = 0
    <3>1. 1 \in 1..(k + 1) /\ (1..(k + 1)) \ {1} = {}
      BY <2>1
    <3> QED
      BY <3>1
  <2>2. CASE k > 0
    <3>1. PICK r \in 1..k : \A s \in (1..k) \ {r} : <<r, s>> \in B
      <4>1. k <= n
        OBVIOUS
      <4>2. Top(k)
        <5> HIDE DEF Top
        <5> QED
          BY <1>2, <2>2, <4>1
      <4> QED
        BY <4>2
    <3> DEFINE m == k + 1
    <3>2. m \in 1..n /\ r \in 1..n /\ r # m /\ m \in 1..(k + 1) /\ r \in 1..(k + 1)
      OBVIOUS
    <3>3. \A s \in 1..(k + 1) : s = m \/ s \in 1..k
      OBVIOUS
    <3>4. \A s \in 1..k : s \in 1..n
      OBVIOUS
    <3> HIDE DEF m
    <3>5. CASE <<r, m>> \in B
      <4>1. \A s \in (1..(k + 1)) \ {r} : <<r, s>> \in B
        BY <3>1, <3>3, <3>5
      <4> QED
        BY <3>2, <4>1
    <3>6. CASE <<m, r>> \in B
      <4>1. \A s \in (1..(k + 1)) \ {m} : <<m, s>> \in B
        <5> TAKE s \in (1..(k + 1)) \ {m}
        <5>1. s \in 1..k /\ s \in 1..n
          BY <3>3, <3>4
        <5>2. s = r \/ <<r, s>> \in B
          BY <3>1, <5>1
        <5> QED
          BY <3>2, <3>6, <5>1, <5>2
      <4> QED
        BY <3>2, <4>1
    <3> QED
      BY <3>2, <3>5, <3>6
  <2> QED
    BY <2>1, <2>2
<1>3. Nat \subseteq T
  <2> HIDE DEF T
  <2> QED
    BY <1>1, <1>2, Induction
<1>4. n \in T
  <2> HIDE DEF T
  <2> QED
    BY <1>3
<1>5. 0 < n => Top(n)
  <2> HIDE DEF Top
  <2> QED
    BY <1>4
<1> QED
  BY <1>5

\* The order of places: the first difference decides.
Before(a, b) ==
    \/ a[1] > b[1]
    \/ a[1] = b[1] /\ a[2] > b[2]
    \/ a[1] = b[1] /\ a[2] = b[2] /\ a[3] > b[3]
    \/ a[1] = b[1] /\ a[2] = b[2] /\ a[3] = b[3] /\ a[4] > b[4]

LEMMA OutranksIs ==
    ASSUME NEW a, NEW b, DOMAIN a = 1..4
    PROVE  Outranks(a, b) <=> Before(a, b)
<1>1. \A i \in 1..4 : i = 1 \/ i = 2 \/ i = 3 \/ i = 4
  OBVIOUS
<1>2. /\ (\A j \in 1..(1 - 1) : a[j] = b[j])
      /\ (\A j \in 1..(2 - 1) : a[j] = b[j]) <=> a[1] = b[1]
      /\ (\A j \in 1..(3 - 1) : a[j] = b[j]) <=> a[1] = b[1] /\ a[2] = b[2]
      /\ (\A j \in 1..(4 - 1) : a[j] = b[j]) <=> a[1] = b[1] /\ a[2] = b[2] /\ a[3] = b[3]
  <2>1. 1..(1 - 1) = {} /\ 1..(2 - 1) = {1} /\ 1..(3 - 1) = {1, 2} /\ 1..(4 - 1) = {1, 2, 3}
    OBVIOUS
  <2> QED
    BY <2>1
<1>3. 1 \in 1..4 /\ 2 \in 1..4 /\ 3 \in 1..4 /\ 4 \in 1..4
  OBVIOUS
<1>4. ASSUME Outranks(a, b) PROVE Before(a, b)
  <2>1. PICK i \in 1..4 : a[i] > b[i] /\ \A j \in 1..(i - 1) : a[j] = b[j]
    BY <1>4 DEF Outranks
  <2>2. CASE i = 1
    BY <2>1, <2>2 DEF Before
  <2>3. CASE i = 2
    BY <1>2, <2>1, <2>3 DEF Before
  <2>4. CASE i = 3
    BY <1>2, <2>1, <2>4 DEF Before
  <2>5. CASE i = 4
    BY <1>2, <2>1, <2>5 DEF Before
  <2> QED
    BY <1>1, <2>2, <2>3, <2>4, <2>5
<1>5. ASSUME Before(a, b) PROVE Outranks(a, b)
  <2>1. CASE a[1] > b[1]
    BY <1>2, <1>3, <2>1 DEF Outranks
  <2>2. CASE a[1] = b[1] /\ a[2] > b[2]
    BY <1>2, <1>3, <2>2 DEF Outranks
  <2>3. CASE a[1] = b[1] /\ a[2] = b[2] /\ a[3] > b[3]
    BY <1>2, <1>3, <2>3 DEF Outranks
  <2>4. CASE a[1] = b[1] /\ a[2] = b[2] /\ a[3] = b[3] /\ a[4] > b[4]
    BY <1>2, <1>3, <2>4 DEF Outranks
  <2> QED
    BY <1>5, <2>1, <2>2, <2>3, <2>4 DEF Before
<1> QED
  BY <1>4, <1>5

\* A score is a number of points, and falls with more hazards.
LEMMA SimulatedScoreFalls ==
    ASSUME NEW weather, NEW h \in AllHazards, NEW k \in AllHazards,
           ~h.unavailable, ~k.unavailable, h.inside \subseteq k.inside
    PROVE  SimulatedScore(weather, k) <= SimulatedScore(weather, h)
<1> DEFINE e == ExposureOf(h)
           f == ExposureOf(k)
           i == MaxIntensity(weather)
<1>1. MoreExposed(e, f)
  <2>1. e \in Exposures /\ f \in Exposures
    BY ExposureOfType
  <2>2. e = [x \in h.inside |-> 1] /\ f = [x \in k.inside |-> 1]
    BY DEF ExposureOf
  <2> HIDE DEF e, f
  <2> QED
    BY <2>1, <2>2 DEF MoreExposed
<1>2. SimulatedScore(weather, h) = Bounded(SafetyScore(e, 1) - WeatherPenalty(i, e), 1)
      /\ SimulatedScore(weather, k) = Bounded(SafetyScore(f, 1) - WeatherPenalty(i, f), 1)
  BY DEF SimulatedScore
<1> HIDE DEF e, f, i
<1>3. SafetyScore(e, 1) \in Int /\ SafetyScore(f, 1) \in Int /\ SafetyScore(f, 1) <= SafetyScore(e, 1)
  <2>1. /\ SafetyScore(e, 1) \in 0..(100 * 1) /\ SafetyScore(f, 1) \in 0..(100 * 1)
        /\ SafetyScore(f, 1) <= SafetyScore(e, 1)
    BY <1>1, ScoreFalls
  <2> QED
    BY <2>1
<1>4. WeatherPenalty(i, e) \in Nat /\ WeatherPenalty(i, f) \in Nat
      /\ WeatherPenalty(i, e) <= WeatherPenalty(i, f)
  <2>1. IntensityRank(i) <= IntensityRank(i)
    BY DEF IntensityRank
  <2> QED
    BY <1>1, <2>1, WeatherPenaltyGrows
<1> DEFINE x == SafetyScore(f, 1) - WeatherPenalty(i, f)
           y == SafetyScore(e, 1) - WeatherPenalty(i, e)
<1>5. x \in Int /\ y \in Int /\ x <= y
  BY <1>3, <1>4
<1> HIDE DEF x, y
<1>6. Bounded(x, 1) <= Bounded(y, 1)
  BY <1>5, BoundedType
<1> QED
  BY <1>2, <1>6 DEF x, y

LEMMA ScoreIsNumber ==
    ASSUME NEW weather, NEW h \in AllHazards
    PROVE  SimulatedScore(weather, h) \in Int
<1> DEFINE e == ExposureOf(h)
           i == MaxIntensity(weather)
<1>1. MoreExposed(e, e)
  BY ExposureOfType DEF MoreExposed, Exposures
<1>2. SafetyScore(e, 1) \in 0..(100 * 1)
  <2> HIDE DEF e
  <2> QED
    BY <1>1, ScoreFalls
<1>3. WeatherPenalty(i, e) \in Nat
  <2>1. IntensityRank(i) <= IntensityRank(i)
    BY DEF IntensityRank
  <2> HIDE DEF e, i
  <2> QED
    BY <1>1, <2>1, WeatherPenaltyGrows
<1> DEFINE x == SafetyScore(e, 1) - WeatherPenalty(i, e)
<1>4. x \in Int
  BY <1>2, <1>3
<1>5. SimulatedScore(weather, h) = Bounded(x, 1)
  BY DEF SimulatedScore
<1> HIDE DEF x
<1>6. Bounded(x, 1) \in 0..(100 * 1)
  BY <1>4, BoundedType
<1> QED
  BY <1>5, <1>6

\* In weather that is known more hazards never give a level that is safer.
LEMMA SimulatedLevelFalls ==
    ASSUME NEW weather \in AllWeather, ~weather.unknown, NEW h \in AllHazards, NEW k \in AllHazards,
           ~h.unavailable, ~k.unavailable, h.inside \subseteq k.inside
    PROVE  SafetyOrder(SimulatedLevel(weather, k)) <= SafetyOrder(SimulatedLevel(weather, h))
<1> DEFINE risk == WeatherRisk(weather)
           rain == RiskOfIntensity(MaxIntensity(weather))
           x == SimulatedScore(weather, k)
           y == SimulatedScore(weather, h)
<1>1. risk \in {"none", "advisory", "warning", "emergency"}
  <2>1. rain \in {"none", "advisory", "warning", "emergency"}
    BY DEF RiskOfIntensity
  <2>2. weather.severity \in {"none", "advisory", "warning", "emergency"}
    BY DEF AllWeather
  <2>3. risk = weather.severity \/ risk = rain
    BY DEF WeatherRisk
  <2> HIDE DEF risk, rain
  <2> QED
    BY <2>1, <2>2, <2>3
<1>2. x \in Int /\ y \in Int /\ x <= y
  BY ScoreIsNumber, SimulatedScoreFalls
<1>3. SimulatedLevel(weather, k) = ToRiskLevel(x, 1, risk)
      /\ SimulatedLevel(weather, h) = ToRiskLevel(y, 1, risk)
  BY DEF SimulatedLevel
<1> HIDE DEF x, y, risk
<1>4. \A z \in Int : ToRiskLevel(z, 1, risk) =
          IF z < 30 \/ SeverityRank(risk) >= 4 THEN "emergency"
          ELSE IF z < 50 \/ SeverityRank(risk) = 3 THEN "warning"
          ELSE IF z < 75 \/ SeverityRank(risk) = 2 THEN "advisory" ELSE "none"
  BY <1>1 DEF ToRiskLevel
<1>5. /\ SafetyOrder("emergency") = -4 /\ SafetyOrder("warning") = -3
      /\ SafetyOrder("advisory") = -2 /\ SafetyOrder("none") = 0
  <2>1. /\ SeverityRank("emergency") = 4 /\ SeverityRank("warning") = 3
        /\ SeverityRank("advisory") = 2 /\ SeverityRank("none") = 0
    BY DEF SeverityRank
  <2> QED
    BY <2>1 DEF SafetyOrder
<1>6. SeverityRank(risk) \in Int
  BY DEF SeverityRank
<1> QED
  BY <1>2, <1>3, <1>4, <1>5, <1>6

\* A place is made of four numbers.
LEMMA PlaceType ==
    ASSUME NEW t \in Trials, NEW r \in DOMAIN t.lengths
    PROVE  /\ DOMAIN PlaceOf(t, r) = 1..4
           /\ PlaceOf(t, r)[1] = SafetyOrder(LevelOf(t, r)) /\ PlaceOf(t, r)[1] \in Int
           /\ PlaceOf(t, r)[2] = ScoreOf(t, r) /\ PlaceOf(t, r)[2] \in Int
           /\ PlaceOf(t, r)[3] = -t.lengths[r] /\ PlaceOf(t, r)[3] \in Int
           /\ PlaceOf(t, r)[4] = -r /\ PlaceOf(t, r)[4] \in Int
<1>1. t.lengths \in Seq(Nat)
  BY SimulationAssumption DEF Trials
<1>2. r \in Int /\ t.lengths[r] \in Int
  BY <1>1, ElementOfSeq, LenProperties
<1>3. ScoreOf(t, r) \in Int
  BY HazardsOfRoute, ScoreIsNumber DEF ScoreOf
<1>4. SafetyOrder(LevelOf(t, r)) \in Int
  BY DEF SafetyOrder, SeverityRank
<1> QED
  BY <1>2, <1>3, <1>4 DEF PlaceOf

\* There is one to recommend, if there is any.
LEMMA RecommendedIsOnTop ==
    ASSUME NEW t \in Trials, DOMAIN t.lengths # {}
    PROVE  /\ RecommendedOf(t) \in DOMAIN t.lengths
           /\ \A s \in DOMAIN t.lengths \ {RecommendedOf(t)} :
                  Before(PlaceOf(t, RecommendedOf(t)), PlaceOf(t, s))
<1> DEFINE n == Len(t.lengths)
           B == {q \in (1..n) \X (1..n) : Before(PlaceOf(t, q[1]), PlaceOf(t, q[2]))}
<1>1. n \in Nat /\ DOMAIN t.lengths = 1..n
  <2>1. t.lengths \in Seq(Nat)
    BY SimulationAssumption DEF Trials
  <2> QED
    BY <2>1, LenProperties
<1>2. \A r \in 1..n : /\ PlaceOf(t, r)[1] \in Int /\ PlaceOf(t, r)[2] \in Int
                      /\ PlaceOf(t, r)[3] \in Int /\ PlaceOf(t, r)[4] = -r
                      /\ DOMAIN PlaceOf(t, r) = 1..4
  BY <1>1, PlaceType
<1>3. \A r, s \in 1..n : Before(PlaceOf(t, r), PlaceOf(t, s)) <=> <<r, s>> \in B
  OBVIOUS
<1> HIDE DEF B, n
<1>4. \A r, s \in 1..n : r # s => <<r, s>> \in B \/ <<s, r>> \in B
  <2> SUFFICES ASSUME NEW r \in 1..n, NEW s \in 1..n, r # s
               PROVE  Before(PlaceOf(t, r), PlaceOf(t, s)) \/ Before(PlaceOf(t, s), PlaceOf(t, r))
    BY <1>3
  <2> DEFINE a == PlaceOf(t, r)
             b == PlaceOf(t, s)
  <2>1. a[1] \in Int /\ a[2] \in Int /\ a[3] \in Int /\ a[4] = -r /\ r \in Int
        /\ b[1] \in Int /\ b[2] \in Int /\ b[3] \in Int /\ b[4] = -s /\ s \in Int
    BY <1>1, <1>2
  <2> HIDE DEF a, b
  <2>2. Before(a, b) \/ Before(b, a)
    BY <2>1 DEF Before
  <2> QED
    BY <2>2 DEF a, b
<1>5. \A r, s, u \in 1..n : <<r, s>> \in B /\ <<s, u>> \in B => <<r, u>> \in B
  <2> SUFFICES ASSUME NEW r \in 1..n, NEW s \in 1..n, NEW u \in 1..n,
                      Before(PlaceOf(t, r), PlaceOf(t, s)), Before(PlaceOf(t, s), PlaceOf(t, u))
               PROVE  Before(PlaceOf(t, r), PlaceOf(t, u))
    BY <1>3
  <2> DEFINE a == PlaceOf(t, r)
             b == PlaceOf(t, s)
             c == PlaceOf(t, u)
  <2>0. -r \in Int /\ -s \in Int /\ -u \in Int
    BY <1>1
  <2>1. /\ a[1] \in Int /\ a[2] \in Int /\ a[3] \in Int /\ a[4] \in Int
        /\ b[1] \in Int /\ b[2] \in Int /\ b[3] \in Int /\ b[4] \in Int
        /\ c[1] \in Int /\ c[2] \in Int /\ c[3] \in Int /\ c[4] \in Int
        /\ Before(a, b) /\ Before(b, c)
    BY <1>2, <2>0
  <2> HIDE DEF a, b, c
  <2>2. Before(a, c)
    BY <2>1 DEF Before
  <2> QED
    BY <2>2 DEF a, c
<1>6. n > 0
  BY <1>1
<1>7. \E r \in 1..n : \A s \in (1..n) \ {r} : <<r, s>> \in B
  BY <1>1, <1>4, <1>5, <1>6, TopExists
<1>8. \E r \in DOMAIN t.lengths : \A s \in DOMAIN t.lengths \ {r} : Outranks(PlaceOf(t, r), PlaceOf(t, s))
  <2>1. PICK r \in 1..n : \A s \in (1..n) \ {r} : <<r, s>> \in B
    BY <1>7
  <2>2. \A s \in (1..n) \ {r} : Outranks(PlaceOf(t, r), PlaceOf(t, s))
    BY <1>2, <1>3, <2>1, OutranksIs
  <2> QED
    BY <1>1, <2>2
<1> DEFINE top == RecommendedOf(t)
<1>9. top \in DOMAIN t.lengths /\ \A s \in DOMAIN t.lengths \ {top} : Outranks(PlaceOf(t, top), PlaceOf(t, s))
  BY <1>8 DEF RecommendedOf
<1> HIDE DEF top
<1>10. \A s \in DOMAIN t.lengths \ {top} : Before(PlaceOf(t, top), PlaceOf(t, s))
  BY <1>1, <1>2, <1>9, OutranksIs
<1> QED
  BY <1>9, <1>10 DEF top

LEMMA WorseIsNotPreferred ==
    ASSUME NEW old \in Trials, NEW new \in Trials, SameRoutes(old, new)
    PROVE  WorseRouteIsNotPreferred(old, new)
<1> SUFFICES ASSUME NEW r \in DOMAIN old.lengths, ~old.weather.unknown, RecommendedOf(old) # r,
                    \A s \in DOMAIN old.lengths \ {r} : HazardsOf(new, s) = HazardsOf(old, s),
                    ~HazardsOf(old, r).unavailable, ~HazardsOf(new, r).unavailable,
                    HazardsOf(old, r).inside \subseteq HazardsOf(new, r).inside
             PROVE  RecommendedOf(new) # r
  BY DEF WorseRouteIsNotPreferred
<1> DEFINE b == RecommendedOf(old)
<1>1. new.lengths = old.lengths /\ new.weather = old.weather /\ old.weather \in AllWeather
  BY DEF SameRoutes, Trials
<1>2. b \in DOMAIN old.lengths /\ Before(PlaceOf(old, b), PlaceOf(old, r))
  BY RecommendedIsOnTop
<1>3. RecommendedOf(new) \in DOMAIN old.lengths
      /\ \A s \in DOMAIN old.lengths \ {RecommendedOf(new)} :
             Before(PlaceOf(new, RecommendedOf(new)), PlaceOf(new, s))
  BY <1>1, RecommendedIsOnTop
<1> SUFFICES ASSUME RecommendedOf(new) = r PROVE FALSE
  OBVIOUS
<1> DEFINE p == PlaceOf(old, b)
           q == PlaceOf(old, r)
           z == PlaceOf(new, r)
<1>4. PlaceOf(new, b) = p
  <2>1. HazardsOf(new, b) = HazardsOf(old, b)
    BY <1>2
  <2> QED
    BY <1>1, <2>1 DEF PlaceOf, LevelOf, ScoreOf
<1>5. Before(z, p)
  BY <1>2, <1>3, <1>4
<1>6. Before(p, q)
  BY <1>2
<1>7. z[1] <= q[1] /\ z[2] <= q[2] /\ z[3] = q[3] /\ z[4] = q[4]
  <2>1. HazardsOf(old, r) \in AllHazards /\ HazardsOf(new, r) \in AllHazards
    BY HazardsOfRoute
  <2>2. SafetyOrder(LevelOf(new, r)) <= SafetyOrder(LevelOf(old, r))
    BY <1>1, <2>1, SimulatedLevelFalls DEF LevelOf
  <2>3. ScoreOf(new, r) <= ScoreOf(old, r)
    BY <1>1, <2>1, SimulatedScoreFalls DEF ScoreOf
  <2> QED
    BY <1>1, <2>2, <2>3, PlaceType
<1>8. /\ p[1] \in Int /\ p[2] \in Int /\ p[3] \in Int /\ p[4] \in Int
      /\ q[1] \in Int /\ q[2] \in Int /\ q[3] \in Int /\ q[4] \in Int
      /\ z[1] \in Int /\ z[2] \in Int /\ z[3] \in Int /\ z[4] \in Int
  BY <1>1, <1>2, PlaceType
<1> HIDE DEF p, q, z
<1> QED
  BY <1>5, <1>6, <1>7, <1>8 DEF Before

-----------------------------------------------------------------------------
(* The simulation                                                          *)

\* Whatever weather, hazards, overrides and routes are tried: the penalties that are
\* listed for a route add up to what it lost of its score, and a route that is not the
\* recommended one does not become so by one more hazard, in weather that is known
\* (_assess_route(), _build_penalties() and _rank_routes() of simulation_service.py).
THEOREM ScoresAreExplained ==
    SimulationSpec =>
        [][/\ trial' # <<>> => PenaltiesExplainTheScore(trial')
           /\ WorseRouteIsNotPreferred(trial, trial')]_trial
<1>1. TrialType /\ [SimulationNext]_trial =>
          /\ trial' # <<>> => PenaltiesExplainTheScore(trial')
          /\ WorseRouteIsNotPreferred(trial, trial')
  <2> SUFFICES ASSUME TrialType, [SimulationNext]_trial
               PROVE  /\ trial' # <<>> => PenaltiesExplainTheScore(trial')
                      /\ WorseRouteIsNotPreferred(trial, trial')
    OBVIOUS
  <2>1. /\ TrialType'
        /\ trial # <<>> => trial \in Trials /\ trial' \in Trials /\ SameRoutes(trial, trial')
    BY TrialStep
  <2>2. trial' # <<>> => PenaltiesExplainTheScore(trial')
    <3>1. trial' # <<>> => trial' \in Trials
      BY <2>1 DEF TrialType
    <3> QED
      BY <3>1, PenaltiesExplain
  <2>3. trial # <<>> => WorseRouteIsNotPreferred(trial, trial')
    BY <2>1, WorseIsNotPreferred
  <2>4. trial = <<>> => WorseRouteIsNotPreferred(trial, trial')
    BY DEF WorseRouteIsNotPreferred
  <2> QED
    BY <2>2, <2>3, <2>4
<1> QED
  BY <1>1, TrialTypeHolds, PTL DEF SimulationSpec

\* The predefined scenarios pass on all routes of which the first is the shortest.  They
\* are data, so this is for a run to find out.
PassOnAllRoutes == \A lengths \in Lengths : PredefinedScenariosPass([lengths |-> lengths])

\* Where they do (PREDEFINED_SCENARIOS and run_auto() of simulation_service.py), the
\* simulation is sound, whatever is tried.
THEOREM SimulationHolds == PassOnAllRoutes => (SimulationSpec => SimulationIsSound)
<1> SUFFICES ASSUME PassOnAllRoutes PROVE SimulationSpec => SimulationIsSound
  OBVIOUS
<1>1. \A t \in Trials : PredefinedScenariosPass(t)
  <2> TAKE t \in Trials
  <2>1. t.lengths \in Lengths
    BY DEF Trials
  <2>2. PredefinedScenariosPass([lengths |-> t.lengths])
    BY <2>1 DEF PassOnAllRoutes
  <2>3. ShortestOf([lengths |-> t.lengths]) = ShortestOf(t)
    BY DEF ShortestOf
  <2>4. [lengths |-> t.lengths].lengths = t.lengths
    OBVIOUS
  <2> QED
    BY <2>2, <2>3, <2>4 DEF PredefinedScenariosPass
<1>2. TrialType' /\ (trial' # <<>> => PenaltiesExplainTheScore(trial')) => SimulationAgrees(trial')
  BY <1>1 DEF TrialType, SimulationAgrees
<1> QED
  BY <1>2, TrialTypeHolds, ScoresAreExplained, PTL DEF SimulationIsSound

\* Of two elements of the list the first is related to the second.
Ordered(s, R) == \A i, j \in DOMAIN s : i < j => <<s[i], s[j]>> \in R

LEMMA ConcatOrder ==
    ASSUME NEW T, NEW a \in Seq(T), NEW b \in Seq(T)
    PROVE  /\ a \o b \in Seq(T) /\ ToSet(a \o b) = ToSet(a) \cup ToSet(b)
           /\ \A R : /\ Ordered(a, R) /\ Ordered(b, R)
                     /\ \A x \in ToSet(a), y \in ToSet(b) : <<x, y>> \in R
                     => Ordered(a \o b, R)
<1> DEFINE c == a \o b
           m == Len(a)
           n == Len(b)
<1>1. /\ m \in Nat /\ n \in Nat /\ c \in Seq(T) /\ Len(c) = m + n
      /\ DOMAIN a = 1..m /\ DOMAIN b = 1..n /\ DOMAIN c = 1..(m + n)
      /\ \A i \in 1..(m + n) : c[i] = IF i <= m THEN a[i] ELSE b[i - m]
  BY ConcatProperties, LenProperties
<1> HIDE DEF c, m, n
<1>2. \A i \in 1..m : i \in 1..(m + n) /\ c[i] = a[i]
  BY <1>1
<1>3. \A j \in 1..n : j + m \in 1..(m + n) /\ c[j + m] = b[j]
  <2> TAKE j \in 1..n
  <2>1. j + m \in 1..(m + n) /\ ~(j + m <= m) /\ (j + m) - m = j
    BY <1>1
  <2> QED
    BY <1>1, <2>1
<1>4. \A i \in 1..(m + n) : i \in 1..m \/ \E j \in 1..n : i = j + m
  <2> TAKE i \in 1..(m + n)
  <2>1. CASE i <= m
    BY <1>1, <2>1
  <2>2. CASE ~(i <= m)
    <3>1. i - m \in 1..n /\ i = (i - m) + m
      BY <1>1, <2>2
    <3> QED
      BY <3>1
  <2> QED
    BY <2>1, <2>2
<1>5. ToSet(c) = ToSet(a) \cup ToSet(b)
  <2>1. ToSet(c) \subseteq ToSet(a) \cup ToSet(b)
    <3>1. \A i \in 1..(m + n) : c[i] \in ToSet(a) \cup ToSet(b)
      <4> TAKE i \in 1..(m + n)
      <4>1. CASE i \in 1..m
        BY <1>1, <1>2, <4>1 DEF ToSet
      <4>2. ASSUME NEW j \in 1..n, i = j + m PROVE c[i] \in ToSet(b)
        BY <1>1, <1>3, <4>2 DEF ToSet
      <4> QED
        BY <1>4, <4>1, <4>2
    <3> QED
      BY <1>1, <3>1 DEF ToSet
  <2>2. ToSet(a) \subseteq ToSet(c)
    BY <1>1, <1>2 DEF ToSet
  <2>3. ToSet(b) \subseteq ToSet(c)
    BY <1>1, <1>3 DEF ToSet
  <2> QED
    BY <2>1, <2>2, <2>3
<1>6. ASSUME NEW R, Ordered(a, R), Ordered(b, R),
             \A x \in ToSet(a), y \in ToSet(b) : <<x, y>> \in R,
             NEW i \in 1..(m + n), NEW j \in 1..(m + n), i < j
      PROVE  <<c[i], c[j]>> \in R
  <2>1. CASE i \in 1..m /\ j \in 1..m
    BY <1>1, <1>2, <1>6, <2>1 DEF Ordered
  <2>2. ASSUME i \in 1..m, NEW l \in 1..n, j = l + m PROVE <<c[i], c[j]>> \in R
    <3>1. a[i] \in ToSet(a) /\ b[l] \in ToSet(b)
      BY <1>1, <2>2 DEF ToSet
    <3>2. c[i] = a[i] /\ c[j] = b[l]
      BY <1>2, <1>3, <2>2
    <3> QED
      BY <1>6, <3>1, <3>2
  <2>3. ASSUME NEW k \in 1..n, i = k + m, NEW l \in 1..n, j = l + m PROVE <<c[i], c[j]>> \in R
    <3>1. k < l
      BY <1>1, <1>6, <2>3
    <3>2. c[i] = b[k] /\ c[j] = b[l]
      BY <1>3, <2>3
    <3> QED
      BY <1>1, <1>6, <3>1, <3>2 DEF Ordered
  <2>4. ASSUME NEW k \in 1..n, i = k + m, j \in 1..m PROVE FALSE
    BY <1>1, <1>6, <2>4
  <2> QED
    BY <1>4, <2>1, <2>2, <2>3, <2>4
<1>7. \A R : /\ Ordered(a, R) /\ Ordered(b, R)
             /\ \A x \in ToSet(a), y \in ToSet(b) : <<x, y>> \in R
             => Ordered(c, R)
  BY <1>1, <1>6 DEF Ordered
<1> QED
  BY <1>1, <1>5, <1>7 DEF c

\* The lists, one after the other, hold what is in them; and in order, if each is in
\* order and none holds what should come after what a later one holds.
LEMMA FlattenOrder ==
    ASSUME NEW T, NEW parts \in Seq(Seq(T))
    PROVE  /\ FlattenSeq(parts) \in Seq(T)
           /\ ToSet(FlattenSeq(parts)) = UNION {ToSet(parts[i]) : i \in DOMAIN parts}
           /\ \A R :
                  /\ \A i \in DOMAIN parts : Ordered(parts[i], R)
                  /\ \A i, j \in DOMAIN parts :
                         i < j => \A x \in ToSet(parts[i]), y \in ToSet(parts[j]) : <<x, y>> \in R
                  => Ordered(FlattenSeq(parts), R)
<1> DEFINE n == Len(parts)
           In(k) == UNION {ToSet(parts[i]) : i \in 1..k}
           Fit(R) == /\ \A i \in DOMAIN parts : Ordered(parts[i], R)
                     /\ \A i, j \in DOMAIN parts :
                            i < j => \A x \in ToSet(parts[i]), y \in ToSet(parts[j]) : <<x, y>> \in R
           Good(s, k) == /\ s \in Seq(T) /\ ToSet(s) = In(k)
                         /\ \A R : Fit(R) => Ordered(s, R)
<1>1. n \in Nat /\ DOMAIN parts = 1..n /\ \A i \in 1..n : parts[i] \in Seq(T)
  BY LenProperties, ElementOfSeq
<1>2. CASE n = 0
  <2>1. parts = <<>> /\ FlattenSeq(parts) = <<>>
    BY <1>2, EmptySeq DEF FlattenSeq
  <2>2. <<>> \in Seq(T) /\ ToSet(<<>>) = {} /\ DOMAIN parts = {}
    BY <2>1, EmptySeq DEF ToSet
  <2>3. \A R : Ordered(<<>>, R)
    BY DEF Ordered
  <2> QED
    BY <2>1, <2>2, <2>3
<1>3. CASE n > 0
  <2>1. PICK h : /\ h[1] = parts[1] /\ h[n] = FlattenSeq(parts)
                 /\ \A k \in 2..n : h[k] = h[k - 1] \o parts[k]
    BY <1>1, <1>3, FlattenByPart
  <2> DEFINE S == {k \in Nat : k \in 1..n => Good(h[k], k)}
  <2>2. Good(h[1], 1)
    <3>1. In(1) = ToSet(parts[1])
      OBVIOUS
    <3>2. \A R : Fit(R) => Ordered(parts[1], R)
      BY <1>1, <1>3
    <3> QED
      BY <1>1, <1>3, <2>1, <3>1, <3>2
  <2>3. ASSUME NEW k \in Nat, k + 1 \in 2..n, Good(h[k], k) PROVE Good(h[k + 1], k + 1)
    <3>1. (k + 1) - 1 = k /\ k + 1 \in 1..n
      BY <1>1, <2>3
    <3>2. h[k + 1] = h[k] \o parts[k + 1] /\ parts[k + 1] \in Seq(T)
      BY <1>1, <2>1, <2>3, <3>1
    <3>3. In(k + 1) = In(k) \cup ToSet(parts[k + 1])
      <4>1. 1..(k + 1) = (1..k) \cup {k + 1}
        OBVIOUS
      <4> QED
        BY <4>1
    <3>4. ASSUME NEW R, Fit(R), NEW x \in In(k), NEW y \in ToSet(parts[k + 1])
          PROVE  <<x, y>> \in R
      <4>1. PICK i \in 1..k : x \in ToSet(parts[i])
        BY <3>4
      <4>2. i \in DOMAIN parts /\ k + 1 \in DOMAIN parts /\ i < k + 1
        BY <1>1, <2>3
      <4> QED
        BY <3>4, <4>1, <4>2
    <3>5. h[k] \in Seq(T) /\ ToSet(h[k]) = In(k) /\ \A R : Fit(R) => Ordered(h[k], R)
      BY <2>3
    <3>6. \A R : Fit(R) => Ordered(parts[k + 1], R)
      BY <1>1, <3>1
    <3> HIDE DEF In, Fit
    <3>7. h[k + 1] \in Seq(T) /\ ToSet(h[k + 1]) = In(k + 1)
      <4>1. /\ h[k] \o parts[k + 1] \in Seq(T)
            /\ ToSet(h[k] \o parts[k + 1]) = ToSet(h[k]) \cup ToSet(parts[k + 1])
        BY <3>2, <3>5, ConcatOrder
      <4> QED
        BY <3>2, <3>3, <3>5, <4>1
    <3>8. ASSUME NEW R, Fit(R) PROVE Ordered(h[k + 1], R)
      <4>1. Ordered(h[k], R) /\ Ordered(parts[k + 1], R)
            /\ \A x \in ToSet(h[k]), y \in ToSet(parts[k + 1]) : <<x, y>> \in R
        BY <3>4, <3>5, <3>6, <3>8
      <4> QED
        BY <3>2, <3>5, <4>1, ConcatOrder
    <3> QED
      BY <3>7, <3>8
  <2>4. n \in S
    <3>1. 0 \in S
      OBVIOUS
    <3>2. \A k \in Nat : k \in S => k + 1 \in S
      <4> HIDE DEF Good
      <4> TAKE k \in Nat
      <4> SUFFICES ASSUME k \in S, k + 1 \in 1..n PROVE Good(h[k + 1], k + 1)
        OBVIOUS
      <4>1. CASE k = 0
        BY <2>2, <4>1
      <4>2. CASE k > 0
        <5>1. k \in 1..n /\ k + 1 \in 2..n
          BY <1>1, <4>2
        <5> QED
          BY <2>3, <5>1
      <4> QED
        BY <4>1, <4>2
    <3> HIDE DEF S
    <3> QED
      BY <1>1, <3>1, <3>2, Induction
  <2>5. Good(h[n], n)
    <3> HIDE DEF Good
    <3> QED
      BY <1>1, <1>3, <2>4
  <2> QED
    BY <1>1, <2>1, <2>5
<1> QED
  BY <1>1, <1>2, <1>3

\* Those elements of a list that are in K.
Those(s, K) == FlattenSeq([i \in DOMAIN s |-> IF s[i] \in K THEN <<s[i]>> ELSE <<>>])

LEMMA ThoseOfList ==
    ASSUME NEW T, NEW s \in Seq(T), NEW K
    PROVE  /\ Those(s, K) \in Seq(T) /\ ToSet(Those(s, K)) = ToSet(s) \cap K
           /\ \A R : Ordered(s, R) => Ordered(Those(s, K), R)
<1> DEFINE parts == [i \in DOMAIN s |-> IF s[i] \in K THEN <<s[i]>> ELSE <<>>]
<1>1. Len(s) \in Nat /\ DOMAIN s = 1..Len(s) /\ \A i \in 1..Len(s) : s[i] \in T
  BY LenProperties, ElementOfSeq
<1>2. \A i \in DOMAIN s :
          /\ parts[i] \in Seq(T) /\ DOMAIN parts[i] \subseteq {1}
          /\ ToSet(parts[i]) = IF s[i] \in K THEN {s[i]} ELSE {}
  <2> TAKE i \in DOMAIN s
  <2>1. CASE s[i] \in K
    <3>1. parts[i] = <<s[i]>>
      BY <2>1
    <3> HIDE DEF parts
    <3>2. <<s[i]>> \in Seq(T) /\ DOMAIN <<s[i]>> = {1} /\ ToSet(<<s[i]>>) = {s[i]}
      BY <1>1 DEF ToSet
    <3> QED
      BY <2>1, <3>1, <3>2
  <2>2. CASE s[i] \notin K
    <3>1. parts[i] = <<>>
      BY <2>2
    <3> HIDE DEF parts
    <3>2. <<>> \in Seq(T) /\ DOMAIN <<>> = {} /\ ToSet(<<>>) = {}
      BY EmptySeq DEF ToSet
    <3> QED
      BY <2>2, <3>1, <3>2
  <2> QED
    BY <2>1, <2>2
<1>3. parts \in Seq(Seq(T)) /\ DOMAIN parts = DOMAIN s
  <2>1. DOMAIN parts = 1..Len(s) /\ \A i \in 1..Len(s) : parts[i] \in Seq(T)
    BY <1>1, <1>2
  <2>2. parts = [i \in 1..Len(s) |-> parts[i]]
    BY <1>1
  <2> HIDE DEF parts
  <2> QED
    BY <1>1, <2>1, <2>2, IsASeq
<1>4. \A i \in DOMAIN s : \A x \in ToSet(parts[i]) : x = s[i]
  BY <1>2
<1>5. UNION {ToSet(parts[i]) : i \in DOMAIN parts} = ToSet(s) \cap K
  <2>1. ToSet(s) = {s[i] : i \in DOMAIN s}
    BY DEF ToSet
  <2> HIDE DEF parts
  <2> QED
    BY <1>2, <1>3, <2>1
<1>6. ASSUME NEW R, Ordered(s, R)
      PROVE  /\ \A i \in DOMAIN parts : Ordered(parts[i], R)
             /\ \A i, j \in DOMAIN parts :
                    i < j => \A x \in ToSet(parts[i]), y \in ToSet(parts[j]) : <<x, y>> \in R
  <2> HIDE DEF parts
  <2>1. \A i \in DOMAIN parts : Ordered(parts[i], R)
    BY <1>2, <1>3 DEF Ordered
  <2>2. \A i, j \in DOMAIN parts :
            i < j => \A x \in ToSet(parts[i]), y \in ToSet(parts[j]) : <<x, y>> \in R
    BY <1>3, <1>4, <1>6 DEF Ordered
  <2> QED
    BY <2>1, <2>2
<1> HIDE DEF parts
<1>7. FlattenSeq(parts) \in Seq(T) /\ ToSet(FlattenSeq(parts)) = ToSet(s) \cap K
  BY <1>3, <1>5, FlattenOrder
<1>8. \A R : Ordered(s, R) => Ordered(FlattenSeq(parts), R)
  BY <1>3, <1>6, FlattenOrder
<1> QED
  BY <1>7, <1>8 DEF parts, Those

\* A list that is sorted by a rank: the elements of rank 0, then those of rank 1, ...
ByRank(s, rank, n) ==
    FlattenSeq([r \in 1..n |-> FlattenSeq([i \in DOMAIN s |->
        IF rank[s[i]] = r - 1 THEN <<s[i]>> ELSE <<>>])])

NoLater(T, rank) == {p \in T \X T : rank[p[1]] <= rank[p[2]]}

LEMMA ByRankHolds ==
    ASSUME NEW T, NEW s \in Seq(T), NEW n \in Nat, NEW rank \in [T -> Nat],
           \A x \in ToSet(s) : rank[x] < n
    PROVE  /\ ByRank(s, rank, n) \in Seq(T) /\ ToSet(ByRank(s, rank, n)) = ToSet(s)
           /\ Ordered(ByRank(s, rank, n), NoLater(T, rank))
<1> DEFINE K(r) == {x \in T : rank[x] = r - 1}
           part(r) == FlattenSeq([i \in DOMAIN s |->
                                     IF rank[s[i]] = r - 1 THEN <<s[i]>> ELSE <<>>])
           parts == [r \in 1..n |-> part(r)]
           R == NoLater(T, rank)
<1>1. \A i \in DOMAIN s : s[i] \in T
  BY LenProperties, ElementOfSeq
<1>2. ToSet(s) \subseteq T
  BY <1>1 DEF ToSet
<1>3. ASSUME NEW r \in 1..n PROVE part(r) \in Seq(T) /\ ToSet(part(r)) = ToSet(s) \cap K(r)
  <2>1. [i \in DOMAIN s |-> IF rank[s[i]] = r - 1 THEN <<s[i]>> ELSE <<>>]
        = [i \in DOMAIN s |-> IF s[i] \in K(r) THEN <<s[i]>> ELSE <<>>]
    BY <1>1
  <2> HIDE DEF K
  <2> QED
    BY <2>1, ThoseOfList DEF Those
<1> HIDE DEF part
<1>4. DOMAIN parts = 1..n /\ \A r \in 1..n : parts[r] = part(r)
  OBVIOUS
<1>5. parts \in Seq(Seq(T))
  BY <1>3, IsASeq
<1> HIDE DEF parts
<1>6. UNION {ToSet(parts[r]) : r \in DOMAIN parts} = ToSet(s)
  <2>1. ASSUME NEW x \in ToSet(s) PROVE \E r \in DOMAIN parts : x \in ToSet(parts[r])
    <3>1. x \in T /\ rank[x] \in Nat /\ rank[x] < n
      BY <1>2, <2>1
    <3>2. rank[x] + 1 \in 1..n /\ (rank[x] + 1) - 1 = rank[x]
      BY <3>1
    <3>3. x \in ToSet(part(rank[x] + 1))
      BY <1>3, <2>1, <3>1, <3>2
    <3> QED
      BY <1>4, <3>2, <3>3
  <2>2. \A r \in DOMAIN parts : ToSet(parts[r]) \subseteq ToSet(s)
    BY <1>3, <1>4
  <2> QED
    BY <2>1, <2>2
<1>7. \A r \in DOMAIN parts : \A x \in ToSet(parts[r]) : x \in T /\ rank[x] = r - 1
  BY <1>3, <1>4
<1>8. ASSUME NEW r \in DOMAIN parts PROVE Ordered(parts[r], R)
  <2>1. \A i \in DOMAIN parts[r] : parts[r][i] \in ToSet(parts[r])
    BY DEF ToSet
  <2>2. r \in Nat
    BY <1>4
  <2> QED
    BY <1>7, <2>1, <2>2 DEF Ordered, NoLater
<1>9. \A i, j \in DOMAIN parts :
          i < j => \A x \in ToSet(parts[i]), y \in ToSet(parts[j]) : <<x, y>> \in R
  <2> TAKE i, j \in DOMAIN parts
  <2> SUFFICES ASSUME i < j, NEW x \in ToSet(parts[i]), NEW y \in ToSet(parts[j])
               PROVE  <<x, y>> \in R
    OBVIOUS
  <2>1. i \in Nat /\ j \in Nat
    BY <1>4
  <2>2. x \in T /\ y \in T /\ rank[x] = i - 1 /\ rank[y] = j - 1
    BY <1>7
  <2> QED
    BY <2>1, <2>2 DEF NoLater
<1> HIDE DEF R
<1>10. /\ FlattenSeq(parts) \in Seq(T) /\ ToSet(FlattenSeq(parts)) = ToSet(s)
       /\ Ordered(FlattenSeq(parts), R)
  BY <1>5, <1>6, <1>8, <1>9, FlattenOrder
<1> QED
  BY <1>10 DEF parts, part, R, ByRank

\* The first of a sorted list is the least.
LEMMA FirstIsLeast ==
    ASSUME NEW T, NEW t \in Seq(T), NEW rank \in [T -> Nat],
           Ordered(t, NoLater(T, rank)), NEW x \in ToSet(t)
    PROVE  /\ t # <<>> /\ Len(t) \in Nat /\ 1 \in DOMAIN t /\ t[1] \in ToSet(t)
           /\ Head(t) = t[1] /\ rank[t[1]] <= rank[x]
<1>1. Len(t) \in Nat /\ DOMAIN t = 1..Len(t) /\ \A i \in 1..Len(t) : t[i] \in T
  BY LenProperties, ElementOfSeq
<1>2. PICK i \in DOMAIN t : x = t[i]
  BY DEF ToSet
<1>3. Len(t) > 0 /\ 1 \in DOMAIN t
  BY <1>1, <1>2
<1>4. t # <<>> /\ Head(t) = t[1] /\ t[1] \in ToSet(t)
  BY <1>1, <1>3, EmptySeq, HeadTailProperties DEF ToSet
<1>5. CASE i = 1
  <2>1. t[1] \in T /\ rank[t[1]] \in Nat
    BY <1>1, <1>3
  <2> QED
    BY <1>1, <1>2, <1>3, <1>4, <1>5, <2>1
<1>6. CASE 1 < i
  BY <1>1, <1>2, <1>3, <1>4, <1>6 DEF Ordered, NoLater
<1> QED
  BY <1>1, <1>2, <1>5, <1>6

\* What a list is cut to.
LEMMA CutHolds ==
    ASSUME NEW T, NEW s \in Seq(T), NEW n \in Nat \ {0}
    PROVE  /\ Cut(s, n) \in Seq(T) /\ ToSet(Cut(s, n)) \subseteq ToSet(s)
           /\ s # <<>> => Cut(s, n) # <<>> /\ Cut(s, n)[1] = s[1] /\ s[1] \in ToSet(Cut(s, n))
<1> DEFINE m == IF Len(s) < n THEN Len(s) ELSE n
           c == SubSeq(s, 1, m)
<1>1. Len(s) \in Nat /\ DOMAIN s = 1..Len(s) /\ \A i \in 1..Len(s) : s[i] \in T
  BY LenProperties, ElementOfSeq
<1>2. m \in Nat /\ m <= Len(s)
  BY <1>1
<1>3. s # <<>> => Len(s) > 0
  BY <1>1, EmptySeq
<1>4. s # <<>> => m > 0
  BY <1>1, <1>3
<1> HIDE DEF m
<1>5. \A i \in 1..m : s[i] \in T /\ i \in DOMAIN s
  BY <1>1, <1>2
<1>6. c \in Seq(T) /\ Len(c) = m /\ \A i \in 1..m : c[i] = s[i]
  <2>1. /\ c \in Seq(T)
        /\ Len(c) = IF 1 <= m THEN m - 1 + 1 ELSE 0
        /\ \A i \in 1..(m - 1 + 1) : c[i] = s[1 + i - 1]
    <3>1. 1 \in Int /\ m \in Int
      BY <1>2
    <3> QED
      BY <1>5, <3>1, SubSeqProperties
  <2> HIDE DEF c
  <2>2. Len(c) = m
    BY <1>2, <2>1
  <2>3. ASSUME NEW i \in 1..m PROVE c[i] = s[i]
    <3>1. i \in 1..(m - 1 + 1) /\ 1 + i - 1 = i
      BY <1>2
    <3> QED
      BY <2>1, <3>1
  <2> QED
    BY <2>1, <2>2, <2>3
<1> HIDE DEF c
<1>7. Len(c) = m /\ DOMAIN c = 1..m /\ \A i \in 1..m : c[i] = s[i]
  BY <1>6, LenProperties
<1>8. ToSet(c) \subseteq ToSet(s)
  BY <1>5, <1>7 DEF ToSet
<1>9. ASSUME s # <<>> PROVE c # <<>> /\ c[1] = s[1] /\ s[1] \in ToSet(c)
  <2>1. 1 \in 1..m /\ Len(c) # 0
    BY <1>2, <1>4, <1>7, <1>9
  <2> QED
    BY <1>6, <1>7, <2>1, EmptySeq DEF ToSet
<1> QED
  BY <1>6, <1>8, <1>9 DEF Cut, c, m

-----------------------------------------------------------------------------
(* What the sections say *)

SectionAreas == [label : Labels, level : {"danger", "warning", "watch"},
                 type : {"tsunami", "storm_surge", "earthquake", "kikikuru", "rain"},
                 hazard : RiskElements \cup {""}]

\* The list tells of something that is at least as bad.
Tells(areas, a) == \E b \in ToSet(areas) : LevelOrder(b.level) <= LevelOrder(a.level)

LEMMA LevelsInOrder ==
    LevelOrder("danger") = 0 /\ LevelOrder("warning") = 1 /\ LevelOrder("watch") = 2
BY DEF LevelOrder

LEMMA TypesInOrder ==
    /\ TypePriority("tsunami") = 0 /\ TypePriority("storm_surge") = 1
    /\ TypePriority("earthquake") = 2 /\ TypePriority("kikikuru") = 3 /\ TypePriority("rain") = 4
    /\ ToSet(TypeOrder) = {"tsunami", "storm_surge", "earthquake", "kikikuru", "rain"}
    /\ TypeOrder \in Seq(ToSet(TypeOrder)) /\ DOMAIN TypeOrder = 1..5
<1>1. /\ DOMAIN TypeOrder = 1..5 /\ TypeOrder[1] = "tsunami" /\ TypeOrder[2] = "storm_surge"
      /\ TypeOrder[3] = "earthquake" /\ TypeOrder[4] = "kikikuru" /\ TypeOrder[5] = "rain"
  BY DEF TypeOrder
<1>2. \A i \in 1..5 : i = 1 \/ i = 2 \/ i = 3 \/ i = 4 \/ i = 5
  OBVIOUS
<1>3. ASSUME NEW i \in 1..5 PROVE TypePriority(TypeOrder[i]) = i - 1
  <2>1. \A j \in 1..5 : TypeOrder[j] = TypeOrder[i] => j = i
    BY <1>1, <1>2
  <2>2. (CHOOSE j \in DOMAIN TypeOrder : TypeOrder[j] = TypeOrder[i]) = i
    BY <1>1, <2>1
  <2> QED
    BY <2>2 DEF TypePriority
<1>4. ToSet(TypeOrder) = {"tsunami", "storm_surge", "earthquake", "kikikuru", "rain"}
  BY <1>1, <1>2 DEF ToSet
<1>5. TypeOrder \in Seq({"tsunami", "storm_surge", "earthquake", "kikikuru", "rain"})
  BY DEF TypeOrder
<1> QED
  BY <1>1, <1>3, <1>4, <1>5

\* A list whose elements are computed one by one from those of another.
LEMMA MappedIsList ==
    ASSUME NEW T, NEW s \in Seq(T), NEW U, NEW g \in [DOMAIN s -> U]
    PROVE  /\ g \in Seq(U)
           /\ \A x \in ToSet(g) : \E i \in DOMAIN s : x = g[i]
           /\ \A i \in DOMAIN s : g[i] \in ToSet(g)
<1>1. Len(s) \in Nat /\ DOMAIN s = 1..Len(s)
  BY LenProperties
<1>2. DOMAIN g = DOMAIN s
  OBVIOUS
<1>3. g \in Seq(U)
  <2>1. g = [i \in 1..Len(s) |-> g[i]]
    BY <1>1
  <2>2. [i \in 1..Len(s) |-> g[i]] \in Seq(U)
    BY <1>1, IsASeq
  <2> QED
    BY <2>1, <2>2
<1> QED
  BY <1>2, <1>3 DEF ToSet

\* A tile of the rain that was read and counts enough strong pixels is in the section,
\* or gave way to others that are at least as bad.
LEMMA RainTells ==
    ASSUME NEW rain \in SourceAnswers["rain"]
    PROVE  /\ RainSection(rain).areas \in Seq(SectionAreas)
           /\ \A a \in ToSet(ScanAreas(rain.tiles)) : Tells(RainSection(rain).areas, a)
<1> DEFINE Tiles == [near : Labels, failed : BOOLEAN, strong : Nat, severe : Nat]
           tiles == rain.tiles
           K == {t \in Tiles : Qualifies(t)}
           picked == Chosen(tiles, Qualifies)
           found == ScanAreas(tiles)
           rank == [a \in SectionAreas |-> IF a.level = "danger" THEN 0 ELSE 1]
           sorted == ByRank(found, rank, 2)
           shown == Cut(sorted, MaxAreas)
           Failed == rain.tiles # <<>> /\ \A t \in ToSet(rain.tiles) : t.failed
<1>1. /\ tiles \in Seq(Tiles) /\ MaxAreas \in Nat \ {0}
      /\ rain.source # "ok" => rain.source \in {"offline", "too_many_tiles"} /\ tiles = <<>>
  BY SectionAssumption
<1>2. Len(tiles) \in Nat /\ DOMAIN tiles = 1..Len(tiles) /\ \A i \in DOMAIN tiles : tiles[i] \in Tiles
  BY <1>1, LenProperties, ElementOfSeq
<1>3. picked \in Seq(Tiles) /\ ToSet(picked) = ToSet(tiles) \cap K
  <2>1. [i \in DOMAIN tiles |-> IF Qualifies(tiles[i]) THEN <<tiles[i]>> ELSE <<>>]
        = [i \in DOMAIN tiles |-> IF tiles[i] \in K THEN <<tiles[i]>> ELSE <<>>]
    BY <1>2
  <2> HIDE DEF K, Tiles, tiles
  <2>2. picked = Those(tiles, K)
    BY <2>1 DEF Chosen, Those
  <2> HIDE DEF picked
  <2> QED
    BY <1>1, <2>2, ThoseOfList
<1>4. found = [i \in DOMAIN picked |-> TileArea(picked[i])]
  BY DEF ScanAreas, Mapped
<1>5. \A t \in Tiles : TileArea(t) \in SectionAreas /\ rank[TileArea(t)] \in {0, 1}
                       /\ TileArea(t).level \in {"danger", "warning"}
  <2> TAKE t \in Tiles
  <2>1. t.near \in Labels
    OBVIOUS
  <2>2. TileArea(t).level \in {"danger", "warning"}
    BY DEF TileArea, Area
  <2>3. TileArea(t) \in SectionAreas
    BY <2>1 DEF TileArea, Area, SectionAreas
  <2> QED
    BY <2>2, <2>3
<1>6. \A i \in DOMAIN picked : picked[i] \in Tiles
  BY <1>3, LenProperties, ElementOfSeq
<1> HIDE DEF found, picked, K, Tiles, rank, sorted, shown
<1>7. found \in Seq(SectionAreas) /\ \A a \in ToSet(found) : \E i \in DOMAIN picked : a = TileArea(picked[i])
  <2>1. DOMAIN found = DOMAIN picked /\ \A i \in DOMAIN picked : found[i] = TileArea(picked[i])
    BY <1>4
  <2>2. found \in [DOMAIN picked -> SectionAreas]
    BY <1>4, <1>5, <1>6
  <2>3. picked \in Seq(Tiles)
    BY <1>3
  <2>4. found \in Seq(SectionAreas)
    BY <2>2, <2>3, MappedIsList
  <2>5. \A a \in ToSet(found) : \E i \in DOMAIN picked : a = found[i]
    BY <2>1 DEF ToSet
  <2> QED
    BY <2>1, <2>4, <2>5
<1>8. \A a \in ToSet(found) : a \in SectionAreas /\ a.level \in {"danger", "warning"} /\ rank[a] < 2
  BY <1>5, <1>6, <1>7
<1>9. rank \in [SectionAreas -> Nat]
  BY DEF rank
<1>10. /\ sorted \in Seq(SectionAreas) /\ ToSet(sorted) = ToSet(found)
       /\ Ordered(sorted, NoLater(SectionAreas, rank))
  BY <1>7, <1>8, <1>9, ByRankHolds DEF sorted
<1>11. SortedBy(found, LAMBDA a : IF a.level = "danger" THEN 0 ELSE 1, 2) = sorted
  <2>1. \A i \in DOMAIN found : found[i] \in SectionAreas
    BY <1>7, LenProperties, ElementOfSeq
  <2>2. \A i \in DOMAIN found : rank[found[i]] = IF found[i].level = "danger" THEN 0 ELSE 1
    BY <2>1 DEF rank
  <2> QED
    BY <2>2 DEF SortedBy, Chosen, sorted, ByRank
<1>12. /\ shown \in Seq(SectionAreas)
       /\ sorted # <<>> => sorted[1] \in ToSet(shown)
  BY <1>1, <1>10, CutHolds DEF shown
<1>13. \A a \in ToSet(found) : Tells(shown, a)
  <2> TAKE a \in ToSet(found)
  <2>1. sorted # <<>> /\ sorted[1] \in ToSet(sorted) /\ rank[sorted[1]] <= rank[a]
    BY <1>9, <1>10, FirstIsLeast
  <2>2. sorted[1] \in ToSet(shown) /\ sorted[1] \in SectionAreas
        /\ sorted[1].level \in {"danger", "warning"}
    BY <1>8, <1>10, <1>12, <2>1
  <2>3. LevelOrder(sorted[1].level) <= LevelOrder(a.level)
    BY <1>8, <2>1, <2>2, LevelsInOrder DEF rank
  <2> QED
    BY <2>2, <2>3 DEF Tells
<1>14. CASE rain.source = "ok" /\ ~Failed
  <2>1. RainSection(rain).areas = shown
    BY <1>11, <1>14 DEF RainSection, Section, shown, sorted, found
  <2> QED
    BY <1>12, <1>13, <2>1 DEF found
<1>15. CASE rain.source # "ok" \/ Failed
  <2>1. RainSection(rain).areas = <<>>
    BY <1>1, <1>15 DEF RainSection, Section, Unevaluated
  <2>2. ToSet(found) = {}
    <3>1. ToSet(tiles) \cap K = {}
      BY <1>1, <1>15 DEF K, Qualifies, ToSet
    <3>2. DOMAIN picked = {}
      BY <1>3, <3>1 DEF ToSet
    <3> QED
      BY <1>7, <3>2
  <2>3. <<>> \in Seq(SectionAreas)
    BY EmptySeq
  <2> QED
    BY <2>1, <2>2, <2>3 DEF found
<1> QED
  BY <1>14, <1>15

\* A list of elements of T all of which are in U.
LEMMA ListWithin ==
    ASSUME NEW T, NEW s \in Seq(T), NEW U, ToSet(s) \subseteq U
    PROVE  s \in Seq(U)
<1>1. Len(s) \in Nat /\ DOMAIN s = 1..Len(s)
  BY LenProperties
<1>2. \A i \in DOMAIN s : s[i] \in U
  BY DEF ToSet
<1>3. s \in [1..Len(s) -> U]
  BY <1>1, <1>2, SeqDef
<1> QED
  BY <1>1, <1>3, SeqDef

\* A hazard that the pixels of a sample show is in the section, or gave way to others
\* that are at least as bad, however many samples are unknown.
LEMMA KikikuruTells ==
    ASSUME NEW samples \in SourceAnswers["kikikuru"]
    PROVE  /\ KikikuruSection(samples).areas \in Seq(SectionAreas)
           /\ \A s \in ToSet(samples) :
                  SampleLevel(s) \in {"danger", "warning"}
                  => Tells(KikikuruSection(samples).areas, SampleArea(s))
<1> DEFINE Samplings == [point : Labels, hazard : RiskElements, pixels : SUBSET PixelLevels]
           All == {SampleArea(s) : s \in Samplings}
           Known == {a \in All : a.level \in {"danger", "warning", "watch"}}
           mapped == [i \in DOMAIN samples |-> SampleArea(samples[i])]
           found == Those(mapped, Known)
           rank == [a \in SectionAreas |-> LevelOrder(a.level)]
           sorted == ByRank(found, rank, 3)
           shown == Cut(sorted, MaxAreas)
           Detected == \E a \in ToSet(found) : a.level \in {"danger", "warning"}
<1>1. samples \in Seq(Samplings) /\ MaxAreas \in Nat \ {0}
  BY SectionAssumption
<1>2. \A i \in DOMAIN samples : samples[i] \in Samplings
  BY <1>1, LenProperties, ElementOfSeq
<1> HIDE DEF Samplings
<1>3. mapped \in [DOMAIN samples -> All]
  BY <1>2
<1>4. \A a \in Known : a \in SectionAreas
  <2> TAKE a \in Known
  <2>1. PICK s \in Samplings : a = SampleArea(s)
    OBVIOUS
  <2>2. s.point \in Labels /\ s.hazard \in RiskElements
    BY DEF Samplings
  <2>3. a.level = SampleLevel(s)
    BY <2>1 DEF SampleArea, Area
  <2>4. SampleLevel(s) \in {"danger", "warning", "watch"}
    BY <2>3
  <2> QED
    BY <2>1, <2>2, <2>4 DEF SampleArea, Area, SectionAreas
<1> HIDE DEF mapped, All
<1>5. mapped \in Seq(All)
  BY <1>1, <1>3, MappedIsList
<1>6. DOMAIN mapped = DOMAIN samples /\ \A i \in DOMAIN samples : mapped[i] = SampleArea(samples[i])
  BY DEF mapped
<1>7. /\ found \in Seq(All) /\ ToSet(found) = ToSet(mapped) \cap Known
  <2> HIDE DEF Known
  <2> QED
    BY <1>5, ThoseOfList
<1>8. found \in Seq(SectionAreas)
  <2>1. ToSet(found) \subseteq SectionAreas
    BY <1>4, <1>7
  <2> HIDE DEF found
  <2> QED
    BY <1>7, <2>1, ListWithin
<1>9. \A a \in ToSet(found) : a \in SectionAreas /\ a.level \in {"danger", "warning", "watch"}
  BY <1>4, <1>7
<1>10. Chosen(Mapped(samples, SampleArea), LAMBDA a : a.level \in {"danger", "warning", "watch"})
       = found
  <2>1. Mapped(samples, SampleArea) = mapped
    BY DEF Mapped, mapped
  <2>2. \A i \in DOMAIN mapped : mapped[i] \in All
    BY <1>3, <1>6
  <2>3. \A i \in DOMAIN mapped :
            mapped[i].level \in {"danger", "warning", "watch"} <=> mapped[i] \in Known
    BY <2>2
  <2> HIDE DEF Known
  <2>4. Chosen(mapped, LAMBDA a : a.level \in {"danger", "warning", "watch"}) = found
    BY <2>3 DEF Chosen, Those
  <2> QED
    BY <2>1, <2>4
<1> HIDE DEF Known, found, rank, sorted, shown
<1>11. rank \in [SectionAreas -> Nat] /\ \A a \in ToSet(found) : rank[a] < 3
  <2>1. \A a \in SectionAreas : a.level \in {"danger", "warning", "watch"}
    BY DEF SectionAreas
  <2>2. \A a \in SectionAreas : LevelOrder(a.level) \in 0..2
    BY <2>1, LevelsInOrder
  <2>3. rank \in [SectionAreas -> 0..2]
    BY <2>2 DEF rank
  <2> QED
    BY <1>9, <2>3
<1>12. /\ sorted \in Seq(SectionAreas) /\ ToSet(sorted) = ToSet(found)
       /\ Ordered(sorted, NoLater(SectionAreas, rank))
  BY <1>8, <1>11, ByRankHolds DEF sorted
<1>13. SortedBy(found, LAMBDA a : LevelOrder(a.level), 3) = sorted
  <2>1. \A i \in DOMAIN found : found[i] \in SectionAreas
    BY <1>8, LenProperties, ElementOfSeq
  <2>2. \A i \in DOMAIN found : rank[found[i]] = LevelOrder(found[i].level)
    BY <2>1 DEF rank
  <2> QED
    BY <2>2 DEF SortedBy, Chosen, sorted, ByRank
<1>14. /\ shown \in Seq(SectionAreas)
       /\ sorted # <<>> => sorted[1] \in ToSet(shown)
  BY <1>1, <1>12, CutHolds DEF shown
<1>15. \A a \in ToSet(found) : Tells(shown, a)
  <2> TAKE a \in ToSet(found)
  <2>1. sorted # <<>> /\ sorted[1] \in ToSet(sorted) /\ rank[sorted[1]] <= rank[a]
    BY <1>11, <1>12, FirstIsLeast
  <2>2. sorted[1] \in ToSet(shown) /\ sorted[1] \in SectionAreas /\ a \in SectionAreas
    BY <1>9, <1>12, <1>14, <2>1
  <2>3. LevelOrder(sorted[1].level) <= LevelOrder(a.level)
    BY <2>1, <2>2 DEF rank
  <2> QED
    BY <2>2, <2>3 DEF Tells
<1>16. KikikuruSection(samples).areas \in {<<>>, shown}
       /\ (samples # <<>> /\ Detected => KikikuruSection(samples).areas = shown)
  BY <1>10, <1>13 DEF KikikuruSection, Section, Unevaluated, shown
<1>17. <<>> \in Seq(SectionAreas)
  BY EmptySeq
<1>18. ASSUME NEW s \in ToSet(samples), SampleLevel(s) \in {"danger", "warning"}
       PROVE  Tells(KikikuruSection(samples).areas, SampleArea(s))
  <2>1. PICK i \in DOMAIN samples : s = samples[i]
    BY DEF ToSet
  <2>2. SampleArea(s) \in ToSet(mapped) /\ SampleArea(s) \in All
    BY <1>2, <1>6, <2>1 DEF ToSet, All
  <2>3. SampleArea(s).level = SampleLevel(s)
    BY DEF SampleArea, Area
  <2>4. SampleArea(s) \in ToSet(found)
    BY <1>7, <1>18, <2>2, <2>3 DEF Known
  <2>5. samples # <<>>
    BY <2>1
  <2>6. Detected
    BY <1>18, <2>3, <2>4
  <2> QED
    BY <1>15, <1>16, <2>4, <2>5, <2>6
<1> QED
  BY <1>14, <1>16, <1>17, <1>18

\* Each prefecture with a warning of a storm surge is in the section.
LEMMA StormSurgeTells ==
    ASSUME NEW prefs \in SourceAnswers["surge"]
    PROVE  /\ StormSurgeSection(prefs).areas \in Seq(SectionAreas)
           /\ \A p \in ToSet(prefs) :
                  PrefStormSurge(p) # {} => SurgeArea(p) \in ToSet(StormSurgeSection(prefs).areas)
<1> DEFINE Prefs == [name : Labels, down : BOOLEAN, items : Seq(STRING)]
           Affected == {p \in Prefs : PrefStormSurge(p) # {}}
           SurgeGrade(p) == SurgeSeverity(CHOOSE c \in PrefStormSurge(p) : TRUE)
           affected == Those(prefs, Affected)
           rank == [p \in Prefs |-> CASE SurgeGrade(p) = "emergency" -> 0 [] SurgeGrade(p) = "warning" -> 1
                                      [] OTHER -> 2]
           sorted == ByRank(affected, rank, 3)
           shown == [i \in DOMAIN sorted |-> SurgeArea(sorted[i])]
<1>1. prefs \in Seq(Prefs)
  BY SectionAssumption
<1>2. \A i \in DOMAIN prefs : prefs[i] \in Prefs
  BY <1>1, LenProperties, ElementOfSeq
<1>3. \A p \in Prefs : SurgeArea(p) \in SectionAreas
  <2> TAKE p \in Prefs
  <2>1. p.name \in Labels
    OBVIOUS
  <2> QED
    BY <2>1 DEF SurgeArea, Area, SectionAreas
<1> HIDE DEF Prefs
<1>4. affected \in Seq(Prefs) /\ ToSet(affected) = ToSet(prefs) \cap Affected
  <2> HIDE DEF Affected
  <2> QED
    BY <1>1, ThoseOfList
<1>5. Chosen(prefs, LAMBDA p : PrefStormSurge(p) # {}) = affected
  <2>1. \A i \in DOMAIN prefs : PrefStormSurge(prefs[i]) # {} <=> prefs[i] \in Affected
    BY <1>2
  <2> HIDE DEF Affected
  <2> QED
    BY <2>1 DEF Chosen, Those
<1> HIDE DEF affected
<1>6. rank \in [Prefs -> Nat] /\ \A p \in ToSet(affected) : rank[p] < 3
  <2>1. rank \in [Prefs -> 0..2]
    OBVIOUS
  <2>2. ToSet(affected) \subseteq Prefs
    BY <1>4
  <2> HIDE DEF rank
  <2> QED
    BY <2>1, <2>2
<1>7. SortedBy(affected, LAMBDA p : CASE SurgeGrade(p) = "emergency" -> 0 [] SurgeGrade(p) = "warning" -> 1
                                      [] OTHER -> 2, 3) = sorted
  <2>1. \A i \in DOMAIN affected : affected[i] \in Prefs
    BY <1>4, LenProperties, ElementOfSeq
  <2>2. \A i \in DOMAIN affected :
            rank[affected[i]] = CASE SurgeGrade(affected[i]) = "emergency" -> 0
                                  [] SurgeGrade(affected[i]) = "warning" -> 1 [] OTHER -> 2
    BY <2>1
  <2> HIDE DEF SurgeGrade, rank
  <2> QED
    BY <2>2 DEF SortedBy, Chosen, ByRank
<1>8. StormSurgeSection(prefs).areas = shown
  BY <1>5, <1>7 DEF StormSurgeSection, Section, Mapped
<1> HIDE DEF rank, sorted
<1>9. sorted \in Seq(Prefs) /\ ToSet(sorted) = ToSet(affected)
  BY <1>4, <1>6, ByRankHolds DEF sorted
<1>10. \A i \in DOMAIN sorted : sorted[i] \in Prefs
  BY <1>9, LenProperties, ElementOfSeq
<1>11. shown \in [DOMAIN sorted -> SectionAreas] /\ \A i \in DOMAIN sorted : shown[i] = SurgeArea(sorted[i])
  BY <1>3, <1>10
<1> HIDE DEF shown
<1>12. shown \in Seq(SectionAreas) /\ \A i \in DOMAIN sorted : shown[i] \in ToSet(shown)
  BY <1>9, <1>11, MappedIsList
<1>13. ASSUME NEW p \in ToSet(prefs), PrefStormSurge(p) # {}
       PROVE  SurgeArea(p) \in ToSet(shown)
  <2>1. p \in Prefs
    BY <1>2 DEF ToSet
  <2>2. p \in ToSet(sorted)
    BY <1>4, <1>9, <1>13, <2>1
  <2>3. PICK i \in DOMAIN sorted : p = sorted[i]
    BY <2>2 DEF ToSet
  <2> QED
    BY <1>11, <1>12, <2>3
<1> QED
  BY <1>8, <1>12, <1>13

\* The earthquakes that are shown are areas.
LEMMA EarthquakesAreAreas ==
    ASSUME NEW feed \in SourceAnswers["quakes"]
    PROVE  EarthquakeSection(feed).areas \in Seq(SectionAreas)
<1> DEFINE Quakes == [place : Labels, magnitude : Nat]
           Large == {q \in Quakes : q.magnitude >= 5}
           quakes == IF feed.down THEN <<>> ELSE feed.quakes
           strong == Those(quakes, Large)
           AreaOf(q) == Area(q.place, IF q.magnitude >= 6 THEN "danger" ELSE "warning",
                             "earthquake", "")
           areas == [i \in DOMAIN strong |-> AreaOf(strong[i])]
<1>1. quakes \in Seq(Quakes) /\ MaxQuakes \in Nat \ {0}
  BY SectionAssumption, EmptySeq
<1>2. \A q \in Quakes : AreaOf(q) \in SectionAreas
  <2> TAKE q \in Quakes
  <2>1. q.place \in Labels
    OBVIOUS
  <2> QED
    BY <2>1 DEF Area, SectionAreas
<1> HIDE DEF quakes
<1>3. Chosen(quakes, LAMBDA q : q.magnitude >= 5) = strong
  <2>1. \A i \in DOMAIN quakes : quakes[i] \in Quakes
    BY <1>1, LenProperties, ElementOfSeq
  <2>2. \A i \in DOMAIN quakes : quakes[i].magnitude >= 5 <=> quakes[i] \in Large
    BY <2>1
  <2> HIDE DEF Large
  <2> QED
    BY <2>2 DEF Chosen, Those
<1> HIDE DEF Quakes, Large
<1>4. strong \in Seq(Quakes)
  BY <1>1, ThoseOfList
<1> HIDE DEF strong
<1>5. areas \in [DOMAIN strong -> SectionAreas]
  <2>1. \A i \in DOMAIN strong : strong[i] \in Quakes
    BY <1>4, LenProperties, ElementOfSeq
  <2> HIDE DEF AreaOf
  <2> QED
    BY <1>2, <2>1
<1>6. EarthquakeSection(feed).areas = Cut(areas, MaxQuakes)
  BY <1>3 DEF EarthquakeSection, Section, QuakeAreas, Mapped, quakes
<1> HIDE DEF areas
<1>7. areas \in Seq(SectionAreas)
  BY <1>4, <1>5, MappedIsList
<1> QED
  BY <1>1, <1>6, <1>7, CutHolds

\* What the sources say of tsunamis is a list of items.
LEMMA TsunamiItems ==
    ASSUME NEW tsunami \in SourceAnswers["tsunami"]
    PROVE  TsunamiWarnings(tsunami).areas \in Seq(TsunamiItem)
<1> DEFINE jma == tsunami.jma
           p2p == tsunami.p2p
           Items == Seq(TsunamiItem)
<1>1. jma.short \in Seq(Bulletin) /\ jma.long \in Seq(Bulletin) /\ p2p.reports \in Seq(P2pBulletin)
  BY SectionAssumption
<1>2. <<>> \in Items
  BY EmptySeq
<1>3. ASSUME NEW report \in Bulletin PROVE ReportAreas(report) \in Items
  <2> DEFINE K == {i \in TsunamiItem : i.kind \in ActiveLevels \cup {"forecast"}}
             items == report.items
  <2>1. items \in Items
    BY DEF Bulletin
  <2> HIDE DEF items
  <2>2. \A i \in DOMAIN items : items[i] \in TsunamiItem
    BY <2>1, LenProperties, ElementOfSeq
  <2>3. Chosen(items, LAMBDA i : i.kind \in ActiveLevels \cup {"forecast"}) = Those(items, K)
    <3>1. \A i \in DOMAIN items : items[i].kind \in ActiveLevels \cup {"forecast"} <=> items[i] \in K
      BY <2>2
    <3> HIDE DEF K
    <3> QED
      BY <3>1 DEF Chosen, Those
  <2> HIDE DEF K
  <2>4. Those(items, K) \in Items
    BY <2>1, ThoseOfList
  <2> QED
    BY <1>2, <2>3, <2>4 DEF ReportAreas, items
<1>4. JmaReport(jma).areas \in Items
  <2> DEFINE bulletins == IF jma.short # <<>> THEN jma.short ELSE jma.long
             latest == Cut(bulletins, 5)
             K == {r \in Bulletin : r.readable}
             readable == Those(latest, K)
  <2>1. bulletins \in Seq(Bulletin)
    BY <1>1
  <2> HIDE DEF bulletins
  <2>2. latest \in Seq(Bulletin)
    BY <2>1, CutHolds
  <2> HIDE DEF latest
  <2>3. Chosen(latest, LAMBDA r : r.readable) = readable
    <3>1. \A i \in DOMAIN latest : latest[i] \in Bulletin
      BY <2>2, LenProperties, ElementOfSeq
    <3>2. \A i \in DOMAIN latest : latest[i].readable <=> latest[i] \in K
      BY <3>1
    <3> HIDE DEF K
    <3> QED
      BY <3>2 DEF Chosen, Those
  <2> HIDE DEF K
  <2>4. readable \in Seq(Bulletin)
    BY <2>2, ThoseOfList
  <2> HIDE DEF readable
  <2>5. readable # <<>> => ReportAreas(Head(readable)) \in Items
    BY <1>3, <2>4, HeadTailProperties
  <2>6. JmaReport(jma) = CASE jma.down -> NoReport
                           [] ~jma.down /\ bulletins = <<>> -> Report(<<>>)
                           [] ~jma.down /\ bulletins # <<>> /\ readable = <<>> -> NoReport
                           [] OTHER -> Report(ReportAreas(Head(readable)))
    BY <2>3 DEF JmaReport, latest, bulletins
  <2>7. NoReport.areas \in Items /\ Report(<<>>).areas \in Items
    BY <1>2 DEF NoReport, Report
  <2>8. readable # <<>> => Report(ReportAreas(Head(readable))).areas \in Items
    BY <2>5 DEF Report
  <2> HIDE DEF Items
  <2>9. CASE jma.down
    BY <2>6, <2>7, <2>9, Zenon
  <2>10. CASE ~jma.down
    BY <2>6, <2>7, <2>8, <2>10, Zenon
  <2> QED
    BY <2>9, <2>10
<1>5. P2pReport(p2p).areas \in Items
  <2> DEFINE Item(i) == [i EXCEPT !.kind = IF @ \in ActiveLevels THEN @ ELSE "forecast"]
             items == Head(p2p.reports).items
             shown == [i \in DOMAIN items |-> Item(items[i])]
             Empty == p2p.reports = <<>> \/ Head(p2p.reports).cancelled
  <2>1. CASE p2p.down
    BY <1>2, <2>1 DEF P2pReport, NoReport
  <2>2. CASE ~p2p.down /\ Empty
    BY <1>2, <2>2 DEF P2pReport, Report
  <2>3. CASE ~p2p.down /\ ~Empty
    <3>1. P2pReport(p2p).areas = shown
      BY <2>3 DEF P2pReport, Report, Mapped
    <3>2. items \in Items
      <4>1. Head(p2p.reports) \in P2pBulletin
        BY <1>1, <2>3, HeadTailProperties
      <4> QED
        BY <4>1 DEF P2pBulletin
    <3> HIDE DEF items
    <3>3. \A i \in TsunamiItem : Item(i) \in TsunamiItem
      BY DEF TsunamiItem, BulletinKinds
    <3> HIDE DEF Item
    <3>4. shown \in [DOMAIN items -> TsunamiItem]
      <4>1. \A i \in DOMAIN items : items[i] \in TsunamiItem
        BY <3>2, LenProperties, ElementOfSeq
      <4> QED
        BY <3>3, <4>1
    <3> HIDE DEF shown
    <3>5. shown \in Items
      BY <3>2, <3>4, MappedIsList
    <3> QED
      BY <3>1, <3>5
  <2> QED
    BY <2>1, <2>2, <2>3
<1> QED
  BY <1>4, <1>5 DEF TsunamiWarnings

\* The areas of the tsunami section are areas.
LEMMA TsunamisAreAreas ==
    ASSUME NEW tsunami \in SourceAnswers["tsunami"]
    PROVE  TsunamiSection(tsunami).areas \in Seq(SectionAreas)
<1> DEFINE items == TsunamiWarnings(tsunami).areas
           K == {i \in TsunamiItem : i.kind \in ActiveLevels}
           active == Those(items, K)
           AreaOf(i) == Area(IF i.name = "" THEN "fumei" ELSE i.name,
                             IF i.kind = "advisory" THEN "warning" ELSE "danger", "tsunami", "")
           areas == [i \in DOMAIN active |-> AreaOf(active[i])]
<1>1. items \in Seq(TsunamiItem)
  BY TsunamiItems
<1>2. Chosen(items, LAMBDA i : i.kind \in ActiveLevels) = active
  <2> HIDE DEF items
  <2>1. \A i \in DOMAIN items : items[i] \in TsunamiItem
    BY <1>1, LenProperties, ElementOfSeq
  <2>2. \A i \in DOMAIN items : items[i].kind \in ActiveLevels <=> items[i] \in K
    BY <2>1
  <2> HIDE DEF K
  <2> QED
    BY <2>2 DEF Chosen, Those
<1>3. TsunamiSection(tsunami).areas = areas
  BY <1>2 DEF TsunamiSection, Section, Mapped
<1> HIDE DEF items, K
<1>4. active \in Seq(TsunamiItem)
  BY <1>1, ThoseOfList
<1> HIDE DEF active
<1>5. \A i \in TsunamiItem : AreaOf(i) \in SectionAreas
  <2> TAKE i \in TsunamiItem
  <2>1. i.name \in Labels \cup {""} /\ "fumei" \in Labels
    BY SectionAssumption DEF TsunamiItem
  <2>2. (IF i.name = "" THEN "fumei" ELSE i.name) \in Labels
    BY <2>1
  <2> QED
    BY <2>2 DEF Area, SectionAreas
<1>6. areas \in [DOMAIN active -> SectionAreas]
  <2>1. \A i \in DOMAIN active : active[i] \in TsunamiItem
    BY <1>4, LenProperties, ElementOfSeq
  <2> HIDE DEF AreaOf
  <2> QED
    BY <1>5, <2>1
<1> HIDE DEF areas
<1> QED
  BY <1>3, <1>4, <1>6, MappedIsList

-----------------------------------------------------------------------------
(* The merged list and its regions *)

AreaRank == [a \in SectionAreas |-> 5 * LevelOrder(a.level) + TypePriority(a.type)]

LEMMA AreasAreRanked ==
    /\ AreaRank \in [SectionAreas -> Nat]
    /\ \A a \in SectionAreas :
           /\ LevelOrder(a.level) \in 0..2 /\ TypePriority(a.type) \in 0..4
           /\ AreaRank[a] = 5 * LevelOrder(a.level) + TypePriority(a.type) /\ AreaRank[a] < 25
<1>1. \A a \in SectionAreas : LevelOrder(a.level) \in 0..2 /\ TypePriority(a.type) \in 0..4
  <2> TAKE a \in SectionAreas
  <2>1. /\ a.level \in {"danger", "warning", "watch"}
        /\ a.type \in {"tsunami", "storm_surge", "earthquake", "kikikuru", "rain"}
    BY DEF SectionAreas
  <2>2. LevelOrder(a.level) \in 0..2
    BY <2>1, LevelsInOrder
  <2>3. TypePriority(a.type) \in 0..4
    BY <2>1, TypesInOrder
  <2> QED
    BY <2>2, <2>3
<1>2. \A a \in SectionAreas : AreaRank[a] = 5 * LevelOrder(a.level) + TypePriority(a.type)
  BY DEF AreaRank
<1>3. \A x \in 0..2, y \in 0..4 : 5 * x + y \in Nat /\ 5 * x + y < 25
  OBVIOUS
<1>4. \A a \in SectionAreas : AreaRank[a] \in Nat /\ AreaRank[a] < 25
  BY <1>1, <1>2, <1>3
<1>5. DOMAIN AreaRank = SectionAreas /\ AreaRank = [a \in SectionAreas |-> AreaRank[a]]
  BY DEF AreaRank
<1> QED
  BY <1>1, <1>2, <1>4, <1>5

\* The merged list holds what the sections hold, the gravest first.
LEMMA MergedHolds ==
    ASSUME NEW sections, \A t \in ToSet(TypeOrder) : sections[t].areas \in Seq(SectionAreas)
    PROVE  /\ DangerousAreas(sections) \in Seq(SectionAreas)
           /\ \A t \in ToSet(TypeOrder) :
                  ToSet(sections[t].areas) \subseteq ToSet(DangerousAreas(sections))
           /\ Ordered(DangerousAreas(sections), NoLater(SectionAreas, AreaRank))
<1> DEFINE parts == [i \in DOMAIN TypeOrder |-> sections[TypeOrder[i]].areas]
           merged == FlattenSeq(parts)
           sorted == ByRank(merged, AreaRank, 25)
<1>1. \A i \in 1..5 : TypeOrder[i] \in ToSet(TypeOrder)
  BY TypesInOrder DEF ToSet
<1>2. DOMAIN parts = 1..5 /\ \A i \in 1..5 : parts[i] \in Seq(SectionAreas)
  BY <1>1, TypesInOrder
<1>3. parts \in Seq(Seq(SectionAreas))
  <2>1. parts \in [DOMAIN TypeOrder -> Seq(SectionAreas)]
    BY <1>2
  <2> HIDE DEF parts
  <2> QED
    BY <2>1, TypesInOrder, MappedIsList
<1>4. \A t \in ToSet(TypeOrder) : \E i \in DOMAIN parts : parts[i] = sections[t].areas
  BY DEF ToSet
<1> HIDE DEF parts
<1>5. merged \in Seq(SectionAreas) /\ ToSet(merged) = UNION {ToSet(parts[i]) : i \in DOMAIN parts}
  BY <1>3, FlattenOrder
<1> HIDE DEF merged
<1>6. \A i \in DOMAIN merged : merged[i] \in SectionAreas
  BY <1>5, LenProperties, ElementOfSeq
<1>7. \A a \in ToSet(merged) : AreaRank[a] < 25
  BY <1>6, AreasAreRanked DEF ToSet
<1>8. /\ sorted \in Seq(SectionAreas) /\ ToSet(sorted) = ToSet(merged)
      /\ Ordered(sorted, NoLater(SectionAreas, AreaRank))
  <2>1. AreaRank \in [SectionAreas -> Nat] /\ 25 \in Nat
    BY AreasAreRanked
  <2> QED
    BY <1>5, <1>7, <2>1, ByRankHolds
<1>9. DangerousAreas(sections) = sorted
  <2>1. \A i \in DOMAIN merged :
            AreaRank[merged[i]] = 5 * LevelOrder(merged[i].level) + TypePriority(merged[i].type)
    BY <1>6, AreasAreRanked
  <2>2. SortedBy(merged, LAMBDA a : 5 * LevelOrder(a.level) + TypePriority(a.type), 25) = sorted
    BY <2>1 DEF SortedBy, Chosen, ByRank
  <2>3. Mapped(TypeOrder, LAMBDA t : sections[t].areas) = parts
    BY DEF Mapped, parts
  <2> QED
    BY <2>2, <2>3 DEF DangerousAreas, merged
<1> QED
  BY <1>4, <1>5, <1>8, <1>9

\* The least of a set of numbers.
LEMMA MinOfNumbers ==
    ASSUME NEW S \in SUBSET Nat, S # {}
    PROVE  Min(S) \in S /\ \A y \in S : Min(S) <= y
<1> DEFINE R == OpToRel(<, Nat)
<1>1. IsWellFoundedOn(R, Nat)
  BY NatLessThanWellFounded
<1>2. \E m \in S : \A y \in S : <<y, m>> \notin R
  <2> HIDE DEF R
  <2> QED
    BY <1>1, WFMin
<1>3. PICK m \in S : \A y \in S : ~(y < m)
  BY <1>2 DEF OpToRel
<1>4. \A y \in S : m <= y
  BY <1>3
<1> QED
  BY <1>4 DEF Min

\* A region is as bad as the worst of its areas.
LEMMA RegionHolds ==
    ASSUME NEW areas \in Seq(SectionAreas), Ordered(areas, NoLater(SectionAreas, AreaRank)),
           NEW c \in ToSet(areas)
    PROVE  /\ LevelOrder(Region(areas, c.label).level) \in 0..2
           /\ Region(areas, c.label).priority \in 0..4
           /\ LevelOrder(Region(areas, c.label).level) <= LevelOrder(c.level)
<1> DEFINE K == {a \in SectionAreas : a.label = c.label}
           mine == Those(areas, K)
           types == {a.type : a \in ToSet(mine)}
           priorities == {TypePriority(t) : t \in types}
<1>1. \A i \in DOMAIN areas : areas[i] \in SectionAreas
  BY LenProperties, ElementOfSeq
<1>2. ToSet(areas) \subseteq SectionAreas
  BY <1>1 DEF ToSet
<1>3. Chosen(areas, LAMBDA a : a.label = c.label) = mine
  <2>1. \A i \in DOMAIN areas : areas[i].label = c.label <=> areas[i] \in K
    BY <1>1
  <2> HIDE DEF K
  <2> QED
    BY <2>1 DEF Chosen, Those
<1>4. c \in ToSet(areas) \cap K
  BY <1>2
<1>5. /\ mine \in Seq(SectionAreas) /\ ToSet(mine) = ToSet(areas) \cap K
      /\ Ordered(mine, NoLater(SectionAreas, AreaRank))
  <2> HIDE DEF K
  <2> QED
    BY ThoseOfList
<1>6. /\ Region(areas, c.label).level = Head(mine).level
      /\ Region(areas, c.label).priority = Min(priorities)
  BY <1>3 DEF Region
<1> HIDE DEF mine, K
<1>7. /\ Head(mine) = mine[1] /\ mine[1] \in ToSet(mine) /\ AreaRank[mine[1]] <= AreaRank[c]
  BY <1>4, <1>5, AreasAreRanked, FirstIsLeast
<1>8. mine[1] \in SectionAreas /\ c \in SectionAreas
  BY <1>2, <1>4, <1>5, <1>7
<1>9. LevelOrder(mine[1].level) \in 0..2 /\ LevelOrder(mine[1].level) <= LevelOrder(c.level)
  <2>1. \A x, y \in 0..2, p, q \in 0..4 : 5 * x + p <= 5 * y + q => x <= y
    OBVIOUS
  <2> QED
    BY <1>7, <1>8, <2>1, AreasAreRanked
<1>10. Min(priorities) \in 0..4
  <2>1. \A t \in types : TypePriority(t) \in 0..4
    BY <1>2, <1>5, AreasAreRanked
  <2>2. c.type \in types
    BY <1>4, <1>5
  <2> HIDE DEF types
  <2>3. priorities \in SUBSET Nat /\ priorities # {} /\ priorities \subseteq 0..4
    BY <2>1, <2>2
  <2> HIDE DEF priorities
  <2> QED
    BY <2>3, MinOfNumbers
<1> QED
  BY <1>6, <1>7, <1>9, <1>10

\* The first region is at least as bad as any area of the list.
LEMMA RegionsHold ==
    ASSUME NEW areas \in Seq(SectionAreas), Ordered(areas, NoLater(SectionAreas, AreaRank)),
           NEW b \in ToSet(areas)
    PROVE  /\ IntegratedRegions(areas) # <<>>
           /\ LevelOrder(IntegratedRegions(areas)[1].level) <= LevelOrder(b.level)
<1> DEFINE Named == {a \in SectionAreas : a.label # ""}
           labelled == Chosen(areas, LAMBDA a : a.label # "")
           H == [at : Nat, label : Labels]
           tagged == [i \in DOMAIN labelled |-> [at |-> i, label |-> labelled[i].label]]
           FirstOfItsLabel(i) == \A j \in 1..(i - 1) : labelled[j].label # labelled[i].label
           First == {h \in H : FirstOfItsLabel(h.at)}
           heads == Chosen(tagged, LAMBDA h : FirstOfItsLabel(h.at))
           RegionOf(l) == Region(labelled, l)
           T == {RegionOf(c.label) : c \in ToSet(labelled)}
           regions == Mapped(heads, LAMBDA h : Region(labelled, h.label))
           rank == [g \in T |-> 5 * LevelOrder(g.level) + g.priority]
           sorted == SortedBy(regions, LAMBDA g : 5 * LevelOrder(g.level) + g.priority, 25)
<1>1. /\ \A i \in DOMAIN areas : areas[i] \in SectionAreas
      /\ ToSet(areas) \subseteq SectionAreas
  BY LenProperties, ElementOfSeq DEF ToSet
<1>2. labelled = Those(areas, Named)
  <2>1. \A i \in DOMAIN areas : areas[i].label # "" <=> areas[i] \in Named
    BY <1>1
  <2> HIDE DEF Named
  <2> QED
    BY <2>1 DEF Chosen, Those
<1>3. Named = SectionAreas
  BY SectionAssumption DEF SectionAreas
<1>4. /\ labelled \in Seq(SectionAreas) /\ ToSet(labelled) = ToSet(areas)
      /\ Ordered(labelled, NoLater(SectionAreas, AreaRank))
  <2>1. /\ labelled \in Seq(SectionAreas) /\ ToSet(labelled) = ToSet(areas) \cap Named
        /\ Ordered(labelled, NoLater(SectionAreas, AreaRank))
    <3> HIDE DEF Named, labelled
    <3> QED
      BY <1>2, ThoseOfList
  <2> QED
    BY <1>1, <1>3, <2>1
<1> HIDE DEF labelled, Named
<1>5. /\ Len(labelled) \in Nat /\ DOMAIN labelled = 1..Len(labelled)
      /\ \A i \in DOMAIN labelled : labelled[i] \in SectionAreas /\ labelled[i] \in ToSet(labelled)
  BY <1>4, LenProperties, ElementOfSeq DEF ToSet
<1>6. tagged \in [DOMAIN labelled -> H]
  <2>1. \A a \in SectionAreas : a.label \in Labels
    BY DEF SectionAreas
  <2>2. \A i \in DOMAIN labelled : i \in Nat
    BY <1>5
  <2>3. \A i \in DOMAIN labelled : labelled[i].label \in Labels
    BY <1>5, <2>1
  <2> QED
    BY <2>2, <2>3
<1>7. DOMAIN tagged = DOMAIN labelled
      /\ \A i \in DOMAIN labelled : tagged[i].at = i /\ tagged[i].label = labelled[i].label
  OBVIOUS
<1> HIDE DEF tagged, H
<1>8. tagged \in Seq(H)
  BY <1>4, <1>6, MappedIsList
<1>9. heads = Those(tagged, First)
  <2>1. \A i \in DOMAIN tagged : FirstOfItsLabel(tagged[i].at) <=> tagged[i] \in First
    BY <1>6, <1>7
  <2> HIDE DEF First, FirstOfItsLabel
  <2> QED
    BY <2>1 DEF Chosen, Those
<1>10. heads \in Seq(H) /\ ToSet(heads) = ToSet(tagged) \cap First
  <2> HIDE DEF First, heads
  <2> QED
    BY <1>8, <1>9, ThoseOfList
<1> HIDE DEF heads
<1>11. ASSUME NEW h \in ToSet(heads) PROVE RegionOf(h.label) \in T
  <2>1. h \in ToSet(tagged)
    BY <1>10, <1>11
  <2>2. PICK i \in DOMAIN labelled : h = tagged[i]
    BY <1>7, <2>1 DEF ToSet
  <2>3. h.label = labelled[i].label /\ labelled[i] \in ToSet(labelled)
    BY <1>5, <1>7, <2>2
  <2> HIDE DEF RegionOf
  <2> QED
    BY <2>3
<1>12. \E h \in ToSet(heads) : h.label = b.label
  <2> DEFINE I == {i \in DOMAIN labelled : labelled[i].label = b.label}
  <2>1. I \in SUBSET Nat /\ I # {}
    <3>1. PICK i \in DOMAIN labelled : b = labelled[i]
      BY <1>4 DEF ToSet
    <3> QED
      BY <1>5, <3>1
  <2> DEFINE m == Min(I)
  <2>2. m \in I /\ \A y \in I : m <= y
    <3> HIDE DEF I
    <3> QED
      BY <2>1, MinOfNumbers
  <2> HIDE DEF m
  <2>3. m \in DOMAIN labelled /\ labelled[m].label = b.label
    BY <2>2
  <2>4. ASSUME NEW j \in 1..(m - 1) PROVE labelled[j].label # labelled[m].label
    <3>1. j \in DOMAIN labelled /\ j < m /\ j \in Nat /\ m \in Nat
      BY <1>5, <2>3
    <3> QED
      BY <2>2, <2>3, <3>1
  <2>5. tagged[m] \in First
    BY <1>6, <1>7, <2>3, <2>4
  <2>6. tagged[m] \in ToSet(tagged)
    BY <1>7, <2>3 DEF ToSet
  <2> QED
    BY <1>7, <1>10, <2>3, <2>5, <2>6
<1> HIDE DEF First
<1>13. \A g \in T : LevelOrder(g.level) \in 0..2 /\ g.priority \in 0..4
  BY <1>4, RegionHolds
<1> HIDE DEF T
<1>14. regions \in [DOMAIN heads -> T] /\ \A i \in DOMAIN heads : regions[i] = RegionOf(heads[i].label)
  <2>1. \A i \in DOMAIN heads : heads[i] \in ToSet(heads)
    BY DEF ToSet
  <2>2. regions = [i \in DOMAIN heads |-> RegionOf(heads[i].label)]
    BY DEF Mapped
  <2> HIDE DEF RegionOf, regions
  <2> QED
    BY <1>11, <2>1, <2>2
<1> HIDE DEF regions
<1>15. regions \in Seq(T) /\ \A i \in DOMAIN heads : regions[i] \in ToSet(regions)
  BY <1>10, <1>14, MappedIsList
<1>16. \A i \in DOMAIN regions : regions[i] \in T
  BY <1>15, LenProperties, ElementOfSeq
<1>17. \A x \in 0..2, y \in 0..4 : 5 * x + y \in Nat /\ 5 * x + y < 25
  OBVIOUS
<1>18. /\ \A g \in T : rank[g] = 5 * LevelOrder(g.level) + g.priority
       /\ \A g \in T : rank[g] \in Nat /\ rank[g] < 25
       /\ rank \in [T -> Nat]
  BY <1>13, <1>17
<1> HIDE DEF rank
<1>19. \A g \in ToSet(regions) : g \in T /\ rank[g] < 25
  BY <1>16, <1>18 DEF ToSet
<1>20. sorted = ByRank(regions, rank, 25)
  <2>1. \A i \in DOMAIN regions :
            rank[regions[i]] = 5 * LevelOrder(regions[i].level) + regions[i].priority
    BY <1>16, <1>18
  <2> QED
    BY <2>1 DEF SortedBy, Chosen, ByRank
<1>21. IntegratedRegions(areas) = Cut(sorted, MaxRegions)
  BY DEF IntegratedRegions, sorted, regions, heads, tagged, labelled
<1> HIDE DEF sorted
<1>22. /\ sorted \in Seq(T) /\ ToSet(sorted) = ToSet(regions)
       /\ Ordered(sorted, NoLater(T, rank))
  BY <1>15, <1>18, <1>19, <1>20, ByRankHolds
<1>23. PICK i \in DOMAIN heads : heads[i].label = b.label
  BY <1>12 DEF ToSet
<1>24. RegionOf(b.label) \in ToSet(sorted) /\ RegionOf(b.label) \in T
  BY <1>14, <1>15, <1>16, <1>19, <1>22, <1>23
<1>25. LevelOrder(RegionOf(b.label).level) <= LevelOrder(b.level)
  BY <1>4, RegionHolds
<1> HIDE DEF RegionOf
<1>26. sorted # <<>> /\ sorted[1] \in ToSet(sorted) /\ rank[sorted[1]] <= rank[RegionOf(b.label)]
  BY <1>18, <1>22, <1>24, FirstIsLeast
<1>27. sorted[1] \in T
  BY <1>19, <1>22, <1>26
<1>28. LevelOrder(sorted[1].level) <= LevelOrder(RegionOf(b.label).level)
  <2>1. \A x, y \in 0..2, p, q \in 0..4 : 5 * x + p <= 5 * y + q => x <= y
    OBVIOUS
  <2> QED
    BY <1>13, <1>18, <1>24, <1>26, <1>27, <2>1
<1>29. Cut(sorted, MaxRegions) # <<>> /\ Cut(sorted, MaxRegions)[1] = sorted[1]
  <2>1. MaxRegions \in Nat \ {0}
    BY SectionAssumption
  <2> QED
    BY <1>22, <1>26, <2>1, CutHolds
<1>30. /\ LevelOrder(sorted[1].level) \in Int /\ LevelOrder(RegionOf(b.label).level) \in Int
       /\ LevelOrder(b.level) \in Int
  BY <1>1, <1>13, <1>24, <1>27, AreasAreRanked
<1> HIDE DEF rank, T
<1> QED
  BY <1>21, <1>25, <1>28, <1>29, <1>30

-----------------------------------------------------------------------------
(* The worst section is on top *)

\* Each source has given one of its answers.
AnswersAre ==
    /\ DOMAIN reading = DOMAIN Calm
    /\ \A s \in DOMAIN Calm : reading[s] \in SourceAnswers[s]

\* Whatever a source reports as dangerous, its section tells.
LEMMA SectionsHold ==
    ASSUME AnswersAre
    PROVE  /\ \A t \in ToSet(TypeOrder) : Sections[t].areas \in Seq(SectionAreas)
           /\ \A a \in Reported :
                  a.level \in {"danger", "warning"}
                  => \E t \in ToSet(TypeOrder) : Tells(Sections[t].areas, a)
<1>1. /\ reading.rain \in SourceAnswers["rain"] /\ reading.kikikuru \in SourceAnswers["kikikuru"]
      /\ reading.surge \in SourceAnswers["surge"] /\ reading.quakes \in SourceAnswers["quakes"]
      /\ reading.tsunami \in SourceAnswers["tsunami"]
  BY SectionAssumption DEF AnswersAre
<1>2. /\ Sections["tsunami"] = TsunamiSection(reading.tsunami)
      /\ Sections["storm_surge"] = StormSurgeSection(reading.surge)
      /\ Sections["earthquake"] = EarthquakeSection(reading.quakes)
      /\ Sections["kikikuru"] = KikikuruSection(reading.kikikuru)
      /\ Sections["rain"] = RainSection(reading.rain)
  BY DEF Sections
<1>3. /\ RainSection(reading.rain).areas \in Seq(SectionAreas)
      /\ \A a \in ToSet(ScanAreas(reading.rain.tiles)) : Tells(RainSection(reading.rain).areas, a)
  BY <1>1, RainTells
<1>4. /\ KikikuruSection(reading.kikikuru).areas \in Seq(SectionAreas)
      /\ \A s \in ToSet(reading.kikikuru) :
             SampleLevel(s) \in {"danger", "warning"}
             => Tells(KikikuruSection(reading.kikikuru).areas, SampleArea(s))
  BY <1>1, KikikuruTells
<1>5. /\ StormSurgeSection(reading.surge).areas \in Seq(SectionAreas)
      /\ \A p \in ToSet(reading.surge) :
             PrefStormSurge(p) # {}
             => SurgeArea(p) \in ToSet(StormSurgeSection(reading.surge).areas)
  BY <1>1, StormSurgeTells
<1>6. /\ EarthquakeSection(reading.quakes).areas \in Seq(SectionAreas)
      /\ TsunamiSection(reading.tsunami).areas \in Seq(SectionAreas)
  BY <1>1, EarthquakesAreAreas, TsunamisAreAreas
<1>7. ASSUME NEW t \in ToSet(TypeOrder) PROVE Sections[t].areas \in Seq(SectionAreas)
  <2>1. t \in {"tsunami", "storm_surge", "earthquake", "kikikuru", "rain"}
    BY TypesInOrder
  <2> QED
    BY <1>2, <1>3, <1>4, <1>5, <1>6, <2>1
<1>8. ASSUME NEW areas \in Seq(SectionAreas), NEW a \in ToSet(areas) PROVE Tells(areas, a)
  <2>1. LevelOrder(a.level) <= LevelOrder(a.level)
    <3>1. LevelOrder(a.level) \in Int
      BY DEF LevelOrder
    <3> QED
      BY <3>1
  <2> QED
    BY <2>1 DEF Tells
<1>9. ASSUME NEW a \in Reported, a.level \in {"danger", "warning"}
      PROVE  \E t \in ToSet(TypeOrder) : Tells(Sections[t].areas, a)
  <2>1. /\ "tsunami" \in ToSet(TypeOrder) /\ "storm_surge" \in ToSet(TypeOrder)
        /\ "earthquake" \in ToSet(TypeOrder) /\ "kikikuru" \in ToSet(TypeOrder)
        /\ "rain" \in ToSet(TypeOrder)
    BY TypesInOrder
  <2>2. CASE a \in ToSet(ScanAreas(reading.rain.tiles))
    BY <1>2, <1>3, <2>1, <2>2
  <2>3. CASE a \in {SampleArea(s) : s \in ToSet(reading.kikikuru)}
    <3>1. PICK s \in ToSet(reading.kikikuru) : a = SampleArea(s)
      BY <2>3
    <3>2. SampleLevel(s) \in {"danger", "warning"}
      BY <1>9, <3>1 DEF SampleArea, Area
    <3> QED
      BY <1>2, <1>4, <2>1, <3>1, <3>2
  <2>4. CASE a \in {SurgeArea(p) : p \in {q \in ToSet(reading.surge) : PrefStormSurge(q) # {}}}
    <3>1. a \in ToSet(StormSurgeSection(reading.surge).areas)
      BY <1>5, <2>4
    <3> QED
      BY <1>2, <1>5, <1>8, <2>1, <3>1
  <2>5. CASE a \in ToSet(Sections.earthquake.areas)
    BY <1>2, <1>6, <1>8, <2>1, <2>5
  <2>6. CASE a \in ToSet(Sections.tsunami.areas)
    BY <1>2, <1>6, <1>8, <2>1, <2>6
  <2> QED
    BY <1>9, <2>2, <2>3, <2>4, <2>5, <2>6 DEF Reported
<1> QED
  BY <1>7, <1>9

LEMMA WorstAreaIsOnTop == AnswersAre => WorstSectionIsOnTop
<1> DEFINE merged == DangerousAreas(Sections)
           regions == IntegratedRegions(merged)
<1> SUFFICES ASSUME AnswersAre, NEW a \in Reported, a.level \in {"danger", "warning"}
             PROVE  regions # <<>> /\ LevelOrder(regions[1].level) <= LevelOrder(a.level)
  BY DEF WorstSectionIsOnTop
<1>1. PICK t \in ToSet(TypeOrder) : Tells(Sections[t].areas, a)
  BY SectionsHold
<1>2. PICK b \in ToSet(Sections[t].areas) : LevelOrder(b.level) <= LevelOrder(a.level)
  BY <1>1 DEF Tells
<1>3. /\ merged \in Seq(SectionAreas) /\ Ordered(merged, NoLater(SectionAreas, AreaRank))
      /\ ToSet(Sections[t].areas) \subseteq ToSet(merged)
  BY SectionsHold, MergedHolds
<1> HIDE DEF merged
<1>4. b \in SectionAreas /\ b \in ToSet(merged)
  <2>1. \A i \in DOMAIN merged : merged[i] \in SectionAreas
    BY <1>3, LenProperties, ElementOfSeq
  <2> QED
    BY <1>2, <1>3, <2>1 DEF ToSet
<1>5. regions # <<>> /\ LevelOrder(regions[1].level) <= LevelOrder(b.level)
  BY <1>3, <1>4, RegionsHold
<1>6. /\ LevelOrder(a.level) \in Int /\ LevelOrder(b.level) \in Int
      /\ LevelOrder(regions[1].level) \in Int
  BY DEF LevelOrder
<1> QED
  BY <1>2, <1>5, <1>6

LEMMA AnswersStay == SectionsSpec => []AnswersAre
<1>1. SectionsInit => AnswersAre
  BY SectionAssumption DEF SectionsInit, AnswersAre
<1>2. AnswersAre /\ [SectionsNext]_reading => AnswersAre'
  <2> SUFFICES ASSUME AnswersAre, [SectionsNext]_reading PROVE AnswersAre'
    OBVIOUS
  <2>1. CASE UNCHANGED reading
    BY <2>1 DEF AnswersAre
  <2>2. ASSUME NEW source \in DOMAIN reading, ReadAgain(source) PROVE AnswersAre'
    <3>1. PICK answer \in SourceAnswers[source] : reading' = [reading EXCEPT ![source] = answer]
      BY <2>2 DEF ReadAgain
    <3>2. DOMAIN reading' = DOMAIN Calm
      BY <3>1 DEF AnswersAre
    <3>3. ASSUME NEW s \in DOMAIN Calm PROVE reading'[s] \in SourceAnswers[s]
      BY <3>1 DEF AnswersAre
    <3> QED
      BY <3>2, <3>3 DEF AnswersAre
  <2> QED
    BY <2>1, <2>2 DEF SectionsNext
<1> QED
  BY <1>1, <1>2, PTL DEF SectionsSpec

\* Whatever the five sources answer, in whatever order, the first region on the screen is
\* at least as bad as the worst danger or warning any of them reported: the merge of the
\* sections, the grouping by place and every cut keep it (build_live_summary()).
THEOREM WorstIsShown == SectionsSpec => []WorstSectionIsOnTop
<1>1. AnswersAre => WorstSectionIsOnTop
  BY WorstAreaIsOnTop
<1> QED
  BY <1>1, AnswersStay, PTL
=============================================================================

---------------------------- MODULE DeployProofs ----------------------------
(***************************************************************************)
(* Theorems about what is deployed without versions: what a deploy leaves  *)
(* in the runtime tree and in the state file, however often it fails, is   *)
(* killed, retried or rolled back; and what the walking engine serves, and *)
(* what a rebuild that reports success has left behind, whatever jobs,     *)
(* restarts, kills and deployments came between.                           *)
(***************************************************************************)
EXTENDS FileDeploy, RoutingEngine, SequenceTheorems, TLAPS


-----------------------------------------------------------------------------
(* The datasets that are copied into the runtime tree                      *)

Places == {"source", "runtime", "backup", "staging"}
Contents == [made : Nat, whole : BOOLEAN]
SavedStates == [deploy : {"not_deployed", "deployable", "deploying", "deployed", "failed"},
                stored : BOOLEAN, runtime : BOOLEAN, backup : BOOLEAN,
                valid : {"not_started", "running", "passed", "failed"}]

\* The operations of jobs, by name, and what a job of each sort may still have to do.
BackUp == Does("keep", "runtime", "backup")
DropBackup == Does("remove", "backup", "backup")
DropStaging == Does("remove", "staging", "staging")
Stage == Does("copy", "source", "staging")
DropRuntime == Does("remove", "runtime", "runtime")
Install == Does("move", "staging", "runtime")
CopyIn == Does("copy", "source", "runtime")
Publish == Does("publish", "source", "runtime")
Restore == Does("copy", "backup", "runtime")
Fetch == Does("fetch", "source", "source")
Download == Does("download", "source", "source")
Build == Does("build", "source", "staging")

Operations == {BackUp, DropBackup, DropStaging, Stage, DropRuntime, Install, CopyIn, Publish,
               Restore, Fetch, Download, Build}
Errands == [op : {"none", "deploy", "rollback", "fetch", "killed"}, todo : Seq(Operations),
            begun : BOOLEAN,
            step : {"completed", "accepted", "deploy", "rollback", "validate", "download"}]

BackingUp == {<<DropBackup, BackUp, DropStaging, Stage, DropRuntime, Install>>,
              <<BackUp, DropStaging, Stage, DropRuntime, Install>>,
              <<BackUp, CopyIn>>}
Staging == {<<DropStaging, Stage, DropRuntime, Install>>, <<Stage, DropRuntime, Install>>}
Staged == {<<DropRuntime, Install>>, <<Install>>}

DeployTodos ==
    IF deployKind = "generated" THEN {<<Publish>>, <<>>}
    ELSE BackingUp \cup Staging \cup Staged \cup {<<CopyIn>>, <<>>}
RollbackTodos ==
    IF deployKind = "directory" THEN {<<DropRuntime, Restore>>, <<Restore>>, <<>>}
    ELSE {<<Restore, DropBackup>>, <<DropBackup>>, <<>>}
FetchTodos ==
    IF deployKind = "tiles"
    THEN {<<Download, DropStaging, Build, Install>>, <<DropStaging, Build, Install>>,
          <<Build, Install>>, <<Install>>, <<>>}
    ELSE {<<Fetch>>, <<>>}

Working(op) == errand.op = op /\ errand.step # "accepted"
BeforeBackup == errand.todo \in BackingUp

DeployType ==
    /\ deployKind \in DeployKinds
    /\ disk \in [Places -> Contents]
    /\ saved \in SavedStates
    /\ errand \in Errands
    /\ fetches \in Nat
    /\ basis \in Contents
    /\ writer \in {"none", "deploy", "rollback", "fetch"}
    /\ assumed \subseteq {"source", "runtime"}

\* Each job is at one of the points of its plan, and passes the steps of its sort.
ErrandType ==
    /\ errand.op = "none" => errand = NoErrand
    /\ errand.op \in {"none", "killed"} \/ errand.step = "accepted" =>
           errand.todo = <<>> /\ ~errand.begun
    /\ errand.begun => errand.todo # <<>>
    /\ Working("deploy") => errand.step = "deploy" /\ errand.todo \in DeployTodos
    /\ Working("rollback") => errand.step = "rollback" /\ errand.todo \in RollbackTodos
    /\ Working("fetch") => errand.step \in {"validate", "download"} /\ errand.todo \in FetchTodos
    /\ errand.op = "fetch" => fetches # 0

\* Tiles are neither deployed nor rolled back, and what is published is whole.
KindsKeepApart ==
    /\ deployKind = "tiles" =>
           /\ errand.op \notin {"deploy", "rollback"}
           /\ writer \in {"none", "fetch"} /\ ~saved.backup
    /\ deployKind = "generated" => errand.op # "rollback"
    /\ deployKind \in {"tiles", "generated"} => disk["runtime"].whole

\* What is stored and has passed is there, and whole where the verdict is about it.
SourceIsThere ==
    /\ saved.stored /\ saved.valid = "passed" => Present("source")
    /\ deployKind \in {"file", "directory"} /\ saved.valid = "passed" /\ "source" \notin assumed =>
           disk["source"].whole

\* A fetch that works on a layer has taken its verdict away; what it has fetched is whole.
FetchStage ==
    Working("fetch") =>
        /\ deployKind \in {"file", "directory"} =>
               errand.step = "validate" /\ saved.valid = "running"
        /\ deployKind # "tiles" /\ errand.todo = <<>> =>
               Present("source") /\ disk["source"].whole
        /\ deployKind = "tiles" /\ errand.todo # <<Download, DropStaging, Build, Install>> =>
               Present("source")

\* How far a deploy has come.
DeployStage ==
    errand.op = "deploy" =>
        /\ saved.deploy = "deploying" /\ saved.valid = "passed" /\ Present("source")
        /\ Working("deploy") =>
               /\ BeforeBackup => disk["runtime"] = basis
               /\ ~BeforeBackup /\ deployKind # "generated" /\ basis # Nothing =>
                      saved.backup /\ disk["backup"] = basis
               /\ errand.todo \in Staged => disk["staging"] = disk["source"]
               /\ errand.todo = <<>> => disk["runtime"] = disk["source"]

\* A rollback writes into the runtime first.
RollbackStage ==
    Working("rollback") =>
        \/ writer = "rollback"
        \/ errand.todo \in {<<DropRuntime, Restore>>, <<Restore, DropBackup>>} /\ ~errand.begun

\* Killed while it validated, a layer still has no verdict that it passed.
KilledStage ==
    errand.op = "killed" /\ errand.step = "validate" /\ deployKind \in {"file", "directory"} =>
        saved.valid = "running"

\* "deployed" comes with a runtime path, and a deploy that cleared the runtime does
\* not leave it behind.
StateMatchesRuntime ==
    /\ saved.deploy = "deployed" => saved.runtime
    /\ writer = "deploy" /\ ~Present("runtime") => saved.deploy # "deployed"

\* The two halves of the property, whether or not a job is under way.
WholeWhenDeployed ==
    saved.deploy = "deployed" /\ ~disk["runtime"].whole =>
        writer = "rollback" \/ deployKind = "roads" \/ "runtime" \in assumed
UndoableWhenTorn ==
    writer = "deploy" /\ deployKind # "generated"
         /\ (~disk["runtime"].whole \/ ~Present("runtime")) /\ basis.whole /\ basis # Nothing =>
        saved.backup /\ disk["backup"] = basis

DeployInv ==
    /\ DeployType /\ ErrandType /\ KindsKeepApart /\ SourceIsThere /\ FetchStage /\ DeployStage
    /\ RollbackStage /\ KilledStage /\ StateMatchesRuntime /\ WholeWhenDeployed /\ UndoableWhenTorn

-----------------------------------------------------------------------------
(* Plans as sequences *)

LEMMA OneAndOne == \A a, b : <<a>> \o <<b>> = <<a, b>>
<1> SUFFICES ASSUME NEW a, NEW b PROVE <<a>> \o <<b>> = <<a, b>>
  OBVIOUS
<1> DEFINE S == {a, b}
<1> DEFINE both == <<a>> \o <<b>>
<1>1. both \in Seq(S) /\ Len(both) = 2 /\ both[1] = a /\ both[2] = b
  OBVIOUS
<1>2. <<a, b>> \in Seq(S) /\ Len(<<a, b>>) = 2 /\ \A i \in 1..2 : both[i] = <<a, b>>[i]
  BY <1>1
<1> HIDE DEF both
<1>3. both = <<a, b>>
  BY <1>1, <1>2, SeqEqual
<1> QED
  BY <1>3 DEF both

LEMMA OneAndThree == \A a, b, c, d : <<a>> \o <<b, c, d>> = <<a, b, c, d>>
<1> SUFFICES ASSUME NEW a, NEW b, NEW c, NEW d PROVE <<a>> \o <<b, c, d>> = <<a, b, c, d>>
  OBVIOUS
<1> DEFINE S == {a, b, c, d}
<1> DEFINE both == <<a>> \o <<b, c, d>>
<1>1. both \in Seq(S) /\ Len(both) = 4
  OBVIOUS
<1>2. both[1] = a /\ both[2] = b /\ both[3] = c /\ both[4] = d
  OBVIOUS
<1>3. <<a, b, c, d>> \in Seq(S) /\ Len(<<a, b, c, d>>) = 4
  OBVIOUS
<1>4. \A i \in 1..4 : both[i] = <<a, b, c, d>>[i]
  BY <1>2
<1> HIDE DEF both
<1>5. both = <<a, b, c, d>>
  BY <1>1, <1>3, <1>4, SeqEqual
<1> QED
  BY <1>5 DEF both

LEMMA TwoAndFour == \A a, b, c, d, e, f : <<a, b>> \o <<c, d, e, f>> = <<a, b, c, d, e, f>>
<1> SUFFICES ASSUME NEW a, NEW b, NEW c, NEW d, NEW e, NEW f
             PROVE  <<a, b>> \o <<c, d, e, f>> = <<a, b, c, d, e, f>>
  OBVIOUS
<1> DEFINE S == {a, b, c, d, e, f}
<1> DEFINE both == <<a, b>> \o <<c, d, e, f>>
<1>1. both \in Seq(S) /\ Len(both) = 6
  OBVIOUS
<1>2. both[1] = a /\ both[2] = b /\ both[3] = c /\ both[4] = d /\ both[5] = e /\ both[6] = f
  OBVIOUS
<1>3. <<a, b, c, d, e, f>> \in Seq(S) /\ Len(<<a, b, c, d, e, f>>) = 6
  OBVIOUS
<1>4. \A i \in 1..6 : both[i] = <<a, b, c, d, e, f>>[i]
  BY <1>2
<1> HIDE DEF both
<1>5. both = <<a, b, c, d, e, f>>
  BY <1>1, <1>3, <1>4, SeqEqual
<1> QED
  BY <1>5 DEF both

LEMMA Acts ==
    /\ BackUp.verb = "keep" /\ BackUp.from = "runtime" /\ BackUp.to = "backup"
    /\ DropBackup.verb = "remove" /\ DropBackup.from = "backup" /\ DropBackup.to = "backup"
    /\ DropStaging.verb = "remove" /\ DropStaging.from = "staging" /\ DropStaging.to = "staging"
    /\ Stage.verb = "copy" /\ Stage.from = "source" /\ Stage.to = "staging"
    /\ DropRuntime.verb = "remove" /\ DropRuntime.from = "runtime" /\ DropRuntime.to = "runtime"
    /\ Install.verb = "move" /\ Install.from = "staging" /\ Install.to = "runtime"
    /\ CopyIn.verb = "copy" /\ CopyIn.from = "source" /\ CopyIn.to = "runtime"
    /\ Publish.verb = "publish" /\ Publish.from = "source" /\ Publish.to = "runtime"
    /\ Restore.verb = "copy" /\ Restore.from = "backup" /\ Restore.to = "runtime"
    /\ Fetch.verb = "fetch" /\ Fetch.from = "source" /\ Fetch.to = "source"
    /\ Download.verb = "download" /\ Download.from = "source" /\ Download.to = "source"
    /\ Build.verb = "build" /\ Build.from = "source" /\ Build.to = "staging"
  BY DEF BackUp, DropBackup, DropStaging, Stage, DropRuntime, Install, CopyIn, Publish, Restore,
         Fetch, Download, Build, Does

LEMMA DistinctActs ==
    /\ BackUp # DropRuntime /\ Publish # CopyIn /\ Install # CopyIn /\ Install # Publish
    /\ DropBackup # BackUp /\ DropStaging # Stage /\ DropRuntime # Install
  BY Acts

LEMMA HeadsAndTails ==
    /\ Head(<<DropBackup, BackUp, DropStaging, Stage, DropRuntime, Install>>) = DropBackup
    /\ Tail(<<DropBackup, BackUp, DropStaging, Stage, DropRuntime, Install>>)
           = <<BackUp, DropStaging, Stage, DropRuntime, Install>>
    /\ Head(<<BackUp, DropStaging, Stage, DropRuntime, Install>>) = BackUp
    /\ Tail(<<BackUp, DropStaging, Stage, DropRuntime, Install>>)
           = <<DropStaging, Stage, DropRuntime, Install>>
    /\ Head(<<DropStaging, Stage, DropRuntime, Install>>) = DropStaging
    /\ Tail(<<DropStaging, Stage, DropRuntime, Install>>) = <<Stage, DropRuntime, Install>>
    /\ Head(<<Stage, DropRuntime, Install>>) = Stage
    /\ Tail(<<Stage, DropRuntime, Install>>) = <<DropRuntime, Install>>
    /\ Head(<<DropRuntime, Install>>) = DropRuntime
    /\ Tail(<<DropRuntime, Install>>) = <<Install>>
    /\ Head(<<Install>>) = Install /\ Tail(<<Install>>) = <<>>
    /\ Head(<<BackUp, CopyIn>>) = BackUp /\ Tail(<<BackUp, CopyIn>>) = <<CopyIn>>
    /\ Head(<<CopyIn>>) = CopyIn /\ Tail(<<CopyIn>>) = <<>>
    /\ Head(<<Publish>>) = Publish /\ Tail(<<Publish>>) = <<>>
    /\ Head(<<DropRuntime, Restore>>) = DropRuntime
    /\ Tail(<<DropRuntime, Restore>>) = <<Restore>>
    /\ Head(<<Restore>>) = Restore /\ Tail(<<Restore>>) = <<>>
    /\ Head(<<Restore, DropBackup>>) = Restore /\ Tail(<<Restore, DropBackup>>) = <<DropBackup>>
    /\ Head(<<DropBackup>>) = DropBackup /\ Tail(<<DropBackup>>) = <<>>
    /\ Head(<<Fetch>>) = Fetch /\ Tail(<<Fetch>>) = <<>>
    /\ Head(<<Download, DropStaging, Build, Install>>) = Download
    /\ Tail(<<Download, DropStaging, Build, Install>>) = <<DropStaging, Build, Install>>
    /\ Head(<<DropStaging, Build, Install>>) = DropStaging
    /\ Tail(<<DropStaging, Build, Install>>) = <<Build, Install>>
    /\ Head(<<Build, Install>>) = Build /\ Tail(<<Build, Install>>) = <<Install>>
  OBVIOUS

\* The next operation of a deploy, and what is then left of it.
LEMMA DeployPoints ==
    ASSUME NEW todo \in DeployTodos, todo # <<>>
    PROVE  \/ /\ todo \in BackingUp /\ deployKind # "generated"
              /\ \/ Head(todo) = DropBackup /\ Tail(todo) \in BackingUp
                 \/ Head(todo) = BackUp /\ Tail(todo) \in Staging \cup {<<CopyIn>>}
           \/ /\ todo \in Staging /\ deployKind # "generated"
              /\ \/ Head(todo) = DropStaging /\ Tail(todo) \in Staging
                 \/ Head(todo) = Stage /\ Tail(todo) \in Staged
           \/ /\ todo \in Staged /\ deployKind # "generated"
              /\ \/ Head(todo) = DropRuntime /\ Tail(todo) \in Staged
                 \/ Head(todo) = Install /\ Tail(todo) = <<>>
           \/ /\ todo = <<CopyIn>> /\ deployKind # "generated"
              /\ Head(todo) = CopyIn /\ Tail(todo) = <<>>
           \/ /\ todo = <<Publish>> /\ deployKind = "generated"
              /\ Head(todo) = Publish /\ Tail(todo) = <<>>
<1>1. CASE deployKind = "generated"
  <2>1. todo = <<Publish>>
    BY <1>1 DEF DeployTodos
  <2> QED
    BY <1>1, <2>1, HeadsAndTails, Zenon
<1>2. CASE deployKind # "generated" /\ todo \in BackingUp
  <2>1. CASE todo = <<DropBackup, BackUp, DropStaging, Stage, DropRuntime, Install>>
    BY <1>2, <2>1, HeadsAndTails, Zenon DEF BackingUp
  <2>2. CASE todo = <<BackUp, DropStaging, Stage, DropRuntime, Install>>
    BY <1>2, <2>2, HeadsAndTails, Zenon DEF Staging
  <2>3. CASE todo = <<BackUp, CopyIn>>
    BY <1>2, <2>3, HeadsAndTails, Zenon
  <2> QED
    BY <1>2, <2>1, <2>2, <2>3 DEF BackingUp
<1>3. CASE deployKind # "generated" /\ todo \in Staging
  <2>1. CASE todo = <<DropStaging, Stage, DropRuntime, Install>>
    BY <1>3, <2>1, HeadsAndTails, Zenon DEF Staging
  <2>2. CASE todo = <<Stage, DropRuntime, Install>>
    BY <1>3, <2>2, HeadsAndTails, Zenon DEF Staged
  <2> QED
    BY <1>3, <2>1, <2>2 DEF Staging
<1>4. CASE deployKind # "generated" /\ todo \in Staged
  <2>1. CASE todo = <<DropRuntime, Install>>
    BY <1>4, <2>1, HeadsAndTails, Zenon DEF Staged
  <2>2. CASE todo = <<Install>>
    BY <1>4, <2>2, HeadsAndTails, Zenon
  <2> QED
    BY <1>4, <2>1, <2>2 DEF Staged
<1>5. CASE deployKind # "generated" /\ todo = <<CopyIn>>
  BY <1>5, HeadsAndTails, Zenon
<1> QED
  BY <1>1, <1>2, <1>3, <1>4, <1>5 DEF DeployTodos

\* The points of a deploy are different ones.
LEMMA PointsDiffer ==
    /\ BackingUp \cap Staging = {} /\ BackingUp \cap Staged = {} /\ Staging \cap Staged = {}
    /\ <<>> \notin BackingUp \cup Staging \cup Staged
    /\ <<CopyIn>> \notin BackingUp \cup Staging \cup Staged \cup {<<>>}
    /\ <<Publish>> \notin BackingUp \cup Staging \cup Staged \cup {<<>>}
  BY DistinctActs DEF BackingUp, Staging, Staged

\* A deploy begins with the backup of what it finds.
LEMMA DeployPlans ==
    /\ DeployPlan \in DeployTodos /\ DeployPlan \notin Staged \cup {<<>>}
    /\ deployKind # "generated" /\ Present("runtime") => DeployPlan \in BackingUp
<1>1. CASE deployKind = "generated"
  BY <1>1, PointsDiffer DEF DeployPlan, DeployTodos, Publish
<1>2. CASE deployKind = "directory" /\ Present("runtime")
  <2>1. DeployPlan = <<DropBackup, BackUp>> \o <<DropStaging, Stage, DropRuntime, Install>>
    BY <1>2 DEF DeployPlan, BackupFirst, DropBackup, BackUp, DropStaging, Stage,
                  DropRuntime, Install
  <2>2. DeployPlan = <<DropBackup, BackUp, DropStaging, Stage, DropRuntime, Install>>
    BY <2>1, TwoAndFour
  <2>3. DeployPlan \in BackingUp
    BY <2>2 DEF BackingUp
  <2> QED
    BY <1>2, <2>3, PointsDiffer DEF DeployTodos
<1>3. CASE deployKind = "directory" /\ ~Present("runtime")
  <2>1. DeployPlan = <<>> \o <<DropStaging, Stage, DropRuntime, Install>>
    BY <1>3 DEF DeployPlan, BackupFirst, DropStaging, Stage, DropRuntime, Install
  <2>2. DeployPlan = <<DropStaging, Stage, DropRuntime, Install>>
    BY <2>1
  <2> QED
    BY <1>3, <2>2, PointsDiffer DEF DeployTodos, Staging
<1>4. CASE deployKind \notin {"generated", "directory"} /\ Present("runtime")
  <2>1. DeployPlan = <<BackUp>> \o <<CopyIn>>
    BY <1>4 DEF DeployPlan, BackupFirst, BackUp, CopyIn
  <2>2. DeployPlan = <<BackUp, CopyIn>>
    BY <2>1, OneAndOne
  <2>3. DeployPlan \in BackingUp
    BY <2>2 DEF BackingUp
  <2> QED
    BY <1>4, <2>3, PointsDiffer DEF DeployTodos
<1>5. CASE deployKind \notin {"generated", "directory"} /\ ~Present("runtime")
  <2>1. DeployPlan = <<>> \o <<CopyIn>>
    BY <1>5 DEF DeployPlan, BackupFirst, CopyIn
  <2>2. DeployPlan = <<CopyIn>>
    BY <2>1
  <2> QED
    BY <1>5, <2>2, PointsDiffer DEF DeployTodos
<1> QED
  BY <1>1, <1>2, <1>3, <1>4, <1>5

LEMMA RollbackPoints ==
    /\ RollbackPlan \in {<<DropRuntime, Restore>>, <<Restore, DropBackup>>}
    /\ RollbackPlan \in RollbackTodos
    /\ \A todo \in RollbackTodos \ {<<>>} :
           /\ Head(todo) \in {DropRuntime, Restore, DropBackup} /\ Tail(todo) \in RollbackTodos
           /\ todo \in {<<DropRuntime, Restore>>, <<Restore, DropBackup>>} =>
                  Head(todo).to = "runtime" /\ Head(todo).verb # "publish"
<1>1. /\ RollbackPlan \in {<<DropRuntime, Restore>>, <<Restore, DropBackup>>}
      /\ RollbackPlan \in RollbackTodos
  BY DEF RollbackPlan, RollbackTodos, DropRuntime, Restore, DropBackup
<1>2. ASSUME NEW todo \in RollbackTodos \ {<<>>}
      PROVE  Head(todo) \in {DropRuntime, Restore, DropBackup} /\ Tail(todo) \in RollbackTodos
  <2>1. CASE deployKind = "directory" /\ todo = <<DropRuntime, Restore>>
    BY <2>1, HeadsAndTails, Zenon DEF RollbackTodos
  <2>2. CASE deployKind = "directory" /\ todo = <<Restore>>
    BY <2>2, HeadsAndTails, Zenon DEF RollbackTodos
  <2>3. CASE deployKind # "directory" /\ todo = <<Restore, DropBackup>>
    BY <2>3, HeadsAndTails, Zenon DEF RollbackTodos
  <2>4. CASE deployKind # "directory" /\ todo = <<DropBackup>>
    BY <2>4, HeadsAndTails, Zenon DEF RollbackTodos
  <2> QED
    BY <1>2, <2>1, <2>2, <2>3, <2>4 DEF RollbackTodos
<1>3. Head(<<DropRuntime, Restore>>) = DropRuntime /\ Head(<<Restore, DropBackup>>) = Restore
  OBVIOUS
<1> QED
  BY <1>1, <1>2, <1>3, Acts

LEMMA FetchPoints ==
    /\ FetchPlan = <<Fetch>>
    /\ deployKind = "tiles" => TilesPlans \subseteq FetchTodos \ {<<>>}
    /\ deployKind = "tiles" /\ ~Present("source") =>
           TilesPlans \subseteq {<<Download, DropStaging, Build, Install>>}
    /\ \A todo \in FetchTodos \ {<<>>} :
           /\ Tail(todo) \in FetchTodos
           /\ deployKind # "tiles" => Head(todo) = Fetch /\ Tail(todo) = <<>>
           /\ deployKind = "tiles" =>
                  /\ Head(todo) \in {Download, DropStaging, Build, Install}
                  /\ Tail(todo) # <<Download, DropStaging, Build, Install>>
                  /\ Head(todo) = Download
                         => todo = <<Download, DropStaging, Build, Install>>
<1>1. FetchPlan = <<Fetch>>
  BY DEF FetchPlan, Fetch
<1>2. /\ deployKind = "tiles" => TilesPlans \subseteq FetchTodos \ {<<>>}
      /\ deployKind = "tiles" /\ ~Present("source") =>
             TilesPlans \subseteq {<<Download, DropStaging, Build, Install>>}
  <2>1. <<Download>> \o <<DropStaging, Build, Install>>
            = <<Download, DropStaging, Build, Install>>
    BY OneAndThree
  <2>2. TilesPlans = IF Present("source")
                     THEN {<<DropStaging, Build, Install>>,
                           <<Download>> \o <<DropStaging, Build, Install>>}
                     ELSE {<<Download>> \o <<DropStaging, Build, Install>>}
    BY DEF TilesPlans, Download, DropStaging, Build, Install
  <2> QED
    BY <2>1, <2>2 DEF FetchTodos
<1>3. ASSUME NEW todo \in FetchTodos \ {<<>>}, deployKind # "tiles"
      PROVE  Tail(todo) \in FetchTodos /\ Head(todo) = Fetch /\ Tail(todo) = <<>>
  <2>1. todo = <<Fetch>> /\ <<>> \in FetchTodos
    BY <1>3 DEF FetchTodos
  <2> QED
    BY <2>1, HeadsAndTails, Zenon
<1>4. ASSUME NEW todo \in FetchTodos \ {<<>>}, deployKind = "tiles"
      PROVE  /\ Tail(todo) \in FetchTodos
             /\ Head(todo) \in {Download, DropStaging, Build, Install}
             /\ Tail(todo) # <<Download, DropStaging, Build, Install>>
             /\ Head(todo) = Download => todo = <<Download, DropStaging, Build, Install>>
  <2>1. Download # DropStaging /\ Download # Build /\ Download # Install
    BY Acts
  <2>2. CASE todo = <<Download, DropStaging, Build, Install>>
    <3>1. Head(todo) = Download /\ Tail(todo) = <<DropStaging, Build, Install>>
      BY <2>2, HeadsAndTails, Zenon
    <3> QED
      BY <1>4, <2>2, <3>1 DEF FetchTodos
  <2>3. CASE todo = <<DropStaging, Build, Install>>
    <3>1. Head(todo) = DropStaging /\ Tail(todo) = <<Build, Install>>
      BY <2>3, HeadsAndTails, Zenon
    <3> QED
      BY <1>4, <2>1, <3>1 DEF FetchTodos
  <2>4. CASE todo = <<Build, Install>>
    <3>1. Head(todo) = Build /\ Tail(todo) = <<Install>>
      BY <2>4, HeadsAndTails, Zenon
    <3> QED
      BY <1>4, <2>1, <3>1 DEF FetchTodos
  <2>5. CASE todo = <<Install>>
    <3>1. Head(todo) = Install /\ Tail(todo) = <<>>
      BY <2>5, HeadsAndTails, Zenon
    <3> QED
      BY <1>4, <2>1, <3>1 DEF FetchTodos
  <2> QED
    BY <1>4, <2>2, <2>3, <2>4, <2>5 DEF FetchTodos
<1> QED
  BY <1>1, <1>2, <1>3, <1>4

LEMMA TodosAreOperations ==
    DeployTodos \cup RollbackTodos \cup FetchTodos \subseteq Seq(Operations)
<1>1. /\ BackUp \in Operations /\ DropBackup \in Operations /\ DropStaging \in Operations
      /\ Stage \in Operations /\ DropRuntime \in Operations /\ Install \in Operations
      /\ CopyIn \in Operations /\ Publish \in Operations /\ Restore \in Operations
      /\ Fetch \in Operations /\ Download \in Operations /\ Build \in Operations
  BY DEF Operations
<1>2. /\ <<>> \in Seq(Operations)
      /\ <<DropBackup, BackUp, DropStaging, Stage, DropRuntime, Install>> \in Seq(Operations)
      /\ <<BackUp, DropStaging, Stage, DropRuntime, Install>> \in Seq(Operations)
      /\ <<DropStaging, Stage, DropRuntime, Install>> \in Seq(Operations)
      /\ <<Stage, DropRuntime, Install>> \in Seq(Operations)
      /\ <<DropRuntime, Install>> \in Seq(Operations)
      /\ <<Install>> \in Seq(Operations)
      /\ <<BackUp, CopyIn>> \in Seq(Operations)
      /\ <<CopyIn>> \in Seq(Operations)
      /\ <<Publish>> \in Seq(Operations)
      /\ <<DropRuntime, Restore>> \in Seq(Operations)
      /\ <<Restore>> \in Seq(Operations)
      /\ <<Restore, DropBackup>> \in Seq(Operations)
      /\ <<DropBackup>> \in Seq(Operations)
      /\ <<Fetch>> \in Seq(Operations)
      /\ <<Download, DropStaging, Build, Install>> \in Seq(Operations)
      /\ <<DropStaging, Build, Install>> \in Seq(Operations)
      /\ <<Build, Install>> \in Seq(Operations)
  BY <1>1
<1>3. BackingUp \cup Staging \cup Staged \subseteq Seq(Operations)
  BY <1>2, Zenon DEF BackingUp, Staging, Staged
<1>4. DeployTodos \subseteq Seq(Operations)
  BY <1>2, <1>3, Zenon DEF DeployTodos
<1>5. RollbackTodos \subseteq Seq(Operations)
  BY <1>2, Zenon DEF RollbackTodos
<1>6. FetchTodos \subseteq Seq(Operations)
  BY <1>2, Zenon DEF FetchTodos
<1> QED
  BY <1>4, <1>5, <1>6

-----------------------------------------------------------------------------
(* What operations leave behind *)

LEMMA ContentsOfPlaces ==
    /\ Nothing \in Contents /\ Nothing.whole
    /\ \A content \in Contents :
           Half(content) \in Contents /\ Half(content) # Nothing /\ ~Half(content).whole
<1>1. Nothing \in Contents /\ Nothing.whole
  BY DEF Nothing, Contents
<1>2. ASSUME NEW content \in Contents
      PROVE  Half(content) \in Contents /\ ~Half(content).whole
  BY DEF Half, Contents
<1> QED
  BY <1>1, <1>2

LEMMA PlacesOfActs == \A act \in Operations : act.from \in Places /\ act.to \in Places
  BY Acts DEF Operations, Places

LEMMA Results ==
    ASSUME DeployType
    PROVE  /\ \A act \in Operations : Outcome(act) \in Contents /\ Underway(act) \in Contents
           /\ Underway(Install) = disk["runtime"] /\ Underway(Publish) = disk["runtime"]
           /\ Underway(Download) = disk["source"] /\ Underway(Fetch) # Nothing
           /\ Outcome(BackUp) = disk["runtime"] /\ Outcome(Stage) = disk["source"]
           /\ Outcome(Install) = disk["staging"] /\ Outcome(CopyIn) = disk["source"]
           /\ Outcome(Publish) = disk["source"]
           /\ Outcome(Fetch) = [made |-> fetches, whole |-> TRUE]
           /\ Outcome(Download) = [made |-> fetches, whole |-> TRUE]
           /\ Outcome(DropRuntime) = Nothing
<1>1. ASSUME NEW act \in Operations PROVE Outcome(act) \in Contents
  <2>1. [made |-> fetches, whole |-> TRUE] \in Contents
    BY DEF Contents, DeployType
  <2>2. disk[act.from] \in Contents
    BY PlacesOfActs DEF DeployType
  <2>3. Nothing \in Contents
    BY ContentsOfPlaces
  <2> QED
    BY <2>1, <2>2, <2>3 DEF Outcome
<1>2. ASSUME NEW act \in Operations PROVE Underway(act) \in Contents
  <2>1. disk[act.to] \in Contents /\ Outcome(act) \in Contents
    BY <1>1, PlacesOfActs DEF DeployType
  <2>2. Half(disk[act.to]) \in Contents /\ Half(Outcome(act)) \in Contents /\ Nothing \in Contents
    BY <2>1, ContentsOfPlaces
  <2> QED
    BY <2>1, <2>2 DEF Underway
<1>3. Underway(Fetch) # Nothing
  <2>1. Fetch \in Operations
    BY DEF Operations
  <2> QED
    BY <1>1, <2>1, Acts, ContentsOfPlaces DEF Underway
<1>4. /\ Underway(Install) = disk["runtime"] /\ Underway(Publish) = disk["runtime"]
      /\ Underway(Download) = disk["source"]
  BY Acts DEF Underway
<1>5. /\ Outcome(BackUp) = disk["runtime"] /\ Outcome(Stage) = disk["source"]
      /\ Outcome(Install) = disk["staging"] /\ Outcome(CopyIn) = disk["source"]
      /\ Outcome(Publish) = disk["source"]
      /\ Outcome(Fetch) = [made |-> fetches, whole |-> TRUE]
      /\ Outcome(Download) = [made |-> fetches, whole |-> TRUE]
      /\ Outcome(DropRuntime) = Nothing
  BY Acts DEF Outcome
<1> QED
  BY <1>1, <1>2, <1>3, <1>4, <1>5

\* A job that has something to do is at one of the points of its plan.
LEMMA AtWork ==
    ASSUME DeployInv, errand.todo # <<>>
    PROVE  /\ Working("deploy") \/ Working("rollback") \/ Working("fetch")
           /\ Head(errand.todo) \in Operations /\ Tail(errand.todo) \in Seq(Operations)
<1>1. /\ errand.op \in {"deploy", "rollback", "fetch"} /\ errand.step # "accepted"
  BY DEF DeployInv, DeployType, Errands, ErrandType
<1>2. errand.todo \in Seq(Operations)
  BY DEF DeployInv, DeployType, Errands
<1> QED
  BY <1>1, <1>2 DEF Working

-----------------------------------------------------------------------------
(* An operation begins *)

LEMMA BeginEffects ==
    ASSUME DeployInv, BeginOperation
    PROVE  /\ disk' \in [Places -> Contents]
           /\ errand' = [errand EXCEPT !.begun = TRUE]
           /\ Working("deploy") =>
                  /\ disk'["source"] = disk["source"]
                  /\ writer' \in {writer, "deploy"}
                  /\ BeforeBackup => disk'["runtime"] = disk["runtime"]
                  /\ ~BeforeBackup => disk'["backup"] = disk["backup"]
                  /\ errand.todo \in Staged => disk'["staging"] = disk["staging"]
                  /\ deployKind = "generated" => disk'["runtime"] = disk["runtime"]
           /\ Working("rollback") => disk'["source"] = disk["source"] /\ writer' = "rollback"
           /\ Working("fetch") =>
                  /\ disk'["runtime"] = disk["runtime"] /\ disk'["backup"] = disk["backup"]
                  /\ deployKind # "tiles" => writer' = writer
                  /\ writer' \in {writer, "fetch"}
                  /\ disk["source"] # Nothing => disk'["source"] # Nothing
<1> DEFINE act == Head(errand.todo)
<1>1. /\ errand.todo # <<>> /\ ~errand.begun
      /\ disk' = [disk EXCEPT ![act.to] = Underway(act)]
      /\ errand' = [errand EXCEPT !.begun = TRUE]
      /\ writer' = IF act.to = "runtime" /\ act.verb # "publish" THEN errand.op ELSE writer
  BY DEF BeginOperation
<1>2. act \in Operations
  BY <1>1, AtWork
<1>3. /\ disk \in [Places -> Contents] /\ Underway(act) \in Contents
  BY <1>2, Results DEF DeployInv, DeployType
<1>4. act.to \in Places
  BY <1>2, PlacesOfActs
<1>5. disk' \in [Places -> Contents]
  BY <1>1, <1>3, <1>4
<1>6. \A place \in Places : disk'[place] = IF place = act.to THEN Underway(act) ELSE disk[place]
  BY <1>1, <1>3
<1>7. /\ disk'["source"] = IF act.to = "source" THEN Underway(act) ELSE disk["source"]
      /\ disk'["runtime"] = IF act.to = "runtime" THEN Underway(act) ELSE disk["runtime"]
      /\ disk'["backup"] = IF act.to = "backup" THEN Underway(act) ELSE disk["backup"]
      /\ disk'["staging"] = IF act.to = "staging" THEN Underway(act) ELSE disk["staging"]
  BY <1>6 DEF Places
<1>8. ASSUME Working("deploy")
      PROVE  /\ disk'["source"] = disk["source"]
             /\ writer' \in {writer, "deploy"}
             /\ BeforeBackup => disk'["runtime"] = disk["runtime"]
             /\ ~BeforeBackup => disk'["backup"] = disk["backup"]
             /\ errand.todo \in Staged => disk'["staging"] = disk["staging"]
             /\ deployKind = "generated" => disk'["runtime"] = disk["runtime"]
  <2>1. errand.op = "deploy" /\ errand.todo \in DeployTodos \ {<<>>}
    BY <1>1, <1>8 DEF DeployInv, ErrandType, Working
  <2>2. \/ /\ errand.todo \in BackingUp /\ deployKind # "generated"
           /\ act \in {DropBackup, BackUp}
        \/ /\ errand.todo \in Staging /\ deployKind # "generated"
           /\ act \in {DropStaging, Stage}
        \/ /\ errand.todo \in Staged /\ deployKind # "generated"
           /\ act \in {DropRuntime, Install}
        \/ errand.todo = <<CopyIn>> /\ deployKind # "generated" /\ act = CopyIn
        \/ errand.todo = <<Publish>> /\ act = Publish
    BY <2>1, DeployPoints
  <2> HIDE DEF act
  <2>3. writer' \in {writer, "deploy"}
    BY <1>1, <2>1
  <2>4. disk'["source"] = disk["source"]
    BY <1>7, <2>2, Acts
  <2>5. BeforeBackup => disk'["runtime"] = disk["runtime"]
    BY <1>7, <2>2, Acts, PointsDiffer DEF BeforeBackup
  <2>6. ~BeforeBackup => disk'["backup"] = disk["backup"]
    BY <1>7, <2>2, Acts DEF BeforeBackup
  <2>7. errand.todo \in Staged => disk'["staging"] = disk["staging"]
    BY <1>7, <2>2, Acts, PointsDiffer
  <2>8. deployKind = "generated" => disk'["runtime"] = disk["runtime"]
    <3>1. Underway(Publish) = disk["runtime"]
      BY Results DEF DeployInv
    <3> QED
      BY <1>7, <2>2, <3>1
  <2> QED
    BY <2>3, <2>4, <2>5, <2>6, <2>7, <2>8
<1>9. ASSUME Working("rollback")
      PROVE  disk'["source"] = disk["source"] /\ writer' = "rollback"
  <2>1. errand.op = "rollback" /\ errand.todo \in RollbackTodos \ {<<>>}
    BY <1>1, <1>9 DEF DeployInv, ErrandType, Working
  <2>2. act \in {DropRuntime, Restore, DropBackup}
    BY <2>1, RollbackPoints
  <2>3. writer = "rollback" \/ (act.to = "runtime" /\ act.verb # "publish")
    BY <1>9, <2>1, RollbackPoints DEF DeployInv, RollbackStage
  <2> HIDE DEF act
  <2>4. act.to # "source"
    BY <2>2, Acts
  <2> QED
    BY <1>1, <1>7, <2>1, <2>3, <2>4
<1>10. ASSUME Working("fetch")
       PROVE  /\ disk'["runtime"] = disk["runtime"] /\ disk'["backup"] = disk["backup"]
              /\ deployKind # "tiles" => writer' = writer
              /\ writer' \in {writer, "fetch"}
              /\ disk["source"] # Nothing => disk'["source"] # Nothing
  <2>1. errand.op = "fetch" /\ errand.todo \in FetchTodos \ {<<>>}
    BY <1>1, <1>10 DEF DeployInv, ErrandType, Working
  <2>2. /\ deployKind # "tiles" => act = Fetch
        /\ deployKind = "tiles" => act \in {Download, DropStaging, Build, Install}
    BY <2>1, FetchPoints
  <2>3. /\ Underway(Install) = disk["runtime"] /\ Underway(Fetch) # Nothing
        /\ Underway(Download) = disk["source"]
    BY Results DEF DeployInv
  <2> HIDE DEF act
  <2>4. CASE deployKind = "tiles"
    <3>1. disk'["runtime"] = disk["runtime"] /\ disk'["backup"] = disk["backup"]
      BY <1>7, <2>2, <2>3, <2>4, Acts
    <3>2. writer' \in {writer, "fetch"}
      BY <1>1, <2>1
    <3>3. disk'["source"] = disk["source"]
      BY <1>7, <2>2, <2>3, <2>4, Acts
    <3> QED
      BY <2>4, <3>1, <3>2, <3>3
  <2>5. CASE deployKind # "tiles"
    <3>1. act = Fetch
      BY <2>2, <2>5
    <3>2. act.to = "source"
      BY <3>1, Acts
    <3>3. /\ disk'["runtime"] = disk["runtime"] /\ disk'["backup"] = disk["backup"]
          /\ disk'["source"] = Underway(Fetch) /\ writer' = writer
      BY <1>1, <1>7, <3>1, <3>2
    <3> QED
      BY <2>3, <3>3
  <2> QED
    BY <2>4, <2>5
<1> QED
  BY <1>1, <1>5, <1>8, <1>9, <1>10

LEMMA BeginKeeps == DeployInv /\ BeginOperation => DeployInv'
<1> SUFFICES ASSUME DeployInv, BeginOperation PROVE DeployInv'
  OBVIOUS
<1>1. /\ DeployType /\ ErrandType /\ KindsKeepApart /\ SourceIsThere /\ FetchStage /\ DeployStage
      /\ RollbackStage /\ KilledStage /\ StateMatchesRuntime /\ WholeWhenDeployed
      /\ UndoableWhenTorn
  BY DEF DeployInv
<1>2. /\ errand.todo # <<>> /\ UNCHANGED <<deployKind, saved, fetches, basis, assumed>>
      /\ errand \in Errands
  BY <1>1 DEF BeginOperation, DeployType
<1>3. /\ errand'.op = errand.op /\ errand'.todo = errand.todo /\ errand'.step = errand.step
      /\ errand'.begun /\ errand' \in Errands
  BY <1>2, BeginEffects DEF Errands
<1>4. /\ Working("deploy") \/ Working("rollback") \/ Working("fetch")
      /\ errand.op \notin {"none", "killed"} /\ errand.step # "accepted"
  BY <1>2, AtWork DEF Working
<1>5. \A op : Working(op)' <=> Working(op)
  BY <1>3 DEF Working
<1>6. Working("deploy") =>
          /\ disk'["source"] = disk["source"]
          /\ writer' \in {writer, "deploy"}
          /\ BeforeBackup => disk'["runtime"] = disk["runtime"]
          /\ ~BeforeBackup => disk'["backup"] = disk["backup"]
          /\ errand.todo \in Staged => disk'["staging"] = disk["staging"]
          /\ deployKind = "generated" => disk'["runtime"] = disk["runtime"]
  BY BeginEffects
<1>7. Working("rollback") => disk'["source"] = disk["source"] /\ writer' = "rollback"
  BY BeginEffects
<1>8. Working("fetch") =>
          /\ disk'["runtime"] = disk["runtime"] /\ disk'["backup"] = disk["backup"]
          /\ deployKind # "tiles" => writer' = writer
          /\ writer' \in {writer, "fetch"}
          /\ disk["source"] # Nothing => disk'["source"] # Nothing
  BY BeginEffects
<1>9. DeployType'
  <2>1. disk' \in [Places -> Contents]
    BY BeginEffects
  <2>2. writer' \in {"none", "deploy", "rollback", "fetch"}
    BY <1>1, <1>4, <1>6, <1>7, <1>8 DEF DeployType
  <2> QED
    BY <1>1, <1>2, <1>3, <2>1, <2>2 DEF DeployType
<1>10. ErrandType'
  BY <1>1, <1>2, <1>3, <1>4, <1>5 DEF ErrandType, DeployTodos, RollbackTodos, FetchTodos
<1>11. KindsKeepApart'
  BY <1>1, <1>2, <1>3, <1>4, <1>6, <1>7, <1>8 DEF KindsKeepApart, Working
<1>12. SourceIsThere'
  BY <1>1, <1>2, <1>4, <1>6, <1>7, <1>8 DEF SourceIsThere, FetchStage, Present
<1>13. FetchStage'
  BY <1>1, <1>2, <1>3, <1>5, <1>8 DEF FetchStage, Present
<1>14. DeployStage'
  BY <1>1, <1>2, <1>3, <1>4, <1>5, <1>6 DEF DeployStage, Present, BeforeBackup, Working
<1>15. RollbackStage'
  BY <1>5, <1>7 DEF RollbackStage
<1>16. KilledStage'
  BY <1>3, <1>4 DEF KilledStage
<1>17. StateMatchesRuntime'
  BY <1>1, <1>2, <1>4, <1>6, <1>7, <1>8
     DEF StateMatchesRuntime, DeployStage, KindsKeepApart, Present, Working
<1>18. WholeWhenDeployed'
  BY <1>1, <1>2, <1>4, <1>6, <1>7, <1>8 DEF WholeWhenDeployed, DeployStage, KindsKeepApart, Working
<1>19. UndoableWhenTorn'
  <2>1. CASE Working("deploy")
    BY <1>1, <1>2, <1>6, <2>1 DEF UndoableWhenTorn, DeployStage, Present, Working
  <2>2. CASE Working("rollback")
    BY <1>7, <2>2 DEF UndoableWhenTorn
  <2>3. CASE Working("fetch")
    BY <1>1, <1>2, <1>8, <2>3 DEF UndoableWhenTorn, KindsKeepApart, Present
  <2> QED
    BY <1>4, <2>1, <2>2, <2>3
<1> QED
  BY <1>9, <1>10, <1>11, <1>12, <1>13, <1>14, <1>15, <1>16, <1>17, <1>18, <1>19 DEF DeployInv

-----------------------------------------------------------------------------
(* An operation ends *)

LEMMA EndEffects ==
    ASSUME DeployInv, EndOperation
    PROVE  LET act == Head(errand.todo)
           IN  /\ errand.todo # <<>> /\ CanEnd(act) /\ act \in Operations
               /\ disk' \in [Places -> Contents]
               /\ errand' = [errand EXCEPT !.todo = Tail(errand.todo), !.begun = FALSE]
               /\ saved' = [saved EXCEPT !.backup = saved.backup \/ act.verb = "keep",
                                         !.stored = saved.stored \/ act.verb = "download"]
               /\ writer' = IF act.to = "runtime" THEN errand.op ELSE writer
               /\ UNCHANGED <<deployKind, fetches, deploys, mishaps, basis, assumed>>
               /\ disk'["source"] = IF act.to = "source" THEN Outcome(act) ELSE disk["source"]
               /\ disk'["runtime"] = IF act.to = "runtime" THEN Outcome(act) ELSE disk["runtime"]
               /\ disk'["backup"] = IF act.to = "backup" THEN Outcome(act) ELSE disk["backup"]
               /\ act # Install =>
                      disk'["staging"] = IF act.to = "staging" THEN Outcome(act)
                                         ELSE disk["staging"]
<1> DEFINE act == Head(errand.todo)
<1>1. /\ errand.begun /\ CanEnd(act)
      /\ disk' = [place \in DOMAIN disk |->
                     IF place = act.to THEN Outcome(act)
                     ELSE IF act.verb = "move" /\ place = act.from THEN Nothing
                     ELSE disk[place]]
      /\ errand' = [errand EXCEPT !.todo = Tail(errand.todo), !.begun = FALSE]
      /\ saved' = [saved EXCEPT !.backup = saved.backup \/ act.verb = "keep",
                                !.stored = saved.stored \/ act.verb = "download"]
      /\ writer' = IF act.to = "runtime" THEN errand.op ELSE writer
      /\ UNCHANGED <<deployKind, fetches, deploys, mishaps, basis, assumed>>
  BY DEF EndOperation, DeployInv, DeployType, Errands, SavedStates
<1>2. errand.todo # <<>>
  BY <1>1 DEF DeployInv, ErrandType
<1>3. act \in Operations
  BY <1>2, AtWork
<1>4. disk \in [Places -> Contents] /\ Outcome(act) \in Contents /\ Nothing \in Contents
  BY <1>3, Results, ContentsOfPlaces DEF DeployInv, DeployType
<1>5. act.to \in Places /\ act.from \in Places
  BY <1>3, PlacesOfActs
<1>6. disk' \in [Places -> Contents]
  <2>1. DOMAIN disk = Places /\ \A place \in Places : disk[place] \in Contents
    BY <1>4
  <2>2. \A place \in Places :
            (IF place = act.to THEN Outcome(act)
             ELSE IF act.verb = "move" /\ place = act.from THEN Nothing
             ELSE disk[place]) \in Contents
    BY <1>4, <2>1
  <2> QED
    BY <1>1, <2>1, <2>2
<1>7. act.verb = "move" => act = Install
  BY <1>3, Acts DEF Operations
<1>8. /\ act # Install => \A place \in Places :
             disk'[place] = IF place = act.to THEN Outcome(act) ELSE disk[place]
      /\ act = Install => \A place \in Places \ {"staging"} :
             disk'[place] = IF place = act.to THEN Outcome(act) ELSE disk[place]
  <2> HIDE DEF act
  <2>1. act = Install => act.from = "staging"
    BY Acts
  <2> QED
    BY <1>1, <1>4, <1>7, <2>1
<1> HIDE DEF act
<1>9. /\ disk'["source"] = IF act.to = "source" THEN Outcome(act) ELSE disk["source"]
      /\ disk'["runtime"] = IF act.to = "runtime" THEN Outcome(act) ELSE disk["runtime"]
      /\ disk'["backup"] = IF act.to = "backup" THEN Outcome(act) ELSE disk["backup"]
      /\ act # Install =>
             disk'["staging"] = IF act.to = "staging" THEN Outcome(act) ELSE disk["staging"]
  BY <1>8 DEF Places
<1> QED
  BY <1>1, <1>2, <1>3, <1>6, <1>9 DEF act

\* What the end of an operation means for the parts of the invariant, by job.
LEMMA EndOfDeployOperation ==
    ASSUME DeployInv, EndOperation, Working("deploy")
    PROVE  /\ disk'["source"] = disk["source"] /\ errand'.todo \in DeployTodos
           /\ saved'.stored = saved.stored
           /\ \/ /\ deployKind # "generated" /\ disk'["runtime"] = basis /\ writer' = writer
                 /\ disk["runtime"] = basis
                 /\ \/ errand'.todo \in BackingUp
                    \/ /\ errand'.todo \in Staging \cup {<<CopyIn>>}
                       /\ saved'.backup /\ disk'["backup"] = basis
              \/ /\ deployKind # "generated" /\ disk'["backup"] = disk["backup"]
                 /\ basis # Nothing => saved.backup /\ disk["backup"] = basis
                 /\ saved'.backup = saved.backup
                 /\ \/ errand'.todo \in Staging /\ disk'["runtime"] = disk["runtime"]
                       /\ writer' = writer
                    \/ /\ errand'.todo \in Staged /\ disk'["staging"] = disk["source"]
                       /\ \/ writer' = "deploy"
                          \/ writer' = writer /\ disk'["runtime"] = disk["runtime"]
                    \/ /\ errand'.todo = <<>> /\ disk'["runtime"] = disk["source"]
                       /\ writer' = "deploy"
              \/ /\ deployKind = "generated" /\ errand'.todo = <<>> /\ disk["source"].whole
                 /\ disk'["runtime"] = disk["source"] /\ writer' = "deploy"
                 /\ saved'.backup = saved.backup
<1> DEFINE act == Head(errand.todo)
<1>1. /\ errand.todo # <<>> /\ CanEnd(act)
      /\ errand' = [errand EXCEPT !.todo = Tail(errand.todo), !.begun = FALSE]
      /\ saved' = [saved EXCEPT !.backup = saved.backup \/ act.verb = "keep",
                                !.stored = saved.stored \/ act.verb = "download"]
      /\ writer' = IF act.to = "runtime" THEN errand.op ELSE writer
      /\ disk'["source"] = IF act.to = "source" THEN Outcome(act) ELSE disk["source"]
      /\ disk'["runtime"] = IF act.to = "runtime" THEN Outcome(act) ELSE disk["runtime"]
      /\ disk'["backup"] = IF act.to = "backup" THEN Outcome(act) ELSE disk["backup"]
      /\ act # Install =>
             disk'["staging"] = IF act.to = "staging" THEN Outcome(act) ELSE disk["staging"]
  BY EndEffects
<1>2. /\ errand.op = "deploy" /\ errand.todo \in DeployTodos \ {<<>>}
      /\ errand \in Errands /\ saved \in SavedStates
  BY <1>1 DEF DeployInv, ErrandType, Working, DeployType
<1>3. /\ errand'.todo = Tail(errand.todo)
      /\ saved'.backup = (saved.backup \/ act.verb = "keep")
      /\ saved'.stored = (saved.stored \/ act.verb = "download")
  BY <1>1, <1>2 DEF Errands, SavedStates
<1>4. /\ errand.todo \in BackingUp => disk["runtime"] = basis
      /\ errand.todo \notin BackingUp /\ deployKind # "generated" /\ basis # Nothing =>
             saved.backup /\ disk["backup"] = basis
      /\ errand.todo \in Staged => disk["staging"] = disk["source"]
  BY <1>2 DEF DeployInv, DeployStage, BeforeBackup, Working
<1>5. /\ Outcome(BackUp) = disk["runtime"] /\ Outcome(Stage) = disk["source"]
      /\ Outcome(Install) = disk["staging"] /\ Outcome(CopyIn) = disk["source"]
      /\ Outcome(Publish) = disk["source"]
  BY Results DEF DeployInv
<1>6. \/ /\ errand.todo \in BackingUp /\ deployKind # "generated"
         /\ \/ act = DropBackup /\ errand'.todo \in BackingUp
            \/ act = BackUp /\ errand'.todo \in Staging \cup {<<CopyIn>>}
      \/ /\ errand.todo \in Staging /\ deployKind # "generated"
         /\ \/ act = DropStaging /\ errand'.todo \in Staging
            \/ act = Stage /\ errand'.todo \in Staged
      \/ /\ errand.todo \in Staged /\ deployKind # "generated"
         /\ \/ act = DropRuntime /\ errand'.todo \in Staged
            \/ act = Install /\ errand'.todo = <<>>
      \/ /\ errand.todo = <<CopyIn>> /\ deployKind # "generated"
         /\ act = CopyIn /\ errand'.todo = <<>>
      \/ /\ errand.todo = <<Publish>> /\ deployKind = "generated"
         /\ act = Publish /\ errand'.todo = <<>>
  BY <1>2, <1>3, DeployPoints
<1>7. errand'.todo \in DeployTodos
  BY <1>6 DEF DeployTodos
<1>8. CanEnd(act) /\ act = Publish => disk["source"].whole
  BY Acts DEF CanEnd
<1> HIDE DEF act
<1>15. writer' = IF act.to = "runtime" THEN "deploy" ELSE writer
  BY <1>1, <1>2
<1>16. /\ disk'["source"] = IF act.to = "source" THEN Outcome(act) ELSE disk["source"]
       /\ disk'["runtime"] = IF act.to = "runtime" THEN Outcome(act) ELSE disk["runtime"]
       /\ disk'["backup"] = IF act.to = "backup" THEN Outcome(act) ELSE disk["backup"]
  BY <1>1
<1>17. act # Install => disk'["staging"] = IF act.to = "staging" THEN Outcome(act) ELSE disk["staging"]
  BY <1>1
<1>18. saved.backup \in BOOLEAN /\ saved.stored \in BOOLEAN
  BY <1>2 DEF SavedStates
<1>9. disk'["source"] = disk["source"] /\ saved'.stored = saved.stored
  <2>1. act.to # "source" /\ act.verb # "download"
    BY <1>6, Acts
  <2> QED
    BY <1>3, <1>16, <1>18, <2>1
<1>10. CASE errand.todo \in BackingUp /\ deployKind # "generated"
  <2>1. /\ disk["runtime"] = basis
        /\ \/ act = DropBackup /\ errand'.todo \in BackingUp
           \/ act = BackUp /\ errand'.todo \in Staging \cup {<<CopyIn>>}
    BY <1>4, <1>6, <1>10, PointsDiffer
  <2>2. disk'["runtime"] = basis /\ writer' = writer
    BY <1>15, <1>16, <2>1, Acts
  <2>3. act = BackUp => saved'.backup /\ disk'["backup"] = basis
    <3>1. BackUp.verb = "keep" /\ BackUp.to = "backup"
      BY Acts
    <3> QED
      BY <1>3, <1>5, <1>16, <1>18, <2>1, <3>1
  <2> QED
    BY <1>7, <1>9, <1>10, <2>1, <2>2, <2>3
<1>11. CASE errand.todo \in Staging /\ deployKind # "generated"
  <2>1. \/ act = DropStaging /\ errand'.todo \in Staging
        \/ act = Stage /\ errand'.todo \in Staged
    BY <1>6, <1>11, PointsDiffer
  <2>2. /\ disk'["runtime"] = disk["runtime"] /\ writer' = writer
        /\ disk'["backup"] = disk["backup"]
    BY <1>15, <1>16, <2>1, Acts
  <2>3. saved'.backup = saved.backup
    BY <1>3, <1>18, <2>1, Acts
  <2>4. act = Stage => disk'["staging"] = disk["source"]
    BY <1>5, <1>17, Acts
  <2>5. basis # Nothing => saved.backup /\ disk["backup"] = basis
    BY <1>4, <1>11, PointsDiffer
  <2> QED
    BY <1>7, <1>9, <1>11, <2>1, <2>2, <2>3, <2>4, <2>5
<1>12. CASE errand.todo \in Staged /\ deployKind # "generated"
  <2>1. \/ act = DropRuntime /\ errand'.todo \in Staged
        \/ act = Install /\ errand'.todo = <<>>
    BY <1>6, <1>12, PointsDiffer
  <2>2. writer' = "deploy" /\ disk'["backup"] = disk["backup"]
    BY <1>15, <1>16, <2>1, Acts
  <2>3. saved'.backup = saved.backup
    BY <1>3, <1>18, <2>1, Acts
  <2>4. act = DropRuntime => disk'["staging"] = disk["source"]
    BY <1>4, <1>12, <1>17, Acts
  <2>5. act = Install => disk'["runtime"] = disk["source"]
    <3>1. Install.to = "runtime"
      BY Acts
    <3> QED
      BY <1>4, <1>5, <1>12, <1>16, <3>1
  <2>6. basis # Nothing => saved.backup /\ disk["backup"] = basis
    BY <1>4, <1>12, PointsDiffer
  <2> QED
    BY <1>7, <1>9, <1>12, <2>1, <2>2, <2>3, <2>4, <2>5, <2>6
<1>13. CASE errand.todo = <<CopyIn>> /\ deployKind # "generated"
  <2>1. act = CopyIn /\ errand'.todo = <<>>
    BY <1>6, <1>13, PointsDiffer
  <2>2. /\ writer' = "deploy" /\ disk'["backup"] = disk["backup"]
        /\ disk'["runtime"] = disk["source"]
    BY <1>5, <1>15, <1>16, <2>1, Acts
  <2>3. saved'.backup = saved.backup
    BY <1>3, <1>18, <2>1, Acts
  <2>4. basis # Nothing => saved.backup /\ disk["backup"] = basis
    BY <1>4, <1>13, PointsDiffer
  <2> QED
    BY <1>7, <1>9, <1>13, <2>1, <2>2, <2>3, <2>4
<1>14. CASE deployKind = "generated"
  <2>1. act = Publish /\ errand'.todo = <<>>
    BY <1>6, <1>14
  <2>2. writer' = "deploy" /\ disk'["runtime"] = disk["source"] /\ disk["source"].whole
    BY <1>1, <1>5, <1>8, <1>15, <1>16, <2>1, Acts
  <2>3. saved'.backup = saved.backup
    BY <1>3, <1>18, <2>1, Acts
  <2> QED
    BY <1>7, <1>9, <1>14, <2>1, <2>2, <2>3
<1> QED
  BY <1>6, <1>10, <1>11, <1>12, <1>13, <1>14

LEMMA EndOfRollbackOperation ==
    ASSUME DeployInv, EndOperation, Working("rollback")
    PROVE  /\ disk'["source"] = disk["source"] /\ writer' = "rollback"
           /\ errand'.todo \in RollbackTodos
           /\ saved'.stored = saved.stored
<1> DEFINE act == Head(errand.todo)
<1>1. /\ errand.todo # <<>>
      /\ errand' = [errand EXCEPT !.todo = Tail(errand.todo), !.begun = FALSE]
      /\ saved' = [saved EXCEPT !.backup = saved.backup \/ act.verb = "keep",
                                !.stored = saved.stored \/ act.verb = "download"]
      /\ writer' = IF act.to = "runtime" THEN errand.op ELSE writer
      /\ disk'["source"] = IF act.to = "source" THEN Outcome(act) ELSE disk["source"]
  BY EndEffects
<1>2. /\ errand.op = "rollback" /\ errand.todo \in RollbackTodos \ {<<>>}
      /\ errand \in Errands /\ saved \in SavedStates /\ errand.begun
  BY <1>1 DEF DeployInv, ErrandType, Working, DeployType, EndOperation
<1>3. act \in {DropRuntime, Restore, DropBackup} /\ Tail(errand.todo) \in RollbackTodos
  BY <1>2, RollbackPoints
<1>4. writer = "rollback"
  BY <1>2 DEF DeployInv, RollbackStage
<1> HIDE DEF act
<1> QED
  BY <1>1, <1>2, <1>3, <1>4, Acts DEF Errands, SavedStates

LEMMA EndOfFetchOperation ==
    ASSUME DeployInv, EndOperation, Working("fetch")
    PROVE  /\ errand'.todo \in FetchTodos
           /\ disk'["backup"] = disk["backup"] /\ saved'.backup = saved.backup
           /\ disk["source"] # Nothing => disk'["source"] # Nothing
           /\ deployKind # "tiles" =>
                  /\ errand'.todo = <<>> /\ writer' = writer
                  /\ disk'["runtime"] = disk["runtime"]
                  /\ disk'["source"] # Nothing /\ disk'["source"].whole
                  /\ saved'.stored = saved.stored
           /\ deployKind = "tiles" =>
                  /\ errand'.todo # <<Download, DropStaging, Build, Install>>
                  /\ writer' \in {writer, "fetch"} /\ disk'["runtime"].whole
                  /\ disk'["source"] # Nothing
<1> DEFINE act == Head(errand.todo)
<1>1. /\ errand.todo # <<>> /\ CanEnd(act)
      /\ errand' = [errand EXCEPT !.todo = Tail(errand.todo), !.begun = FALSE]
      /\ saved' = [saved EXCEPT !.backup = saved.backup \/ act.verb = "keep",
                                !.stored = saved.stored \/ act.verb = "download"]
      /\ writer' = IF act.to = "runtime" THEN errand.op ELSE writer
      /\ disk'["source"] = IF act.to = "source" THEN Outcome(act) ELSE disk["source"]
      /\ disk'["runtime"] = IF act.to = "runtime" THEN Outcome(act) ELSE disk["runtime"]
      /\ disk'["backup"] = IF act.to = "backup" THEN Outcome(act) ELSE disk["backup"]
  BY EndEffects
<1>2. /\ errand.op = "fetch" /\ errand.todo \in FetchTodos \ {<<>>}
      /\ errand \in Errands /\ saved \in SavedStates /\ fetches \in Nat \ {0}
  BY <1>1 DEF DeployInv, ErrandType, Working, DeployType
<1>3. /\ errand'.todo = Tail(errand.todo)
      /\ saved'.backup = (saved.backup \/ act.verb = "keep")
      /\ saved'.stored = (saved.stored \/ act.verb = "download")
  BY <1>1, <1>2 DEF Errands, SavedStates
<1>4. /\ errand'.todo \in FetchTodos
      /\ deployKind # "tiles" => act = Fetch /\ errand'.todo = <<>>
      /\ deployKind = "tiles" =>
             /\ act \in {Download, DropStaging, Build, Install}
             /\ errand'.todo # <<Download, DropStaging, Build, Install>>
             /\ act = Download => errand.todo = <<Download, DropStaging, Build, Install>>
  BY <1>2, <1>3, FetchPoints
<1>5. /\ Outcome(Fetch) = [made |-> fetches, whole |-> TRUE]
      /\ Outcome(Download) = [made |-> fetches, whole |-> TRUE]
      /\ Outcome(Install) = disk["staging"]
  BY Results DEF DeployInv
<1>6. [made |-> fetches, whole |-> TRUE] # Nothing /\ [made |-> fetches, whole |-> TRUE].whole
  BY <1>2 DEF Nothing
<1>7. CanEnd(act) /\ act = Install /\ deployKind = "tiles" => disk["staging"].whole
  BY Acts DEF CanEnd
<1>8. deployKind = "tiles" => disk["runtime"].whole
  BY DEF DeployInv, KindsKeepApart
<1>9. deployKind = "tiles" /\ act # Download => disk["source"] # Nothing
  <2>1. SUFFICES ASSUME deployKind = "tiles", disk["source"] = Nothing PROVE act = Download
    OBVIOUS
  <2>2. errand.todo = <<Download, DropStaging, Build, Install>>
    BY <2>1 DEF DeployInv, FetchStage, Present
  <2> QED
    BY <2>2, HeadsAndTails
<1> HIDE DEF act
<1>10. CASE deployKind = "tiles"
  <2>1. saved'.backup = saved.backup /\ disk'["backup"] = disk["backup"]
    BY <1>1, <1>2, <1>3, <1>4, <1>10, Acts DEF SavedStates
  <2>2. writer' \in {writer, "fetch"}
    BY <1>1, <1>2
  <2>3. disk'["source"] # Nothing
    <3>1. Download.to = "source" /\ (act # Download => act.to # "source")
      BY <1>4, <1>10, Acts
    <3> QED
      BY <1>1, <1>5, <1>6, <1>9, <1>10, <3>1
  <2>4. disk'["runtime"].whole
    <3>1. act # Install => act.to # "runtime"
      BY <1>4, <1>10, Acts
    <3> QED
      BY <1>1, <1>5, <1>7, <1>8, <1>10, <3>1
  <2> QED
    BY <1>4, <1>10, <2>1, <2>2, <2>3, <2>4
<1>11. CASE deployKind # "tiles"
  <2>1. act = Fetch /\ errand'.todo = <<>>
    BY <1>4, <1>11
  <2>2. saved'.backup = saved.backup /\ saved'.stored = saved.stored
    <3>1. act.verb # "keep" /\ act.verb # "download"
      BY <2>1, Acts
    <3>2. saved.backup \in BOOLEAN /\ saved.stored \in BOOLEAN
      BY <1>2 DEF SavedStates
    <3> QED
      BY <1>3, <3>1, <3>2
  <2>3. /\ disk'["runtime"] = disk["runtime"] /\ disk'["backup"] = disk["backup"]
        /\ disk'["source"] = [made |-> fetches, whole |-> TRUE] /\ writer' = writer
    BY <1>1, <1>5, <2>1, Acts
  <2>4. disk'["source"] # Nothing /\ disk'["source"].whole
    BY <1>6, <2>3
  <2> QED
    BY <1>4, <1>11, <2>1, <2>2, <2>3, <2>4
<1> QED
  BY <1>10, <1>11

LEMMA EndKeeps == DeployInv /\ EndOperation => DeployInv'
<1> SUFFICES ASSUME DeployInv, EndOperation PROVE DeployInv'
  OBVIOUS
<1>1. /\ DeployType /\ ErrandType /\ KindsKeepApart /\ SourceIsThere /\ FetchStage /\ DeployStage
      /\ RollbackStage /\ KilledStage /\ StateMatchesRuntime /\ WholeWhenDeployed
      /\ UndoableWhenTorn
  BY DEF DeployInv
<1>2. /\ errand.todo # <<>> /\ UNCHANGED <<deployKind, fetches, basis, assumed>>
      /\ disk' \in [Places -> Contents]
      /\ errand' = [errand EXCEPT !.todo = Tail(errand.todo), !.begun = FALSE]
      /\ saved' = [saved EXCEPT
             !.backup = saved.backup \/ Head(errand.todo).verb = "keep",
             !.stored = saved.stored \/ Head(errand.todo).verb = "download"]
  BY EndEffects
<1>3. errand \in Errands /\ saved \in SavedStates /\ Tail(errand.todo) \in Seq(Operations)
  BY <1>1, <1>2, AtWork DEF DeployType
<1>4. /\ errand'.op = errand.op /\ errand'.step = errand.step /\ ~errand'.begun
      /\ errand' \in Errands
  BY <1>2, <1>3 DEF Errands
<1>5. /\ saved'.deploy = saved.deploy /\ saved'.valid = saved.valid
      /\ saved'.runtime = saved.runtime
      /\ saved' \in SavedStates
  BY <1>2, <1>3 DEF SavedStates
<1>6. /\ Working("deploy") \/ Working("rollback") \/ Working("fetch")
      /\ errand.op \notin {"none", "killed"} /\ errand.step # "accepted"
  BY <1>2, AtWork DEF Working
<1>7. \A op : Working(op)' <=> Working(op)
  BY <1>4 DEF Working
<1>8. CASE Working("deploy")
  <2>1. /\ disk'["source"] = disk["source"] /\ errand'.todo \in DeployTodos
        /\ saved'.stored = saved.stored
    BY <1>8, EndOfDeployOperation
  <2>2. errand.op = "deploy" /\ errand.step = "deploy" /\ deployKind # "tiles"
    BY <1>1, <1>8 DEF ErrandType, KindsKeepApart, Working
  <2>3. saved.deploy = "deploying" /\ saved.valid = "passed" /\ Present("source")
    BY <1>1, <2>2 DEF DeployStage
  <2>4. \/ /\ deployKind # "generated" /\ disk'["runtime"] = basis /\ writer' = writer
           /\ disk["runtime"] = basis
           /\ \/ errand'.todo \in BackingUp
              \/ /\ errand'.todo \in Staging \cup {<<CopyIn>>}
                 /\ saved'.backup /\ disk'["backup"] = basis
        \/ /\ deployKind # "generated" /\ disk'["backup"] = disk["backup"]
           /\ basis # Nothing => saved.backup /\ disk["backup"] = basis
           /\ saved'.backup = saved.backup
           /\ \/ errand'.todo \in Staging /\ disk'["runtime"] = disk["runtime"]
                 /\ writer' = writer
              \/ /\ errand'.todo \in Staged /\ disk'["staging"] = disk["source"]
                 /\ \/ writer' = "deploy"
                    \/ writer' = writer /\ disk'["runtime"] = disk["runtime"]
              \/ /\ errand'.todo = <<>> /\ disk'["runtime"] = disk["source"]
                 /\ writer' = "deploy"
        \/ /\ deployKind = "generated" /\ errand'.todo = <<>> /\ disk["source"].whole
           /\ disk'["runtime"] = disk["source"] /\ writer' = "deploy"
           /\ saved'.backup = saved.backup
    BY <1>8, EndOfDeployOperation
  <2>5. writer' \in {writer, "deploy"}
    BY <2>4
  <2>6. DeployType'
    BY <1>1, <1>2, <1>4, <1>5, <2>5 DEF DeployType
  <2>7. ErrandType' /\ FetchStage' /\ RollbackStage' /\ KilledStage'
    <3>1. DeployTodos' = DeployTodos
      BY <1>2 DEF DeployTodos
    <3>2. errand'.op = "deploy" /\ errand'.step = "deploy" /\ ~errand'.begun
      BY <1>4, <2>2
    <3>3. ErrandType'
      BY <2>1, <3>1, <3>2 DEF ErrandType, Working
    <3> QED
      BY <3>2, <3>3 DEF FetchStage, RollbackStage, KilledStage, Working
  <2>8. KindsKeepApart'
    BY <1>1, <1>2, <1>4, <2>2, <2>4 DEF KindsKeepApart
  <2>9. SourceIsThere'
    BY <1>1, <1>2, <1>5, <2>1 DEF SourceIsThere, Present
  <2>10. DeployStage'
    <3>1. ~(errand'.todo \in BackingUp) /\ deployKind # "generated" /\ basis # Nothing =>
              saved'.backup /\ disk'["backup"] = basis
      BY <2>4
    <3>2. errand'.todo \in BackingUp => disk'["runtime"] = basis
      BY <2>4, PointsDiffer
    <3>3. errand'.todo \in Staged => disk'["staging"] = disk'["source"]
      BY <2>1, <2>4, PointsDiffer
    <3>4. errand'.todo = <<>> => disk'["runtime"] = disk'["source"]
      BY <2>1, <2>4, PointsDiffer
    <3> QED
      BY <1>2, <1>5, <2>1, <2>3, <3>1, <3>2, <3>3, <3>4 DEF DeployStage, BeforeBackup, Present
  <2>11. StateMatchesRuntime' /\ WholeWhenDeployed'
    BY <1>1, <1>5, <2>3 DEF StateMatchesRuntime, WholeWhenDeployed
  <2>12. UndoableWhenTorn'
    <3> SUFFICES ASSUME deployKind # "generated", basis.whole, basis # Nothing,
                        ~disk'["runtime"].whole \/ disk'["runtime"] = Nothing
                 PROVE  saved'.backup /\ disk'["backup"] = basis
      BY <1>2 DEF UndoableWhenTorn, Present
    <3> QED
      BY <2>4
  <2> QED
    BY <2>6, <2>7, <2>8, <2>9, <2>10, <2>11, <2>12 DEF DeployInv
<1>9. CASE Working("rollback")
  <2>1. /\ disk'["source"] = disk["source"] /\ writer' = "rollback"
        /\ errand'.todo \in RollbackTodos
        /\ saved'.stored = saved.stored
    BY <1>9, EndOfRollbackOperation
  <2>2. /\ errand.op = "rollback" /\ errand.step = "rollback"
        /\ deployKind \notin {"tiles", "generated"}
    BY <1>1, <1>9 DEF ErrandType, KindsKeepApart, Working
  <2>3. DeployType'
    BY <1>1, <1>2, <1>4, <1>5, <2>1 DEF DeployType
  <2>4. ErrandType' /\ FetchStage' /\ DeployStage' /\ RollbackStage' /\ KilledStage'
    <3>1. RollbackTodos' = RollbackTodos
      BY <1>2 DEF RollbackTodos
    <3>2. errand'.op = "rollback" /\ errand'.step = "rollback" /\ ~errand'.begun
      BY <1>4, <2>2
    <3>3. ErrandType'
      BY <2>1, <3>1, <3>2 DEF ErrandType, Working
    <3> QED
      BY <2>1, <3>2, <3>3 DEF FetchStage, DeployStage, RollbackStage, KilledStage, Working
  <2>5. KindsKeepApart'
    BY <1>2, <1>4, <2>2 DEF KindsKeepApart
  <2>6. SourceIsThere'
    BY <1>1, <1>2, <1>5, <2>1 DEF SourceIsThere, Present
  <2>7. StateMatchesRuntime' /\ WholeWhenDeployed' /\ UndoableWhenTorn'
    BY <1>1, <1>5, <2>1 DEF StateMatchesRuntime, WholeWhenDeployed, UndoableWhenTorn
  <2> QED
    BY <2>3, <2>4, <2>5, <2>6, <2>7 DEF DeployInv
<1>10. CASE Working("fetch")
  <2>1. /\ errand'.todo \in FetchTodos
        /\ disk'["backup"] = disk["backup"] /\ saved'.backup = saved.backup
        /\ disk["source"] # Nothing => disk'["source"] # Nothing
    BY <1>10, EndOfFetchOperation
  <2>2. deployKind # "tiles" =>
            /\ errand'.todo = <<>> /\ writer' = writer
            /\ disk'["runtime"] = disk["runtime"]
            /\ disk'["source"] # Nothing /\ disk'["source"].whole
            /\ saved'.stored = saved.stored
    BY <1>10, EndOfFetchOperation
  <2>3. deployKind = "tiles" =>
            /\ errand'.todo # <<Download, DropStaging, Build, Install>>
            /\ writer' \in {writer, "fetch"} /\ disk'["runtime"].whole
            /\ disk'["source"] # Nothing
    BY <1>10, EndOfFetchOperation
  <2>4. errand.op = "fetch" /\ errand.step \in {"validate", "download"}
    BY <1>1, <1>10 DEF ErrandType, Working
  <2>5. DeployType'
    BY <1>1, <1>2, <1>4, <1>5, <2>2, <2>3 DEF DeployType
  <2>6. ErrandType' /\ DeployStage' /\ RollbackStage' /\ KilledStage'
    BY <1>1, <1>2, <1>4, <1>6, <1>7, <1>10, <2>1, <2>4
       DEF ErrandType, DeployStage, RollbackStage, KilledStage, Working, FetchTodos
  <2>7. FetchStage'
    BY <1>1, <1>2, <1>4, <1>5, <1>7, <1>10, <2>2, <2>3 DEF FetchStage, Present
  <2>8. KindsKeepApart'
    BY <1>1, <1>2, <1>4, <2>1, <2>2, <2>3 DEF KindsKeepApart
  <2>9. SourceIsThere'
    BY <1>1, <1>2, <1>5, <2>2, <2>3 DEF SourceIsThere, Present
  <2>10. StateMatchesRuntime' /\ WholeWhenDeployed' /\ UndoableWhenTorn'
    <3>1. CASE deployKind = "tiles"
      <4>1. writer' # "deploy" /\ disk'["runtime"].whole
        BY <1>1, <2>3, <3>1 DEF KindsKeepApart
      <4> QED
        BY <1>1, <1>5, <4>1 DEF StateMatchesRuntime, WholeWhenDeployed, UndoableWhenTorn
    <3>2. CASE deployKind # "tiles"
      BY <1>1, <1>2, <1>5, <2>1, <2>2, <3>2
         DEF StateMatchesRuntime, WholeWhenDeployed, UndoableWhenTorn, Present
    <3> QED
      BY <3>1, <3>2
  <2> QED
    BY <2>5, <2>6, <2>7, <2>8, <2>9, <2>10 DEF DeployInv
<1> QED
  BY <1>6, <1>8, <1>9, <1>10

-----------------------------------------------------------------------------
(* Requests, failures and kills *)

\* No job is left that works on the disk, and the state says no more than it did, or
\* than is there.
LEMMA NotWorkingKeeps ==
    ASSUME DeployInv,
           UNCHANGED <<deployKind, basis, writer>>,
           disk' \in [Places -> Contents],
           \A place \in {"runtime", "backup"} : disk'[place] = disk[place],
           fetches' \in Nat, errand' \in Errands, saved' \in SavedStates,
           assumed' \subseteq {"source", "runtime"}, assumed \subseteq assumed',
           errand'.todo = <<>>, ~errand'.begun,
           errand'.op = "none" => errand' = NoErrand,
           errand'.op \in {"none", "killed"} \/ errand'.step = "accepted",
           errand'.op = "fetch" => fetches' # 0,
           errand'.op = "deploy" =>
               /\ saved'.deploy = "deploying" /\ saved'.valid = "passed"
               /\ disk'["source"] # Nothing /\ deployKind # "tiles",
           errand'.op = "rollback" => deployKind \notin {"tiles", "generated"},
           errand'.op = "killed" /\ errand'.step = "validate"
               /\ deployKind \in {"file", "directory"} => saved'.valid = "running",
           saved'.backup => saved.backup, writer = "deploy" => saved'.backup = saved.backup,
           saved'.deploy = "deployed" => saved.deploy = "deployed" /\ saved'.runtime,
           saved'.stored /\ saved'.valid = "passed" => disk'["source"] # Nothing,
           deployKind \in {"file", "directory"} /\ saved'.valid = "passed"
               /\ "source" \notin assumed' => disk'["source"].whole
    PROVE  DeployInv'
<1>1. /\ DeployType /\ KindsKeepApart /\ StateMatchesRuntime /\ WholeWhenDeployed
      /\ UndoableWhenTorn
  BY DEF DeployInv
<1>2. ~Working("deploy")' /\ ~Working("rollback")' /\ ~Working("fetch")'
  BY DEF Working
<1>3. DeployType'
  BY <1>1 DEF DeployType
<1>4. ErrandType'
  BY <1>2 DEF ErrandType
<1>5. KindsKeepApart'
  BY <1>1 DEF KindsKeepApart
<1>6. SourceIsThere'
  BY DEF SourceIsThere, Present
<1>7. FetchStage' /\ DeployStage' /\ RollbackStage' /\ KilledStage'
  BY <1>2 DEF FetchStage, DeployStage, RollbackStage, KilledStage, Present
<1>8. StateMatchesRuntime'
  BY <1>1 DEF StateMatchesRuntime, Present
<1>9. WholeWhenDeployed'
  BY <1>1 DEF WholeWhenDeployed
<1>10. UndoableWhenTorn'
  BY <1>1 DEF UndoableWhenTorn, Present
<1> QED
  BY <1>3, <1>4, <1>5, <1>6, <1>7, <1>8, <1>9, <1>10 DEF DeployInv

LEMMA NewErrands ==
    /\ NoErrand \in Errands /\ NoErrand.op = "none" /\ NoErrand.todo = <<>> /\ ~NoErrand.begun
    /\ NoErrand.step = "completed"
    /\ \A op \in {"deploy", "rollback", "fetch"} :
           /\ Accepted(op) \in Errands /\ Accepted(op).op = op /\ Accepted(op).todo = <<>>
           /\ ~Accepted(op).begun /\ Accepted(op).step = "accepted"
<1>1. /\ NoErrand \in Errands /\ NoErrand.op = "none" /\ NoErrand.todo = <<>> /\ ~NoErrand.begun
      /\ NoErrand.step = "completed"
  <2>1. <<>> \in Seq(Operations)
    OBVIOUS
  <2> QED
    BY <2>1 DEF NoErrand, Errands
<1> QED
  BY <1>1 DEF Accepted, Errands

\* A state that is inferred again says that nothing is deployed, and names no backup.
LEMMA Inferred ==
    ASSUME DeployInv, IsStale
    PROVE  /\ InferredState \in SavedStates /\ ~InferredState.backup
           /\ InferredState.deploy \in {"not_deployed", "deployable"}
           /\ InferredState.stored /\ InferredState.valid = "passed" => Present("source")
           /\ writer # "deploy"
<1>1. /\ saved.deploy = "deployed" /\ saved.runtime /\ ~Present("runtime") /\ writer # "deploy"
  BY DEF DeployInv, StateMatchesRuntime, IsStale
<1> DEFINE validated == IF deployKind \in {"roads", "tiles"} THEN Present("runtime")
                        ELSE Present("source")
<1>2. InferredState =
          [deploy |-> IF validated THEN "deployable" ELSE "not_deployed",
           stored |-> Present("source") \/ validated,
           runtime |-> FALSE, backup |-> FALSE,
           valid |-> IF deployKind \in {"roads", "tiles"} \/ validated THEN "passed"
                     ELSE "not_started"]
  BY <1>1 DEF InferredState
<1>3. validated => Present("source")
  BY <1>1
<1>4. validated \in BOOLEAN /\ Present("source") \in BOOLEAN
  BY DEF Present
<1> HIDE DEF validated
<1>5. InferredState \in SavedStates
  BY <1>2, <1>4 DEF SavedStates
<1>6. /\ InferredState.deploy \in {"not_deployed", "deployable"}
      /\ InferredState.backup = FALSE
      /\ InferredState.stored = (Present("source") \/ validated)
  BY <1>2
<1> QED
  BY <1>1, <1>3, <1>5, <1>6

LEMMA VisitKeeps == DeployInv /\ Visit => DeployInv'
<1> SUFFICES ASSUME DeployInv, Visit PROVE DeployInv'
  OBVIOUS
<1>1. /\ IsStale /\ errand' = NoErrand /\ saved' = InferredState
      /\ assumed' = assumed \cup {"source"}
      /\ UNCHANGED <<deployKind, disk, fetches, basis, writer>>
  BY DEF Visit, Unoccupied
<1>2. DeployType
  BY DEF DeployInv
<1> QED
  BY <1>1, <1>2, Inferred, NewErrands, NotWorkingKeeps DEF DeployType, Present

LEMMA Deployable ==
    ASSUME NEW s \in SavedStates
    PROVE  /\ WithDeployable(s) \in SavedStates
           /\ WithDeployable(s).stored = s.stored /\ WithDeployable(s).runtime = s.runtime
           /\ WithDeployable(s).backup = s.backup /\ WithDeployable(s).valid = s.valid
           /\ WithDeployable(s).deploy \in {s.deploy, "deployable"}
  BY DEF WithDeployable, SavedStates

\* The state a request starts from.
LEMMA Loaded ==
    ASSUME DeployInv
    PROVE  /\ LoadedState \in SavedStates
           /\ LoadedState.backup => saved.backup /\ LoadedState = saved
           /\ writer = "deploy" => LoadedState = saved
           /\ LoadedState.deploy = "deployed" => saved.deploy = "deployed" /\ LoadedState.runtime
           /\ LoadedState.stored /\ LoadedState.valid = "passed" => Present("source")
           /\ ~IsStale => LoadedState = saved
<1>1. /\ saved \in SavedStates
      /\ saved.deploy = "deployed" => saved.runtime
      /\ saved.stored /\ saved.valid = "passed" => Present("source")
  BY DEF DeployInv, DeployType, StateMatchesRuntime, SourceIsThere
<1>2. CASE IsStale
  BY <1>1, <1>2, Inferred DEF LoadedState
<1>3. CASE ~IsStale
  BY <1>1, <1>3 DEF LoadedState
<1> QED
  BY <1>2, <1>3

LEMMA RequestDeployKeeps == DeployInv /\ RequestFileDeploy => DeployInv'
<1> SUFFICES ASSUME DeployInv, RequestFileDeploy PROVE DeployInv'
  OBVIOUS
<1> DEFINE s == WithDeployable(LoadedState)
<1>1. /\ deployKind # "tiles" /\ IsDeployable(s) /\ saved' = [s EXCEPT !.deploy = "deploying"]
      /\ errand' = Accepted("deploy")
      /\ assumed' = IF IsStale THEN assumed \cup {"source"} ELSE assumed
      /\ UNCHANGED <<deployKind, disk, fetches, basis, writer>>
  BY DEF RequestFileDeploy
<1>2. /\ DeployType /\ LoadedState \in SavedStates
      /\ SourceIsThere
  BY Loaded DEF DeployInv
<1>3. /\ s \in SavedStates /\ s.stored = LoadedState.stored /\ s.runtime = LoadedState.runtime
      /\ s.backup = LoadedState.backup /\ s.valid = LoadedState.valid
  BY <1>2, Deployable
<1>4. s.stored /\ s.valid = "passed"
  BY <1>1 DEF IsDeployable
<1>5. Present("source")
  BY <1>3, <1>4, Loaded
<1> HIDE DEF s
<1>6. /\ saved' \in SavedStates /\ saved'.deploy = "deploying" /\ saved'.valid = "passed"
      /\ saved'.backup = LoadedState.backup
  BY <1>1, <1>3, <1>4 DEF SavedStates
<1>7. deployKind \in {"file", "directory"} /\ "source" \notin assumed' => disk["source"].whole
  <2> SUFFICES ASSUME deployKind \in {"file", "directory"}, "source" \notin assumed'
               PROVE  disk["source"].whole
    OBVIOUS
  <2>1. ~IsStale /\ "source" \notin assumed
    BY <1>1
  <2>2. saved.valid = "passed"
    BY <1>3, <1>4, <2>1, Loaded
  <2> QED
    BY <1>2, <2>1, <2>2 DEF SourceIsThere
<1>8. assumed' \subseteq {"source", "runtime"} /\ assumed \subseteq assumed'
  BY <1>1, <1>2 DEF DeployType
<1>9. /\ saved'.backup => saved.backup
      /\ writer = "deploy" => saved'.backup = saved.backup
  BY <1>6, Loaded
<1>10. /\ errand'.todo = <<>> /\ ~errand'.begun /\ errand'.op = "deploy"
       /\ errand'.step = "accepted"
       /\ errand' \in Errands
  BY <1>1, NewErrands
<1> QED
  BY <1>1, <1>2, <1>5, <1>6, <1>7, <1>8, <1>9, <1>10, NotWorkingKeeps DEF DeployType, Present

LEMMA RequestRollbackKeeps == DeployInv /\ RequestRollback => DeployInv'
<1> SUFFICES ASSUME DeployInv, RequestRollback PROVE DeployInv'
  OBVIOUS
<1>1. /\ deployKind # "generated" /\ LoadedState.backup /\ saved' = LoadedState
      /\ errand' = Accepted("rollback")
      /\ UNCHANGED <<deployKind, disk, fetches, basis, writer, assumed>>
  BY DEF RequestRollback
<1>2. DeployType /\ KindsKeepApart /\ SourceIsThere /\ StateMatchesRuntime
  BY DEF DeployInv
<1>3. saved' = saved /\ saved.backup
  BY <1>1, Loaded
<1>4. deployKind # "tiles"
  BY <1>2, <1>3 DEF KindsKeepApart
<1>5. /\ errand'.todo = <<>> /\ ~errand'.begun /\ errand'.op = "rollback"
      /\ errand'.step = "accepted" /\ errand' \in Errands
  BY <1>1, NewErrands
<1> QED
  BY <1>1, <1>2, <1>3, <1>4, <1>5, NotWorkingKeeps
     DEF DeployType, SourceIsThere, StateMatchesRuntime, Present

LEMMA RequestFetchKeeps == DeployInv /\ RequestFetch => DeployInv'
<1> SUFFICES ASSUME DeployInv, RequestFetch PROVE DeployInv'
  OBVIOUS
<1>1. /\ saved' = LoadedState /\ errand' = Accepted("fetch") /\ fetches' = fetches + 1
      /\ assumed' = IF IsStale THEN assumed \cup {"source"} ELSE assumed
      /\ UNCHANGED <<deployKind, disk, basis, writer>>
  BY DEF RequestFetch
<1>2. DeployType /\ SourceIsThere
  BY DEF DeployInv
<1>3. /\ errand'.todo = <<>> /\ ~errand'.begun /\ errand'.op = "fetch"
      /\ errand'.step = "accepted" /\ errand' \in Errands
  BY <1>1, NewErrands
<1>4. fetches' \in Nat /\ fetches' # 0
  BY <1>1, <1>2 DEF DeployType
<1>5. deployKind \in {"file", "directory"} /\ saved'.valid = "passed" /\ "source" \notin assumed' =>
          disk["source"].whole
  <2> SUFFICES ASSUME deployKind \in {"file", "directory"}, saved'.valid = "passed",
                      "source" \notin assumed'
               PROVE  disk["source"].whole
    OBVIOUS
  <2>1. ~IsStale /\ "source" \notin assumed
    BY <1>1
  <2>2. saved.valid = "passed"
    BY <1>1, <2>1, Loaded
  <2> QED
    BY <1>2, <2>1, <2>2 DEF SourceIsThere
<1>6. assumed' \subseteq {"source", "runtime"} /\ assumed \subseteq assumed'
  BY <1>1, <1>2 DEF DeployType
<1>7. /\ saved' \in SavedStates
      /\ saved'.backup => saved.backup
      /\ writer = "deploy" => saved'.backup = saved.backup
      /\ saved'.deploy = "deployed" => saved.deploy = "deployed" /\ saved'.runtime
      /\ saved'.stored /\ saved'.valid = "passed" => disk["source"] # Nothing
  BY <1>1, Loaded DEF Present
<1> QED
  BY <1>1, <1>2, <1>3, <1>4, <1>5, <1>6, <1>7, NotWorkingKeeps DEF DeployType

LEMMA FailErrandKeeps == DeployInv /\ FailErrand => DeployInv'
<1> SUFFICES ASSUME DeployInv, FailErrand PROVE DeployInv'
  OBVIOUS
<1> DEFINE act == Head(errand.todo)
<1>1. /\ errand.begun /\ errand' = NoErrand
      /\ \/ disk' = disk
         \/ act.verb = "download" /\ disk' = [disk EXCEPT !["source"] = Half(Outcome(act))]
      /\ saved' = CASE errand.op = "deploy" -> [saved EXCEPT !.deploy = "failed"]
                    [] errand.step = "validate" -> [saved EXCEPT !.valid = "failed"]
                    [] OTHER -> saved
      /\ UNCHANGED <<deployKind, fetches, basis, writer, assumed>>
  BY DEF FailErrand
<1>2. /\ DeployType /\ SourceIsThere /\ StateMatchesRuntime /\ FetchStage /\ DeployStage
      /\ ErrandType
  BY DEF DeployInv
<1>3. errand.todo # <<>>
  BY <1>1, <1>2 DEF ErrandType
<1>4. act \in Operations
  BY <1>3, AtWork
<1>5. Half(Outcome(act)) \in Contents /\ Half(Outcome(act)) # Nothing
  BY <1>2, <1>4, Results, ContentsOfPlaces
<1>6. act.verb = "download" => deployKind = "tiles"
  <2> SUFFICES ASSUME act = Download PROVE deployKind = "tiles"
    BY <1>4, Acts DEF Operations
  <2>1. CASE Working("deploy")
    BY <1>2, <1>3, <2>1, DeployPoints, Acts DEF ErrandType
  <2>2. CASE Working("rollback")
    BY <1>2, <1>3, <2>2, RollbackPoints, Acts DEF ErrandType
  <2>3. CASE Working("fetch")
    BY <1>2, <1>3, <2>3, FetchPoints, Acts DEF ErrandType
  <2> QED
    BY <1>3, <2>1, <2>2, <2>3, AtWork
<1> HIDE DEF act
<1>7. /\ disk' \in [Places -> Contents]
      /\ \A place \in {"runtime", "backup"} : disk'[place] = disk[place]
      /\ disk["source"] # Nothing => disk'["source"] # Nothing
      /\ deployKind # "tiles" => disk'["source"] = disk["source"]
  BY <1>1, <1>2, <1>5, <1>6 DEF DeployType, Places
<1>8. /\ saved' \in SavedStates /\ saved'.stored = saved.stored /\ saved'.backup = saved.backup
      /\ saved'.runtime = saved.runtime
      /\ saved'.deploy \in {saved.deploy, "failed"} /\ saved'.valid \in {saved.valid, "failed"}
  BY <1>1, <1>2 DEF DeployType, SavedStates
<1>9. saved'.deploy = "deployed" => saved.deploy = "deployed" /\ saved'.runtime
  BY <1>2, <1>8 DEF StateMatchesRuntime
<1>10. saved'.stored /\ saved'.valid = "passed" => disk'["source"] # Nothing
  BY <1>2, <1>7, <1>8 DEF SourceIsThere, Present
<1>11. deployKind \in {"file", "directory"} /\ saved'.valid = "passed"
           /\ "source" \notin assumed' =>
           disk'["source"].whole
  BY <1>1, <1>2, <1>7, <1>8 DEF SourceIsThere
<1> QED
  BY <1>1, <1>2, <1>7, <1>8, <1>9, <1>10, <1>11, NewErrands, NotWorkingKeeps DEF DeployType

LEMMA FailValidationKeeps == DeployInv /\ FailValidation => DeployInv'
<1> SUFFICES ASSUME DeployInv, FailValidation PROVE DeployInv'
  OBVIOUS
<1>1. /\ errand' = NoErrand /\ saved' = [saved EXCEPT !.valid = "failed"]
      /\ UNCHANGED <<deployKind, disk, fetches, basis, writer, assumed>>
  BY DEF FailValidation
<1>2. DeployType /\ StateMatchesRuntime
  BY DEF DeployInv
<1>3. /\ saved' \in SavedStates /\ saved'.backup = saved.backup /\ saved'.runtime = saved.runtime
      /\ saved'.deploy = saved.deploy /\ saved'.valid = "failed"
  BY <1>1, <1>2 DEF DeployType, SavedStates
<1> QED
  BY <1>1, <1>2, <1>3, NewErrands, NotWorkingKeeps DEF DeployType, StateMatchesRuntime

LEMMA KillKeeps == DeployInv /\ KillOperator => DeployInv'
<1> SUFFICES ASSUME DeployInv, KillOperator PROVE DeployInv'
  OBVIOUS
<1>1. /\ errand # NoErrand /\ errand.op # "killed" /\ errand' = [Killed EXCEPT !.step = errand.step]
      /\ UNCHANGED <<deployKind, disk, saved, fetches, basis, writer, assumed>>
  BY DEF KillOperator, Unoccupied
<1>2. /\ DeployType /\ ErrandType /\ FetchStage /\ SourceIsThere /\ StateMatchesRuntime
  BY DEF DeployInv
<1>3. /\ errand' \in Errands /\ errand'.op = "killed" /\ errand'.todo = <<>> /\ ~errand'.begun
      /\ errand'.step = errand.step
  BY <1>1, <1>2, NewErrands DEF Killed, DeployType, Errands
<1>4. errand.op \in {"deploy", "rollback", "fetch"}
  BY <1>1, <1>2 DEF DeployType, Errands, ErrandType
<1>5. errand.step = "validate" /\ deployKind \in {"file", "directory"} => saved.valid = "running"
  BY <1>2, <1>4 DEF ErrandType, FetchStage, Working
<1> QED
  BY <1>1, <1>2, <1>3, <1>5, NotWorkingKeeps
     DEF DeployType, SourceIsThere, StateMatchesRuntime, Present

LEMMA RestartKeeps == DeployInv /\ RestartOperator => DeployInv'
<1> SUFFICES ASSUME DeployInv, RestartOperator PROVE DeployInv'
  OBVIOUS
<1>1. /\ errand.op = "killed" /\ saved' = RepairedState /\ errand' = NoErrand
      /\ UNCHANGED <<deployKind, disk, fetches, basis, writer, assumed>>
  BY DEF RestartOperator
<1>2. DeployType /\ SourceIsThere /\ StateMatchesRuntime
  BY DEF DeployInv
<1>3. /\ saved' \in SavedStates /\ saved'.stored = saved.stored /\ saved'.backup = saved.backup
      /\ saved'.runtime = saved.runtime
      /\ saved'.deploy \in {saved.deploy, "not_deployed"}
      /\ saved'.valid \in {saved.valid, "failed"}
  BY <1>1, <1>2 DEF RepairedState, DeployType, SavedStates
<1> QED
  BY <1>1, <1>2, <1>3, NewErrands, NotWorkingKeeps
     DEF DeployType, SourceIsThere, StateMatchesRuntime, Present

\* A deploy starts with the runtime it finds still in its place, or with none.
LEMMA StartDeployKeeps ==
    ASSUME DeployInv, errand.op = "deploy", errand.step = "accepted",
           errand' = [errand EXCEPT !.todo = DeployPlan, !.step = "deploy"],
           basis' = disk["runtime"],
           UNCHANGED <<deployKind, disk, saved, fetches, writer, assumed>>
    PROVE  DeployInv'
<1>1. /\ DeployType /\ ErrandType /\ KindsKeepApart /\ SourceIsThere /\ DeployStage
      /\ StateMatchesRuntime /\ WholeWhenDeployed
  BY DEF DeployInv
<1>2. /\ errand' \in Errands /\ errand'.op = "deploy" /\ errand'.todo = DeployPlan
      /\ errand'.step = "deploy" /\ ~errand'.begun
  <2>1. DeployPlan \in Seq(Operations)
    BY DeployPlans, TodosAreOperations
  <2> QED
    BY <1>1, <2>1 DEF DeployType, ErrandType, Errands
<1>3. /\ Working("deploy")' /\ ~Working("rollback")' /\ ~Working("fetch")'
      /\ DeployTodos' = DeployTodos
  BY <1>2 DEF Working, DeployTodos, BackingUp, Staging, Staged
<1>4. DeployType'
  <2>1. basis' \in Contents
    BY <1>1 DEF DeployType, Places
  <2> QED
    BY <1>1, <1>2, <2>1 DEF DeployType
<1>5. ErrandType'
  <2>1. errand'.todo \in DeployTodos'
    BY <1>2, <1>3, DeployPlans
  <2> QED
    BY <1>2, <1>3, <2>1 DEF ErrandType
<1>6. KindsKeepApart' /\ SourceIsThere'
  BY <1>1, <1>2 DEF KindsKeepApart, SourceIsThere, Present
<1>7. FetchStage' /\ RollbackStage' /\ KilledStage'
  BY <1>2, <1>3 DEF FetchStage, RollbackStage, KilledStage
<1>8. DeployStage'
  <2>1. saved.deploy = "deploying" /\ saved.valid = "passed" /\ Present("source")
    BY <1>1 DEF DeployStage
  <2>2. DeployPlan \notin Staged \cup {<<>>}
    BY DeployPlans
  <2>3. deployKind # "generated" /\ basis' # Nothing => DeployPlan \in BackingUp
    BY DeployPlans DEF Present
  <2> QED
    BY <1>2, <2>1, <2>2, <2>3 DEF DeployStage, BeforeBackup, Present, BackingUp, Staged
<1>9. StateMatchesRuntime' /\ WholeWhenDeployed' /\ UndoableWhenTorn'
  BY <1>1 DEF StateMatchesRuntime, WholeWhenDeployed, UndoableWhenTorn, Present
<1> QED
  BY <1>4, <1>5, <1>6, <1>7, <1>8, <1>9 DEF DeployInv

LEMMA StartRollbackKeeps ==
    ASSUME DeployInv, errand.op = "rollback", errand.step = "accepted",
           errand' = [errand EXCEPT !.todo = RollbackPlan, !.step = "rollback"],
           UNCHANGED <<deployKind, disk, saved, fetches, basis, writer, assumed>>
    PROVE  DeployInv'
<1>1. /\ DeployType /\ ErrandType /\ KindsKeepApart /\ SourceIsThere
      /\ StateMatchesRuntime /\ WholeWhenDeployed /\ UndoableWhenTorn
  BY DEF DeployInv
<1>2. /\ errand' \in Errands /\ errand'.op = "rollback" /\ errand'.todo = RollbackPlan
      /\ errand'.step = "rollback" /\ ~errand'.begun
  <2>1. RollbackPlan \in Seq(Operations)
    BY RollbackPoints, TodosAreOperations
  <2> QED
    BY <1>1, <2>1 DEF DeployType, ErrandType, Errands
<1>3. /\ ~Working("deploy")' /\ ~Working("fetch")' /\ RollbackTodos' = RollbackTodos
  BY <1>2 DEF Working, RollbackTodos
<1>4. DeployType'
  BY <1>1, <1>2 DEF DeployType
<1>5. ErrandType'
  <2>1. errand'.todo \in RollbackTodos' /\ errand'.todo # <<>>
    BY <1>2, <1>3, RollbackPoints
  <2> QED
    BY <1>2, <1>3, <2>1 DEF ErrandType
<1>6. KindsKeepApart' /\ SourceIsThere'
  BY <1>1, <1>2 DEF KindsKeepApart, SourceIsThere, Present
<1>7. FetchStage' /\ DeployStage' /\ KilledStage'
  BY <1>2, <1>3 DEF FetchStage, DeployStage, KilledStage
<1>8. RollbackStage'
  BY <1>2, RollbackPoints DEF RollbackStage
<1>9. StateMatchesRuntime' /\ WholeWhenDeployed' /\ UndoableWhenTorn'
  BY <1>1 DEF StateMatchesRuntime, WholeWhenDeployed, UndoableWhenTorn, Present
<1> QED
  BY <1>4, <1>5, <1>6, <1>7, <1>8, <1>9 DEF DeployInv

\* A layer that comes in loses its verdict; what others fetch is validated later.
LEMMA StartFetchKeeps ==
    ASSUME DeployInv, errand.op = "fetch", errand.step = "accepted",
           NEW plan \in IF deployKind = "tiles" THEN TilesPlans ELSE {FetchPlan},
           errand' = [errand EXCEPT
               !.todo = plan,
               !.step = IF deployKind \in {"file", "directory"} THEN "validate" ELSE "download"],
           saved' = IF deployKind \in {"file", "directory"}
                    THEN [saved EXCEPT !.stored = TRUE, !.valid = "running"] ELSE saved,
           UNCHANGED <<deployKind, disk, fetches, basis, writer, assumed>>
    PROVE  DeployInv'
<1>1. /\ DeployType /\ ErrandType /\ KindsKeepApart /\ SourceIsThere
      /\ StateMatchesRuntime /\ WholeWhenDeployed /\ UndoableWhenTorn
  BY DEF DeployInv
<1>2. plan \in FetchTodos \ {<<>>}
  <2>1. <<Fetch>> \in FetchTodos \/ deployKind = "tiles"
    BY DEF FetchTodos
  <2> QED
    BY <2>1, FetchPoints
<1>3. plan # <<>>
  BY <1>2
<1>4. deployKind = "tiles" /\ plan # <<Download, DropStaging, Build, Install>> => Present("source")
  BY FetchPoints
<1>5. /\ errand' \in Errands /\ errand'.op = "fetch" /\ errand'.todo = plan /\ ~errand'.begun
      /\ errand'.step = IF deployKind \in {"file", "directory"} THEN "validate" ELSE "download"
  <2>1. plan \in Seq(Operations)
    BY <1>2, TodosAreOperations
  <2> QED
    BY <1>1, <2>1 DEF DeployType, ErrandType, Errands
<1>6. /\ saved' \in SavedStates /\ saved'.deploy = saved.deploy /\ saved'.runtime = saved.runtime
      /\ saved'.backup = saved.backup
      /\ deployKind \in {"file", "directory"} => saved'.valid = "running"
      /\ deployKind \notin {"file", "directory"} => saved' = saved
  BY <1>1 DEF DeployType, SavedStates
<1>7. /\ ~Working("deploy")' /\ ~Working("rollback")' /\ FetchTodos' = FetchTodos
  BY <1>5 DEF Working, FetchTodos
<1>8. DeployType'
  BY <1>1, <1>5, <1>6 DEF DeployType
<1>9. ErrandType'
  BY <1>1, <1>2, <1>3, <1>5, <1>7 DEF ErrandType
<1>10. KindsKeepApart' /\ SourceIsThere'
  BY <1>1, <1>5, <1>6 DEF KindsKeepApart, SourceIsThere, Present
<1>11. DeployStage' /\ RollbackStage' /\ KilledStage'
  BY <1>5, <1>7 DEF RollbackStage, DeployStage, KilledStage
<1>12. FetchStage'
  BY <1>3, <1>4, <1>5, <1>6 DEF FetchStage, Present
<1>13. StateMatchesRuntime' /\ WholeWhenDeployed' /\ UndoableWhenTorn'
  BY <1>1, <1>6 DEF StateMatchesRuntime, WholeWhenDeployed, UndoableWhenTorn, Present
<1> QED
  BY <1>8, <1>9, <1>10, <1>11, <1>12, <1>13 DEF DeployInv

LEMMA StartErrandKeeps == DeployInv /\ StartErrand => DeployInv'
<1> SUFFICES ASSUME DeployInv, StartErrand PROVE DeployInv'
  OBVIOUS
<1>1. errand.step = "accepted" /\ UNCHANGED <<deployKind, disk, fetches, writer>>
  BY DEF StartErrand
<1>2. CASE /\ errand.op = "deploy"
           /\ errand' = [errand EXCEPT !.todo = DeployPlan, !.step = "deploy"]
           /\ basis' = disk.runtime /\ UNCHANGED <<saved, assumed>>
  BY <1>1, <1>2, StartDeployKeeps
<1>3. CASE /\ errand.op = "rollback"
           /\ errand' = [errand EXCEPT !.todo = RollbackPlan, !.step = "rollback"]
           /\ UNCHANGED <<saved, basis, assumed>>
  BY <1>1, <1>3, StartRollbackKeeps
<1>4. CASE errand.op = "rollback" /\ errand' = NoErrand /\ UNCHANGED <<saved, basis, assumed>>
  <2>1. DeployType /\ SourceIsThere /\ StateMatchesRuntime
    BY DEF DeployInv
  <2> QED
    BY <1>1, <1>4, <2>1, NewErrands, NotWorkingKeeps
       DEF DeployType, SourceIsThere, StateMatchesRuntime, Present
<1>5. CASE /\ errand.op = "fetch"
           /\ \E plan \in IF deployKind = "tiles" THEN TilesPlans ELSE {FetchPlan} :
                errand' = [errand EXCEPT
                    !.todo = plan,
                    !.step = IF deployKind \in {"file", "directory"} THEN "validate"
                             ELSE "download"]
           /\ saved' = IF deployKind \in {"file", "directory"}
                       THEN [saved EXCEPT !.stored = TRUE, !.valid = "running"] ELSE saved
           /\ UNCHANGED <<basis, assumed>>
  BY <1>1, <1>5, StartFetchKeeps
<1> QED
  BY <1>2, <1>3, <1>4, <1>5 DEF StartErrand

LEMMA StartValidationKeeps == DeployInv /\ StartValidation => DeployInv'
<1> SUFFICES ASSUME DeployInv, StartValidation PROVE DeployInv'
  OBVIOUS
<1>1. /\ deployKind = "generated" /\ errand.op = "fetch" /\ errand.step = "download"
      /\ errand.todo = <<>> /\ errand' = [errand EXCEPT !.step = "validate"]
      /\ saved' = [saved EXCEPT !.stored = TRUE, !.valid = "running"]
      /\ UNCHANGED <<deployKind, disk, fetches, basis, writer, assumed>>
  BY DEF StartValidation
<1>2. /\ DeployType /\ ErrandType /\ KindsKeepApart /\ FetchStage /\ StateMatchesRuntime
      /\ WholeWhenDeployed /\ UndoableWhenTorn
  BY DEF DeployInv
<1>3. /\ errand' \in Errands /\ errand'.op = "fetch" /\ errand'.todo = <<>> /\ ~errand'.begun
      /\ errand'.step = "validate"
  BY <1>1, <1>2 DEF DeployType, ErrandType, Errands
<1>4. /\ saved' \in SavedStates /\ saved'.deploy = saved.deploy /\ saved'.runtime = saved.runtime
      /\ saved'.backup = saved.backup /\ saved'.valid = "running"
  BY <1>1, <1>2 DEF DeployType, SavedStates
<1>5. /\ ~Working("deploy")' /\ ~Working("rollback")' /\ Working("fetch")
      /\ <<>> \in FetchTodos'
  BY <1>1, <1>3 DEF Working, FetchTodos
<1>6. DeployType' /\ ErrandType'
  BY <1>1, <1>2, <1>3, <1>4, <1>5 DEF DeployType, ErrandType
<1>7. KindsKeepApart' /\ SourceIsThere'
  BY <1>1, <1>2, <1>3, <1>4 DEF KindsKeepApart, SourceIsThere
<1>8. DeployStage' /\ RollbackStage' /\ KilledStage' /\ FetchStage'
  BY <1>1, <1>2, <1>3, <1>5 DEF RollbackStage, DeployStage, KilledStage, FetchStage, Present
<1>9. StateMatchesRuntime' /\ WholeWhenDeployed' /\ UndoableWhenTorn'
  BY <1>1, <1>2, <1>4 DEF StateMatchesRuntime, WholeWhenDeployed, UndoableWhenTorn, Present
<1> QED
  BY <1>6, <1>7, <1>8, <1>9 DEF DeployInv

\* When a job has ended, what it leaves in the state and on the disk has to agree.
LEMMA EndErrandKeeps == DeployInv /\ EndErrand => DeployInv'
<1> SUFFICES ASSUME DeployInv, EndErrand PROVE DeployInv'
  OBVIOUS
<1>1. /\ errand.op \in {"deploy", "rollback", "fetch"} /\ errand.todo = <<>>
      /\ errand.step # "accepted" /\ errand' = NoErrand
      /\ UNCHANGED <<deployKind, disk, fetches, basis, writer>>
  BY DEF EndErrand
<1>2. /\ DeployType /\ KindsKeepApart /\ SourceIsThere /\ FetchStage /\ DeployStage
      /\ RollbackStage /\ StateMatchesRuntime /\ WholeWhenDeployed /\ UndoableWhenTorn
  BY DEF DeployInv
<1>3. /\ errand' \in Errands /\ errand'.op = "none" /\ errand' = NoErrand
      /\ errand'.todo = <<>> /\ ~errand'.begun
  BY <1>1, NewErrands
<1>4. ~Working("deploy")' /\ ~Working("rollback")' /\ ~Working("fetch")'
  BY <1>3 DEF Working
<1>5. ErrandType' /\ FetchStage' /\ DeployStage' /\ RollbackStage' /\ KilledStage'
  <2>1. ErrandType'
    BY <1>3, <1>4, NewErrands DEF ErrandType, NoErrand
  <2> QED
    BY <1>3, <1>4, <2>1 DEF FetchStage, DeployStage, RollbackStage, KilledStage
<1>6. CASE errand.op = "deploy"
  <2>1. /\ saved' = [saved EXCEPT !.deploy = "deployed", !.runtime = TRUE]
        /\ assumed' = IF "source" \in assumed THEN {"source", "runtime"} ELSE {}
    BY <1>6 DEF EndErrand, EndedDeploy
  <2>2. /\ saved' \in SavedStates /\ saved'.deploy = "deployed" /\ saved'.runtime
        /\ saved'.backup = saved.backup /\ saved'.stored = saved.stored
        /\ saved'.valid = saved.valid
    BY <1>2, <2>1 DEF DeployType, SavedStates
  <2>3. disk["runtime"] = disk["source"] /\ Present("source") /\ saved.valid = "passed"
    BY <1>1, <1>2, <1>6, PointsDiffer DEF DeployStage, Working
  <2>4. deployKind # "tiles" /\ (deployKind = "generated" => disk["runtime"].whole)
    BY <1>2, <1>6 DEF KindsKeepApart
  <2>5. DeployType'
    BY <1>1, <1>2, <1>3, <2>1, <2>2 DEF DeployType
  <2>6. KindsKeepApart' /\ SourceIsThere'
    BY <1>1, <1>2, <1>3, <2>1, <2>2, <2>4 DEF KindsKeepApart, SourceIsThere, Present
  <2>7. StateMatchesRuntime' /\ UndoableWhenTorn'
    BY <1>1, <1>2, <2>2, <2>3 DEF StateMatchesRuntime, UndoableWhenTorn, Present
  <2>8. WholeWhenDeployed'
    <3> SUFFICES ASSUME ~disk["runtime"].whole, deployKind # "roads"
                 PROVE  "runtime" \in assumed'
      BY <1>1 DEF WholeWhenDeployed
    <3>1. deployKind \in {"file", "directory"}
      BY <1>2, <2>4 DEF DeployType, DeployKinds
    <3>2. "source" \in assumed
      BY <1>2, <2>3, <3>1 DEF SourceIsThere
    <3> QED
      BY <2>1, <3>2
  <2> QED
    BY <1>5, <2>5, <2>6, <2>7, <2>8 DEF DeployInv
<1>7. CASE errand.op = "rollback"
  <2>1. /\ saved' = [saved EXCEPT !.deploy = "deployed", !.runtime = TRUE, !.backup = FALSE]
        /\ assumed' = assumed
    BY <1>7 DEF EndErrand, EndedRollback
  <2>2. /\ saved' \in SavedStates /\ saved'.runtime /\ saved'.backup = FALSE
        /\ saved'.stored = saved.stored /\ saved'.valid = saved.valid
    BY <1>2, <2>1 DEF DeployType, SavedStates
  <2>3. writer = "rollback"
    BY <1>1, <1>2, <1>7 DEF RollbackStage, Working
  <2>4. DeployType'
    BY <1>1, <1>2, <1>3, <2>1, <2>2 DEF DeployType
  <2>5. KindsKeepApart' /\ SourceIsThere'
    BY <1>1, <1>2, <1>3, <2>1, <2>2 DEF KindsKeepApart, SourceIsThere, Present
  <2>6. StateMatchesRuntime' /\ UndoableWhenTorn' /\ WholeWhenDeployed'
    BY <1>1, <2>2, <2>3 DEF StateMatchesRuntime, UndoableWhenTorn, WholeWhenDeployed
  <2> QED
    BY <1>5, <2>4, <2>5, <2>6 DEF DeployInv
<1>8. CASE errand.op = "fetch" /\ deployKind = "tiles"
  <2>1. /\ saved' = [saved EXCEPT !.stored = TRUE, !.valid = "passed", !.deploy = "deployed",
                                  !.runtime = TRUE]
        /\ assumed' = assumed \ {"source"}
    BY <1>8 DEF EndErrand, EndedFetch
  <2>2. /\ saved' \in SavedStates /\ saved'.runtime /\ saved'.backup = saved.backup
    BY <1>2, <2>1 DEF DeployType, SavedStates
  <2>3. Present("source")
    BY <1>1, <1>2, <1>8 DEF FetchStage, Working
  <2>4. disk["runtime"].whole /\ writer # "deploy"
    BY <1>2, <1>8 DEF KindsKeepApart
  <2>5. DeployType'
    BY <1>1, <1>2, <1>3, <2>1, <2>2 DEF DeployType
  <2>6. KindsKeepApart' /\ SourceIsThere'
    BY <1>1, <1>2, <1>3, <1>8, <2>2, <2>3 DEF KindsKeepApart, SourceIsThere, Present
  <2>7. StateMatchesRuntime' /\ UndoableWhenTorn' /\ WholeWhenDeployed'
    BY <1>1, <2>2, <2>4 DEF StateMatchesRuntime, UndoableWhenTorn, WholeWhenDeployed
  <2> QED
    BY <1>5, <2>5, <2>6, <2>7 DEF DeployInv
<1>9. CASE errand.op = "fetch" /\ deployKind # "tiles"
  <2> DEFINE s == [saved EXCEPT !.stored = TRUE, !.valid = "passed",
                                !.deploy = IF saved.deploy = "deploying" THEN "not_deployed"
                                           ELSE saved.deploy]
  <2>1. saved' = WithDeployable(s) /\ assumed' = assumed \ {"source"}
    BY <1>9 DEF EndErrand, EndedFetch
  <2>2. /\ s \in SavedStates /\ s.runtime = saved.runtime /\ s.backup = saved.backup
        /\ s.deploy \in {saved.deploy, "not_deployed"}
    BY <1>2 DEF DeployType, SavedStates
  <2> HIDE DEF s
  <2>3. /\ saved' \in SavedStates /\ saved'.runtime = saved.runtime
        /\ saved'.backup = saved.backup
        /\ saved'.deploy \in {saved.deploy, "not_deployed", "deployable"}
    BY <2>1, <2>2, Deployable
  <2>4. Present("source") /\ disk["source"].whole
    BY <1>1, <1>2, <1>9 DEF FetchStage, Working, Present
  <2>5. DeployType'
    BY <1>1, <1>2, <1>3, <2>1, <2>3 DEF DeployType
  <2>6. KindsKeepApart' /\ SourceIsThere'
    BY <1>1, <1>2, <1>3, <1>9, <2>3, <2>4 DEF KindsKeepApart, SourceIsThere, Present
  <2>7. StateMatchesRuntime' /\ UndoableWhenTorn'
    BY <1>1, <1>2, <2>3 DEF StateMatchesRuntime, UndoableWhenTorn, Present
  <2>8. WholeWhenDeployed'
    BY <1>1, <1>2, <2>1, <2>3 DEF WholeWhenDeployed
  <2> QED
    BY <1>5, <2>5, <2>6, <2>7, <2>8 DEF DeployInv
<1> QED
  BY <1>1, <1>6, <1>7, <1>8, <1>9

LEMMA DeployInvInit == DeployInit => DeployInv
<1> SUFFICES ASSUME DeployInit PROVE DeployInv
  OBVIOUS
<1>1. /\ deployKind \in DeployKinds /\ disk = [place \in Places |-> Nothing]
      /\ saved = [deploy |-> "not_deployed", stored |-> FALSE, runtime |-> FALSE, backup |-> FALSE,
                  valid |-> IF deployKind \in {"roads", "tiles"} THEN "passed" ELSE "not_started"]
      /\ errand = NoErrand /\ fetches = 0 /\ basis = Nothing /\ writer = "none" /\ assumed = {}
  BY DEF DeployInit, Places
<1>2. /\ disk \in [Places -> Contents] /\ \A place \in Places : disk[place] = Nothing
  BY <1>1, ContentsOfPlaces
<1>3. /\ saved \in SavedStates /\ saved.deploy = "not_deployed" /\ saved.stored = FALSE
      /\ saved.backup = FALSE
      /\ deployKind \in {"file", "directory"} => saved.valid = "not_started"
  BY <1>1 DEF SavedStates
<1>4. ~Working("deploy") /\ ~Working("rollback") /\ ~Working("fetch")
  BY <1>1, NewErrands DEF Working
<1>5. DeployType
  BY <1>1, <1>2, <1>3, ContentsOfPlaces, NewErrands DEF DeployType
<1>6. ErrandType /\ FetchStage /\ DeployStage /\ RollbackStage /\ KilledStage
  BY <1>1, <1>4, NewErrands DEF ErrandType, FetchStage, DeployStage, RollbackStage, KilledStage
<1>7. KindsKeepApart /\ SourceIsThere
  BY <1>1, <1>2, <1>3, ContentsOfPlaces, NewErrands DEF KindsKeepApart, SourceIsThere, Places
<1>8. StateMatchesRuntime /\ WholeWhenDeployed /\ UndoableWhenTorn
  BY <1>1, <1>3 DEF StateMatchesRuntime, WholeWhenDeployed, UndoableWhenTorn
<1> QED
  BY <1>5, <1>6, <1>7, <1>8 DEF DeployInv

LEMMA DeployInvStep == DeployInv /\ [DeployNext]_deployVars => DeployInv'
<1> SUFFICES ASSUME DeployInv, [DeployNext]_deployVars PROVE DeployInv'
  OBVIOUS
<1>1. CASE DeployNext
  BY <1>1, VisitKeeps, RequestDeployKeeps, RequestRollbackKeeps, RequestFetchKeeps,
     StartErrandKeeps, BeginKeeps, EndKeeps, StartValidationKeeps, EndErrandKeeps,
     FailErrandKeeps, FailValidationKeeps, KillKeeps, RestartKeeps DEF DeployNext
<1>2. CASE UNCHANGED deployVars
  BY <1>2 DEF deployVars, DeployInv, DeployType, ErrandType, KindsKeepApart, SourceIsThere,
          FetchStage, DeployStage, RollbackStage, KilledStage, StateMatchesRuntime,
          WholeWhenDeployed, UndoableWhenTorn, Working, DeployTodos, RollbackTodos, FetchTodos,
          BackingUp, Staging, Staged, BeforeBackup, Present
<1> QED
  BY <1>1, <1>2

\* Whatever is fetched, deployed and rolled back, and however jobs fail and are killed:
\* between jobs what the state calls deployed is whole, or is one of the named
\* exceptions, and a deploy that was left torn can be undone.
THEOREM DeployedOrUndoable == DeploySpec => []DeployedIsWholeOrUndoable
<1>1. DeploySpec => []DeployInv
  BY DeployInvInit, DeployInvStep, PTL DEF DeploySpec
<1>2. DeployInv => DeployedIsWholeOrUndoable
  BY DEF DeployInv, WholeWhenDeployed, UndoableWhenTorn, DeployedIsWholeOrUndoable,
         DeployedIsWhole, TornDeployCanBeUndone
<1> QED
  BY <1>1, <1>2, PTL

-----------------------------------------------------------------------------
(* The walking engine *)


Versions == Nat \ {0}
GroupFiles == [roads : Nat, lua : Nat, whole : BOOLEAN]

RoutingType ==
    /\ roads \in Versions /\ lua \in Nat
    /\ index \in [Stages -> GroupFiles]
    /\ namedRoads \in Nat
    /\ engine \in [state : {"down", "building", "serving"}, stage : Stages \cup {"done"},
                   begun : BOOLEAN, graph : [Stages -> GroupFiles], roads : Nat]
    /\ engine.begun => engine.state = "building" /\ engine.stage \in Stages
    /\ engine.state = "down" => engine = Down
    /\ rebuild \in {"idle", "clear", "restart", "wait"}
    /\ profile \in [pc : Stages \cup {"idle", "reload", "failed"}, begun : BOOLEAN, lua : Nat]
    /\ profile.begun => profile.pc \in Stages
    /\ disturbed \in BOOLEAN

\* A group that a command has finished.
Finished(group) == group \notin {NoFiles, BeingWritten}

\* Only a container that is not building has an index that names its roads.
NamedLast == engine.state = "building" => namedRoads = 0

\* Each group is made of the one before it, which is finished by then.
Chained ==
    /\ Finished(index["extract"]) => index["extract"].whole
    /\ index["partition"] # NoFiles =>
           /\ Finished(index["extract"])
           /\ index["partition"] \in {BeingWritten, index["extract"]}
    /\ index["customize"] # NoFiles =>
           /\ Finished(index["partition"])
           /\ index["customize"] \in {BeingWritten, index["partition"]}

\* What is being built, or was asked for, is of the roads that are there.
FromTheRoads ==
    (engine.state = "building" \/ rebuild \in {"restart", "wait"}) /\ Finished(index["extract"]) =>
        index["extract"].roads = roads

\* An index that names its roads is finished, and of those.
NamedIsFinished ==
    namedRoads # 0 => Finished(index["customize"]) /\ index["extract"].roads = namedRoads

\* The container has finished the groups before the one it is at, and begun none
\* behind it, unless its files were removed under it.
AtItsStage ==
    engine.state = "building" /\ index # NoIndex =>
        /\ engine.stage = "extract" => index["partition"] = NoFiles
        /\ engine.stage = "partition" => Finished(index["extract"])
        /\ engine.stage \in {"extract", "partition"} => index["customize"] = NoFiles
        /\ engine.stage = "customize" => Finished(index["partition"])
        /\ engine.stage \in Stages =>
               (engine.begun <=> index[engine.stage] # NoFiles)
        /\ engine.stage = "done" => Finished(index["customize"])

Accounted == Chained /\ FromTheRoads /\ NamedIsFinished /\ AtItsStage

RoutingInv ==
    /\ RoutingType
    /\ NamedLast
    /\ ~disturbed => Accounted

-----------------------------------------------------------------------------
(* Groups of files *)

LEMMA Groups ==
    /\ NoFiles \in GroupFiles /\ BeingWritten \in GroupFiles /\ BeingWritten # NoFiles
    /\ NoFiles.roads = 0 /\ BeingWritten.roads = 0
    /\ NoIndex \in [Stages -> GroupFiles] /\ \A s \in Stages : NoIndex[s] = NoFiles
  BY DEF NoFiles, BeingWritten, GroupFiles, NoIndex

\* What a command writes is finished, when what it reads is.
LEMMA Products ==
    ASSUME RoutingType
    PROVE  /\ \A s \in Stages : Product(s) \in GroupFiles
           /\ Finished(Product("extract"))
           /\ Product("extract").whole /\ Product("extract").roads = roads
           /\ Product("partition") = index["extract"]
           /\ Product("customize") = index["partition"]
<1>1. roads \in Nat \ {0} /\ lua \in Nat /\ index \in [Stages -> GroupFiles]
  BY DEF RoutingType, Versions
<1>2. Product("extract") = [roads |-> roads, lua |-> lua, whole |-> TRUE]
  BY DEF Product
<1>3. Product("partition") = index["extract"] /\ Product("customize") = index["partition"]
  BY DEF Product
<1>4. Product("extract") \in GroupFiles /\ Product("extract").roads = roads
  <2>1. [roads |-> roads, lua |-> lua, whole |-> TRUE] \in GroupFiles
    BY <1>1 DEF GroupFiles
  <2>2. [roads |-> roads, lua |-> lua, whole |-> TRUE].roads = roads
    OBVIOUS
  <2> QED
    BY <2>1, <2>2, <1>2, Zenon
<1>5. Finished(Product("extract"))
  BY <1>1, <1>4, Groups DEF Finished
<1> QED
  BY <1>1, <1>2, <1>3, <1>4, <1>5 DEF Stages

\* The end of a command changes at most the group that it was writing.
LEMMA EndOfACommand ==
    ASSUME RoutingType, NEW s \in Stages, Written(s)
    PROVE  /\ index' \in [Stages -> GroupFiles]
           /\ \A t \in Stages : t # s \/ index[t] # BeingWritten => index'[t] = index[t]
           /\ index[s] = BeingWritten => index'[s] = Product(s)
  BY Products DEF Written, RoutingType

\* Whoever ends a command, what is there stays what it has to be.
LEMMA WrittenKeeps ==
    ASSUME RoutingInv, ~disturbed, NEW s \in Stages, Written(s), UNCHANGED <<roads, namedRoads>>
    PROVE  /\ Chained' /\ NamedIsFinished'
           /\ Finished(index["extract"]') =>
                  \/ Finished(index["extract"]) /\ index["extract"]' = index["extract"]
                  \/ index["extract"].roads' = roads
           /\ \A t \in Stages : Finished(index[t]) => index'[t] = index[t]
           /\ \A t \in Stages : index'[t] = NoFiles <=> index[t] = NoFiles
           /\ index[s] # NoFiles => Finished(index'[s])
<1>1. /\ RoutingType /\ Chained /\ NamedIsFinished
  BY DEF RoutingInv, Accounted
<1>2. /\ index' \in [Stages -> GroupFiles] /\ index \in [Stages -> GroupFiles]
      /\ \A t \in Stages : t # s \/ index[t] # BeingWritten => index'[t] = index[t]
      /\ index[s] = BeingWritten => index'[s] = Product(s)
  BY <1>1, EndOfACommand DEF RoutingType
<1>3. \A t \in Stages : Finished(index[t]) => index'[t] = index[t]
  BY <1>2 DEF Finished
<1>4. index[s] = BeingWritten => Finished(Product(s))
  <2>1. CASE s = "extract"
    BY <2>1, <1>1, Products
  <2>2. CASE s = "partition"
    BY <2>2, <1>1, Products, Groups DEF Chained
  <2>3. CASE s = "customize"
    BY <2>3, <1>1, Products, Groups DEF Chained
  <2> QED
    BY <2>1, <2>2, <2>3 DEF Stages
<1>5. \A t \in Stages : index'[t] = NoFiles <=> index[t] = NoFiles
  BY <1>2, <1>4, Groups DEF Finished
<1>6. index[s] # NoFiles => Finished(index'[s])
  BY <1>2, <1>3, <1>4 DEF Finished
<1>7. \/ index["extract"]' = index["extract"]
      \/ /\ index["extract"] = BeingWritten /\ index["extract"]' = Product("extract")
         /\ index["partition"] = NoFiles /\ index["customize"] = NoFiles
  BY <1>1, <1>2 DEF Chained, Finished, Stages
<1>8. Finished(index["extract"]') =>
          \/ Finished(index["extract"]) /\ index["extract"]' = index["extract"]
          \/ index["extract"].roads' = roads
  BY <1>1, <1>7, Products
<1>9. Chained'
  <2>1. CASE index["extract"]' # index["extract"]
    BY <2>1, <1>1, <1>2, <1>5, <1>7, Products DEF Chained, Stages
  <2>2. CASE index["extract"]' = index["extract"]
    <3>1. /\ index["partition"]' \in {index["partition"], Product("partition")}
          /\ index["customize"]' \in {index["customize"], Product("customize")}
      BY <1>2 DEF Stages
    <3>2. Finished(index["partition"]) => index["partition"]' = index["partition"]
      BY <1>3 DEF Stages
    <3>3. index["partition"]' # NoFiles => index["partition"] # NoFiles
      BY <1>5 DEF Stages
    <3>4. index["customize"]' # NoFiles => index["customize"] # NoFiles
      BY <1>5 DEF Stages
    <3> QED
      BY <2>2, <3>1, <3>2, <3>3, <3>4, <1>1, Products DEF Chained
  <2> QED
    BY <2>1, <2>2
<1>10. NamedIsFinished'
  <2> SUFFICES ASSUME namedRoads # 0
               PROVE  NamedIsFinished'
    BY DEF NamedIsFinished
  <2>1. /\ Finished(index["customize"]) /\ index["extract"].roads = namedRoads
    BY <1>1 DEF NamedIsFinished
  <2>2. Finished(index["partition"]) /\ Finished(index["extract"])
    BY <2>1, <1>1 DEF Chained, Finished
  <2> QED
    BY <2>1, <2>2, <1>3 DEF NamedIsFinished, Stages
<1> QED
  BY <1>3, <1>5, <1>6, <1>8, <1>9, <1>10

-----------------------------------------------------------------------------
(* The invariant *)

LEMMA DownType ==
    /\ Down \in [state : {"down", "building", "serving"}, stage : Stages \cup {"done"},
                 begun : BOOLEAN, graph : [Stages -> GroupFiles], roads : Nat]
    /\ Down.state = "down" /\ ~Down.begun
  BY Groups DEF Down, Stages

LEMMA RoutingInvInit == RoutingInit => RoutingInv
<1> SUFFICES ASSUME RoutingInit PROVE RoutingInv
  OBVIOUS
<1>1. RoutingType
  <2>1. engine = Down /\ index = NoIndex /\ profile = NoProfileJob
    BY DEF RoutingInit
  <2>2. profile \in [pc : Stages \cup {"idle", "reload", "failed"}, begun : BOOLEAN, lua : Nat]
        /\ ~profile.begun
    BY <2>1 DEF NoProfileJob
  <2>3. /\ engine \in [state : {"down", "building", "serving"}, stage : Stages \cup {"done"},
                       begun : BOOLEAN, graph : [Stages -> GroupFiles], roads : Nat]
        /\ engine.begun => engine.state = "building" /\ engine.stage \in Stages
    BY <2>1, DownType
  <2>4. /\ roads \in Versions /\ lua \in Nat /\ namedRoads \in Nat
        /\ rebuild = "idle"
    BY DEF RoutingInit, Versions
  <2>5. index \in [Stages -> GroupFiles]
    BY <2>1, Groups
  <2>6. disturbed \in BOOLEAN
    BY Zenon DEF RoutingInit
  <2> QED
    BY <2>1, <2>2, <2>3, <2>4, <2>5, <2>6 DEF RoutingType
<1>2. NamedLast
  BY DEF RoutingInit, NamedLast, Down
<1>3. Chained /\ FromTheRoads /\ NamedIsFinished /\ AtItsStage
  BY Groups DEF RoutingInit, Chained, FromTheRoads, NamedIsFinished, AtItsStage, Finished, Stages,
                Down
<1> QED
  BY <1>1, <1>2, <1>3 DEF RoutingInv, Accounted

LEMMA RoutingTypeStep == RoutingType /\ [RoutingNext]_routingVars => RoutingType'
<1> SUFFICES ASSUME RoutingType, [RoutingNext]_routingVars
             PROVE  RoutingType'
  OBVIOUS
<1>20. StartRouted /\ ~AllExist =>
          /\ engine' = Down /\ namedRoads' = namedRoads
          /\ UNCHANGED <<roads, lua, index, rebuild, disturbed>>
          /\ profile' = IF profile.begun THEN [profile EXCEPT !.pc = "failed", !.begun = FALSE]
                        ELSE profile
  BY DEF StartRouted, StopEngine
<1> USE Groups, DownType DEF RoutingType, Versions
<1>1. CASE Boot
  BY <1>1 DEF Boot, Stages
<1>2. CASE BeginBuild
  <2>1. CASE InputExists(engine.stage)
    <3>1. engine.stage \in Stages /\ engine.state = "building"
      BY <1>2 DEF BeginBuild
    <3>2. index' \in [Stages -> GroupFiles]
      BY <1>2, <2>1, <3>1 DEF BeginBuild
    <3>3. engine' = [engine EXCEPT !.begun = TRUE]
      BY <1>2, <2>1 DEF BeginBuild
    <3> QED
      BY <1>2, <2>1, <3>1, <3>2, <3>3 DEF BeginBuild
  <2>2. CASE ~InputExists(engine.stage)
    BY <1>2, <2>2 DEF BeginBuild, StopEngine
  <2> QED
    BY <2>1, <2>2
<1>3. CASE EndBuild
  <2>1. engine.stage \in Stages
    BY <1>3 DEF EndBuild
  <2>2. index' \in [Stages -> GroupFiles]
    BY <1>3, <2>1, EndOfACommand DEF EndBuild
  <2>3. NextStage[engine.stage] \in Stages \cup {"done"}
    BY <2>1 DEF NextStage, Stages
  <2> QED
    BY <1>3, <2>1, <2>2, <2>3 DEF EndBuild
<1>4. CASE StartRouted
  <2>1. CASE AllExist
    BY <1>4, <2>1 DEF StartRouted
  <2>2. CASE ~AllExist
    <3>1. /\ profile' \in [pc : Stages \cup {"idle", "reload", "failed"}, begun : BOOLEAN, lua : Nat]
          /\ profile'.begun => profile'.pc \in Stages
      BY <1>4, <1>20, <2>2
    <3> QED
      BY <1>4, <1>20, <2>2, <3>1
  <2> QED
    BY <2>1, <2>2
<1>5. CASE Outage
  BY <1>5 DEF Outage, StopEngine
<1>6. CASE ReplaceRoads
  BY <1>6, RoutingAssumption DEF ReplaceRoads
<1>7. CASE RequestRebuild
  BY <1>7 DEF RequestRebuild
<1>8. CASE ClearIndex
  BY <1>8 DEF ClearIndex
<1>9. CASE RestartEngine
  BY <1>9 DEF RestartEngine, StopEngine
<1>10. CASE RebuildReady
  BY <1>10 DEF RebuildReady
<1>11. CASE RebuildFails
  BY <1>11 DEF RebuildFails
<1>12. CASE RequestProfile
  BY <1>12 DEF RequestProfile, Stages
<1>13. CASE BeginProfileStage
  <2>1. profile.pc \in Stages
    BY <1>13 DEF BeginProfileStage
  <2>2. CASE engine.state # "down" /\ InputExists(profile.pc)
    <3>1. index' \in [Stages -> GroupFiles]
      BY <1>13, <2>1, <2>2 DEF BeginProfileStage
    <3>2. profile' = [profile EXCEPT !.begun = TRUE] /\ disturbed' = TRUE
      BY <1>13, <2>2 DEF BeginProfileStage
    <3> QED
      BY <1>13, <2>1, <3>1, <3>2 DEF BeginProfileStage
  <2>3. CASE ~(engine.state # "down" /\ InputExists(profile.pc))
    BY <1>13, <2>3 DEF BeginProfileStage
  <2> QED
    BY <2>2, <2>3
<1>14. CASE EndProfileStage
  <2>1. profile.pc \in Stages
    BY <1>14 DEF EndProfileStage
  <2>2. index' \in [Stages -> GroupFiles]
    BY <1>14, <2>1, EndOfACommand DEF EndProfileStage
  <2>3. profile.pc # "customize" => NextStage[profile.pc] \in Stages
    BY <2>1 DEF NextStage, Stages
  <2> QED
    BY <1>14, <2>1, <2>2, <2>3 DEF EndProfileStage
<1>15. CASE ProfileStageFails
  BY <1>15 DEF ProfileStageFails
<1>16. CASE RestoreLua
  BY <1>16 DEF RestoreLua, NoProfileJob
<1>17. CASE ReloadProfile
  BY <1>17 DEF ReloadProfile, NoProfileJob
<1>18. CASE KillRebuilds
  BY <1>18 DEF KillRebuilds, NoProfileJob
<1>19. CASE UNCHANGED routingVars
  BY <1>19 DEF routingVars
<1> QED
  BY <1>1, <1>2, <1>3, <1>4, <1>5, <1>6, <1>7, <1>8, <1>9, <1>10, <1>11, <1>12, <1>13, <1>14,
     <1>15, <1>16, <1>17, <1>18, <1>19 DEF RoutingNext

LEMMA NamedLastStep == RoutingType /\ NamedLast /\ [RoutingNext]_routingVars => NamedLast'
<1> SUFFICES ASSUME RoutingType, NamedLast, [RoutingNext]_routingVars
             PROVE  NamedLast'
  OBVIOUS
<1>1. CASE Boot
  BY <1>1 DEF Boot, NamedLast, Down
<1>2. CASE StartRouted
  BY <1>2 DEF StartRouted, StopEngine, NamedLast, Down, RoutingType
<1>3. CASE ClearIndex
  BY <1>3 DEF ClearIndex, NamedLast
<1>4. CASE BeginBuild
  BY <1>4 DEF BeginBuild, StopEngine, NamedLast, Down, RoutingType
<1>5. CASE EndBuild
  BY <1>5 DEF EndBuild, NamedLast, RoutingType
<1>6. CASE Outage \/ RestartEngine \/ ReloadProfile
  BY <1>6 DEF Outage, RestartEngine, ReloadProfile, StopEngine, NamedLast, Down
<1>7. CASE \/ ReplaceRoads \/ RequestRebuild \/ RebuildReady \/ RebuildFails \/ RequestProfile
           \/ BeginProfileStage \/ EndProfileStage \/ ProfileStageFails \/ RestoreLua
           \/ KillRebuilds \/ UNCHANGED routingVars
  BY <1>7 DEF ReplaceRoads, RequestRebuild, RebuildReady, RebuildFails, RequestProfile,
       BeginProfileStage, EndProfileStage, ProfileStageFails, RestoreLua, KillRebuilds, routingVars,
       NamedLast
<1> QED
  BY <1>1, <1>2, <1>3, <1>4, <1>5, <1>6, <1>7 DEF RoutingNext

\* A step that leaves the index alone, and does not begin to build.
LEMMA IndexIsKept ==
    ASSUME Accounted, UNCHANGED <<roads, index, namedRoads>>,
           engine.state' = "building" => engine' = engine,
           rebuild' = rebuild \/ rebuild' \notin {"restart", "wait"}
                              \/ rebuild \in {"restart", "wait"}
    PROVE  Accounted'
  BY DEF Accounted, Chained, FromTheRoads, NamedIsFinished, AtItsStage, Finished

LEMMA NothingIsMade ==
    ASSUME index = NoIndex, namedRoads = 0
    PROVE  Accounted
  BY Groups DEF Accounted, Chained, FromTheRoads, NamedIsFinished, AtItsStage, Finished, Stages

LEMMA BeginBuildKeeps == RoutingInv /\ ~disturbed /\ BeginBuild => Accounted'
<1> SUFFICES ASSUME RoutingInv, ~disturbed, BeginBuild PROVE Accounted'
  OBVIOUS
<1>1. RoutingType /\ Accounted /\ namedRoads = 0
  BY DEF RoutingInv, NamedLast, BeginBuild
<1>2. CASE ~InputExists(engine.stage)
  BY <1>1, <1>2, IndexIsKept DEF BeginBuild, StopEngine, Down
<1>3. CASE InputExists(engine.stage)
  <2>1. /\ engine.stage \in Stages /\ engine.state = "building" /\ ~engine.begun
        /\ index' = [index EXCEPT ![engine.stage] = BeingWritten]
        /\ index \in [Stages -> GroupFiles]
        /\ engine.state' = "building" /\ engine.stage' = engine.stage /\ engine.begun'
        /\ UNCHANGED <<roads, namedRoads, rebuild>>
    BY <1>1, <1>3 DEF BeginBuild, RoutingType
  <2>2. index # NoIndex => AtItsStage
    BY <1>1 DEF Accounted
  <2>3. CASE engine.stage = "extract"
    <3>1. index["partition"] = NoFiles /\ index["customize"] = NoFiles
      BY <2>1, <2>3, <1>1, Groups DEF Accounted, AtItsStage, Stages
    <3>2. /\ index["extract"]' = BeingWritten
          /\ index["partition"]' = NoFiles /\ index["customize"]' = NoFiles
      BY <2>1, <2>3, <3>1 DEF Stages
    <3> QED
      BY <3>2, <2>1, <2>3, <1>1, Groups
         DEF Accounted, Chained, FromTheRoads, NamedIsFinished, AtItsStage, Finished, Stages
  <2>4. CASE engine.stage = "partition"
    <3>1. index # NoIndex
      BY <1>3, <2>4, Groups DEF InputExists, Stages
    <3>2. Finished(index["extract"]) /\ index["customize"] = NoFiles
      BY <2>1, <2>4, <3>1, <1>1 DEF Accounted, AtItsStage
    <3>3. /\ index["partition"]' = BeingWritten
          /\ index["extract"]' = index["extract"] /\ index["customize"]' = NoFiles
      BY <2>1, <2>4, <3>2 DEF Stages
    <3> QED
      BY <3>2, <3>3, <2>1, <2>4, <1>1, Groups
         DEF Accounted, Chained, FromTheRoads, NamedIsFinished, AtItsStage, Finished, Stages
  <2>5. CASE engine.stage = "customize"
    <3>1. index # NoIndex
      BY <1>3, <2>5, Groups DEF InputExists, Stages
    <3>2. Finished(index["partition"])
      BY <2>1, <2>5, <3>1, <1>1 DEF Accounted, AtItsStage
    <3>3. /\ index["customize"]' = BeingWritten
          /\ index["extract"]' = index["extract"] /\ index["partition"]' = index["partition"]
      BY <2>1, <2>5, <3>2 DEF Stages
    <3> QED
      BY <3>2, <3>3, <2>1, <2>5, <1>1, Groups
         DEF Accounted, Chained, FromTheRoads, NamedIsFinished, AtItsStage, Finished, Stages
  <2> QED
    BY <2>1, <2>3, <2>4, <2>5 DEF Stages
<1> QED
  BY <1>2, <1>3

LEMMA EndBuildKeeps == RoutingInv /\ ~disturbed /\ EndBuild => Accounted'
<1> SUFFICES ASSUME RoutingInv, ~disturbed, EndBuild PROVE Accounted'
  OBVIOUS
<1>1. RoutingType /\ Accounted /\ index \in [Stages -> GroupFiles]
  BY DEF RoutingInv, RoutingType
<1>2. /\ engine.state = "building" /\ engine.stage \in Stages /\ engine.begun
      /\ engine.state' = "building" /\ engine.stage' = NextStage[engine.stage] /\ ~engine.begun'
      /\ Written(engine.stage) /\ UNCHANGED <<roads, namedRoads, rebuild>>
  BY <1>1 DEF EndBuild, RoutingType
<1>3. PICK s \in Stages : s = engine.stage
  BY <1>2
<1>4. CASE index = NoIndex
  <2>1. index' = index
    BY <1>2, <1>4, Groups DEF Written
  <2> QED
    BY <2>1, <1>1, <1>2, <1>4, Groups
       DEF Accounted, Chained, FromTheRoads, NamedIsFinished, AtItsStage, Finished
<1>5. CASE index # NoIndex
  <2>1. /\ Chained' /\ NamedIsFinished'
        /\ Finished(index["extract"]') =>
               \/ Finished(index["extract"]) /\ index["extract"]' = index["extract"]
               \/ index["extract"].roads' = roads
        /\ \A t \in Stages : Finished(index[t]) => index'[t] = index[t]
        /\ \A t \in Stages : index'[t] = NoFiles <=> index[t] = NoFiles
        /\ index[s] # NoFiles => Finished(index'[s])
    BY <1>2, <1>3, WrittenKeeps
  <2>2. FromTheRoads'
    BY <2>1, <1>1, <1>2 DEF FromTheRoads, Accounted
  <2>3. /\ index[s] # NoFiles
        /\ engine.stage = "extract" => index["partition"] = NoFiles
        /\ engine.stage \in {"extract", "partition"} => index["customize"] = NoFiles
    BY <1>1, <1>2, <1>5, <1>3 DEF Accounted, AtItsStage
  <2>4. /\ engine.stage = "extract" => index'["partition"] = NoFiles /\ Finished(index'["extract"])
        /\ engine.stage \in {"extract", "partition"} => index'["customize"] = NoFiles
        /\ engine.stage = "partition" => Finished(index'["partition"])
        /\ engine.stage = "customize" => Finished(index'["customize"])
    BY <2>1, <2>3, <1>2, <1>3 DEF Stages
  <2>5. NextStage["extract"] = "partition" /\ NextStage["partition"] = "customize"
        /\ NextStage["customize"] = "done"
    BY DEF NextStage
  <2>6. AtItsStage'
    BY <2>4, <2>5, <1>2 DEF AtItsStage, Stages
  <2> QED
    BY <2>1, <2>2, <2>6 DEF Accounted
<1> QED
  BY <1>4, <1>5

LEMMA EndProfileStageKeeps == RoutingInv /\ ~disturbed /\ EndProfileStage => Accounted'
<1> SUFFICES ASSUME RoutingInv, ~disturbed, EndProfileStage PROVE Accounted'
  OBVIOUS
<1>1. RoutingType /\ Accounted /\ index \in [Stages -> GroupFiles]
  BY DEF RoutingInv, RoutingType
<1>2. PICK s \in Stages : s = profile.pc
  BY <1>1 DEF EndProfileStage, RoutingType
<1>3. Written(s) /\ UNCHANGED <<roads, namedRoads, rebuild, engine>>
  BY <1>2 DEF EndProfileStage
<1>4. CASE index = NoIndex
  <2>1. index' = index
    BY <1>3, <1>4, Groups DEF Written
  <2> QED
    BY <2>1, <1>1, <1>3, IndexIsKept
<1>5. CASE index # NoIndex
  <2>1. /\ Chained' /\ NamedIsFinished'
        /\ Finished(index["extract"]') =>
               \/ Finished(index["extract"]) /\ index["extract"]' = index["extract"]
               \/ index["extract"].roads' = roads
        /\ \A t \in Stages : Finished(index[t]) => index'[t] = index[t]
        /\ \A t \in Stages : index'[t] = NoFiles <=> index[t] = NoFiles
    BY <1>3, WrittenKeeps DEF RoutingInv
  <2>2. FromTheRoads'
    BY <2>1, <1>1, <1>3 DEF FromTheRoads, Accounted
  <2>3. \A t \in Stages : Finished(index[t]) => Finished(index'[t])
    BY <2>1
  <2>4. AtItsStage'
    BY <2>1, <2>3, <1>1, <1>3, <1>5 DEF AtItsStage, Accounted, Stages
  <2> QED
    BY <2>1, <2>2, <2>4 DEF Accounted
<1> QED
  BY <1>4, <1>5

LEMMA StartRoutedKeeps == RoutingInv /\ ~disturbed /\ StartRouted => Accounted'
<1> SUFFICES ASSUME RoutingInv, ~disturbed, StartRouted PROVE Accounted'
  OBVIOUS
<1>1. RoutingType /\ Accounted
  BY DEF RoutingInv
<1>2. CASE ~AllExist
  BY <1>1, <1>2, IndexIsKept DEF StartRouted, StopEngine, Down
<1>3. CASE AllExist
  <2>1. index # NoIndex
    BY <1>3, Groups DEF AllExist, Stages
  <2>2. Finished(index["customize"]) /\ Finished(index["extract"])
    BY <2>1, <1>1, Groups DEF StartRouted, Accounted, AtItsStage, Chained, Finished
  <2>3. index["extract"].roads = roads
    BY <2>2, <1>1 DEF StartRouted, Accounted, FromTheRoads
  <2>4. /\ UNCHANGED <<roads, index, rebuild>> /\ namedRoads' = roads
        /\ engine'.state = "serving"
    BY <1>3 DEF StartRouted, Down
  <2> QED
    BY <2>2, <2>3, <2>4, <1>1
       DEF Accounted, Chained, FromTheRoads, NamedIsFinished, AtItsStage, Finished
<1> QED
  BY <1>2, <1>3

LEMMA RoutingInvStep == RoutingInv /\ [RoutingNext]_routingVars => RoutingInv'
<1> SUFFICES ASSUME RoutingInv, [RoutingNext]_routingVars
             PROVE  RoutingInv'
  OBVIOUS
<1>1. RoutingType' /\ NamedLast'
  BY RoutingTypeStep, NamedLastStep DEF RoutingInv
<1> SUFFICES ASSUME ~disturbed' PROVE Accounted'
  BY <1>1 DEF RoutingInv
<1>2. CASE ClearIndex
  <2>1. index' = NoIndex /\ namedRoads' = 0
    BY <1>2 DEF ClearIndex
  <2> QED
    BY <2>1, Groups
       DEF Accounted, Chained, FromTheRoads, NamedIsFinished, AtItsStage, Finished, Stages
<1> SUFFICES ASSUME ~ClearIndex PROVE Accounted'
  BY <1>2
<1>3. ~disturbed
  BY DEF RoutingNext, Boot, BeginBuild, EndBuild, StartRouted, Outage, ReplaceRoads, RequestRebuild,
         RestartEngine, RebuildReady, RebuildFails, RequestProfile, BeginProfileStage,
         EndProfileStage, ProfileStageFails, RestoreLua, ReloadProfile, KillRebuilds, routingVars
<1>4. RoutingType /\ Accounted
  BY <1>3 DEF RoutingInv
<1>5. CASE Boot
  <2>1. CASE index = NoIndex /\ namedRoads = 0
    <3>1. index' = NoIndex /\ namedRoads' = 0
      BY <1>5, <2>1 DEF Boot
    <3> QED
      BY <3>1, Groups
         DEF Accounted, Chained, FromTheRoads, NamedIsFinished, AtItsStage, Finished, Stages
  <2>2. CASE ~(index = NoIndex /\ namedRoads = 0)
    BY <1>4, <1>5, <2>2, IndexIsKept DEF Boot, Down
  <2> QED
    BY <2>1, <2>2
<1>6. CASE BeginBuild
  BY <1>3, <1>6, BeginBuildKeeps
<1>7. CASE EndBuild
  BY <1>3, <1>7, EndBuildKeeps
<1>8. CASE StartRouted
  BY <1>3, <1>8, StartRoutedKeeps
<1>9. CASE Outage \/ RestartEngine \/ ReloadProfile
  BY <1>4, <1>9, IndexIsKept DEF Outage, RestartEngine, ReloadProfile, StopEngine, Down
<1>10. CASE ReplaceRoads
  <2>1. /\ engine.state # "building" /\ rebuild = "idle"
        /\ UNCHANGED <<index, namedRoads, engine, rebuild>>
    BY <1>10 DEF ReplaceRoads
  <2> QED
    BY <2>1, <1>4 DEF Accounted, Chained, FromTheRoads, NamedIsFinished, AtItsStage, Finished
<1>11. CASE RequestRebuild \/ RebuildReady \/ RebuildFails \/ KillRebuilds
  BY <1>4, <1>11, IndexIsKept DEF RequestRebuild, RebuildReady, RebuildFails, KillRebuilds
<1>12. CASE RequestProfile \/ ProfileStageFails \/ RestoreLua \/ UNCHANGED routingVars
  BY <1>4, <1>12, IndexIsKept DEF RequestProfile, ProfileStageFails, RestoreLua, routingVars
<1>13. CASE BeginProfileStage
  BY <1>4, <1>13, IndexIsKept DEF BeginProfileStage
<1>14. CASE EndProfileStage
  BY <1>3, <1>14, EndProfileStageKeeps
<1> QED
  BY <1>5, <1>6, <1>7, <1>8, <1>9, <1>10, <1>11, <1>12, <1>13, <1>14 DEF RoutingNext

LEMMA RoutingInvHolds == RoutingSpec => []RoutingInv
<1>1. RoutingInit => RoutingInv
  BY RoutingInvInit
<1>2. RoutingInv /\ [RoutingNext]_routingVars => RoutingInv'
  BY RoutingInvStep
<1> QED
  BY <1>1, <1>2, PTL DEF RoutingSpec

LEMMA FinishedIsOneBuild == Chained /\ Finished(index["customize"]) => OneBuild(index)
  BY DEF Chained, Finished, OneBuild, Stages

-----------------------------------------------------------------------------
(* The theorems *)

\* The container starts serving an index that is whole, of one build and of the
\* roads that are there (docker-compose.yml, osrm-provenance verify), for any
\* number of roads, rebuilds and outages, unless the profile job has written into it
\* or the roads were replaced under a build.
THEOREM EngineServesOneBuild == RoutingSpec => OneBuildIsServed
<1>1. RoutingInv /\ [RoutingNext]_routingVars =>
          [engine.state # "serving" /\ engine'.state = "serving" =>
              \/ disturbed
              \/ OneBuild(engine'.graph) /\ engine'.graph["extract"].roads = roads]_routingVars
  <2> SUFFICES ASSUME RoutingInv, RoutingNext, engine.state # "serving",
                      engine'.state = "serving", ~disturbed
               PROVE  OneBuild(engine'.graph) /\ engine'.graph["extract"].roads = roads
    OBVIOUS
  <2>1. RoutingType /\ Accounted
    BY DEF RoutingInv
  <2>2. Boot \/ StartRouted
    <3>1. engine'.state \in {engine.state, "down"} \/ Boot \/ StartRouted
      <4>1. CASE BeginBuild
        BY <4>1, <2>1, DownType DEF BeginBuild, StopEngine, RoutingType
      <4>2. CASE EndBuild
        BY <4>2, <2>1 DEF EndBuild, RoutingType
      <4>3. CASE Outage \/ RestartEngine \/ ReloadProfile
        BY <4>3, DownType DEF Outage, RestartEngine, ReloadProfile, StopEngine
      <4>4. CASE \/ ReplaceRoads \/ RequestRebuild \/ ClearIndex \/ RebuildReady \/ RebuildFails
                 \/ RequestProfile \/ BeginProfileStage \/ EndProfileStage \/ ProfileStageFails
                 \/ RestoreLua \/ KillRebuilds
        BY <4>4 DEF ReplaceRoads, RequestRebuild, ClearIndex, RebuildReady, RebuildFails,
             RequestProfile, BeginProfileStage, EndProfileStage, ProfileStageFails, RestoreLua,
             KillRebuilds
      <4> QED
        BY <4>1, <4>2, <4>3, <4>4 DEF RoutingNext
    <3> QED
      BY <3>1
  <2>3. CASE Boot
    <3>1. /\ AllExist /\ namedRoads = roads
          /\ engine' = [Down EXCEPT !.state = "serving", !.graph = index, !.roads = roads]
      BY <2>3, <2>1 DEF Boot, Verified, RoutingType
    <3>2. engine'.graph = index
      BY <3>1 DEF Down
    <3>3. Finished(index["customize"]) /\ index["extract"].roads = roads
      BY <3>1, <2>1 DEF Accounted, NamedIsFinished, RoutingType, Versions
    <3> QED
      BY <3>2, <3>3, <2>1, FinishedIsOneBuild DEF Accounted
  <2>4. CASE StartRouted
    <3>1. /\ AllExist /\ engine.state = "building" /\ engine.stage = "done"
          /\ engine' = [Down EXCEPT !.state = "serving", !.graph = index, !.roads = roads]
      BY <2>4, DownType DEF StartRouted, StopEngine
    <3>2. engine'.graph = index
      BY <3>1 DEF Down
    <3>3. index # NoIndex
      BY <3>1, Groups DEF AllExist, Stages
    <3>4. Finished(index["customize"])
      BY <3>1, <3>3, <2>1 DEF Accounted, AtItsStage
    <3>5. Finished(index["extract"])
      BY <3>4, <2>1 DEF Accounted, Chained, Finished
    <3>6. index["extract"].roads = roads
      BY <3>1, <3>5, <2>1 DEF Accounted, FromTheRoads
    <3> QED
      BY <3>2, <3>4, <3>6, <2>1, FinishedIsOneBuild DEF Accounted
  <2> QED
    BY <2>2, <2>3, <2>4
<1> QED
  BY <1>1, RoutingInvHolds, PTL DEF RoutingSpec, OneBuildIsServed

\* A rebuild that reports success has an index of the roads that are there, whole
\* but for what the last command still writes (_wait_for_osrm_artifacts).
THEOREM RebuildsAreOfTheRoads == RoutingSpec => RebuiltFromTheRoads
<1>1. RoutingInv /\ [RoutingNext]_routingVars =>
          [rebuildStatus # "success" /\ rebuildStatus' = "success" =>
              \/ disturbed
              \/ /\ index["extract"].whole /\ index["extract"].roads = roads
                 /\ index["partition"] = index["extract"]]_routingVars
  <2> SUFFICES ASSUME RoutingInv, RoutingNext, rebuildStatus # "success",
                      rebuildStatus' = "success", ~disturbed
               PROVE  /\ index["extract"].whole /\ index["extract"].roads = roads
                      /\ index["partition"] = index["extract"]
    OBVIOUS
  <2>1. Accounted
    BY DEF RoutingInv
  <2>2. RebuildReady
    BY DEF RoutingNext, Boot, BeginBuild, EndBuild, StartRouted, Outage, ReplaceRoads,
         RequestRebuild, ClearIndex, RestartEngine, RebuildFails, RequestProfile, BeginProfileStage,
         EndProfileStage, ProfileStageFails, RestoreLua, ReloadProfile, KillRebuilds
  <2>3. index["customize"] # NoFiles /\ rebuild = "wait"
    BY <2>2 DEF RebuildReady, AllExist, Stages
  <2>4. Finished(index["partition"]) /\ Finished(index["extract"])
    BY <2>1, <2>3 DEF Accounted, Chained, Finished
  <2> QED
    BY <2>1, <2>3, <2>4 DEF Accounted, Chained, FromTheRoads, Finished
<1> QED
  BY <1>1, RoutingInvHolds, PTL DEF RoutingSpec, RebuiltFromTheRoads

=============================================================================

--------------------------- MODULE RuntimePublish ---------------------------
(***************************************************************************)
(* AtomicPublisher (services/runtime_publish.py) and WriterLock            *)
(* (services/runtime_atomic.py), driven by operator processes that run     *)
(* scripts/publish/activate_version.py.                                    *)
(*                                                                         *)
(* A writer is one operator process slot: it runs an invocation, ends with *)
(* an exit code, and may then run another one.  Each system call that      *)
(* another process, a kill or a power loss can separate from the next one  *)
(* is an action.  Two layers of state are kept apart: what the kernel      *)
(* shows to every process (tree, current) and what is certain to be on the *)
(* disk (landed, treeSynced, maybeCurrent); PowerLoss falls back to the    *)
(* second one.                                                             *)
(***************************************************************************)
EXTENDS Naturals, FiniteSets

CONSTANTS
    Versions,       \* version ids
    Writers,        \* operator processes
    Valid,          \* contents that validation accepts
    Torn,           \* content that lost data: validation rejects it
    NoTree,         \* no such directory
    NoVersion,      \* current does not exist
    NoWriter,       \* nobody holds .publish.lock
    MaxPowerLoss    \* bound on the number of power losses

ASSUME ContentAssumption ==
    /\ Torn \notin Valid
    /\ NoTree \notin Valid \cup {Torn}
    /\ NoVersion \notin Versions
    /\ NoWriter \notin Writers
    /\ MaxPowerLoss \in Nat

VARIABLES
    lock,           \* the process that holds the flock on .publish.lock
    staged,         \* .staging/<id>/
    stagedSynced,   \* staged trees whose files are fsynced
    tree,           \* versions/<id>/
    treeSynced,     \* published trees whose files are fsynced
    landed,         \* published trees whose directory entry is fsynced
    current,        \* the target of the symlink current
    maybeCurrent,   \* the targets the disk may hold for current
    pc, op, target, base,   \* the invocation of each writer
    exit,           \* exit code each writer has settled on, and ends with
    activated,      \* history: the versions a publish has activated
    overtaken,      \* history: writers behind which current moved on between
                    \* their release of the lock and their exit
    powerLosses

fsVars == <<staged, stagedSynced, tree, treeSynced, landed, current,
            maybeCurrent>>
histVars == <<activated, overtaken, powerLosses>>
vars == <<lock, fsVars, pc, op, target, base, exit, histVars>>

Trees == Valid \cup {Torn}
Critical == {"locked", "based", "validated", "flushed", "moved", "landed",
             "linked", "swapped", "synced", "verified"}
\* Between the read of the superseded version and the switch away from it.
Superseding == {"based", "validated", "flushed", "moved", "landed", "linked"}
ExitCodes == {"none", "ok", "failed", "durability_unknown", "killed"}

Published == {v \in Versions : tree[v] # NoTree}

TypeOK ==
    /\ lock \in Writers \cup {NoWriter}
    /\ staged \in [Versions -> Trees \cup {NoTree}]
    /\ tree \in [Versions -> Trees \cup {NoTree}]
    /\ stagedSynced \subseteq Versions
    /\ treeSynced \subseteq Versions
    /\ landed \subseteq Versions
    /\ current \in Versions \cup {NoVersion}
    /\ maybeCurrent \subseteq Versions \cup {NoVersion}
    /\ pc \in [Writers -> {"idle", "contend", "leaving"} \cup Critical]
    /\ op \in [Writers -> {"publish", "rollback"}]
    /\ target \in [Writers -> Versions \cup {NoVersion}]
    /\ base \in [Writers -> Versions \cup {NoVersion}]
    /\ exit \in [Writers -> ExitCodes]
    /\ activated \subseteq Versions
    /\ overtaken \subseteq {w \in Writers : pc[w] = "leaving"}
    /\ powerLosses \in Nat

Init ==
    /\ lock = NoWriter
    /\ staged = [v \in Versions |-> NoTree]
    /\ stagedSynced = {}
    /\ tree = [v \in Versions |-> NoTree]
    /\ treeSynced = {}
    /\ landed = {}
    /\ current = NoVersion
    /\ maybeCurrent = {NoVersion}
    /\ pc = [w \in Writers |-> "idle"]
    /\ op = [w \in Writers |-> "publish"]
    /\ target = [w \in Writers |-> NoVersion]
    /\ base = [w \in Writers |-> NoVersion]
    /\ exit = [w \in Writers |-> "none"]
    /\ activated = {}
    /\ overtaken = {}
    /\ powerLosses = 0

-----------------------------------------------------------------------------
(* Helpers *)

\* The writer moves from one point of its invocation to the next.
Step(w, from, to) ==
    /\ pc[w] = from
    /\ pc' = [pc EXCEPT ![w] = to]

\* LeaveFreesAnyLock removes the lock of whoever holds it, as a lock kept in
\* the existence of a file would be removed.
LeaveFreesAnyLock(w, code) ==
    /\ pc' = [pc EXCEPT ![w] = "leaving"]
    /\ exit' = [exit EXCEPT ![w] = code]
    /\ base' = [base EXCEPT ![w] = NoVersion]
    /\ lock' = NoWriter
    /\ UNCHANGED <<op, target>>

\* The writer leaves the `with WriterLock` block, by a return or an exception:
\* it gives the lock back, and its exit code is settled before it is printed.
Leave(w, code) ==
    /\ pc' = [pc EXCEPT ![w] = "leaving"]
    /\ exit' = [exit EXCEPT ![w] = code]
    /\ base' = [base EXCEPT ![w] = NoVersion]
    /\ lock' = IF lock = w THEN NoWriter ELSE lock
    /\ UNCHANGED <<op, target>>

\* The process is gone, and with it its flock if it still had it.
Gone(w) ==
    /\ pc' = [pc EXCEPT ![w] = "idle"]
    /\ op' = [op EXCEPT ![w] = "publish"]
    /\ target' = [target EXCEPT ![w] = NoVersion]
    /\ base' = [base EXCEPT ![w] = NoVersion]
    /\ lock' = IF lock = w THEN NoWriter ELSE lock
    /\ overtaken' = overtaken \ {w}
    /\ UNCHANGED <<fsVars, activated, powerLosses>>

Start(w, kind, v) ==
    /\ Step(w, "idle", "contend")
    /\ op' = [op EXCEPT ![w] = kind]
    /\ target' = [target EXCEPT ![w] = v]
    /\ exit' = [exit EXCEPT ![w] = "none"]
    /\ UNCHANGED <<lock, base, fsVars, histVars>>

-----------------------------------------------------------------------------
(* Invocations *)

\* The caller creates .staging/<id> (mkdir fails if it exists) and fills it.
Stage(v, c) ==
    /\ staged[v] = NoTree
    /\ staged' = [staged EXCEPT ![v] = c]
    /\ stagedSynced' = stagedSynced \ {v}
    /\ UNCHANGED <<lock, tree, treeSynced, landed, current, maybeCurrent, pc,
                   op, target, base, exit, histVars>>

\* publish() checks for the staging directory before it asks for the lock.
StartPublish(w, v) ==
    /\ staged[v] # NoTree
    /\ Start(w, "publish", v)

StartRollback(w, v) == Start(w, "rollback", v)

\* flock(LOCK_EX | LOCK_NB) succeeds.  AcquireUnlocked drops the exclusion.
AcquireUnlocked(w) ==
    /\ Step(w, "contend", "locked")
    /\ lock' = w
    /\ UNCHANGED <<op, target, base, exit, fsVars, histVars>>

Acquire(w) ==
    /\ lock = NoWriter
    /\ Step(w, "contend", "locked")
    /\ lock' = w
    /\ UNCHANGED <<op, target, base, exit, fsVars, histVars>>

\* The lock stays busy until the deadline.  AcquireNoDeadline never gives up.
AcquireNoDeadline(w) == FALSE /\ UNCHANGED vars

AcquireTimeout(w) ==
    /\ pc[w] = "contend"
    /\ lock # NoWriter
    /\ Leave(w, "failed")
    /\ UNCHANGED <<fsVars, histVars>>

\* Any exception before the rename of current: no staging directory, no
\* capacity, rejected validation, colliding version id, failed fsync, rejected
\* rollback target.  The lock is released and the process exits with 1.
FailBeforeSwap(w) ==
    /\ pc[w] \in {"locked"} \cup Superseding
    /\ Leave(w, "failed")
    /\ UNCHANGED <<fsVars, histVars>>

-----------------------------------------------------------------------------
(* publish() inside the lock *)

ReadBase(w) ==
    /\ op[w] = "publish"
    /\ Step(w, "locked", "based")
    /\ base' = [base EXCEPT ![w] = current]
    /\ UNCHANGED <<lock, op, target, exit, fsVars, histVars>>

\* ValidateNothing lets a staged tree through unread.
ValidateNothing(w) ==
    /\ Step(w, "based", "validated")
    /\ staged[target[w]] # NoTree
    /\ UNCHANGED <<lock, op, target, base, exit, fsVars, histVars>>

Validate(w) ==
    /\ Step(w, "based", "validated")
    /\ staged[target[w]] \in Valid
    /\ UNCHANGED <<lock, op, target, base, exit, fsVars, histVars>>

\* FsyncTreeSkipped forgets the fsync of the files.
FsyncTreeSkipped(w) ==
    /\ Step(w, "validated", "flushed")
    /\ UNCHANGED <<lock, op, target, base, exit, fsVars, histVars>>

FsyncTree(w) ==
    /\ Step(w, "validated", "flushed")
    /\ stagedSynced' = stagedSynced \cup {target[w]}
    /\ UNCHANGED <<lock, staged, tree, treeSynced, landed, current,
                   maybeCurrent, op, target, base, exit, histVars>>

\* The rename of the staging directory to versions/<id>, whatever is there.
MoveReplacing(w) ==
    LET v == target[w] IN
    /\ Step(w, "flushed", "moved")
    /\ tree' = [tree EXCEPT ![v] = staged[v]]
    /\ staged' = [staged EXCEPT ![v] = NoTree]
    /\ treeSynced' = IF v \in stagedSynced THEN treeSynced \cup {v}
                                           ELSE treeSynced \ {v}
    /\ stagedSynced' = stagedSynced \ {v}
    /\ UNCHANGED <<lock, landed, current, maybeCurrent, op, target, base,
                   exit, histVars>>

\* renameat2(RENAME_NOREPLACE).
MoveToVersions(w) ==
    /\ pc[w] = "flushed"
    /\ tree[target[w]] = NoTree
    /\ MoveReplacing(w)

\* FsyncVersionsSkipped forgets the fsync of versions/.
FsyncVersionsSkipped(w) ==
    /\ Step(w, "moved", "landed")
    /\ UNCHANGED <<lock, op, target, base, exit, fsVars, histVars>>

FsyncVersions(w) ==
    /\ Step(w, "moved", "landed")
    /\ landed' = Published
    /\ UNCHANGED <<lock, staged, stagedSynced, tree, treeSynced, current,
                   maybeCurrent, op, target, base, exit, histVars>>

-----------------------------------------------------------------------------
(* rollback() inside the lock *)

\* The target is a directory of versions/ that matches its manifest.  If current
\* already names it, the rest is an explicit no-op that is only audited.
RollbackVerify(w) ==
    /\ op[w] = "rollback"
    /\ pc[w] = "locked"
    /\ tree[target[w]] \in Valid
    /\ base' = [base EXCEPT ![w] = current]
    /\ pc' = [pc EXCEPT ![w] = IF current = target[w] THEN "verified"
                                                      ELSE "landed"]
    /\ UNCHANGED <<lock, op, target, exit, fsVars, histVars>>

-----------------------------------------------------------------------------
(* The switch, common to publish() and rollback() *)

\* Create the temporary symlink and check the directory it names.
LinkTemp(w) ==
    /\ Step(w, "landed", "linked")
    /\ tree[target[w]] # NoTree
    /\ UNCHANGED <<lock, op, target, base, exit, fsVars, histVars>>

\* rename(tmp, current): one step for every other process.
Swap(w) ==
    /\ Step(w, "linked", "swapped")
    /\ current' = target[w]
    /\ maybeCurrent' = maybeCurrent \cup {target[w]}
    /\ activated' = IF op[w] = "publish" THEN activated \cup {target[w]}
                                         ELSE activated
    /\ overtaken' = overtaken \cup {u \in Writers : pc[u] = "leaving"}
    /\ UNCHANGED <<lock, staged, stagedSynced, tree, treeSynced, landed, op,
                   target, base, exit, powerLosses>>

FsyncRoot(w) ==
    /\ Step(w, "swapped", "synced")
    /\ maybeCurrent' = {current}
    /\ UNCHANGED <<lock, staged, stagedSynced, tree, treeSynced, landed,
                   current, op, target, base, exit, histVars>>

\* publish() retries the fsync three times and raises PublishDurabilityError
\* (exit 3); rollback() tries once and its OSError ends the process (exit 1).
FsyncRootFails(w) ==
    /\ pc[w] = "swapped"
    /\ Leave(w, IF op[w] = "publish" THEN "durability_unknown" ELSE "failed")
    /\ UNCHANGED <<fsVars, histVars>>

Reread(w) ==
    /\ pc[w] = "synced"
    /\ IF current = target[w]
       THEN /\ pc' = [pc EXCEPT ![w] = "verified"]
            /\ UNCHANGED <<lock, op, target, base, exit>>
       ELSE Leave(w, "failed")
    /\ UNCHANGED <<fsVars, histVars>>

WriteAudit(w) ==
    /\ pc[w] = "verified"
    /\ Leave(w, "ok")
    /\ UNCHANGED <<fsVars, histVars>>

\* _write_audit raises OSError, which activate_version.py does not catch: the
\* interpreter exits with 1 although current has moved.
WriteAuditFails(w) ==
    /\ pc[w] = "verified"
    /\ Leave(w, "failed")
    /\ UNCHANGED <<fsVars, histVars>>

\* Without the lock, activate_version.py prints its answer and exits.
Exit(w) ==
    /\ pc[w] = "leaving"
    /\ Gone(w)
    /\ UNCHANGED exit

-----------------------------------------------------------------------------
(* Failures from outside *)

\* SIGKILL or a container stop between any two system calls.
Kill(w) ==
    /\ pc[w] # "idle"
    /\ Gone(w)
    /\ exit' = [exit EXCEPT ![w] = "killed"]

\* The machine loses power: every process dies, entries and files that were
\* not fsynced may or may not have reached the disk.
PowerLoss ==
    /\ powerLosses < MaxPowerLoss
    /\ powerLosses' = powerLosses + 1
    /\ \E lost \in SUBSET (Published \ landed),
          tornTrees \in SUBSET (Published \ treeSynced),
          tornStaged \in SUBSET (Versions \ stagedSynced) :
         /\ tree' = [v \in Versions |->
                        IF v \in lost THEN NoTree
                        ELSE IF v \in tornTrees THEN Torn ELSE tree[v]]
         /\ staged' = [v \in Versions |->
                        IF staged[v] # NoTree /\ v \in tornStaged THEN Torn
                        ELSE staged[v]]
    /\ current' \in maybeCurrent
    /\ maybeCurrent' = {current'}
    /\ landed' = {v \in Versions : tree'[v] # NoTree}
    /\ treeSynced' = landed'
    /\ stagedSynced' = {v \in Versions : staged'[v] # NoTree}
    /\ lock' = NoWriter
    /\ pc' = [w \in Writers |-> "idle"]
    /\ op' = [w \in Writers |-> "publish"]
    /\ target' = [w \in Writers |-> NoVersion]
    /\ base' = [w \in Writers |-> NoVersion]
    /\ exit' = [w \in Writers |-> "killed"]
    /\ overtaken' = {}
    /\ UNCHANGED activated

-----------------------------------------------------------------------------
Invocation(w) ==
    \/ Acquire(w) \/ AcquireTimeout(w) \/ FailBeforeSwap(w)
    \/ ReadBase(w) \/ Validate(w) \/ FsyncTree(w) \/ MoveToVersions(w)
    \/ FsyncVersions(w) \/ RollbackVerify(w) \/ LinkTemp(w) \/ Swap(w)
    \/ FsyncRoot(w) \/ FsyncRootFails(w) \/ Reread(w)
    \/ WriteAudit(w) \/ WriteAuditFails(w) \/ Exit(w)

Next ==
    \/ \E v \in Versions, c \in Trees : Stage(v, c)
    \/ \E w \in Writers, v \in Versions :
            StartPublish(w, v) \/ StartRollback(w, v)
    \/ \E w \in Writers : Invocation(w) \/ Kill(w)
    \/ PowerLoss

Spec == Init /\ [][Next]_vars

\* A started process is scheduled until it exits: the code has no wait other
\* than the polled lock, and that wait has a deadline.
FairSpec == Spec /\ \A w \in Writers : WF_vars(Invocation(w))

-----------------------------------------------------------------------------
(* Properties *)

\* A publish replaces exactly the version it was validated against: from the
\* moment publish() reads the previous version (whose feature counts the
\* validation compares with, and which the audit names) until its rename,
\* nobody else moves current.
SupersedesItsBase ==
    \A w \in Writers :
        op[w] = "publish" /\ pc[w] \in Superseding => base[w] = current

\* Whatever a publish has ever switched current to survives every later kill
\* and power loss with its whole content, so that current and every later
\* rollback to it can be resolved.
ActivatedNeverLost == \A v \in activated : tree[v] \in Valid

\* No version directory holds content that validation has not accepted, not
\* even a version that was moved to versions/ and never activated.
ShelfIsValid == \A v \in Versions : tree[v] \in Valid \cup {NoTree}

\* Readers that hold a version root rely on it: once in versions/, a tree is
\* never replaced or changed by another publish of the same id.
TreesAreImmutable ==
    [][\A v \in Versions : tree[v] # NoTree => tree'[v] = tree[v]]_vars

\* Exit code 0 is the operator's evidence.  The lock is given back before the
\* answer is printed, so another operator may have moved current in between
\* (overtaken); nothing else may make the evidence false: when the process
\* ends with 0, current names the version that was asked for, and after a
\* publish no power loss can bring an older one back.  (A rollback to the
\* version that is current already is a no-op that does not sync again what an
\* earlier invocation may have failed to sync.)
SuccessMeansServed ==
    [][\A w \in Writers \ overtaken :
         pc[w] = "leaving" /\ pc'[w] = "idle" /\ exit'[w] = "ok"
            => /\ current' = target[w]
               /\ op[w] = "publish" => maybeCurrent' = {target[w]}]_vars

\* Exit code 1 is documented as "publish failed, current is unchanged": it is
\* settled when the lock is released, and nobody else has moved current yet.
FailureMeansUnchanged ==
    [][\A w \in Writers :
         pc[w] \in Critical \ {"locked"} /\ op[w] = "publish"
            /\ pc'[w] = "leaving" /\ exit'[w] = "failed"
            => current' = base[w]]_vars

\* Every invocation ends, whoever holds the lock and however it dies.
EveryInvocationEnds ==
    \A w \in Writers : pc[w] # "idle" ~> pc[w] = "idle"

\* The publisher, however many operators run it, is the register that readers
\* expect: a version appears whole, and current only moves to a whole version.
AV == INSTANCE ActiveVersion WITH active <- current, shelf <- tree
ImplementsActiveVersion == AV!Spec
=============================================================================

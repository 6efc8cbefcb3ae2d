------------------------ MODULE RuntimePublishProofs ------------------------
(***************************************************************************)
(* Proofs about RuntimePublish, for any set of versions, of writers and of *)
(* contents, and for any number of kills and power losses.                 *)
(***************************************************************************)
EXTENDS RuntimePublish, TLAPS

-----------------------------------------------------------------------------
(* The inductive invariant *)

\* .publish.lock is held by the process inside the critical section, if any.
LockIsHeld == \A w \in Writers : pc[w] \in Critical <=> lock = w

\* A running invocation has a target.
TargetIsChosen == \A w \in Writers : pc[w] # "idle" => target[w] \in Versions

\* The steps before the rename to versions/ belong to publish().
PublishOnly ==
    \A w \in Writers :
        pc[w] \in {"based", "validated", "flushed", "moved"}
            => op[w] = "publish"

\* What was validated is still what lies in the staging directory.
StagedStaysValid ==
    \A w \in Writers :
        pc[w] \in {"validated", "flushed"} => staged[target[w]] \in Valid

\* The files are on the disk before the directory is moved.
FlushedIsSynced ==
    \A w \in Writers : pc[w] = "flushed" => target[w] \in stagedSynced

\* From the move on, the version to activate is complete in versions/.
TargetIsShelved ==
    \A w \in Writers :
        pc[w] \in {"moved", "landed", "linked", "swapped", "synced", "verified"}
            => tree[target[w]] \in Valid

\* publish() does not touch current before the new entry is on the disk.
TargetHasLanded ==
    \A w \in Writers :
        op[w] = "publish" /\ pc[w] \in {"landed", "linked"}
            => target[w] \in landed

\* Nobody moves current away between the swap and the end of the invocation.
SwappedIsCurrent ==
    \A w \in Writers :
        pc[w] \in {"swapped", "synced", "verified"} => current = target[w]

\* A process that left with success, and behind which nobody has moved current
\* since, has left current where it put it; a publish has also synced it.
LeftIsServed ==
    \A w \in Writers \ overtaken :
        pc[w] = "leaving" /\ exit[w] = "ok"
            => /\ current = target[w]
               /\ op[w] = "publish" => maybeCurrent = {target[w]}

\* From the fsync of the root on, the disk holds nothing but current.
SyncedIsCertain ==
    \A w \in Writers :
        pc[w] \in {"synced", "verified"} /\ op[w] = "publish"
            => maybeCurrent = {current}

DiskState ==
    /\ Published \subseteq treeSynced
    /\ landed \subseteq Published
    /\ activated \subseteq landed

IInv ==
    /\ TypeOK
    /\ LockIsHeld
    /\ TargetIsChosen
    /\ PublishOnly
    /\ SupersedesItsBase
    /\ StagedStaysValid
    /\ FlushedIsSynced
    /\ TargetIsShelved
    /\ TargetHasLanded
    /\ SwappedIsCurrent
    /\ SyncedIsCertain
    /\ LeftIsServed
    /\ ShelfIsValid
    /\ DiskState

-----------------------------------------------------------------------------
LEMMA InitIInv == Init => IInv
BY ContentAssumption
   DEF Init, IInv, TypeOK, LockIsHeld, TargetIsChosen, PublishOnly,
       SupersedesItsBase, StagedStaysValid, FlushedIsSynced, TargetIsShelved,
       TargetHasLanded, SwappedIsCurrent, SyncedIsCertain, LeftIsServed,
       ShelfIsValid, DiskState, Published, Critical, Superseding, ExitCodes,
       Trees

-----------------------------------------------------------------------------
(* Every step preserves IInv *)

\* Steps that leave the critical section, or the wait for it: they give back
\* the lock if and only if the process held it, and leave the file system
\* alone.  Success is only answered with current in place.
LEMMA LeaveIInv ==
    ASSUME IInv, NEW w \in Writers, NEW code \in ExitCodes,
           pc[w] \in {"contend"} \cup Critical,
           code = "ok" => pc[w] = "verified",
           Leave(w, code), UNCHANGED <<fsVars, histVars>>
    PROVE  IInv'
<1> USE ContentAssumption DEF IInv, Leave, fsVars, histVars
<1>1. TypeOK'
  <2>1. w \notin overtaken
    BY DEF TypeOK, Critical
  <2> QED BY <2>1 DEF TypeOK, ExitCodes, Trees
<1>2. LockIsHeld'
  BY DEF TypeOK, LockIsHeld, Critical
<1>3. TargetIsChosen' /\ PublishOnly' /\ SupersedesItsBase'
  BY DEF TypeOK, TargetIsChosen, PublishOnly, SupersedesItsBase, Superseding,
         Critical
<1>4. StagedStaysValid' /\ FlushedIsSynced' /\ TargetIsShelved'
        /\ TargetHasLanded' /\ SwappedIsCurrent' /\ SyncedIsCertain'
  BY DEF TypeOK, StagedStaysValid, FlushedIsSynced, TargetIsShelved,
         TargetHasLanded, SwappedIsCurrent, SyncedIsCertain
<1>5. LeftIsServed'
  BY DEF TypeOK, LeftIsServed, SwappedIsCurrent, SyncedIsCertain
<1>6. ShelfIsValid' /\ DiskState'
  BY DEF ShelfIsValid, DiskState, Published
<1> QED BY <1>1, <1>2, <1>3, <1>4, <1>5, <1>6

\* The end of a process, by its exit or by a kill.
LEMMA GoneIInv ==
    ASSUME IInv, NEW w \in Writers, Gone(w), exit' \in [Writers -> ExitCodes],
           \A u \in Writers \ {w} : exit'[u] = exit[u]
    PROVE  IInv'
<1> USE ContentAssumption DEF IInv, Gone, fsVars
<1>1. TypeOK'
  BY DEF TypeOK, Trees
<1>2. LockIsHeld'
  BY DEF TypeOK, LockIsHeld, Critical
<1>3. TargetIsChosen' /\ PublishOnly' /\ SupersedesItsBase'
  BY DEF TypeOK, TargetIsChosen, PublishOnly, SupersedesItsBase, Superseding
<1>4. StagedStaysValid' /\ FlushedIsSynced' /\ TargetIsShelved'
        /\ TargetHasLanded' /\ SwappedIsCurrent' /\ SyncedIsCertain'
  BY DEF TypeOK, StagedStaysValid, FlushedIsSynced, TargetIsShelved,
         TargetHasLanded, SwappedIsCurrent, SyncedIsCertain
<1>5. LeftIsServed'
  BY DEF TypeOK, LeftIsServed
<1>6. ShelfIsValid' /\ DiskState'
  BY DEF ShelfIsValid, DiskState, Published
<1> QED BY <1>1, <1>2, <1>3, <1>4, <1>5, <1>6

\* Steps that create the invocation and fill the staging directory, which
\* nothing in versions/ depends on.
LEMMA StartIInv ==
    ASSUME IInv, NEW w \in Writers, NEW kind \in {"publish", "rollback"},
           NEW v \in Versions, Start(w, kind, v)
    PROVE  IInv'
<1> USE ContentAssumption DEF IInv, Start, Step, fsVars, histVars
<1>1. TypeOK' /\ LockIsHeld' /\ TargetIsChosen' /\ PublishOnly'
  BY DEF TypeOK, LockIsHeld, TargetIsChosen, PublishOnly, Critical, ExitCodes,
         Trees
<1>2. SupersedesItsBase' /\ StagedStaysValid' /\ FlushedIsSynced'
  BY DEF TypeOK, SupersedesItsBase, Superseding, StagedStaysValid,
         FlushedIsSynced
<1>3. TargetIsShelved' /\ TargetHasLanded' /\ SwappedIsCurrent'
        /\ SyncedIsCertain' /\ LeftIsServed' /\ ShelfIsValid' /\ DiskState'
  BY DEF TypeOK, TargetIsShelved, TargetHasLanded, SwappedIsCurrent,
         SyncedIsCertain, LeftIsServed, ShelfIsValid, DiskState, Published
<1> QED BY <1>1, <1>2, <1>3

LEMMA StageIInv ==
    ASSUME IInv, NEW v \in Versions, NEW c \in Trees, Stage(v, c)
    PROVE  IInv'
<1> USE ContentAssumption DEF IInv, Stage, histVars
<1>1. TypeOK'
  BY DEF TypeOK, Trees
<1>2. StagedStaysValid' /\ FlushedIsSynced'
  <2>1. ASSUME NEW w \in Writers, pc[w] \in {"validated", "flushed"}
        PROVE  target[w] # v
    BY <2>1 DEF StagedStaysValid
  <2> QED
    BY <2>1 DEF StagedStaysValid, FlushedIsSynced, TargetIsChosen, TypeOK
<1>3. LockIsHeld' /\ TargetIsChosen' /\ PublishOnly' /\ SupersedesItsBase'
        /\ TargetIsShelved' /\ TargetHasLanded' /\ SwappedIsCurrent'
        /\ SyncedIsCertain' /\ LeftIsServed' /\ ShelfIsValid' /\ DiskState'
  BY DEF LockIsHeld, TargetIsChosen, PublishOnly, SupersedesItsBase,
         TargetIsShelved, TargetHasLanded, SwappedIsCurrent, SyncedIsCertain,
         LeftIsServed, ShelfIsValid, DiskState, Published
<1> QED BY <1>1, <1>2, <1>3

\* The lock is free, so nobody else is in the critical section that the
\* process enters.
LEMMA AcquireIInv ==
    ASSUME IInv, NEW w \in Writers, Acquire(w)
    PROVE  IInv'
<1> USE ContentAssumption DEF IInv, Acquire, Step, fsVars, histVars
<1>1. TypeOK' /\ LockIsHeld' /\ TargetIsChosen' /\ PublishOnly'
  BY DEF TypeOK, LockIsHeld, TargetIsChosen, PublishOnly, Critical, Trees
<1>2. SupersedesItsBase' /\ StagedStaysValid' /\ FlushedIsSynced'
        /\ TargetIsShelved' /\ TargetHasLanded' /\ SwappedIsCurrent'
        /\ SyncedIsCertain' /\ LeftIsServed' /\ ShelfIsValid' /\ DiskState'
  BY DEF TypeOK, SupersedesItsBase, Superseding, StagedStaysValid,
         FlushedIsSynced, TargetIsShelved, TargetHasLanded, SwappedIsCurrent,
         SyncedIsCertain, LeftIsServed, ShelfIsValid, DiskState, Published
<1> QED BY <1>1, <1>2

\* The steps of the lock holder that leave versions/ and current alone: each
\* establishes what the next ones rely on.
LEMMA PrepareIInv ==
    ASSUME IInv, NEW w \in Writers,
           \/ ReadBase(w) \/ Validate(w) \/ FsyncTree(w) \/ FsyncVersions(w)
           \/ RollbackVerify(w) \/ LinkTemp(w) \/ FsyncRoot(w)
    PROVE  IInv'
<1> USE ContentAssumption
    DEF IInv, TypeOK, LockIsHeld, TargetIsChosen, PublishOnly,
        SupersedesItsBase, StagedStaysValid, FlushedIsSynced, TargetIsShelved,
        TargetHasLanded, SwappedIsCurrent, SyncedIsCertain, LeftIsServed,
        ShelfIsValid, DiskState, Published, Critical, Superseding, Trees, Step,
        fsVars, histVars
<1>1. CASE ReadBase(w)         BY <1>1 DEF ReadBase
<1>2. CASE Validate(w)         BY <1>2 DEF Validate
<1>3. CASE FsyncTree(w)        BY <1>3 DEF FsyncTree
<1>4. CASE FsyncVersions(w)    BY <1>4 DEF FsyncVersions
<1>5. CASE RollbackVerify(w)   BY <1>5 DEF RollbackVerify
<1>6. CASE LinkTemp(w)         BY <1>6 DEF LinkTemp
<1>7. CASE FsyncRoot(w)        BY <1>7 DEF FsyncRoot
<1> QED BY <1>1, <1>2, <1>3, <1>4, <1>5, <1>6, <1>7

\* The rename into versions/: only the lock holder is between validation and
\* the end, so no other invocation sees its staging directory disappear.
LEMMA MoveIInv ==
    ASSUME IInv, NEW w \in Writers, MoveToVersions(w)
    PROVE  IInv'
<1> USE ContentAssumption
    DEF IInv, MoveToVersions, MoveReplacing, Step, histVars
<1>1. /\ target[w] \in Versions
      /\ staged[target[w]] \in Valid
      /\ target[w] \in stagedSynced
  BY DEF TargetIsChosen, StagedStaysValid, FlushedIsSynced
<1>2. \A u \in Writers \ {w} : pc[u] \notin Critical
  BY DEF LockIsHeld, Critical
<1>3. TypeOK' /\ LockIsHeld' /\ TargetIsChosen' /\ PublishOnly'
  BY <1>1 DEF TypeOK, LockIsHeld, TargetIsChosen, PublishOnly, Critical, Trees
<1>4. SupersedesItsBase' /\ SwappedIsCurrent' /\ TargetHasLanded'
        /\ SyncedIsCertain' /\ LeftIsServed'
  BY DEF TypeOK, SupersedesItsBase, Superseding, SwappedIsCurrent,
         TargetHasLanded, SyncedIsCertain, LeftIsServed
<1>5. StagedStaysValid' /\ FlushedIsSynced'
  BY <1>2 DEF TypeOK, StagedStaysValid, FlushedIsSynced, Critical
<1>6. TargetIsShelved' /\ ShelfIsValid'
  BY <1>1, <1>2 DEF TypeOK, TargetIsShelved, ShelfIsValid, Critical
<1>7. DiskState'
  BY <1>1 DEF TypeOK, DiskState, Published
<1> QED BY <1>3, <1>4, <1>5, <1>6, <1>7

\* The rename of current: the base of nobody else is invalidated, because only
\* the lock holder has read one.
LEMMA SwapIInv ==
    ASSUME IInv, NEW w \in Writers, Swap(w)
    PROVE  IInv'
<1> USE ContentAssumption DEF IInv, Swap, Step
<1>1. target[w] \in Versions /\ tree[target[w]] \in Valid
  BY DEF TargetIsChosen, TargetIsShelved
<1>2. \A u \in Writers \ {w} : pc[u] \notin Critical
  BY DEF LockIsHeld, Critical
<1>3. TypeOK' /\ LockIsHeld' /\ TargetIsChosen' /\ PublishOnly'
  BY <1>1 DEF TypeOK, LockIsHeld, TargetIsChosen, PublishOnly, Critical, Trees
<1>4. SupersedesItsBase' /\ SwappedIsCurrent' /\ SyncedIsCertain'
  BY <1>2 DEF TypeOK, SupersedesItsBase, Superseding, SwappedIsCurrent,
              SyncedIsCertain, Critical
<1>7. LeftIsServed'
  \* Everyone who had left by now is overtaken.
  BY DEF TypeOK, LeftIsServed
<1>5. StagedStaysValid' /\ FlushedIsSynced' /\ TargetIsShelved'
        /\ TargetHasLanded' /\ ShelfIsValid'
  BY DEF TypeOK, StagedStaysValid, FlushedIsSynced, TargetIsShelved,
         TargetHasLanded, ShelfIsValid
<1>6. DiskState'
  BY DEF DiskState, Published, TargetHasLanded
<1> QED BY <1>3, <1>4, <1>5, <1>6, <1>7

\* A power loss can only take what was not yet on the disk, and IInv says that
\* nothing published by a complete step is in that position.
LEMMA PowerLossIInv ==
    ASSUME IInv, PowerLoss
    PROVE  IInv'
<1> USE ContentAssumption DEF IInv, PowerLoss
<1>1. PICK lost \in SUBSET (Published \ landed),
           tornTrees \in SUBSET (Published \ treeSynced),
           tornStaged \in SUBSET (Versions \ stagedSynced) :
        /\ tree' = [v \in Versions |->
                       IF v \in lost THEN NoTree
                       ELSE IF v \in tornTrees THEN Torn ELSE tree[v]]
        /\ staged' = [v \in Versions |->
                       IF staged[v] # NoTree /\ v \in tornStaged THEN Torn
                       ELSE staged[v]]
  OBVIOUS
<1>2. tornTrees = {}
  BY DEF DiskState
<1>3. \A v \in Versions : tree'[v] = tree[v] \/ tree'[v] = NoTree
  BY <1>1, <1>2
<1>4. TypeOK'
  <2>1. tree' \in [Versions -> Trees \cup {NoTree}]
    BY <1>1, <1>2 DEF TypeOK
  <2>2. staged' \in [Versions -> Trees \cup {NoTree}]
    BY <1>1 DEF TypeOK, Trees
  <2> QED
    BY <2>1, <2>2 DEF TypeOK, ExitCodes, Critical
<1>5. ShelfIsValid'
  BY <1>3 DEF ShelfIsValid
<1>6. DiskState'
  <2>1. \A v \in landed : tree'[v] = tree[v]
    BY <1>1, <1>2 DEF TypeOK
  <2> QED
    BY <2>1 DEF DiskState, Published, TypeOK
<1>7. LockIsHeld' /\ TargetIsChosen' /\ PublishOnly' /\ SupersedesItsBase'
        /\ StagedStaysValid' /\ FlushedIsSynced' /\ TargetIsShelved'
        /\ TargetHasLanded' /\ SwappedIsCurrent' /\ SyncedIsCertain'
        /\ LeftIsServed'
  BY DEF LockIsHeld, TargetIsChosen, PublishOnly, SupersedesItsBase,
         Superseding, StagedStaysValid, FlushedIsSynced, TargetIsShelved,
         TargetHasLanded, SwappedIsCurrent, SyncedIsCertain, LeftIsServed,
         Critical
<1> QED BY <1>4, <1>5, <1>6, <1>7

LEMMA StutterIInv ==
    ASSUME IInv, UNCHANGED vars
    PROVE  IInv'
BY DEF IInv, TypeOK, LockIsHeld, TargetIsChosen, PublishOnly,
       SupersedesItsBase, StagedStaysValid, FlushedIsSynced, TargetIsShelved,
       TargetHasLanded, SwappedIsCurrent, SyncedIsCertain, LeftIsServed,
       ShelfIsValid, DiskState, Published, vars, fsVars, histVars

LEMMA StepIInv ==
    ASSUME IInv, [Next]_vars
    PROVE  IInv'
<1>1. CASE \E v \in Versions, c \in Trees : Stage(v, c)
  BY <1>1, StageIInv
<1>2. CASE \E w \in Writers, v \in Versions :
              StartPublish(w, v) \/ StartRollback(w, v)
  BY <1>2, StartIInv DEF StartPublish, StartRollback
<1>3. ASSUME NEW w \in Writers, Invocation(w) PROVE IInv'
  <2>1. CASE Acquire(w)
    BY <2>1, AcquireIInv
  <2>2. CASE AcquireTimeout(w) \/ FailBeforeSwap(w)
    BY <2>2, LeaveIInv
       DEF AcquireTimeout, FailBeforeSwap, ExitCodes, Critical, Superseding
  <2>3. CASE \/ ReadBase(w) \/ Validate(w) \/ FsyncTree(w) \/ FsyncVersions(w)
             \/ RollbackVerify(w) \/ LinkTemp(w) \/ FsyncRoot(w)
    BY <2>3, PrepareIInv
  <2>4. CASE MoveToVersions(w)
    BY <2>4, MoveIInv
  <2>5. CASE Swap(w)
    BY <2>5, SwapIInv
  <2>6. CASE FsyncRootFails(w)
    BY <2>6, LeaveIInv DEF FsyncRootFails, ExitCodes, Critical
  <2>7. CASE Reread(w)
    \* The lock holder finds current where it put it.
    <3>1. current = target[w]
      BY <2>7 DEF Reread, IInv, SwappedIsCurrent
    <3> QED
      BY <2>7, <3>1
         DEF Reread, IInv, TypeOK, LockIsHeld, TargetIsChosen, PublishOnly,
             SupersedesItsBase, Superseding, StagedStaysValid,
             FlushedIsSynced, TargetIsShelved, TargetHasLanded,
             SwappedIsCurrent, SyncedIsCertain, LeftIsServed, ShelfIsValid,
             DiskState, Published, Critical, fsVars, histVars
  <2>8. CASE WriteAudit(w) \/ WriteAuditFails(w)
    BY <2>8, LeaveIInv DEF WriteAudit, WriteAuditFails, ExitCodes, Critical
  <2>9. CASE Exit(w)
    BY <2>9, GoneIInv DEF Exit, IInv, TypeOK
  <2> QED
    BY <1>3, <2>1, <2>2, <2>3, <2>4, <2>5, <2>6, <2>7, <2>8, <2>9
       DEF Invocation
<1>4. ASSUME NEW w \in Writers, Kill(w) PROVE IInv'
  BY <1>4, GoneIInv DEF Kill, ExitCodes, IInv, TypeOK
<1>5. CASE PowerLoss
  BY <1>5, PowerLossIInv
<1>6. CASE UNCHANGED vars
  BY <1>6, StutterIInv
<1> QED BY <1>1, <1>2, <1>3, <1>4, <1>5, <1>6 DEF Next

LEMMA AlwaysIInv == Spec => []IInv
<1>1. Init => IInv
  BY InitIInv
<1>2. IInv /\ [Next]_vars => IInv'
  BY StepIInv
<1> QED BY <1>1, <1>2, PTL DEF Spec

-----------------------------------------------------------------------------
(* The theorems *)

\* The publisher's state always has its type, kills and power losses included.
THEOREM TypeCorrect == Spec => []TypeOK
<1>1. IInv => TypeOK
  BY DEF IInv
<1> QED BY <1>1, AlwaysIInv, PTL

\* Whatever the number of operators, a publish() replaces exactly the version
\* it read, validated against and will name in its audit as the previous one.
THEOREM NoLostUpdate == Spec => []SupersedesItsBase
<1>1. IInv => SupersedesItsBase
  BY DEF IInv
<1> QED BY <1>1, AlwaysIInv, PTL

\* After any sequence of kills and power losses, every directory of versions/
\* has complete, validated content: the fsync of the files comes before the
\* rename that makes them visible.
THEOREM ShelfStaysValid == Spec => []ShelfIsValid
<1>1. IInv => ShelfIsValid
  BY DEF IInv
<1> QED BY <1>1, AlwaysIInv, PTL

\* A version that a publish has switched current to is on the disk, complete,
\* after any sequence of kills and power losses: the fsync of versions/ comes
\* before the rename of current.
THEOREM ActivatedSurvives == Spec => []ActivatedNeverLost
<1>1. IInv => ActivatedNeverLost
  BY ContentAssumption
     DEF IInv, TypeOK, ShelfIsValid, DiskState, Published, ActivatedNeverLost
<1> QED BY <1>1, AlwaysIInv, PTL

\* A process that ends with exit code 0 leaves current on the version that was
\* asked for, unless another operator has moved it since the lock was given
\* back; what a publish has activated is then on the disk too.
THEOREM SuccessIsServed == Spec => SuccessMeansServed
<1> DEFINE Ends(w) == pc[w] = "leaving" /\ pc'[w] = "idle" /\ exit'[w] = "ok"
           A == \A w \in Writers \ overtaken :
                   Ends(w) => /\ current' = target[w]
                              /\ op[w] = "publish" => maybeCurrent' = {target[w]}
<1>1. ASSUME IInv, [Next]_vars PROVE [A]_vars
  <2> SUFFICES ASSUME Next, NEW w \in Writers \ overtaken, Ends(w)
               PROVE  /\ current' = target[w]
                      /\ op[w] = "publish" => maybeCurrent' = {target[w]}
    BY <1>1
  <2> USE <1>1 DEF IInv
  \* Of all the steps, only its own exit ends a process with success.
  <2>1. Exit(w)
    <3>1. ASSUME NEW u \in Writers, Invocation(u) PROVE Exit(w)
      <4>1. CASE Exit(u)
        BY <4>1 DEF Exit, Gone, TypeOK
      <4>2. CASE \/ AcquireTimeout(u) \/ FailBeforeSwap(u) \/ FsyncRootFails(u)
                 \/ WriteAudit(u) \/ WriteAuditFails(u)
        BY <4>2
           DEF AcquireTimeout, FailBeforeSwap, FsyncRootFails, WriteAudit,
               WriteAuditFails, Leave, TypeOK
      <4>3. CASE \/ Acquire(u) \/ ReadBase(u) \/ Validate(u) \/ FsyncTree(u)
                 \/ MoveToVersions(u) \/ FsyncVersions(u) \/ LinkTemp(u)
                 \/ Swap(u) \/ FsyncRoot(u)
        BY <4>3
           DEF Acquire, ReadBase, Validate, FsyncTree, MoveToVersions,
               MoveReplacing, FsyncVersions, LinkTemp, Swap, FsyncRoot, Step,
               TypeOK
      <4>4. CASE RollbackVerify(u) \/ Reread(u)
        BY <4>4 DEF RollbackVerify, Reread, Leave, TypeOK
      <4> QED BY <3>1, <4>1, <4>2, <4>3, <4>4 DEF Invocation
    <3>2. CASE \E v \in Versions, c \in Trees : Stage(v, c)
      BY <3>2 DEF Stage
    <3>3. CASE \E u \in Writers, v \in Versions :
                  StartPublish(u, v) \/ StartRollback(u, v)
      BY <3>3 DEF StartPublish, StartRollback, Start, Step, TypeOK
    <3>4. CASE \E u \in Writers : Kill(u)
      BY <3>4 DEF Kill, Gone, TypeOK
    <3>5. CASE PowerLoss
      BY <3>5 DEF PowerLoss
    <3> QED BY <3>1, <3>2, <3>3, <3>4, <3>5 DEF Next
  <2> QED BY <2>1 DEF Exit, Gone, LeftIsServed, fsVars
<1> QED
  BY <1>1, AlwaysIInv, PTL DEF Spec, SuccessMeansServed

-----------------------------------------------------------------------------
(* The publisher implements the register *)

LEMMA InitImplements == Init => AV!Init
BY DEF Init, AV!Init

\* Only the rename into versions/ and the rename of current are visible; every
\* other step of every process is a stutter of the register.
LEMMA StepImplements ==
    ASSUME IInv, MaxPowerLoss = 0, [Next]_vars
    PROVE  [AV!Next]_<<current, tree>>
<1> SUFFICES ASSUME Next PROVE AV!Next \/ UNCHANGED <<current, tree>>
  BY DEF vars, fsVars
<1>1. CASE \E v \in Versions, c \in Trees : Stage(v, c)
  BY <1>1 DEF Stage
<1>2. CASE \E w \in Writers, v \in Versions :
              StartPublish(w, v) \/ StartRollback(w, v)
  BY <1>2 DEF StartPublish, StartRollback, Start, fsVars
<1>3. ASSUME NEW w \in Writers, Invocation(w)
      PROVE  AV!Next \/ UNCHANGED <<current, tree>>
  <2>1. CASE MoveToVersions(w)
    <3>1. /\ target[w] \in Versions
          /\ tree[target[w]] = NoTree
          /\ staged[target[w]] \in Valid
      BY <2>1 DEF MoveToVersions, IInv, TargetIsChosen, StagedStaysValid
    <3>2. AV!Shelve(target[w])
      BY <2>1, <3>1 DEF MoveToVersions, MoveReplacing, AV!Shelve
    <3> QED BY <3>1, <3>2 DEF AV!Next
  <2>2. CASE Swap(w)
    <3>1. target[w] \in Versions /\ tree[target[w]] \in Valid
      BY <2>2 DEF Swap, Step, IInv, TargetIsChosen, TargetIsShelved
    <3>2. AV!Activate(target[w])
      BY <2>2, <3>1 DEF Swap, AV!Activate
    <3> QED BY <3>1, <3>2 DEF AV!Next
  <2>3. CASE \/ Acquire(w) \/ AcquireTimeout(w) \/ FailBeforeSwap(w)
             \/ ReadBase(w) \/ Validate(w) \/ FsyncTree(w) \/ FsyncVersions(w)
             \/ RollbackVerify(w) \/ LinkTemp(w) \/ FsyncRoot(w)
             \/ FsyncRootFails(w) \/ Reread(w) \/ WriteAudit(w)
             \/ WriteAuditFails(w) \/ Exit(w)
    BY <2>3
       DEF Acquire, AcquireTimeout, FailBeforeSwap, ReadBase, Validate,
           FsyncTree, FsyncVersions, RollbackVerify, LinkTemp, FsyncRoot,
           FsyncRootFails, Reread, WriteAudit, WriteAuditFails, Exit, Gone,
           fsVars
  <2> QED BY <1>3, <2>1, <2>2, <2>3 DEF Invocation
<1>4. CASE \E w \in Writers : Kill(w)
  BY <1>4 DEF Kill, Gone, fsVars
<1>5. CASE PowerLoss
  BY <1>5 DEF PowerLoss, IInv, TypeOK
<1> QED BY <1>1, <1>2, <1>3, <1>4, <1>5 DEF Next

\* As long as the machine keeps its power, any number of operators that publish,
\* roll back, fail and are killed behave as the register ActiveVersion.
THEOREM Implementation ==
    ASSUME MaxPowerLoss = 0
    PROVE  Spec => ImplementsActiveVersion
<1>1. Init => AV!Init
  BY InitImplements
<1>2. IInv /\ [Next]_vars => [AV!Next]_AV!vars
  BY StepImplements DEF AV!vars
<1> QED
  BY <1>1, <1>2, AlwaysIInv, PTL DEF Spec, ImplementsActiveVersion, AV!Spec

\* As long as the machine keeps its power, the content of a version directory
\* is never replaced, whatever ids the operators choose: a reader that resolved
\* current may keep reading that directory through any later publish.
THEOREM Immutability ==
    ASSUME MaxPowerLoss = 0
    PROVE  Spec => TreesAreImmutable
<1> DEFINE A == \A v \in Versions : tree[v] # NoTree => tree'[v] = tree[v]
<1>1. ASSUME IInv, [Next]_vars PROVE [A]_vars
  <2> SUFFICES ASSUME Next PROVE A
    BY <1>1
  <2>1. CASE UNCHANGED tree
    BY <2>1
  <2>2. ASSUME NEW w \in Writers, MoveToVersions(w) PROVE A
    BY <1>1, <2>2
       DEF MoveToVersions, MoveReplacing, IInv, TypeOK
  <2>3. ASSUME NEW w \in Writers, Swap(w) PROVE A
    BY <2>3 DEF Swap
  <2>4. ASSUME NEW w \in Writers, Invocation(w) PROVE A
    BY <2>1, <2>2, <2>3, <2>4
       DEF Invocation, Acquire, AcquireTimeout, FailBeforeSwap, ReadBase,
           Validate, FsyncTree, FsyncVersions, RollbackVerify, LinkTemp,
           FsyncRoot, FsyncRootFails, Reread, WriteAudit, WriteAuditFails,
           Exit, Gone, fsVars
  <2>5. CASE PowerLoss
    BY <1>1, <2>5 DEF PowerLoss, IInv, TypeOK
  <2> QED
    BY <2>1, <2>4, <2>5
       DEF Next, Stage, StartPublish, StartRollback, Start, Kill, Gone,
           fsVars
<1> QED
  BY <1>1, AlwaysIInv, PTL DEF Spec, TreesAreImmutable
=============================================================================

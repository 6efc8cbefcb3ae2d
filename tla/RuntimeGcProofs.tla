-------------------------- MODULE RuntimeGcProofs --------------------------
(***************************************************************************)
(* Proofs about RuntimeGc, for any sets of readers, collectors and         *)
(* versions, any retention, lease duration and clock error up to the       *)
(* margin.                                                                 *)
(***************************************************************************)
EXTENDS RuntimeGc, FiniteSetTheorems, TLAPS

-----------------------------------------------------------------------------
(* The inductive invariant *)

\* Each flock is held by exactly the process that is inside its region.
LocksAreHeld ==
    /\ \A r \in Readers : reader[r] \in Acquiring <=> coord = r
    /\ \A c \in Collectors : phase[c] \in Collecting <=> coord = c
    /\ \A c \in Collectors :
           phase[c] \in {"serialized"} \cup Collecting <=> writer = c

\* What an acquisition has resolved stays on the disk until it is listed.
ResolvedIsWhole ==
    \A r \in Readers :
        reader[r] \in {"resolved", "locked", "retired", "stamped"}
            => leased[r] \in Versions /\ tree[leased[r]] = "whole"

\* Nobody can get to need a version after it has been marked.
DoomedIsFree ==
    \A c \in Collectors :
        /\ doomed[c] # {} => phase[c] = "sweeping"
        /\ current \notin doomed[c]
        /\ \A r \in active : leased[r] \notin doomed[c]

\* A collector's idea of the time is not ahead by more than the margin.
CutoffIsBounded ==
    \A c \in Collectors :
        phase[c] = "cleaning" => cutoff[c] <= now + MaxSkew

\* The files that an acquisition has created so far.
FilesAreCreated ==
    \A r \in Readers :
        /\ reader[r] \in {"locked", "retired", "stamped"} => r \in locks
        /\ reader[r] \in {"retired", "stamped"} => r \in retired

\* An acquisition past the check of the tombstone limit still has its place.
TombstoneHasRoom ==
    \A r \in Readers :
        reader[r] \in {"resolved", "locked"}
            => Cardinality(retired) < TombstoneLimit

IInv ==
    /\ TypeOK
    /\ LocksAreHeld
    /\ ResolvedIsWhole
    /\ LeasedVersionIsWhole
    /\ DoomedIsFree
    /\ CutoffIsBounded
    /\ UnexpiredLeaseIsListed
    /\ CurrentIsWhole
    /\ FilesAreCreated
    /\ ActiveIsLocked
    /\ TombstoneHasRoom
    /\ TombstonesBounded

-----------------------------------------------------------------------------
(* Finite sets *)

LEMMA OneMore ==
    ASSUME NEW S, IsFiniteSet(S), NEW x, NEW n \in Nat, Cardinality(S) < n
    PROVE  Cardinality(S \cup {x}) <= n
<1>1. Cardinality(S) \in Nat
  BY FS_CardinalityType
<1>2. CASE x \in S
  <2>1. S \cup {x} = S
    BY <1>2
  <2> QED BY <1>1, <2>1
<1>3. CASE x \notin S
  <2>1. Cardinality(S \cup {x}) = Cardinality(S) + 1
    BY <1>3, FS_AddElement
  <2> QED BY <1>1, <2>1
<1> QED BY <1>2, <1>3

LEMMA NotMore ==
    ASSUME NEW S, IsFiniteSet(S), NEW T \in SUBSET S
    PROVE  /\ IsFiniteSet(T)
           /\ Cardinality(T) \in Nat /\ Cardinality(S) \in Nat
           /\ Cardinality(T) <= Cardinality(S)
BY FS_Subset, FS_CardinalityType

-----------------------------------------------------------------------------
LEMMA InitIInv == Init => IInv
BY LeaseAssumption, GcAssumption, FS_EmptySet
   DEF Init, LeaseInit, IInv, TypeOK, LeaseTypeOK, LocksAreHeld,
       ResolvedIsWhole, LeasedVersionIsWhole, DoomedIsFree, CutoffIsBounded,
       UnexpiredLeaseIsListed, CurrentIsWhole, FilesAreCreated,
       ActiveIsLocked, TombstoneHasRoom, TombstonesBounded, Readers, Acquiring, Holding, Collecting, Ended

-----------------------------------------------------------------------------
(* Every step preserves IInv *)

\* Time only makes leases expire, and an expired lease promises nothing.
LEMMA TickIInv ==
    ASSUME IInv, Tick, UNCHANGED gcVars
    PROVE  IInv'
BY LeaseAssumption, GcAssumption
   DEF IInv, Tick, TypeOK, LeaseTypeOK, LocksAreHeld, ResolvedIsWhole,
       LeasedVersionIsWhole, DoomedIsFree, CutoffIsBounded,
       UnexpiredLeaseIsListed, CurrentIsWhole, FilesAreCreated,
       ActiveIsLocked, TombstoneHasRoom, TombstonesBounded, store, payload,
       gcVars

LEMMA AcquireIInv ==
    ASSUME IInv, NEW r \in Readers, UNCHANGED gcVars,
           Begin(r) \/ AcquireStep(r) \/ Abort(r)
    PROVE  IInv'
<1> USE LeaseAssumption, GcAssumption
    DEF IInv, TypeOK, LeaseTypeOK, LocksAreHeld, ResolvedIsWhole,
        LeasedVersionIsWhole, DoomedIsFree, CutoffIsBounded,
        UnexpiredLeaseIsListed, CurrentIsWhole, FilesAreCreated,
        ActiveIsLocked, TombstoneHasRoom, TombstonesBounded, Readers,
        Acquiring, Holding, Ended, Collecting, store, payload, gcVars, Step
<1>1. CASE Begin(r)        BY <1>1 DEF Begin
<1>2. CASE Enter(r)        BY <1>2 DEF Enter
<1>3. CASE Resolve(r)      BY <1>3 DEF Resolve
<1>4. CASE Refuse(r)       BY <1>4 DEF Refuse
<1>5. CASE CreateLock(r)   BY <1>5 DEF CreateLock
<1>6. CASE CreateTombstone(r)
  \* Only the holder of coordination.lock creates tombstones, so the place that
  \* it saw when it counted them is still free.
  <2>1. Cardinality(retired') <= TombstoneLimit
    <3>1. retired' = retired \cup {r} /\ Cardinality(retired) < TombstoneLimit
      BY <1>6 DEF CreateTombstone
    <3>2. IsFiniteSet(retired)
      BY NotMore
    <3> QED BY <3>1, <3>2, OneMore
  <2>2. \A q \in Readers \ {r} : reader[q] \notin Acquiring
    BY <1>6 DEF CreateTombstone
  <2> QED BY <1>6, <2>1, <2>2 DEF CreateTombstone
<1>7. CASE Stamp(r)        BY <1>7 DEF Stamp
<1>8. CASE PublishEntry(r)
  \* No collector is between its mark and the end of its sweep.
  <2>1. \A c \in Collectors : phase[c] \notin Collecting /\ doomed[c] = {}
    BY <1>8 DEF PublishEntry
  <2> QED BY <1>8, <2>1 DEF PublishEntry
<1>9. CASE Abort(r)        BY <1>9 DEF Abort
<1> QED
  BY <1>1, <1>2, <1>3, <1>4, <1>5, <1>6, <1>7, <1>8, <1>9 DEF AcquireStep

LEMMA ReadIInv ==
    ASSUME IInv, NEW r \in Readers, UNCHANGED gcVars,
           ReadStep(r) \/ KillReader(r)
    PROVE  IInv'
<1> USE LeaseAssumption, GcAssumption
    DEF IInv, TypeOK, LeaseTypeOK, LocksAreHeld, ResolvedIsWhole,
        LeasedVersionIsWhole, DoomedIsFree, CutoffIsBounded,
        UnexpiredLeaseIsListed, CurrentIsWhole, FilesAreCreated,
        ActiveIsLocked, TombstoneHasRoom, TombstonesBounded, Readers,
        Acquiring, Holding, Ended, Collecting, store, payload, gcVars, Step
<1>1. CASE Open(r)         BY <1>1 DEF Open
<1>2. CASE Renew(r)        BY <1>2 DEF Renew
<1>3. CASE Release(r)      BY <1>3 DEF Release
<1>4. CASE KillReader(r)   BY <1>4 DEF KillReader
<1> QED BY <1>1, <1>2, <1>3, <1>4 DEF ReadStep

\* The publisher runs only while no collector holds .publish.lock, that is,
\* while nothing is doomed.
LEMMA PublisherIInv ==
    ASSUME IInv, NEW v \in Versions,
           Publish(v) \/ PublishInterrupted(v) \/ Rollback(v)
    PROVE  IInv'
<1> USE LeaseAssumption, GcAssumption
    DEF IInv, TypeOK, LeaseTypeOK, publisherFrame, payload, gcVars
<1>1. writer = NoOne
  BY DEF Publish, PublishInterrupted, Rollback
<1>2. \A c \in Collectors : doomed[c] = {}
  BY <1>1 DEF LocksAreHeld, DoomedIsFree, Collecting
<1>3. \A u \in Versions : tree[u] = "whole" => tree'[u] = "whole"
  BY DEF Publish, PublishInterrupted, Rollback
<1>4. TypeOK' /\ CurrentIsWhole'
  BY <1>3 DEF Publish, PublishInterrupted, Rollback, CurrentIsWhole
<1>5. LocksAreHeld' /\ CutoffIsBounded' /\ UnexpiredLeaseIsListed'
        /\ FilesAreCreated' /\ ActiveIsLocked' /\ TombstoneHasRoom'
        /\ TombstonesBounded'
  BY DEF Publish, PublishInterrupted, Rollback, LocksAreHeld,
         CutoffIsBounded, UnexpiredLeaseIsListed, FilesAreCreated,
         ActiveIsLocked, TombstoneHasRoom, TombstonesBounded
<1>6. ResolvedIsWhole' /\ LeasedVersionIsWhole'
  BY <1>3 DEF Publish, PublishInterrupted, Rollback, ResolvedIsWhole,
              LeasedVersionIsWhole
<1>7. DoomedIsFree'
  BY <1>2 DEF Publish, PublishInterrupted, Rollback, DoomedIsFree
<1> QED BY <1>4, <1>5, <1>6, <1>7

\* The steps of a collector outside the exclusive section, and the ends of a
\* run: they do not touch the store or the leases.
LEMMA CollectorFrameIInv ==
    ASSUME IInv, NEW c \in Collectors,
           \/ ReadList(c) \/ WriteList(c) \/ SkipList(c) \/ LockWriter(c)
           \/ WriterTimeout(c) \/ LockCoord(c) \/ Precheck(c)
           \/ PrecheckRefuses(c) \/ ReadClock(c) \/ EndSweep(c) \/ Finish(c)
           \/ Interrupt(c)
    PROVE  IInv'
<1> USE LeaseAssumption, GcAssumption
    DEF IInv, TypeOK, LeaseTypeOK, LocksAreHeld, ResolvedIsWhole,
        LeasedVersionIsWhole, DoomedIsFree, CutoffIsBounded,
        UnexpiredLeaseIsListed, CurrentIsWhole, FilesAreCreated,
        ActiveIsLocked, TombstoneHasRoom, TombstonesBounded, Readers,
        Acquiring, Collecting, store, payload, leaseVars, gcVars, Advance,
        Stop
<1>1. CASE ReadList(c)          BY <1>1 DEF ReadList
<1>2. CASE WriteList(c)         BY <1>2 DEF WriteList
<1>3. CASE SkipList(c)          BY <1>3 DEF SkipList
<1>4. CASE LockWriter(c)        BY <1>4 DEF LockWriter
<1>5. CASE WriterTimeout(c)     BY <1>5 DEF WriterTimeout
<1>6. CASE LockCoord(c)         BY <1>6 DEF LockCoord
<1>7. CASE Precheck(c)          BY <1>7 DEF Precheck
<1>8. CASE PrecheckRefuses(c)   BY <1>8 DEF PrecheckRefuses
<1>9. CASE ReadClock(c)         BY <1>9 DEF ReadClock
<1>10. CASE EndSweep(c)         BY <1>10 DEF EndSweep
<1>11. CASE Finish(c)           BY <1>11 DEF Finish
<1>12. CASE Interrupt(c)        BY <1>12 DEF Interrupt
<1> QED
  BY <1>1, <1>2, <1>3, <1>4, <1>5, <1>6, <1>7, <1>8, <1>9, <1>10, <1>11, <1>12

\* The steps that collect.
LEMMA CollectIInv ==
    ASSUME IInv, NEW c \in Collectors,
           \/ RemoveStale(c) \/ Mark(c) \/ BeginDelete(c) \/ EndDelete(c)
           \/ RemoveOrphan(c)
    PROVE  IInv'
<1> USE LeaseAssumption, GcAssumption
    DEF IInv, TypeOK, LeaseTypeOK, store, payload, leaseVars, gcVars, Advance
<1>1. /\ coord = c /\ writer = c
      /\ \A r \in Readers : reader[r] \notin Acquiring
      /\ \A d \in Collectors \ {c} : phase[d] \notin Collecting /\ doomed[d] = {}
  BY DEF RemoveStale, Mark, BeginDelete, EndDelete, RemoveOrphan,
         LocksAreHeld, DoomedIsFree, Collecting, Readers
<1>2. CASE RemoveStale(c)
  \* A stale lease is expired for every reader, whose clock is at most the
  \* margin behind.
  <2>1. PICK r \in active : r \in Stale(c) /\ active' = active \ {r}
    BY <1>2 DEF RemoveStale, Stale
  <2>2. expires[r] < now
    BY <1>2, <2>1 DEF RemoveStale, Stale, CutoffIsBounded
  <2>3. UnexpiredLeaseIsListed'
    BY <1>2, <2>1, <2>2 DEF RemoveStale, UnexpiredLeaseIsListed
  <2> QED
    BY <1>2, <2>1, <2>3
       DEF RemoveStale, LocksAreHeld, ResolvedIsWhole, LeasedVersionIsWhole,
           DoomedIsFree, CutoffIsBounded, CurrentIsWhole, FilesAreCreated,
           ActiveIsLocked, TombstoneHasRoom, TombstonesBounded
<1>3. CASE Mark(c)
  \* The current version and the leased ones are not among the candidates.
  <2>1. /\ UNCHANGED <<current, active, leased>>
        /\ phase' = [phase EXCEPT ![c] = "sweeping"]
        /\ doomed' = [doomed EXCEPT ![c] = Directories \ Retained]
    BY <1>3 DEF Mark
  <2>2. current \notin Directories \ Retained
    BY DEF Retained
  <2>3. \A r \in active : leased[r] \notin Directories \ Retained
    BY DEF Retained
  <2>4. DoomedIsFree'
    BY <1>1, <2>1, <2>2, <2>3 DEF DoomedIsFree
  <2> QED
    BY <1>3, <2>4
       DEF Mark, LocksAreHeld, ResolvedIsWhole, LeasedVersionIsWhole,
           CutoffIsBounded, UnexpiredLeaseIsListed, CurrentIsWhole,
           FilesAreCreated, ActiveIsLocked, TombstoneHasRoom,
           TombstonesBounded, Directories, Collecting, Readers
<1>4. CASE BeginDelete(c) \/ EndDelete(c)
  <2>1. PICK v \in doomed[c] :
            \A u \in Versions \ {v} : tree'[u] = tree[u]
    BY <1>4 DEF BeginDelete, EndDelete
  <2>2. v # current /\ \A r \in active : v # leased[r]
    BY <2>1 DEF DoomedIsFree
  <2>3. TypeOK'
    BY <1>4 DEF BeginDelete, EndDelete
  <2>4. CurrentIsWhole' /\ LeasedVersionIsWhole'
    <3>1. UNCHANGED <<now, current, active, leased, expires, reader>>
      BY <1>4 DEF BeginDelete, EndDelete
    <3> QED
      BY <2>1, <2>2, <3>1 DEF CurrentIsWhole, LeasedVersionIsWhole
  <2>5. ResolvedIsWhole' /\ DoomedIsFree'
    BY <1>1, <1>4
       DEF BeginDelete, EndDelete, ResolvedIsWhole, DoomedIsFree, Acquiring
  <2>6. LocksAreHeld' /\ CutoffIsBounded' /\ UnexpiredLeaseIsListed'
          /\ FilesAreCreated' /\ ActiveIsLocked' /\ TombstoneHasRoom'
          /\ TombstonesBounded'
    BY <1>4
       DEF BeginDelete, EndDelete, LocksAreHeld, CutoffIsBounded,
           UnexpiredLeaseIsListed, FilesAreCreated, ActiveIsLocked,
           TombstoneHasRoom, TombstonesBounded
  <2> QED BY <2>3, <2>4, <2>5, <2>6
<1>5. CASE RemoveOrphan(c)
  \* No acquisition is under way that could still need its lock file.
  BY <1>1, <1>5
     DEF RemoveOrphan, Orphans, LocksAreHeld, ResolvedIsWhole,
         LeasedVersionIsWhole, DoomedIsFree, CutoffIsBounded,
         UnexpiredLeaseIsListed, CurrentIsWhole, FilesAreCreated,
         ActiveIsLocked, TombstoneHasRoom, TombstonesBounded, Acquiring
<1> QED BY <1>2, <1>3, <1>4, <1>5

LEMMA StutterIInv ==
    ASSUME IInv, UNCHANGED vars
    PROVE  IInv'
BY DEF IInv, TypeOK, LeaseTypeOK, LocksAreHeld, ResolvedIsWhole,
       LeasedVersionIsWhole, DoomedIsFree, CutoffIsBounded,
       UnexpiredLeaseIsListed, CurrentIsWhole, FilesAreCreated,
       ActiveIsLocked, TombstoneHasRoom, TombstonesBounded, vars, leaseVars,
       gcVars, store, payload

LEMMA StepIInv ==
    ASSUME IInv, [Next]_vars
    PROVE  IInv'
<1>1. CASE ReaderNext /\ UNCHANGED gcVars
  BY <1>1, TickIInv, AcquireIInv, ReadIInv DEF ReaderNext
<1>2. CASE \E v \in Versions :
               Publish(v) \/ PublishInterrupted(v) \/ Rollback(v)
  BY <1>2, PublisherIInv
<1>3. CASE \E c \in Collectors : \/ ReadList(c) \/ WriteList(c) \/ SkipList(c)
                                 \/ GcRun(c) \/ Interrupt(c)
  BY <1>3, CollectorFrameIInv, CollectIInv DEF GcRun
<1>4. CASE UNCHANGED vars
  BY <1>4, StutterIInv
<1> QED BY <1>1, <1>2, <1>3, <1>4 DEF Next

LEMMA AlwaysIInv == Spec => []IInv
<1>1. Init => IInv
  BY InitIInv
<1>2. IInv /\ [Next]_vars => IInv'
  BY StepIInv
<1> QED BY <1>1, <1>2, PTL DEF Spec

-----------------------------------------------------------------------------
(* Retention *)

\* A version that is partly deleted, or will be deleted, has enough newer ones.
PastRetention ==
    /\ \A v \in Versions :
           tree[v] = "partial" => Cardinality(Newer(v)) >= Retention
    /\ \A c \in Collectors : \A v \in doomed[c] :
           Cardinality(Newer(v)) >= Retention

\* The set of newer directories is finite before and after any step.
LEMMA NewerIsFinite ==
    ASSUME NEW v \in Versions
    PROVE  /\ IsFiniteSet(Newer(v)) /\ Cardinality(Newer(v)) \in Nat
           /\ IsFiniteSet(Newer(v)') /\ Cardinality(Newer(v)') \in Nat
<1>1. Newer(v) \in SUBSET Versions /\ Newer(v)' \in SUBSET Versions
  BY DEF Newer, Directories
<1> QED BY <1>1, NotMore, LeaseAssumption

LEMMA NewerGrows ==
    ASSUME NEW v \in Versions, Newer(v) \subseteq Newer(v)',
           Cardinality(Newer(v)) >= Retention
    PROVE  Cardinality(Newer(v)') >= Retention
<1>1. Cardinality(Newer(v)) <= Cardinality(Newer(v)')
  BY NewerIsFinite, NotMore
<1> QED BY <1>1, NewerIsFinite, GcAssumption

LEMMA InitPastRetention == Init => PastRetention
BY DEF Init, LeaseInit, PastRetention

\* Steps that neither change a version nor mark one.
LEMMA FramePastRetention ==
    ASSUME PastRetention, UNCHANGED tree, IInv, IInv',
           \A c \in Collectors : doomed'[c] \subseteq doomed[c]
    PROVE  PastRetention'
<1>1. \A v \in Versions : Newer(v)' = Newer(v)
  BY DEF Newer, Directories
<1>2. \A c \in Collectors : doomed'[c] \subseteq Versions
  BY DEF IInv, TypeOK
<1> QED BY <1>1, <1>2 DEF PastRetention

LEMMA StepPastRetention ==
    ASSUME IInv, IInv', PastRetention, [Next]_vars
    PROVE  PastRetention'
<1> USE DEF IInv, TypeOK, LeaseTypeOK
<1>1. CASE UNCHANGED <<tree, doomed>>
  BY <1>1, FramePastRetention
<1>2. ASSUME NEW v \in Versions, Publish(v) \/ PublishInterrupted(v)
      PROVE  PastRetention'
  \* A new version only adds to what is newer than another one.
  <2>1. \A u \in Versions : Newer(u) \subseteq Newer(u)'
    BY <1>2 DEF Publish, PublishInterrupted, Newer, Directories
  <2>2. \A u \in Versions : tree'[u] = "partial" => tree[u] = "partial"
    BY <1>2 DEF Publish, PublishInterrupted
  <2>3. doomed' = doomed /\ \A c \in Collectors : doomed[c] \subseteq Versions
    BY <1>2 DEF Publish, PublishInterrupted, publisherFrame, gcVars
  <2> QED BY <2>1, <2>2, <2>3, NewerGrows DEF PastRetention
<1>3. ASSUME NEW c \in Collectors, Mark(c) PROVE PastRetention'
  <2>1. \A v \in Versions : Newer(v)' = Newer(v)
    BY <1>3 DEF Mark, leaseVars, store, Newer, Directories
  <2>2. \A v \in Directories \ Retained : Cardinality(Newer(v)) >= Retention
    BY NewerIsFinite, GcAssumption DEF Retained, Newest, Directories
  <2>3. doomed' = [doomed EXCEPT ![c] = Directories \ Retained]
          /\ tree' = tree
    BY <1>3 DEF Mark, leaseVars, store
  <2>4. \A d \in Collectors : \A v \in doomed'[d] :
            v \in Versions /\ Cardinality(Newer(v)) >= Retention
    BY <2>2, <2>3 DEF PastRetention, Directories
  <2> QED BY <2>1, <2>3, <2>4 DEF PastRetention
<1>4. ASSUME NEW c \in Collectors, BeginDelete(c) PROVE PastRetention'
  <2>1. \A v \in Versions : Newer(v)' = Newer(v)
    BY <1>4 DEF BeginDelete, Newer, Directories
  <2>2. PICK v \in doomed[c] : tree' = [tree EXCEPT ![v] = "partial"]
    BY <1>4 DEF BeginDelete
  <2>3. doomed' = doomed /\ \A d \in Collectors : doomed[d] \subseteq Versions
    BY <1>4 DEF BeginDelete, gcVars
  <2> QED BY <2>1, <2>2, <2>3 DEF PastRetention
<1>5. ASSUME NEW c \in Collectors, EndDelete(c) PROVE PastRetention'
  <2>1. PICK v \in doomed[c] :
            /\ tree[v] = "partial"
            /\ tree' = [tree EXCEPT ![v] = "absent"]
            /\ doomed' = [doomed EXCEPT ![c] = @ \ {v}]
    BY <1>5 DEF EndDelete
  <2>2. v \in Versions /\ Cardinality(Newer(v)) >= Retention
    BY <2>1 DEF PastRetention
  <2>3. Directories' = Directories \ {v}
    BY <2>1, <2>2 DEF Directories
  <2>4. ASSUME NEW u \in Versions, u # v,
               Cardinality(Newer(u)) >= Retention
        PROVE  Cardinality(Newer(u)') >= Retention
    <3>1. CASE u > v
      \* Nothing newer than u goes.
      BY <3>1, <2>3, <2>4, NewerGrows, LeaseAssumption DEF Newer
    <3>2. CASE ~(u > v)
      \* What is newer than v is newer than u, and there is enough of it.
      <4>. /\ u \in Nat /\ v \in Nat
           /\ \A w \in Directories : w \in Nat
        BY <2>2, LeaseAssumption DEF Directories
      <4>0. Newer(v)' \in SUBSET Newer(u)'
        BY <3>2, <2>3 DEF Newer
      <4>1. Newer(v)' \in SUBSET Newer(u)' /\ Newer(v) \subseteq Newer(v)'
        BY <4>0, <2>3 DEF Newer
      <4>2. Cardinality(Newer(v)') >= Retention
        BY <4>1, <2>2, NewerGrows
      <4>3. Cardinality(Newer(v)') <= Cardinality(Newer(u)')
        BY <4>1, <2>2, NewerIsFinite, NotMore
      <4> QED BY <4>2, <4>3, <2>2, NewerIsFinite, GcAssumption
    <3> QED BY <3>1, <3>2
  <2>5. \A u \in Versions : tree'[u] = "partial" => u # v /\ tree[u] = "partial"
    BY <2>1, <2>2
  <2>6. \A d \in Collectors : \A u \in doomed'[d] : u # v /\ u \in doomed[d]
    <3>1. \A d \in Collectors \ {c} : doomed[d] = {}
      BY <2>1 DEF DoomedIsFree, LocksAreHeld, Collecting
    <3> QED BY <2>1, <3>1
  <2>7. \A d \in Collectors : doomed[d] \subseteq Versions
    OBVIOUS
  <2> QED BY <2>4, <2>5, <2>6, <2>7 DEF PastRetention
<1>6. ASSUME NEW c \in Collectors, GcRun(c) \/ Interrupt(c)
      PROVE  PastRetention'
  <2>1. CASE \/ LockWriter(c) \/ LockCoord(c) \/ Precheck(c) \/ ReadClock(c)
             \/ RemoveStale(c) \/ EndSweep(c) \/ RemoveOrphan(c)
    BY <2>1, <1>1
       DEF LockWriter, LockCoord, Precheck, ReadClock, RemoveStale, EndSweep,
           RemoveOrphan, leaseVars, store, gcVars
  <2>2. CASE WriterTimeout(c) \/ PrecheckRefuses(c) \/ Finish(c)
               \/ Interrupt(c)
    <3>1. UNCHANGED tree /\ \A d \in Collectors : doomed'[d] \subseteq doomed[d]
      BY <2>2
         DEF WriterTimeout, PrecheckRefuses, Finish, Interrupt, Stop, store
    <3> QED BY <3>1, FramePastRetention
  <2> QED BY <1>3, <1>4, <1>5, <1>6, <2>1, <2>2 DEF GcRun
<1>7. ASSUME NEW c \in Collectors, ReadList(c) \/ WriteList(c) \/ SkipList(c)
      PROVE  PastRetention'
  BY <1>1, <1>7 DEF ReadList, WriteList, SkipList, leaseVars, store
<1>8. ASSUME NEW v \in Versions, Rollback(v) PROVE PastRetention'
  BY <1>1, <1>8 DEF Rollback, publisherFrame, gcVars
<1>9. CASE ReaderNext /\ UNCHANGED gcVars
  <2>1. UNCHANGED tree
    BY <1>9
       DEF ReaderNext, Tick, Begin, AcquireStep, Enter, Resolve, Refuse,
           CreateLock, CreateTombstone, Stamp, PublishEntry, Abort, ReadStep,
           Open, Renew, Release, KillReader, store
  <2> QED BY <1>1, <1>9, <2>1 DEF gcVars
<1>10. CASE UNCHANGED vars
  BY <1>1, <1>10 DEF vars, leaseVars, store, gcVars
<1> QED BY <1>2, <1>6, <1>7, <1>8, <1>9, <1>10 DEF Next

-----------------------------------------------------------------------------
(* The theorems *)

\* The state of readers and collectors always has its type.
THEOREM TypeCorrect == Spec => []TypeOK
<1>1. IInv => TypeOK
  BY DEF IInv
<1> QED BY <1>1, AlwaysIInv, PTL

\* For any number of readers and collectors, killed at any point, the version
\* that an entry of active/ names is on the disk, whole.
THEOREM LeasesProtect == Spec => []LeasedVersionIsWhole
<1>1. IInv => LeasedVersionIsWhole
  BY DEF IInv
<1> QED BY <1>1, AlwaysIInv, PTL

\* No collector removes the entry of a lease that its reader still counts on,
\* whatever the error of its clock up to the margin.
THEOREM UnexpiredLeasesSurvive == Spec => []UnexpiredLeaseIsListed
<1>1. IInv => UnexpiredLeaseIsListed
  BY DEF IInv
<1> QED BY <1>1, AlwaysIInv, PTL

\* Collectors, interrupted or not, and rollbacks leave current on a whole
\* version.
THEOREM CurrentStaysWhole == Spec => []CurrentIsWhole
<1>1. IInv => CurrentIsWhole
  BY DEF IInv
<1> QED BY <1>1, AlwaysIInv, PTL

\* An active lease keeps its lock file and its tombstone.
THEOREM ActiveStaysLocked == Spec => []ActiveIsLocked
<1>1. IInv => ActiveIsLocked
  BY DEF IInv
<1> QED BY <1>1, AlwaysIInv, PTL

\* Any number of concurrent and interrupted acquisitions keep to the limit.
THEOREM TombstoneLimitHolds == Spec => []TombstonesBounded
<1>1. IInv => TombstonesBounded
  BY DEF IInv
<1> QED BY <1>1, AlwaysIInv, PTL

\* For any retention count, an interrupted collection leaves no partly deleted
\* directory among the versions that the following collections keep.
THEOREM RetentionKeepsWhole == Spec => []NewestAreWhole
<1>1. Init => IInv /\ PastRetention
  BY InitIInv, InitPastRetention
<1>2. IInv /\ PastRetention /\ [Next]_vars => (IInv /\ PastRetention)'
  BY StepIInv, StepPastRetention
<1>3. IInv /\ PastRetention => NewestAreWhole
  <2> SUFFICES ASSUME IInv, PastRetention, NEW v \in Newest(Retention)
               PROVE  tree[v] = "whole"
    BY DEF NewestAreWhole
  <2>1. v \in Versions /\ tree[v] # "absent"
          /\ Cardinality(Newer(v)) < Retention
    BY DEF Newest, Directories
  <2>2. tree[v] # "partial"
    BY <2>1, NewerIsFinite, GcAssumption DEF PastRetention
  <2> QED BY <2>1, <2>2 DEF IInv, TypeOK, LeaseTypeOK
<1> QED BY <1>1, <1>2, <1>3, PTL DEF Spec

\* A reader whose entry was removed as stale never puts it back: its renewal
\* fails for ever.
THEOREM RemovedStaysRemoved == Spec => RemovedNeverReturns
<1> DEFINE A == \A r \in Readers :
                   reader[r] \in Holding /\ r \notin active
                      => r \notin active'
<1>1. ASSUME IInv, [Next]_vars PROVE [A]_vars
  <2> SUFFICES ASSUME Next, NEW r \in Readers, reader[r] \in Holding,
                      r \notin active
               PROVE  r \notin active'
    BY <1>1
  <2>1. CASE active' \subseteq active
    BY <2>1
  <2>2. ASSUME NEW q \in Readers, PublishEntry(q) PROVE r \notin active'
    BY <2>2 DEF PublishEntry, Step, Holding
  <2>3. CASE ReaderNext
    BY <2>1, <2>2, <2>3
       DEF ReaderNext, Tick, Begin, AcquireStep, Enter, Resolve, Refuse,
           CreateLock, CreateTombstone, Stamp, Abort, ReadStep, Open, Renew,
           Release, KillReader
  <2>4. ASSUME NEW v \in Versions,
               Publish(v) \/ PublishInterrupted(v) \/ Rollback(v)
        PROVE  active' \subseteq active
    BY <2>4 DEF Publish, PublishInterrupted, Rollback, publisherFrame
  <2>5. ASSUME NEW c \in Collectors,
               \/ ReadList(c) \/ WriteList(c) \/ SkipList(c)
               \/ GcRun(c) \/ Interrupt(c)
        PROVE  active' \subseteq active
    BY <2>5
       DEF ReadList, WriteList, SkipList, GcRun, LockWriter, WriterTimeout,
           LockCoord, Precheck, PrecheckRefuses, ReadClock, RemoveStale, Mark,
           BeginDelete, EndDelete, EndSweep, RemoveOrphan, Finish, Interrupt,
           leaseVars
  <2> QED BY <2>1, <2>3, <2>4, <2>5 DEF Next
<1> QED BY <1>1, AlwaysIInv, PTL DEF Spec, RemovedNeverReturns

-----------------------------------------------------------------------------
(* Readers, collectors and publisher implement the register *)

LEMMA InitImplements == Init => AV!Init
BY DEF Init, LeaseInit, AV!Init, Shelf

\* Only the publisher's steps and the first deletion in a version are visible.
LEMMA StepImplements ==
    ASSUME IInv, [Next]_vars
    PROVE  [AV!Next]_<<current, Shelf>>
<1> USE DEF IInv, TypeOK, LeaseTypeOK
<1>1. CASE UNCHANGED store
  BY <1>1 DEF store, Shelf
<1>2. ASSUME NEW v \in Versions, Publish(v) PROVE AV!Next
  <2>1. Shelf[v] = "absent" /\ Shelf' = [Shelf EXCEPT ![v] = "whole"]
    BY <1>2 DEF Publish, Shelf
  <2>2. AV!ShelveAndActivate(v)
    BY <1>2, <2>1 DEF Publish, AV!ShelveAndActivate
  <2> QED BY <2>2 DEF AV!Next
<1>3. ASSUME NEW v \in Versions, PublishInterrupted(v) PROVE AV!Next
  <2>1. Shelf[v] = "absent" /\ Shelf' = [Shelf EXCEPT ![v] = "whole"]
    BY <1>3 DEF PublishInterrupted, Shelf
  <2>2. AV!Shelve(v)
    BY <1>3, <2>1 DEF PublishInterrupted, AV!Shelve
  <2> QED BY <2>2 DEF AV!Next
<1>4. ASSUME NEW v \in Versions, Rollback(v) PROVE AV!Next
  <2>1. Shelf[v] = "whole" /\ Shelf' = Shelf
    BY <1>4 DEF Rollback, Shelf
  <2>2. AV!Activate(v)
    BY <1>4, <2>1 DEF Rollback, AV!Activate
  <2> QED BY <2>2 DEF AV!Next
<1>5. ASSUME NEW c \in Collectors, BeginDelete(c) PROVE AV!Next
  <2>1. PICK v \in doomed[c] : tree' = [tree EXCEPT ![v] = "partial"]
    BY <1>5 DEF BeginDelete
  <2>2. v \in Versions /\ current # v /\ current' = current
    BY <1>5 DEF BeginDelete, DoomedIsFree
  <2>3. Shelf' = [Shelf EXCEPT ![v] = "absent"]
    BY <2>1, <2>2 DEF Shelf
  <2>4. AV!Withdraw(v)
    BY <2>2, <2>3 DEF AV!Withdraw
  <2> QED BY <2>2, <2>4 DEF AV!Next
<1>6. ASSUME NEW c \in Collectors, EndDelete(c)
      PROVE  UNCHANGED <<current, Shelf>>
  <2>1. PICK v \in doomed[c] : /\ tree[v] = "partial"
                               /\ tree' = [tree EXCEPT ![v] = "absent"]
    BY <1>6 DEF EndDelete
  <2>2. Shelf' = Shelf
    BY <2>1 DEF Shelf
  <2> QED BY <1>6, <2>2 DEF EndDelete
<1>7. CASE ReaderNext /\ UNCHANGED gcVars
  <2>1. UNCHANGED store
    BY <1>7
       DEF ReaderNext, Tick, Begin, AcquireStep, Enter, Resolve, Refuse,
           CreateLock, CreateTombstone, Stamp, PublishEntry, Abort, ReadStep,
           Open, Renew, Release, KillReader
  <2> QED BY <1>1, <2>1
<1>8. ASSUME NEW c \in Collectors,
             \/ ReadList(c) \/ WriteList(c) \/ SkipList(c)
             \/ GcRun(c) \/ Interrupt(c)
      PROVE  [AV!Next]_<<current, Shelf>>
  <2>1. UNCHANGED store \/ BeginDelete(c) \/ EndDelete(c)
    BY <1>8
       DEF ReadList, WriteList, SkipList, GcRun, LockWriter, WriterTimeout,
           LockCoord, Precheck, PrecheckRefuses, ReadClock, RemoveStale, Mark,
           EndSweep, RemoveOrphan, Finish, Interrupt, leaseVars
  <2> QED BY <1>1, <1>5, <1>6, <2>1
<1>9. CASE UNCHANGED vars
  BY <1>1, <1>9 DEF vars, leaseVars
<1> QED BY <1>2, <1>3, <1>4, <1>7, <1>8, <1>9 DEF Next

\* The store with its readers and collectors is the register that RuntimePublish
\* implements too: what the publisher provides, no collection takes away.
THEOREM Implementation == Spec => ImplementsActiveVersion
<1>1. Init => AV!Init
  BY InitImplements
<1>2. IInv /\ [Next]_vars => [AV!Next]_AV!vars
  BY StepImplements DEF AV!vars
<1> QED
  BY <1>1, <1>2, AlwaysIInv, PTL DEF Spec, ImplementsActiveVersion, AV!Spec
=============================================================================

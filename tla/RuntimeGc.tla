------------------------------ MODULE RuntimeGc ------------------------------
(***************************************************************************)
(* RuntimeGc.run() (services/runtime_gc.py), started by operators through  *)
(* scripts/publish/runtime_gc_cli.py, beside the readers of RuntimeLease   *)
(* and a publisher.                                                        *)
(*                                                                         *)
(* The publisher is the register ActiveVersion that RuntimePublish is      *)
(* shown to implement: a version appears whole, current moves to a whole   *)
(* version, each in one step and only while the collector does not hold    *)
(* .publish.lock.                                                          *)
(*                                                                         *)
(* A collector is one operator process slot.  Deleting a version is not    *)
(* atomic: rmtree leaves a partial directory when it is interrupted.  The  *)
(* clock a collector reads may be off by a member of Skews.                *)
(***************************************************************************)
EXTENDS RuntimeLease

CONSTANTS
    Collectors,         \* runs of runtime_gc_cli.py
    Listable,           \* versions operators protect or unprotect by name
    Retention,          \* --retention-count
    MaxSkew,            \* --max-future-skew-s
    Skews,              \* errors of the collector's clock
    RollbackTolerance   \* the 1.0 s of the clock rollback check

ASSUME GcAssumption ==
    /\ Retention \in Nat
    /\ Listable \subseteq Versions
    /\ MaxSkew \in Nat /\ RollbackTolerance \in Nat
    \* A slow clock is allowed; a fast one only up to the margin.
    /\ Skews \subseteq Int /\ \A s \in Skews : s <= MaxSkew
    /\ Collectors \cap Readers = {} /\ NoOne \notin Collectors

VARIABLES
    writer,        \* holder of .publish.lock
    lastSeen,      \* clock.state
    listed,        \* versions/.protected.json
    phase,         \* where each collector is
    readList,      \* what the collector read of .protected.json to rewrite it
    cutoff,        \* the time stale leases are compared with
    doomed         \* candidates still to delete

gcVars == <<writer, lastSeen, listed, phase, readList, cutoff, doomed>>
vars == <<leaseVars, gcVars>>

\* Between the acquisition of coordination.lock and its release.
Collecting == {"entered", "checked", "cleaning", "sweeping", "orphans"}

TypeOK ==
    /\ LeaseTypeOK
    /\ coord \in Readers \cup Collectors \cup {NoOne}
    /\ writer \in Collectors \cup {NoOne}
    /\ lastSeen \in Int
    /\ listed \subseteq Versions
    /\ phase \in [Collectors -> {"idle", "listing", "ready", "serialized"}
                                    \cup Collecting]
    /\ readList \in [Collectors -> SUBSET Versions]
    /\ cutoff \in [Collectors -> Int]
    /\ doomed \in [Collectors -> SUBSET Versions]

Init ==
    /\ LeaseInit
    /\ writer = NoOne
    /\ lastSeen = 0
    /\ listed = {}
    /\ phase = [c \in Collectors |-> "idle"]
    /\ readList = [c \in Collectors |-> {}]
    /\ cutoff = [c \in Collectors |-> 0]
    /\ doomed = [c \in Collectors |-> {}]

Directories == {v \in Versions : tree[v] # "absent"}

\* The newest n of the version directories, partly deleted ones included.
Newer(v) == {u \in Directories : u > v}
Newest(n) == {v \in Directories : Cardinality(Newer(v)) < n}

-----------------------------------------------------------------------------
(* The publisher: ActiveVersion, excluded by .publish.lock *)

publisherFrame == <<now, coord, locks, retired, active, payload, reader,
                    lastRenew, gcVars>>

Publish(v) ==
    /\ writer = NoOne
    /\ tree[v] = "absent"
    /\ tree' = [tree EXCEPT ![v] = "whole"]
    /\ current' = v
    /\ UNCHANGED publisherFrame

\* A publish killed between its two renames.
PublishInterrupted(v) ==
    /\ writer = NoOne
    /\ tree[v] = "absent"
    /\ tree' = [tree EXCEPT ![v] = "whole"]
    /\ UNCHANGED <<current, publisherFrame>>

\* RollbackUnverified takes any directory of versions/.
RollbackUnverified(v) ==
    /\ writer = NoOne
    /\ tree[v] # "absent"
    /\ current' = v
    /\ UNCHANGED <<tree, publisherFrame>>

\* The manifest of the version matches what lies on the disk.
Rollback(v) ==
    /\ writer = NoOne
    /\ tree[v] = "whole"
    /\ current' = v
    /\ UNCHANGED <<tree, publisherFrame>>

-----------------------------------------------------------------------------
(* runtime_gc_cli.py before gc.run(): rewrite .protected.json, no lock held *)

Advance(c, from, to) ==
    /\ phase[c] = from
    /\ phase' = [phase EXCEPT ![c] = to]

ReadList(c) ==
    /\ Listable # {}
    /\ Advance(c, "idle", "listing")
    /\ readList' = [readList EXCEPT ![c] = listed]
    /\ UNCHANGED <<leaseVars, writer, lastSeen, listed, cutoff, doomed>>

WriteList(c) ==
    /\ Advance(c, "listing", "ready")
    /\ \E v \in Listable :
           listed' \in {readList[c] \cup {v}, readList[c] \ {v}}
    /\ readList' = [readList EXCEPT ![c] = {}]
    /\ UNCHANGED <<leaseVars, writer, lastSeen, cutoff, doomed>>

\* No --protect-version or --unprotect-version is given.
SkipList(c) ==
    /\ Advance(c, "idle", "ready")
    /\ UNCHANGED <<leaseVars, writer, lastSeen, listed, readList, cutoff,
                   doomed>>

-----------------------------------------------------------------------------
(* RuntimeGc.run() *)

\* StopKeepsCoord ends the run without the finally that frees coordination.lock.
StopKeepsCoord(c) ==
    /\ phase' = [phase EXCEPT ![c] = "idle"]
    /\ readList' = [readList EXCEPT ![c] = {}]
    /\ cutoff' = [cutoff EXCEPT ![c] = 0]
    /\ doomed' = [doomed EXCEPT ![c] = {}]
    /\ coord' = coord
    /\ writer' = IF writer = c THEN NoOne ELSE writer

\* The run ends, for whatever reason: both flocks are freed.
Stop(c) ==
    /\ phase' = [phase EXCEPT ![c] = "idle"]
    /\ readList' = [readList EXCEPT ![c] = {}]
    /\ cutoff' = [cutoff EXCEPT ![c] = 0]
    /\ doomed' = [doomed EXCEPT ![c] = {}]
    /\ coord' = IF coord = c THEN NoOne ELSE coord
    /\ writer' = IF writer = c THEN NoOne ELSE writer

LockWriter(c) ==
    /\ writer = NoOne
    /\ Advance(c, "ready", "serialized")
    /\ writer' = c
    /\ UNCHANGED <<leaseVars, lastSeen, listed, readList, cutoff, doomed>>

\* WriterLock polls until a deadline.  Another collector holds the lock, or a
\* publisher, whose whole run is one step here (Publish, Rollback).
WriterTimeout(c) ==
    /\ phase[c] = "ready"
    /\ Stop(c)
    /\ UNCHANGED <<now, store, locks, retired, active, payload, reader,
                   lastRenew, lastSeen, listed>>

\* A blocking flock(LOCK_EX) on coordination.lock.
LockCoord(c) ==
    /\ coord = NoOne
    /\ Advance(c, "serialized", "entered")
    /\ coord' = c
    /\ UNCHANGED <<now, store, locks, retired, active, payload, reader,
                   lastRenew, writer, lastSeen, listed, readList, cutoff,
                   doomed>>

\* _fail_closed_precheck(): no more tombstones than the limit, no lease from
\* the future, no clock behind the last run.
Trusted(clock) ==
    /\ Cardinality(retired) <= TombstoneLimit
    /\ \A r \in active : acquired[r] <= clock + MaxSkew
    /\ lastSeen <= clock + RollbackTolerance

Precheck(c) ==
    /\ Advance(c, "entered", "checked")
    /\ \E s \in Skews : Trusted(now + s)
    /\ UNCHANGED <<leaseVars, writer, lastSeen, listed, readList, cutoff,
                   doomed>>

PrecheckRefuses(c) ==
    /\ phase[c] = "entered"
    /\ \E s \in Skews : ~Trusted(now + s)
    /\ Stop(c)
    /\ UNCHANGED <<now, store, locks, retired, active, payload, reader,
                   lastRenew, lastSeen, listed>>

\* An I/O operation fails (a damaged entry or list, a full disk, an error in
\* rmtree or in the audit), or the process is killed.
\* A directory whose deletion has begun stays partly deleted.
Interrupt(c) ==
    /\ phase[c] # "idle"
    /\ Stop(c)
    /\ UNCHANGED <<now, store, locks, retired, active, payload, reader,
                   lastRenew, lastSeen, listed>>

ReadClock(c) ==
    /\ Advance(c, "checked", "cleaning")
    /\ \E s \in Skews : cutoff' = [cutoff EXCEPT ![c] = now + s]
    /\ UNCHANGED <<leaseVars, writer, lastSeen, listed, readList, doomed>>

\* StaleNoMargin compares without the skew margin.
StaleNoMargin(c) == {r \in active : expires[r] < cutoff[c]}

Stale(c) == {r \in active : expires[r] + MaxSkew < cutoff[c]}

RemoveStale(c) ==
    /\ phase[c] = "cleaning"
    /\ \E r \in Stale(c) : active' = active \ {r}
    /\ UNCHANGED <<now, store, coord, locks, retired, payload, reader,
                   lastRenew, gcVars>>

\* RetainedNoLeases forgets the versions that the remaining leases name.
RetainedNoLeases == {current} \cup listed \cup Newest(Retention)

\* RetainedOldest slices the sorted list at the wrong end.
RetainedOldest ==
    {current} \cup listed \cup {leased[r] : r \in active}
        \cup {v \in Directories :
                 Cardinality({u \in Directories : u < v}) < Retention}

\* RetainedNoCurrent forgets the version that is being served.
RetainedNoCurrent ==
    listed \cup {leased[r] : r \in active} \cup Newest(Retention)

Retained ==
    {current} \cup listed \cup {leased[r] : r \in active} \cup Newest(Retention)

\* The candidates are fixed once, after the last stale lease is gone.
Mark(c) ==
    /\ Stale(c) = {}
    /\ Advance(c, "cleaning", "sweeping")
    /\ doomed' = [doomed EXCEPT ![c] = Directories \ Retained]
    /\ UNCHANGED <<leaseVars, writer, lastSeen, listed, readList, cutoff>>

\* rmtree() of one candidate: its content goes first, then the directory.
BeginDelete(c) ==
    /\ phase[c] = "sweeping"
    /\ \E v \in doomed[c] :
           /\ tree[v] = "whole"
           /\ \A u \in doomed[c] : v <= u
           /\ tree' = [tree EXCEPT ![v] = "partial"]
    /\ UNCHANGED <<now, current, coord, locks, retired, active, payload,
                   reader, lastRenew, gcVars>>

EndDelete(c) ==
    /\ phase[c] = "sweeping"
    /\ \E v \in doomed[c] :
           /\ tree[v] = "partial"
           /\ \A u \in doomed[c] : v <= u
           /\ tree' = [tree EXCEPT ![v] = "absent"]
           /\ doomed' = [doomed EXCEPT ![c] = @ \ {v}]
    /\ UNCHANGED <<now, current, coord, locks, retired, active, payload,
                   reader, lastRenew, writer, lastSeen, listed, phase,
                   readList, cutoff>>

EndSweep(c) ==
    /\ doomed[c] = {}
    /\ Advance(c, "sweeping", "orphans")
    /\ UNCHANGED <<leaseVars, writer, lastSeen, listed, readList, cutoff,
                   doomed>>

\* OrphansAll takes every lock with a tombstone, active lease or not.
OrphansAll == locks \cap retired

\* A lock is removed only against a tombstone of the same lease.
Orphans == (locks \cap retired) \ active

RemoveOrphan(c) ==
    /\ phase[c] = "orphans"
    /\ \E r \in Orphans : locks' = locks \ {r}
    /\ UNCHANGED <<now, store, coord, retired, active, payload, reader,
                   lastRenew, gcVars>>

\* clock.state is written, the audit too, and both locks are freed.
Finish(c) ==
    /\ phase[c] = "orphans"
    /\ Orphans = {}
    /\ \E s \in Skews : lastSeen' = now + s
    /\ Stop(c)
    /\ UNCHANGED <<now, store, locks, retired, active, payload, reader,
                   lastRenew, listed>>

-----------------------------------------------------------------------------
GcRun(c) ==
    \/ LockWriter(c) \/ WriterTimeout(c) \/ LockCoord(c) \/ Precheck(c)
    \/ PrecheckRefuses(c) \/ ReadClock(c) \/ RemoveStale(c) \/ Mark(c)
    \/ BeginDelete(c) \/ EndDelete(c) \/ EndSweep(c) \/ RemoveOrphan(c)
    \/ Finish(c)

Next ==
    \/ ReaderNext /\ UNCHANGED gcVars
    \/ \E v \in Versions :
           Publish(v) \/ PublishInterrupted(v) \/ Rollback(v)
    \/ \E c \in Collectors :
           \/ ReadList(c) \/ WriteList(c) \/ SkipList(c)
           \/ GcRun(c) \/ Interrupt(c)

Spec == Init /\ [][Next]_vars

\* A process that runs is scheduled until it ends; only a kill or an error may
\* stop it earlier.  A blocked flock(LOCK_EX) is granted again and again to
\* somebody else, but the kernel queues the waiters.
FairSpec ==
    /\ Spec
    /\ \A r \in Readers : /\ WF_vars(AcquireStep(r) /\ UNCHANGED gcVars)
                          /\ SF_vars(Enter(r) /\ UNCHANGED gcVars)
    /\ \A c \in Collectors : /\ WF_vars(GcRun(c))
                             /\ WF_vars(WriteList(c))
                             /\ SF_vars(LockCoord(c))

-----------------------------------------------------------------------------
(* Properties *)

\* Whatever lies between two system calls of a reader, a collector, a publish or
\* a kill: the version that an entry of active/ names is on the disk, whole.
LeasedVersionIsWhole == \A r \in active : tree[leased[r]] = "whole"

\* A reader whose lease has not expired is protected: no collector has removed
\* its entry, though its clock may run ahead by the margin.
UnexpiredLeaseIsListed ==
    \A r \in Readers :
        reader[r] \in Holding /\ now <= expires[r] => r \in active

\* A collector, finished or interrupted, followed by any rollback or publish,
\* leaves current on a whole version.
CurrentIsWhole == current # NoVersion => tree[current] = "whole"

\* The newest versions are what operators roll back to: an interrupted
\* collection never leaves a partly deleted directory among them, where the
\* next collections would count and keep it.
NewestAreWhole == \A v \in Newest(Retention) : tree[v] = "whole"

\* Concurrent and interrupted acquisitions never exceed the tombstone limit,
\* beyond which every collector refuses to run.
TombstonesBounded == Cardinality(retired) <= TombstoneLimit

\* An active lease has its lock file and its tombstone: the cleanup of orphans
\* never takes the lock that renew() and release() check.
ActiveIsLocked == active \subseteq locks \cap retired

\* A lease that a collector removed as stale never comes back, whatever the
\* reader, who has not noticed, does next.
RemovedNeverReturns ==
    [][\A r \in Readers :
         reader[r] \in Holding /\ r \notin active => r \notin active']_vars

\* Every acquisition ends, with a lease or an error, though collectors and other
\* readers compete for coordination.lock and may die holding it.
AcquisitionEnds ==
    \A r \in Readers :
        reader[r] \in {"waiting"} \cup Acquiring
            ~> reader[r] \in Holding \cup Ended

\* Every run of a collector ends and frees its locks.
CollectionEnds == \A c \in Collectors : phase[c] # "idle" ~> phase[c] = "idle"

\* What app_public.py says of the lease it holds while it loads the hazard data:
\* the version stays until the lease is closed.
HeldLeaseProtects ==
    \A r \in RootReaders : reader[r] = "held" => tree[leased[r]] = "whole"

\* What runtime_gc.py says of .protected.json: a listed version is never deleted.
ListedIsNeverDeleted ==
    [][\A v \in listed : tree[v] = "whole" => tree'[v] = "whole"]_vars

\* To the users of the store, a partly deleted version is no version.
Shelf == [v \in Versions |-> IF tree[v] = "whole" THEN "whole" ELSE "absent"]

\* Readers, collectors, kills and the publisher together are still the register
\* that names a complete version and only moves to one.
AV == INSTANCE ActiveVersion WITH active <- current, shelf <- Shelf,
                                  Valid <- {"whole"}, NoTree <- "absent"
ImplementsActiveVersion == AV!Spec
=============================================================================

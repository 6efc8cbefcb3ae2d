---------------------------- MODULE RuntimeLease ----------------------------
(***************************************************************************)
(* The readers of the versioned store: LeaseCoordinator                    *)
(* (services/runtime_lease.py) and its users, the streaming generators of  *)
(* services/runtime_version_access.py and leased_version_root().           *)
(*                                                                         *)
(* A reader is one request, with a lease id of its own.  It acquires a     *)
(* lease on the version current names, reads files of that version, and    *)
(* releases the lease.  Acquiring holds the exclusive flock of             *)
(* coordination.lock over several file operations, any of which can be the *)
(* last one of a killed process; renew() and release() take the shared     *)
(* flock and change one file atomically, so each is one action that waits  *)
(* for the exclusive holder.                                               *)
(*                                                                         *)
(* The collector and the publisher, which change tree and current, are     *)
(* added by RuntimeGc.                                                     *)
(***************************************************************************)
EXTENDS Integers, FiniteSets

CONSTANTS
    Versions,         \* version ids; ids order as their names sort
    StreamReaders,    \* requests served by a streaming generator
    RootReaders,      \* users of leased_version_root(): they never renew
    NoVersion,        \* current does not exist
    NoOne,            \* nobody holds a lock
    TTL,              \* LEASE_TTL_S
    RenewAfter,       \* _RENEW_AFTER_S
    TombstoneLimit,   \* DEFAULT_TOMBSTONE_HARD_LIMIT
    MaxTime           \* bound on the clock

Readers == StreamReaders \cup RootReaders

ASSUME LeaseAssumption ==
    /\ Versions \subseteq Nat /\ IsFiniteSet(Versions)
    /\ IsFiniteSet(Readers)
    /\ NoVersion \notin Versions
    /\ StreamReaders \cap RootReaders = {}
    /\ NoOne \notin Readers
    /\ TTL \in Nat /\ RenewAfter \in Nat /\ MaxTime \in Nat
    /\ TombstoneLimit \in Nat

VARIABLES
    now,              \* time.time()
    current,          \* the target of the symlink current
    tree,             \* versions/<id>/: absent, whole or partly deleted
    coord,            \* exclusive holder of coordination.lock
    locks,            \* locks/<lease id>.lock
    retired,          \* retired/<lease id>.tombstone
    active,           \* active/<lease id>.json
    \* the payload of a lease, in its handle and in its active entry
    leased, acquired, expires,
    reader,           \* where each request is
    lastRenew         \* the generator's own clock of the last renewal

store == <<current, tree>>
payload == <<leased, acquired, expires>>
leaseVars == <<now, store, coord, locks, retired, active, payload, reader,
               lastRenew>>

Acquiring == {"entered", "resolved", "locked", "retired", "stamped"}
Holding == {"held", "reading"}
Ended == {"done", "failed"}

LeaseTypeOK ==
    /\ now \in 0..MaxTime
    /\ current \in Versions \cup {NoVersion}
    /\ tree \in [Versions -> {"absent", "whole", "partial"}]
    /\ locks \subseteq Readers
    /\ retired \subseteq Readers
    /\ active \subseteq Readers
    /\ leased \in [Readers -> Versions \cup {NoVersion}]
    /\ acquired \in [Readers -> Nat]
    /\ expires \in [Readers -> Nat]
    /\ lastRenew \in [Readers -> Nat]
    /\ reader \in [Readers ->
                    {"idle", "waiting"} \cup Acquiring \cup Holding \cup Ended]
    /\ \A r \in active : leased[r] \in Versions

LeaseInit ==
    /\ now = 0
    /\ current = NoVersion
    /\ tree = [v \in Versions |-> "absent"]
    /\ coord = NoOne
    /\ locks = {} /\ retired = {} /\ active = {}
    /\ leased = [r \in Readers |-> NoVersion]
    /\ acquired = [r \in Readers |-> 0]
    /\ expires = [r \in Readers |-> 0]
    /\ lastRenew = [r \in Readers |-> 0]
    /\ reader = [r \in Readers |-> "idle"]

Tick ==
    /\ now < MaxTime
    /\ now' = now + 1
    /\ UNCHANGED <<store, coord, locks, retired, active, payload, reader,
                   lastRenew>>

\* A request moves from one point of its handler to the next.
Step(r, from, to) ==
    /\ reader[r] = from
    /\ reader' = [reader EXCEPT ![r] = to]

-----------------------------------------------------------------------------
(* acquire_current() *)

Begin(r) ==
    /\ Step(r, "idle", "waiting")
    /\ UNCHANGED <<now, store, coord, locks, retired, active, payload,
                   lastRenew>>

\* A blocking flock(LOCK_EX).
Enter(r) ==
    /\ coord = NoOne
    /\ Step(r, "waiting", "entered")
    /\ coord' = r
    /\ UNCHANGED <<now, store, locks, retired, active, payload, lastRenew>>

\* ResolveDangling takes the name current holds without looking for it.
ResolveDangling(r) ==
    /\ Step(r, "entered", "resolved")
    /\ Cardinality(retired) < TombstoneLimit
    /\ leased' = [leased EXCEPT ![r] = current]
    /\ UNCHANGED <<now, store, coord, locks, retired, active, acquired,
                   expires, lastRenew>>

\* ResolveAtLimit counts the tombstones without the one it will create.
ResolveAtLimit(r) ==
    /\ Step(r, "entered", "resolved")
    /\ Cardinality(retired) <= TombstoneLimit
    /\ current # NoVersion /\ tree[current] # "absent"
    /\ leased' = [leased EXCEPT ![r] = current]
    /\ UNCHANGED <<now, store, coord, locks, retired, active, acquired,
                   expires, lastRenew>>

\* The tombstone limit allows one more, and current names a directory.
Resolve(r) ==
    /\ Step(r, "entered", "resolved")
    /\ Cardinality(retired) < TombstoneLimit
    /\ current # NoVersion /\ tree[current] # "absent"
    /\ leased' = [leased EXCEPT ![r] = current]
    /\ UNCHANGED <<now, store, coord, locks, retired, active, acquired,
                   expires, lastRenew>>

\* The limit is reached, or current names no directory of versions/.
Refuse(r) ==
    /\ Step(r, "entered", "failed")
    /\ Cardinality(retired) < TombstoneLimit
           => current \notin {v \in Versions : tree[v] # "absent"}
    /\ coord' = NoOne
    /\ UNCHANGED <<now, store, locks, retired, active, payload, lastRenew>>

CreateLock(r) ==
    /\ Step(r, "resolved", "locked")
    /\ locks' = locks \cup {r}
    /\ UNCHANGED <<now, store, coord, retired, active, payload, lastRenew>>

CreateTombstone(r) ==
    /\ Step(r, "locked", "retired")
    /\ retired' = retired \cup {r}
    /\ UNCHANGED <<now, store, coord, locks, active, payload, lastRenew>>

Stamp(r) ==
    /\ Step(r, "retired", "stamped")
    /\ acquired' = [acquired EXCEPT ![r] = now]
    /\ expires' = [expires EXCEPT ![r] = now + TTL]
    /\ UNCHANGED <<now, store, coord, locks, retired, active, leased,
                   lastRenew>>

\* The rename of the entry into active/, and the end of the critical section.
PublishEntry(r) ==
    /\ Step(r, "stamped", "held")
    /\ active' = active \cup {r}
    /\ coord' = NoOne
    /\ UNCHANGED <<now, store, locks, retired, payload, lastRenew>>

\* An exception inside the critical section, or a kill: the flock is gone, the
\* files created so far stay.  AbortKeepsLock forgets the flock.
AbortKeepsLock(r) ==
    /\ reader[r] \in Acquiring
    /\ reader' = [reader EXCEPT ![r] = "failed"]
    /\ UNCHANGED <<now, store, coord, locks, retired, active, payload,
                   lastRenew>>

Abort(r) ==
    /\ reader[r] \in Acquiring
    /\ reader' = [reader EXCEPT ![r] = "failed"]
    /\ coord' = NoOne
    /\ UNCHANGED <<now, store, locks, retired, active, payload, lastRenew>>

-----------------------------------------------------------------------------
(* Reading under the lease *)

\* The generator starts: it finds and opens the file, which a partly deleted
\* version may still hold, and starts its renewal clock.
Open(r) ==
    /\ r \in StreamReaders
    /\ Step(r, "held", "reading")
    /\ tree[leased[r]] # "absent"
    /\ lastRenew' = [lastRenew EXCEPT ![r] = now]
    /\ UNCHANGED <<now, store, coord, locks, retired, active, payload>>

\* renew() rewrites the entry of a lease that is listed and has not expired.
\* RenewUnchecked writes the entry without reading the one it replaces.
RenewUnchecked(r) ==
    /\ reader[r] = "reading"
    /\ now - lastRenew[r] > RenewAfter
    /\ coord = NoOne
    /\ active' = active \cup {r}
    /\ expires' = [expires EXCEPT ![r] = now + TTL]
    /\ lastRenew' = [lastRenew EXCEPT ![r] = now]
    /\ UNCHANGED <<now, store, coord, locks, retired, leased, acquired,
                   reader>>

Renew(r) ==
    /\ reader[r] = "reading"
    /\ now - lastRenew[r] > RenewAfter
    /\ coord = NoOne
    /\ r \in locks /\ r \in active /\ now <= expires[r]
    /\ expires' = [expires EXCEPT ![r] = now + TTL]
    /\ lastRenew' = [lastRenew EXCEPT ![r] = now]
    /\ UNCHANGED <<now, store, coord, locks, retired, active, leased,
                   acquired, reader>>

\* release(), in the finally of every user: after the last byte, after an
\* exception of the handler, after a failed open or renewal.  It raises if the
\* collector has removed the lock file; its own lock and tombstone stay.
Release(r) ==
    /\ reader[r] \in Holding
    /\ coord = NoOne
    /\ reader' = [reader EXCEPT ![r] = IF r \in locks THEN "done"
                                                      ELSE "failed"]
    /\ active' = IF r \in locks THEN active \ {r} ELSE active
    /\ UNCHANGED <<now, store, coord, locks, retired, payload, lastRenew>>

\* The process of the request dies and its lease stays behind.
KillReader(r) ==
    /\ reader[r] \in {"waiting"} \cup Holding
    /\ reader' = [reader EXCEPT ![r] = "failed"]
    /\ UNCHANGED <<now, store, coord, locks, retired, active, payload,
                   lastRenew>>

-----------------------------------------------------------------------------
AcquireStep(r) ==
    \/ Enter(r) \/ Resolve(r) \/ Refuse(r) \/ CreateLock(r)
    \/ CreateTombstone(r) \/ Stamp(r) \/ PublishEntry(r)

ReadStep(r) == Open(r) \/ Renew(r) \/ Release(r)

ReaderNext ==
    \/ Tick
    \/ \E r \in Readers :
           Begin(r) \/ AcquireStep(r) \/ Abort(r) \/ ReadStep(r)
               \/ KillReader(r)
=============================================================================

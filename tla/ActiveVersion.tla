--------------------------- MODULE ActiveVersion ---------------------------
(***************************************************************************)
(* What the versioned runtime store promises to everyone who reads         *)
(* data_runtime/current: a register that names one complete version.       *)
(*                                                                         *)
(*   - a version appears on the shelf (versions/<id>/) in one step, with   *)
(*     its whole and valid content, and its content never changes;         *)
(*   - the register moves in one step, and only to a version that is on    *)
(*     the shelf at that moment;                                           *)
(*   - a version leaves the shelf only while the register does not name    *)
(*     it.                                                                 *)
(*                                                                         *)
(* RuntimePublish (the publisher's system calls, its lock, its crashes)    *)
(* and RuntimeGc (readers, leases and the version collector) are shown to  *)
(* implement this module.                                                  *)
(***************************************************************************)
CONSTANTS
    Versions,     \* version ids
    Valid,        \* the contents that pass validation
    NoTree,       \* the content of a version that is not on the shelf
    NoVersion     \* what the register names before the first publish

VARIABLES
    active,       \* the version current points at
    shelf         \* the content of every version directory

vars == <<active, shelf>>

Init ==
    /\ active = NoVersion
    /\ shelf = [v \in Versions |-> NoTree]

Shelve(v) ==
    /\ shelf[v] = NoTree
    /\ \E c \in Valid : shelf' = [shelf EXCEPT ![v] = c]
    /\ UNCHANGED active

Activate(v) ==
    /\ shelf[v] \in Valid
    /\ active' = v
    /\ UNCHANGED shelf

ShelveAndActivate(v) ==
    /\ shelf[v] = NoTree
    /\ \E c \in Valid : shelf' = [shelf EXCEPT ![v] = c]
    /\ active' = v

Withdraw(v) ==
    /\ active # v
    /\ shelf' = [shelf EXCEPT ![v] = NoTree]
    /\ UNCHANGED active

Next ==
    \E v \in Versions :
        Shelve(v) \/ Activate(v) \/ ShelveAndActivate(v) \/ Withdraw(v)

Spec == Init /\ [][Next]_vars
=============================================================================

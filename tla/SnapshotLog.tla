----------------------------- MODULE SnapshotLog -----------------------------
(***************************************************************************)
(* What the Control Plane promises about the snapshots of a deployment     *)
(* (models.DeploymentSnapshot): an append-only log whose last entry is the *)
(* one being served.  A revision number names one entry for all time.      *)
(***************************************************************************)
EXTENDS Integers, Sequences

CONSTANTS
  Keys,      \* deployments
  Contents   \* what one entry may hold

VARIABLES
  log,       \* per deployment, the entries written so far
  current    \* per deployment, the revision being served, 0 if there is none

vars == <<log, current>>

Init ==
  /\ log = [k \in Keys |-> <<>>]
  /\ current = [k \in Keys |-> 0]

(* A new entry is written and served in one step. *)
Write(k, content) ==
  /\ log' = [log EXCEPT ![k] = Append(@, content)]
  /\ current' = [current EXCEPT ![k] = Len(log[k]) + 1]

Next == \E k \in Keys, content \in Contents : Write(k, content)

Spec == Init /\ [][Next]_vars
=============================================================================

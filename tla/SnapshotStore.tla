--------------------------- MODULE SnapshotStore ---------------------------
(***************************************************************************)
(* What a snapshotter promises to the actions that use it, without saying  *)
(* how: a set of complete snapshots, the one that boots by default and the *)
(* one the running system is mounted from.                                 *)
(***************************************************************************)
EXTENDS Integers

CONSTANT IDs     \* the snapshot IDs, positive integers

VARIABLES
  store,    \* complete snapshots
  active,   \* the snapshot that boots by default, 0 when there is none
  running   \* the snapshot in use, 0 when the system runs from elsewhere

vars == <<store, active, running>>

Init ==
  /\ store \subseteq IDs
  /\ active \in store \cup {0}
  /\ running \in store \cup {0}

\* A new snapshot is complete and not yet active.  Its ID was never that of a
\* snapshot that is still there.
Add(i) ==
  /\ i \notin store
  /\ store' = store \cup {i}
  /\ UNCHANGED <<active, running>>

\* The switch of the active snapshot may have a moment without one.
Deactivate ==
  /\ active' = 0
  /\ UNCHANGED <<store, running>>

Activate(i) ==
  /\ i \in store
  /\ active' = i
  /\ UNCHANGED <<store, running>>

\* Neither the active snapshot nor the one in use is ever deleted.
Delete(i) ==
  /\ i \in store
  /\ i \notin {active, running}
  /\ store' = store \ {i}
  /\ UNCHANGED <<active, running>>

\* Only a complete snapshot boots.
Boot(i) ==
  /\ i \in store \cup {0}
  /\ running' = i
  /\ UNCHANGED <<store, active>>

Next ==
  \/ \E i \in IDs : Add(i) \/ Activate(i) \/ Delete(i)
  \/ \E i \in IDs \cup {0} : Boot(i)
  \/ Deactivate

Spec == Init /\ [][Next]_vars
=============================================================================

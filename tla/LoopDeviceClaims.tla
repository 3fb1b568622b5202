-------------------------- MODULE LoopDeviceClaims --------------------------
(***************************************************************************)
(* What comments and documentation say of the loop device snapshotter and  *)
(* the code does not do.  Each claim is refuted by a run of its own.       *)
(***************************************************************************)
EXTENDS LoopDevice

\* "CloseTransaction ... is the responsible of setting new active and passive
\* snapshots": when it returns without error the new snapshot is the active one.
\* DeleteSnapshot compares with activeSnapshotID, the snapshot that was active
\* when the transaction started; deleting it removes the link, already moved.
ClosedIsActive == pc = "closed" => activeLink = snapshot.ID
=============================================================================

------------------------------ MODULE Chroot -------------------------------
(***************************************************************************)
(* ChrootedCallback (pkg/utils/chroot.go): directories of the host are     *)
(* bound below a tree, the process changes its root, a callback runs, and  *)
(* deferred functions undo all of it.                                      *)
(*                                                                         *)
(* A call is a run of the steps below; the caller starts one when chpc is  *)
(* "idle" and goes on when it is "returned".  What is left mounted stays   *)
(* with the host.                                                          *)
(***************************************************************************)
EXTENDS Integers, Sequences, FiniteSets, SequencesExt

VARIABLES
  chpc,          \* step of the call
  activeMounts,  \* Chroot.activeMounts
  failures,      \* local variable of Close
  cherr,         \* the named result of RunCallback
  root,          \* root directory of the process: "host" or "tree"
  cwd,           \* working directory: "start", "tree" or "oldroot"
  bound,         \* the bind mounts below the tree, in the order they were made
  busy           \* has an umount failed for no reason of this code?

chVars == <<chpc, activeMounts, failures, cherr, root, cwd, bound, busy>>

\* defaultMounts of NewChroot; /dev/pts is inside /dev.
DefaultMounts == <<"dev", "pts", "proc", "sys">>

Inside(a, b) == a = "pts" /\ b = "dev"

ChrootInit ==
  /\ chpc = "idle"
  /\ activeMounts = <<>>
  /\ failures = <<>>
  /\ cherr = "nil"
  /\ root = "host"
  /\ cwd = "start"
  /\ bound = <<>>
  /\ busy = FALSE

\* NewChroot and the call.
ChrootedCallback ==
  /\ chpc = "idle"
  /\ chpc' = "start"
  /\ activeMounts' = <<>>
  /\ failures' = <<>>
  /\ cherr' = "nil"
  /\ UNCHANGED <<root, cwd, bound, busy>>

\* err is only set when it is nil.
Error(next) == cherr' = "error" /\ chpc' = next

\* RunCallback up to Prepare: where the process is, and its root.
RunCallbackStarts ==
  /\ chpc = "start"
  /\ \/ chpc' = "prepare" /\ UNCHANGED cherr
     \/ Error("chdir")
  /\ UNCHANGED <<activeMounts, failures, root, cwd, bound, busy>>

\* Faulty: a mount that fails leaves the ones before it alone.
PrepareFails_leave == Error("chdir")

\* The deferred Close of Prepare.
PrepareFails == Error("close")

\* Prepare, one mount.
PrepareMount ==
  /\ chpc = "prepare"
  /\ Len(activeMounts) < Len(DefaultMounts)
  /\ LET next == DefaultMounts[Len(activeMounts) + 1]
     IN \/ /\ activeMounts' = Append(activeMounts, next)
           /\ bound' = Append(bound, next)
           /\ UNCHANGED <<chpc, cherr>>
        \/ PrepareFails /\ UNCHANGED <<activeMounts, bound>>
  /\ UNCHANGED <<failures, root, cwd, busy>>

\* Chdir and Chroot to the tree.
EnterChroot ==
  /\ chpc = "prepare"
  /\ Len(activeMounts) = Len(DefaultMounts)
  /\ \/ Error("close") /\ cwd' \in {cwd, "tree"} /\ UNCHANGED root
     \/ chpc' = "callback" /\ root' = "tree" /\ cwd' = "tree" /\ UNCHANGED cherr
  /\ UNCHANGED <<activeMounts, failures, bound, busy>>

Callback ==
  /\ chpc = "callback"
  /\ chpc' = "leave"
  /\ cherr' \in {"nil", "error"}
  /\ UNCHANGED <<activeMounts, failures, root, cwd, bound, busy>>

\* The deferred return to the old root.
LeaveChroot ==
  /\ chpc = "leave"
  /\ chpc' = "close"
  /\ \/ root' = "host" /\ cwd' = "oldroot" /\ UNCHANGED cherr
     \/ cherr' = "error" /\ cwd' \in {cwd, "oldroot"} /\ UNCHANGED root
  /\ UNCHANGED <<activeMounts, failures, bound, busy>>

\* Close takes the mounts from the end.
NextUnmount == Len(activeMounts)

\* umount: the last mount at that place, when nothing is mounted inside it; the
\* path is one of the host.
MountsAt(m) == {i \in DOMAIN bound : bound[i] = m}
LastAt(m)   == CHOOSE i \in MountsAt(m) : \A j \in MountsAt(m) : j <= i
CanUnmount(m) ==
  /\ root = "host"
  /\ MountsAt(m) # {}
  /\ ~ \E j \in DOMAIN bound : j > LastAt(m) /\ Inside(bound[j], m)

\* Close, one umount: a failure is noted and the loop goes on.
CloseUnmount ==
  /\ chpc = "close"
  /\ activeMounts # <<>>
  /\ LET curr == activeMounts[NextUnmount]
     IN /\ activeMounts' = RemoveAt(activeMounts, NextUnmount)
        /\ \/ /\ CanUnmount(curr)
              /\ bound' = RemoveAt(bound, LastAt(curr))
              /\ UNCHANGED <<failures, busy>>
           \/ /\ failures' = Append(failures, curr)
              /\ busy' = (busy \/ CanUnmount(curr) \/ root = "tree")
              /\ UNCHANGED bound
  /\ UNCHANGED <<chpc, cherr, root, cwd>>

\* Faulty: the error of Close is dropped, as in Prepare.
CloseResult_dropped == UNCHANGED cherr

CloseResult == cherr' = IF failures # <<>> THEN "error" ELSE cherr

CloseEnds ==
  /\ chpc = "close"
  /\ activeMounts = <<>>
  /\ activeMounts' = failures
  /\ CloseResult
  /\ chpc' = "chdir"
  /\ UNCHANGED <<failures, root, cwd, bound, busy>>

\* The deferred Chdir; the path is looked up in the root of the process.
RestoreDir ==
  /\ chpc = "chdir"
  /\ chpc' = "returned"
  /\ \/ root = "host" /\ cwd' = "start" /\ UNCHANGED cherr
     \/ cherr' = "error" /\ UNCHANGED cwd
  /\ UNCHANGED <<activeMounts, failures, root, bound, busy>>

ChrootNext ==
  \/ RunCallbackStarts
  \/ PrepareMount
  \/ EnterChroot
  \/ Callback
  \/ LeaveChroot
  \/ CloseUnmount
  \/ CloseEnds
  \/ RestoreDir

-----------------------------------------------------------------------------
\* A call that returns nil has put everything back, whichever of its deferred
\* functions had errors to report: the root, the working directory and every
\* mount it made.
ChrootClean ==
  (chpc = "returned" /\ cherr = "nil") =>
    root = "host" /\ cwd = "start" /\ activeMounts = <<>> /\ (bound # <<>> => busy)
=============================================================================

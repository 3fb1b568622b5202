------------------------------- MODULE Action -------------------------------
(***************************************************************************)
(* What `elemental install`, `upgrade` and `reset` have in common          *)
(* (pkg/action): Run mounts partitions, drives one transaction of the loop *)
(* device snapshotter, writes two copies of state.yaml and unwinds a stack *)
(* of clean up jobs (pkg/utils/cleanstack.go).  Any step may fail, and the *)
(* machine may stop between any two.                                       *)
(***************************************************************************)
EXTENDS Integers, FiniteSets, Sequences, SequencesExt

CONSTANTS
  MaxID, MaxSnaps, FirstID, LegacyDisk   \* see LoopDevice

ASSUME ActionAssumption ==
  /\ MaxID \in Nat \ {0}
  /\ MaxSnaps \in Int
  /\ FirstID \in 0..MaxID
  /\ LegacyDisk \in BOOLEAN
  /\ LegacyDisk => FirstID = 0

VARIABLES
  snaps, activeLink, legacy, bootEnv, booted, pc, snapshot,
  currentSnapshotID, activeSnapshotID, legacyClean, doomed, logged

\* The snapshotter; pc is the step it is at.
LD == INSTANCE LoopDevice

VARIABLES
  upc,           \* next step of Run
  jobs,          \* the CleanStack
  held,          \* partitions this run has mounted or made writable
  err,           \* what Run would return: "nil", "error"; or "panic"
  request,       \* the flags of the command line
  State,         \* spec.State
  stateYaml,     \* state.yaml of the state partition
  recoveryYaml   \* its copy on the recovery partition

ldDisk == <<snaps, activeLink, legacy, bootEnv>>
ldRest == <<ldDisk, booted, snapshot, currentSnapshotID, activeSnapshotID,
            legacyClean, doomed, logged>>
ldVars == <<ldRest, pc>>
yamls  == <<stateYaml, recoveryYaml>>
vars   == <<ldVars, upc, jobs, held, err, request, State, yamls>>

-----------------------------------------------------------------------------
\* state.yaml: the snapshots it lists, those it calls active, and whether it
\* has an entry for the recovery system.
InstallState(known, actives, recovery) ==
  [known |-> known, actives |-> actives, recovery |-> recovery]

Recorded(s) == "known" \in DOMAIN s

\* No file; a file that was only partly written; and what LoadInstallState
\* makes of it: no state at all, or one whose map of partitions is nil, or one
\* with a map that lacks what was not written.
NoState == [none |-> TRUE]
Torn    == [torn |-> TRUE]
NilMap  == [nilMap |-> TRUE]

LoadInstallState(file) ==
  IF file = Torn THEN {NoState, NilMap, InstallState({}, {}, FALSE)} ELSE {file}

\* IsRecoveryMode
IsRecoveryMode == booted.mode = "recovery"

\* No process, and a first state of the snapshotter's disk.
Idle ==
  /\ LD!Init
  /\ upc = "off"
  /\ jobs = <<>>
  /\ held = {}
  /\ err = "nil"
  /\ request = [action |-> "none"]
  /\ State = NoState

\* A step of Run that fails: the deferred clean up is next.
Fail ==
  /\ err' = "error"
  /\ upc' = "cleanup"

\* A step of Run that changes nothing modelled here, or fails.
Attempt(here, next) ==
  /\ upc = here
  /\ \/ upc' = next /\ UNCHANGED err
     \/ Fail
  /\ UNCHANGED <<ldVars, jobs, held, request, State, yamls>>

\* MountRWPartition and the push of its undo.
MountRW(here, part, next) ==
  /\ upc = here
  /\ \/ /\ held' = held \cup {part}
        /\ jobs' = Append(jobs, {part})
        /\ upc' = next
        /\ UNCHANGED err
     \/ Fail /\ UNCHANGED <<held, jobs>>
  /\ UNCHANGED <<ldVars, request, State, yamls>>

-----------------------------------------------------------------------------
(* The calls to the snapshotter.                                           *)

\* The job that gives up the transaction; the other jobs are sets of partitions.
Abort == {}

\* The snapshotter works; Run waits for it.
Snapshotter ==
  /\ LD!SnapshotterStep
  /\ UNCHANGED <<upc, jobs, held, err, request, State, yamls>>

CallInitSnapshotter ==
  /\ upc = "init"
  /\ LD!NewLoopDeviceSnapshotter
  /\ upc' = "initing"
  /\ UNCHANGED <<jobs, held, err, request, State, yamls>>

InitReturns ==
  /\ upc = "initing"
  /\ \/ pc = "ready" /\ upc' = "beforehook" /\ UNCHANGED err
     \/ pc = "failed" /\ Fail
  /\ UNCHANGED <<ldVars, jobs, held, request, State, yamls>>

BeforeHook == Attempt("beforehook", "start")

CallStartTransaction ==
  /\ upc = "start"
  /\ LD!StartTransaction
  /\ upc' = "starting"
  /\ UNCHANGED <<jobs, held, err, request, State, yamls>>

\* Only a transaction that was started is given up on an error.
StartReturns ==
  /\ upc = "starting"
  /\ \/ /\ pc = "open"
        /\ jobs' = Append(jobs, Abort)
        /\ upc' = "deploy"
        /\ UNCHANGED err
     \/ pc = "failed" /\ Fail /\ UNCHANGED jobs
  /\ UNCHANGED <<ldVars, held, request, State, yamls>>

\* MirrorRoot into the work tree
DeploySystem == Attempt("deploy", "refine")

\* refineDeployment: GRUB, hooks, labels and default entry
RefineDeployment == Attempt("refine", "close")

\* CloseTransaction; when the work tree cannot be unmounted it aborts at once.
CallCloseTransaction ==
  /\ upc = "close"
  /\ LD!CloseTransaction \/ LD!CloseTransactionOnError
  /\ upc' = "closing"
  /\ UNCHANGED <<jobs, held, err, request, State, yamls>>

CloseReturns(next) ==
  /\ upc = "closing"
  /\ \/ pc = "closed" /\ upc' = next /\ UNCHANGED err
     \/ pc = "failed" /\ Fail
  /\ UNCHANGED <<ldVars, jobs, held, request, State, yamls>>

PostHook(next) == Attempt("posthook", next)

-----------------------------------------------------------------------------
(* WriteInstallState: two files, one after the other.                      *)

\* The write of a new state to the state partition, or its failure.
WriteStateFile(new) ==
  /\ \/ State' \in new /\ stateYaml' = State' /\ upc' = "recoveryyaml" /\ UNCHANGED err
     \/ stateYaml' \in {stateYaml, Torn} /\ Fail /\ UNCHANGED State
  /\ UNCHANGED <<ldVars, jobs, held, request, recoveryYaml>>

WriteRecoveryYaml ==
  /\ upc = "recoveryyaml"
  /\ \/ recoveryYaml' = State /\ upc' = "completed" /\ UNCHANGED err
     \/ recoveryYaml' \in {recoveryYaml, Torn} /\ Fail
  /\ UNCHANGED <<ldVars, jobs, held, request, State, stateYaml>>

-----------------------------------------------------------------------------
(* CleanStack.Cleanup, called by Run when it is done or deferred.          *)

\* Faulty: first in, first out.
Top_first == 1

\* Pop takes the job that was pushed last.
Top == Len(jobs)

InCleanup == upc \in {"cleanup", "completed"} /\ pc \notin LD!Steps

\* An umount job runs whatever happened and goes on to its last partition; its
\* own error is added to the rest.  Which partitions it could not unmount makes
\* no difference to what follows, so it is all of them or none.
RunUmountJob ==
  /\ InCleanup
  /\ jobs # <<>>
  /\ jobs[Top] # Abort
  /\ jobs' = RemoveAt(jobs, Top)
  /\ \E left \in {{}, jobs[Top]} :
       /\ held' = held \ (jobs[Top] \ left)
       /\ err' = IF left # {} /\ err = "nil" THEN "error" ELSE err
  /\ UNCHANGED <<ldVars, upc, request, State, yamls>>

\* Faulty: pushed with Push instead of PushErrorOnly.
RunAbortJob_always ==
  /\ InCleanup
  /\ jobs # <<>>
  /\ jobs[Top] = Abort
  /\ jobs' = RemoveAt(jobs, Top)
  /\ pc' = "rmsnap"
  /\ UNCHANGED <<ldRest, upc, held, err, request, State, yamls>>

\* The error only job: CloseTransactionOnError.
RunAbortJob ==
  /\ InCleanup
  /\ jobs # <<>>
  /\ jobs[Top] = Abort
  /\ jobs' = RemoveAt(jobs, Top)
  /\ pc' = IF err = "error" THEN "rmsnap" ELSE pc
  /\ UNCHANGED <<ldRest, upc, held, err, request, State, yamls>>

\* No power action after an error.
CleanupReturns ==
  /\ InCleanup
  /\ jobs = <<>>
  /\ upc' = IF upc = "completed" /\ err = "nil" THEN "power" ELSE "done"
  /\ UNCHANGED <<ldVars, jobs, held, err, request, State, yamls>>

\* With --reboot or --poweroff a command is run, which may fail.  The machine
\* goes down some time after it has returned, as it may at any time: see Reboot.
PowerAction ==
  /\ upc = "power"
  /\ upc' = "done"
  /\ err' \in {"nil", "error"}
  /\ UNCHANGED <<ldVars, jobs, held, request, State, yamls>>

\* What the process knows is gone with it.
ProcessEnds ==
  /\ upc' = "off"
  /\ jobs' = <<>>
  /\ held' = {}
  /\ err' = "nil"
  /\ request' = [action |-> "none"]
  /\ State' = NoState

Exit ==
  /\ upc = "done"
  /\ LD!Exit \/ (pc = "off" /\ UNCHANGED ldVars)
  /\ ProcessEnds
  /\ UNCHANGED yamls

-----------------------------------------------------------------------------
\* The steps all three actions share.
SharedStep ==
  \/ Snapshotter
  \/ CallInitSnapshotter \/ InitReturns \/ BeforeHook
  \/ CallStartTransaction \/ StartReturns \/ DeploySystem \/ RefineDeployment
  \/ CallCloseTransaction \/ WriteRecoveryYaml
  \/ RunUmountJob \/ RunAbortJob \/ CleanupReturns \/ PowerAction

Succeeded == upc = "done" /\ err = "nil"
=============================================================================

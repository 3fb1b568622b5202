--------------------------- MODULE InstallProofs ---------------------------
(***************************************************************************)
(* Proofs about `elemental install` and `elemental reset`, for any number  *)
(* of snapshots, any retention limit and any sequence of runs, failures    *)
(* and power losses on one disk.                                           *)
(***************************************************************************)
EXTENDS Install, ActionProofs

-----------------------------------------------------------------------------
(* The first transaction of an empty state partition.                      *)

\* An empty partition, and a snapshotter that has found no legacy images.
New ==
  /\ snaps = [i \in LD!SnapIDs |-> {}]
  /\ activeLink = LD!NoLink
  /\ legacy = {} /\ ~legacyClean
  /\ pc \in {"off", "init", "ready", "failed"}

\* The first transaction on it: nothing to delete and nothing to list.
Unlinked == {"mkdir", "mkwork", "bind", "open", "image", "sync", "rmwork", "unlink", "symlink"}
Linked   == {"clean", "delete", "setboot", "setpassives", "setfallback", "cleanlegacy", "closed"}

First ==
  /\ legacy = {} /\ ~legacyClean /\ doomed = {}
  /\ pc \in Unlinked \cup Linked \cup {"restore", "rmsnap", "failed"}
  /\ \A i \in LD!SnapIDs \ {1} : snaps[i] = {}
  /\ pc # "failed" => snapshot.ID = 1
  /\ pc \in Unlinked => activeLink = LD!NoLink
  /\ pc \in Linked => activeLink = 1
  /\ pc = "setfallback" \/ (pc \in {"cleanlegacy", "closed"} /\ "env" \notin logged)
       => bootEnv.passives = <<>>

\* The boot environment has its variables.
HasEnv == bootEnv = [passives |-> bootEnv.passives, fallback |-> bootEnv.fallback]

\* setBootloader lists nothing where there is nothing to list.
LEMMA PassiveListEmpty == LD!PassiveList({}) = <<>>
<1>1. Cardinality({}) = 0
  BY FS_EmptySet
<1>2. LD!Cardinality({}) = Cardinality({})
  BY DEF LD!Cardinality, Cardinality
<1> QED
  BY <1>1, <1>2 DEF LD!PassiveList, LD!LatestFirst

\* The snapshotter finds the partition empty and leaves it so.
LEMMA NewStep ==
  ASSUME LDInv, New, LD!SnapshotterStep
  PROVE  New'
<1>1. pc = "init"
  BY StepFrame DEF LDInv, New, LD!Steps
<1>2. LD!InitSnapshotter
  BY <1>1 DEF LD!SnapshotterStep, LD!InitSnapshotter, LD!LegacyImageToSnapshot, LD!LinkLegacyImage,
     LD!MkSnapDir, LD!MkWorkDir, LD!BindMount, LD!StartFails, LD!RemoveSnapshotDir, LD!RemoveSnapshotsPath,
     LD!CreateImage, LD!SyncImage, LD!RemoveWorkDir, LD!RemoveActiveLink, LD!SymlinkActive, LD!SymlinkRestore,
     LD!CleanOldSnapshots, LD!DeleteSnapshot, LD!RemoveOldSnapshot, LD!CleanDone, LD!SetPassives,
     LD!SetFallback, LD!SetBootloaderFails, LD!CleanLegacyImages, LD!CloseFails
<1> QED
  BY <1>2 DEF New, LD!InitSnapshotter, LD!disk

\* The transaction that starts on it has the ID 1.
LEMMA NewStarts ==
  ASSUME LDInv, New, LD!StartTransaction
  PROVE  First'
<1>1. LD!GetSnapshots = {} /\ 1 \in LD!SnapIDs
  BY ActionAssumption DEF New, LD!GetSnapshots, LD!SnapIDs
<1>2. LD!NextID({}) = 1
  BY NextIDFresh
<1>3. /\ pc' \in {"mkdir", "failed"}
      /\ pc' = "mkdir" => snapshot' = [ID |-> 1, InProgress |-> FALSE]
      /\ UNCHANGED <<snaps, activeLink, legacy, bootEnv, legacyClean, doomed>>
  BY <1>1, <1>2 DEF LD!StartTransaction, LD!disk
<1>4. doomed = {}
  BY DEF LDInv, Spared, New
<1> QED
  BY <1>3, <1>4 DEF New, First, Unlinked, Linked

\* Its steps keep it the only one, and make it the active one.
LEMMA FirstStep ==
  ASSUME LDInv, First, HasEnv, LD!SnapshotterStep
  PROVE  First'
<1>0. pc \in LD!Steps /\ 1 \in LD!SnapIDs /\ snaps \in [LD!SnapIDs -> SUBSET LD!Parts]
  BY StepFrame, ActionAssumption DEF LDInv, LD!Typed, LD!SnapIDs
<1> USE <1>0 DEF First, Unlinked, Linked, LD!Steps
<1>1. CASE LD!MkSnapDir
  BY <1>1 DEF LD!MkSnapDir, LD!object
<1>2. CASE LD!MkWorkDir
  BY <1>2 DEF LD!MkWorkDir, LD!object
<1>3. CASE LD!BindMount
  BY <1>3 DEF LD!BindMount, LD!disk, LDInv, LD!Typed
<1>4. CASE LD!StartFails
  BY <1>4 DEF LD!StartFails
<1>5. CASE LD!RemoveSnapshotDir
  BY <1>5 DEF LD!RemoveSnapshotDir, LD!object
<1>6. CASE LD!CreateImage
  BY <1>6 DEF LD!CreateImage, LD!object
<1>7. CASE LD!SyncImage
  BY <1>7 DEF LD!SyncImage, LD!object
<1>8. CASE LD!RemoveWorkDir
  BY <1>8 DEF LD!RemoveWorkDir, LD!object
<1>9. CASE LD!RemoveActiveLink
  BY <1>9 DEF LD!RemoveActiveLink, LD!object
<1>10. CASE LD!SymlinkActive
  BY <1>10 DEF LD!SymlinkActive, LD!object
<1>11. CASE LD!SymlinkRestore
  BY <1>11 DEF LD!SymlinkRestore, LD!object
<1>12. pc \in Linked => LD!getPassiveSnapshots = {}
  <2>1. pc \in Linked => LD!Complete(1) /\ activeLink = 1 /\ activeLink # LD!NoLink
    BY DEF LDInv, Imaged, LD!NoLink
  <2>2. pc \in Linked => LD!getActiveSnapshot = 1
    BY <2>1 DEF LD!getActiveSnapshot, LD!Complete
  <2> QED
    BY <2>2 DEF LD!getPassiveSnapshots, LD!GetSnapshots
<1>13. CASE LD!CleanOldSnapshots
  <2>1. LD!Doomed({}) = {}
    BY DEF LD!Doomed
  <2> QED
    BY <1>12, <1>13, <2>1 DEF LD!CleanOldSnapshots, LD!disk, LD!object
<1>14. CASE LD!CleanDone
  BY <1>14 DEF LD!CleanDone, LD!disk, LD!object
<1>15. CASE LD!SetPassives
  <2>1. LD!PassiveList(LD!getPassiveSnapshots) = <<>>
    BY <1>12, <1>15, PassiveListEmpty DEF LD!SetPassives
  <2>2. bootEnv'.passives = <<>>
    BY <1>15, <2>1 DEF LD!SetPassives, HasEnv
  <2> QED
    BY <1>15, <2>2 DEF LD!SetPassives, LD!object
<1>16. CASE LD!SetFallback
  <2>1. bootEnv'.passives = bootEnv.passives
    BY <1>16 DEF LD!SetFallback, HasEnv
  <2> QED
    BY <1>16, <2>1 DEF LD!SetFallback, LD!object
<1>17. CASE LD!SetBootloaderFails
  BY <1>17 DEF LD!SetBootloaderFails, LD!disk, LD!object
<1>18. CASE LD!CleanLegacyImages
  BY <1>18 DEF LD!CleanLegacyImages, LDInv, LD!Typed
<1>19. CASE LD!CloseFails
  BY <1>19 DEF LD!CloseFails, LD!disk, LD!object
<1>20. ~ (\/ LD!InitSnapshotter \/ LD!LegacyImageToSnapshot \/ LD!LinkLegacyImage \/ LD!RemoveSnapshotsPath
          \/ LD!DeleteSnapshot \/ LD!RemoveOldSnapshot)
  BY DEF LD!InitSnapshotter, LD!LegacyImageToSnapshot, LD!LinkLegacyImage, LD!RemoveSnapshotsPath,
         LD!DeleteSnapshot, LD!RemoveOldSnapshot
<1> QED
  BY <1>1, <1>2, <1>3, <1>4, <1>5, <1>6, <1>7, <1>8, <1>9, <1>10, <1>11, <1>13, <1>14, <1>15,
     <1>16, <1>17, <1>18, <1>19, <1>20 DEF LD!SnapshotterStep

\* The environment keeps its variables.
LEMMA EnvStep ==
  ASSUME HasEnv, LD!SnapshotterStep
  PROVE  HasEnv'
<1>1. CASE LD!SetPassives
  BY <1>1 DEF LD!SetPassives, HasEnv
<1>2. CASE LD!SetFallback
  BY <1>2 DEF LD!SetFallback, HasEnv
<1>3. CASE ~LD!SetPassives /\ ~LD!SetFallback
  <2>1. bootEnv' = bootEnv
    BY <1>3 DEF LD!SnapshotterStep, LD!disk, LD!InitSnapshotter, LD!LegacyImageToSnapshot, LD!LinkLegacyImage,
       LD!MkSnapDir, LD!MkWorkDir, LD!BindMount, LD!StartFails, LD!RemoveSnapshotDir, LD!RemoveSnapshotsPath,
       LD!CreateImage, LD!SyncImage, LD!RemoveWorkDir, LD!RemoveActiveLink, LD!SymlinkActive, LD!SymlinkRestore,
       LD!CleanOldSnapshots, LD!DeleteSnapshot, LD!RemoveOldSnapshot, LD!CleanDone,
       LD!SetBootloaderFails, LD!CleanLegacyImages, LD!CloseFails
  <2> QED
    BY <2>1 DEF HasEnv
<1> QED
  BY <1>1, <1>2, <1>3

-----------------------------------------------------------------------------
(* The invariant of a run.                                                 *)

\* The steps of Run, by how far they have come.
Formatting == {"source", "prepare", "unmount", "formatstate"}
Mounting   == {"format", "formatextra", "mount", "init"}
Preparing  == {"initing", "beforehook", "start"}
Deploying  == {"deploy", "refine", "close"}
Finishing  == {"recoverysrc", "recoverydeploy", "recoveryends", "posthook", "mountrecovery",
               "stateyaml", "recoveryyaml", "power"}
Ending     == {"completed", "cleanup", "done"}

Partitions == {"iso", "boot", "recovery", "state"}

\* What is asked for, and the values of the rest.
Kinds ==
  /\ HasEnv
  /\ jobs \in Seq(SUBSET Partitions)
  /\ upc \in {"off", "starting", "closing"} \cup Formatting \cup Mounting \cup Preparing
               \cup Deploying \cup Finishing \cup Ending
  /\ upc # "off" => request \in [action : {"install", "reset"}, noFormat : BOOLEAN, force : BOOLEAN]
  /\ upc = "off" => request = [action |-> "none"]

\* A transaction that may have to be given up has an ID.
NoAbort == \A i \in 1..Len(jobs) : jobs[i] # Abort

Stack ==
  /\ upc \in {"off", "starting"} \cup Formatting \cup Mounting \cup Preparing => NoAbort
  /\ NoAbort \/ snapshot.ID # 0

\* Where the snapshotter is while Run is at a step.
Call ==
  /\ upc \in {"off"} \cup Formatting \cup Mounting => pc = "off"
  /\ upc = "initing" => pc \in InitPCs
  /\ upc \in {"beforehook", "start"} => pc = "ready"
  /\ upc = "starting" => pc \in StartPCs
  /\ upc \in Deploying => pc = "open"
  /\ upc = "closing" => pc \in ClosePCs
  /\ upc \in Finishing => pc = "closed"
  /\ upc \in Ending => IF err = "nil" THEN pc = "closed" ELSE pc \notin LD!Steps \/ pc \in AbortPCs
  /\ upc = "done" => pc \notin LD!Steps

\* When there is an error.
Error ==
  /\ upc \notin Ending => err = "nil"
  /\ upc = "cleanup" => err # "nil"

\* With formatting the run starts from an empty partition.
Fresh ==
  (upc # "off" /\ ~request.noFormat) =>
    /\ upc \in Mounting \cup Preparing => New
    /\ upc \in {"starting", "closing"} \cup Deploying \cup Finishing => First
    /\ (upc \in Ending /\ err = "nil") => First

Core == LDInv /\ Kinds /\ Stack /\ Call /\ Error /\ Fresh

\* The state files and the recovery system of a run that has come this far.
Written ==
  /\ stateYaml = State
  /\ stateYaml.known = {snapshot.ID} /\ stateYaml.actives = {snapshot.ID}

Results ==
  /\ upc = "mountrecovery" => request.action = "reset"
  /\ err = "nil" =>
    /\ upc \in {"recoveryyaml", "completed", "power", "done"} => Written
    /\ upc \in {"completed", "power", "done"} => recoveryYaml = stateYaml
    /\ (upc \in {"posthook", "stateyaml", "recoveryyaml", "completed", "power", "done"}
          /\ request.action = "install") => recovery = "whole"

Inv == Core /\ Results

-----------------------------------------------------------------------------
(* The clean up stack.                                                     *)

\* A push.
LEMMA PushJob ==
  ASSUME jobs \in Seq(SUBSET Partitions), NEW job \in SUBSET Partitions, jobs' = Append(jobs, job)
  PROVE  jobs' \in Seq(SUBSET Partitions) /\ (NoAbort /\ job # Abort => NoAbort')
<1>1. Len(jobs) \in Nat
  BY LenProperties
<1>2. /\ jobs' \in Seq(SUBSET Partitions)
      /\ Len(jobs') = Len(jobs) + 1
      /\ \A i \in 1..Len(jobs) : jobs'[i] = jobs[i]
      /\ jobs'[Len(jobs) + 1] = job
  BY AppendProperties
<1>3. ASSUME NoAbort, job # Abort, NEW i \in 1..Len(jobs') PROVE jobs'[i] # Abort
  <2>1. i = Len(jobs) + 1 \/ i \in 1..Len(jobs)
    BY <1>1, <1>2
  <2> QED
    BY <1>2, <1>3, <2>1 DEF NoAbort
<1> QED
  BY <1>2, <1>3 DEF NoAbort, Abort

\* A pop.
LEMMA PopJob ==
  ASSUME jobs \in Seq(SUBSET Partitions), jobs # <<>>, jobs' = RemoveAt(jobs, Top)
  PROVE  /\ jobs' \in Seq(SUBSET Partitions)
         /\ NoAbort => NoAbort'
         /\ jobs[Top] = Abort => ~NoAbort
<1>1. /\ Len(jobs) \in Nat \ {0}
      /\ jobs' \in Seq(SUBSET Partitions)
      /\ Len(jobs') = Len(jobs) - 1
      /\ \A i \in 1..(Len(jobs) - 1) : jobs'[i] = jobs[i]
  BY PopTop
<1>2. 1..Len(jobs') \subseteq 1..Len(jobs) /\ Len(jobs) \in 1..Len(jobs)
  BY <1>1
<1> QED
  BY <1>1, <1>2 DEF NoAbort, Top, Abort

\* Steps that leave the snapshotter alone.
LEMMA SnapshotterSame ==
  ASSUME LDInv, UNCHANGED ldVars
  PROVE  LDInv' /\ (New => New') /\ (First => First') /\ (HasEnv => HasEnv')
         /\ UNCHANGED <<pc, snapshot, booted, snaps>>
<1>1. LDInv'
  BY CallKeeps
<1> QED
  BY <1>1 DEF New, First, HasEnv, ldVars, ldRest, ldDisk

-----------------------------------------------------------------------------
(* The invariant but for the results, action by action.                    *)

\* The steps of Run.
USE DEF Formatting, Mounting, Preparing, Deploying, Finishing, Ending

\* A step fails that is not one of the snapshotter.
LEMMA FailKeeps ==
  ASSUME Core, Fail, UNCHANGED <<jobs, request>>, LDInv', HasEnv', UNCHANGED <<pc, snapshot>>,
         upc # "off", pc \notin LD!Steps
  PROVE  Core'
BY DEF Core, Kinds, Stack, NoAbort, Call, Error, Fresh, Fail

\* Steps that leave the snapshotter and the stack alone.
LEMMA QuietKeeps ==
  ASSUME Core, UNCHANGED <<ldVars, jobs>>,
         (\/ InitReturns \/ BeforeHook \/ DeploySystem \/ RefineDeployment \/ CloseInstallReturns
          \/ RecoverySource \/ DeployRecoveryStarts \/ DeployRecoveryEnds \/ PostInstallHook
          \/ FormatDevice \/ UnmountPartitions \/ FormatExtra \/ WriteStateYaml \/ WriteRecoveryYaml
          \/ CleanupReturns \/ PowerAction \/ NewResetAction
          \/ \E noFormat, force \in BOOLEAN : NewInstallAction(noFormat, force))
  PROVE  Core'
<1>1. LDInv' /\ (New => New') /\ (First => First') /\ HasEnv' /\ UNCHANGED <<pc, snapshot>> /\ (NoAbort => NoAbort')
  BY SnapshotterSame DEF Core, Kinds, NoAbort
<1> USE DEF Core, Kinds, Stack, Call, Error, Fresh
<1>2. CASE /\ Fail
           /\ \/ InitReturns \/ BeforeHook \/ DeploySystem \/ RefineDeployment \/ CloseInstallReturns
              \/ RecoverySource \/ DeployRecoveryEnds \/ PostInstallHook
              \/ FormatDevice \/ UnmountPartitions \/ FormatExtra \/ WriteStateYaml \/ WriteRecoveryYaml
  <2>1. upc # "off" /\ request' = request /\ pc \notin LD!Steps
    BY <1>2 DEF InitReturns, BeforeHook, DeploySystem, RefineDeployment, CloseInstallReturns, CloseReturns,
                RecoverySource, DeployRecoveryEnds, PostInstallHook, PostHook, FormatDevice, UnmountPartitions,
                FormatExtra, WriteStateYaml, WriteStateFile, WriteRecoveryYaml, Attempt, Fail, LD!Steps
  <2> QED
    BY <1>1, <1>2, <2>1, FailKeeps
<1>3. CASE (InitReturns \/ BeforeHook) /\ ~Fail
  BY <1>1, <1>3 DEF InitReturns, BeforeHook, Attempt, Fail
<1>4. CASE (DeploySystem \/ RefineDeployment) /\ ~Fail
  BY <1>1, <1>4 DEF DeploySystem, RefineDeployment, Attempt, Fail
<1>5. CASE CloseInstallReturns /\ ~Fail
  BY <1>1, <1>5 DEF CloseInstallReturns, CloseReturns, Fail
<1>6. CASE (RecoverySource \/ DeployRecoveryStarts \/ DeployRecoveryEnds \/ PostInstallHook) /\ ~Fail
  BY <1>1, <1>6 DEF RecoverySource, DeployRecoveryStarts, DeployRecoveryEnds, PostInstallHook, PostHook, Attempt, Fail
<1>7. CASE (FormatDevice \/ UnmountPartitions \/ FormatExtra) /\ ~Fail
  BY <1>1, <1>7 DEF FormatDevice, UnmountPartitions, FormatExtra, Attempt, Fail
<1>8. CASE (WriteStateYaml \/ WriteRecoveryYaml) /\ ~Fail
  BY <1>1, <1>8 DEF WriteStateYaml, WriteStateFile, WriteRecoveryYaml, Fail, LD!Steps
<1>9. CASE CleanupReturns
  <2>1. /\ upc \in {"cleanup", "completed"} /\ pc \notin LD!Steps /\ UNCHANGED <<err, request>>
        /\ upc' = IF upc = "completed" /\ err = "nil" THEN "power" ELSE "done"
    BY <1>9 DEF CleanupReturns, InCleanup
  <2>2. Kinds' /\ Stack'
    BY <1>1, <2>1
  <2>3. Call' /\ Error'
    BY <1>1, <2>1
  <2>4. Fresh'
    BY <1>1, <2>1
  <2> QED
    BY <1>1, <2>2, <2>3, <2>4
<1>10. CASE PowerAction
  <2>1. upc = "power" /\ upc' = "done" /\ err = "nil" /\ pc = "closed" /\ request' = request
    BY <1>10 DEF PowerAction
  <2> QED
    BY <1>1, <2>1 DEF LD!Steps
<1>11. CASE NewResetAction
  BY <1>1, <1>11 DEF NewResetAction
<1>12. CASE \E noFormat, force \in BOOLEAN : NewInstallAction(noFormat, force)
  BY <1>1, <1>12 DEF NewInstallAction
<1>13. DeployRecoveryStarts => ~Fail
  BY DEF DeployRecoveryStarts, Fail
<1> QED
  BY <1>2, <1>3, <1>4, <1>5, <1>6, <1>7, <1>8, <1>9, <1>10, <1>11, <1>12, <1>13

\* The snapshotter and the calls to it.
LEMMA CallsKeep ==
  ASSUME Core, Snapshotter \/ CallInitSnapshotter \/ CallStartTransaction \/ CallCloseTransaction
  PROVE  Core'
<1>1. UNCHANGED <<jobs, err, request>> /\ (NoAbort => NoAbort')
  BY DEF Snapshotter, CallInitSnapshotter, CallStartTransaction, CallCloseTransaction, NoAbort
<1>2. CASE Snapshotter
  <2>1. LDInv' /\ HasEnv'
    BY <1>2, LDInvStep, EnvStep DEF Core, Kinds, Snapshotter
  <2>2. /\ pc \in LD!Steps
        /\ pc \in InitPCs => pc' \in InitPCs /\ snapshot' = snapshot
        /\ pc \in StartPCs => pc' \in StartPCs
        /\ pc \in ClosePCs => pc' \in ClosePCs /\ snapshot'.ID = snapshot.ID
        /\ pc \in AbortPCs => pc' \in AbortPCs
    BY <1>2, StepFrame DEF Core, LDInv, Snapshotter
  <2>3. /\ upc' = upc
        /\ \/ upc \in {"initing", "starting", "closing"}
           \/ upc \in {"cleanup", "completed"} /\ err # "nil" /\ pc \in AbortPCs
    BY <1>2, <2>2 DEF Core, Call, Kinds, Snapshotter, LD!Steps
  <2>4. Kinds' /\ Error'
    BY <1>1, <2>1, <2>3 DEF Core, Kinds, Error
  <2>5. Call'
    BY <1>1, <2>2, <2>3 DEF Core, Call
  <2>6. Stack'
    BY <1>1, <2>2, <2>3 DEF Core, Call, Stack, ClosePCs, AbortPCs
  <2>7. (New => New') /\ (First => First')
    BY <1>2, NewStep, FirstStep DEF Core, Kinds, Snapshotter
  <2>8. Fresh'
    BY <1>1, <2>3, <2>7 DEF Core, Fresh
  <2> QED
    BY <2>1, <2>4, <2>5, <2>6, <2>8 DEF Core
<1>3. CASE CallInitSnapshotter
  <2>1. LDInv'
    BY <1>3, CallKeeps DEF Core, CallInitSnapshotter
  <2>2. upc = "init" /\ upc' = "initing" /\ pc' = "init" /\ snapshot' = snapshot /\ HasEnv' /\ (New => New')
    BY <1>3 DEF Core, Kinds, CallInitSnapshotter, LD!NewLoopDeviceSnapshotter, LD!disk, LD!object, New, HasEnv
  <2> QED
    BY <1>1, <2>1, <2>2 DEF Core, Kinds, Stack, Call, Error, Fresh, InitPCs
<1>4. CASE CallStartTransaction
  <2>1. LDInv' /\ pc' \in {"mkdir", "failed"} /\ bootEnv' = bootEnv
    BY <1>4, StartFresh DEF Core, CallStartTransaction, ldDisk
  <2>2. New => First'
    BY <1>4, NewStarts DEF Core, CallStartTransaction
  <2>3. upc = "start" /\ upc' = "starting" /\ HasEnv'
    BY <1>4, <2>1 DEF Core, Kinds, CallStartTransaction, HasEnv
  <2> QED
    BY <1>1, <2>1, <2>2, <2>3 DEF Core, Kinds, Stack, Call, Error, Fresh, StartPCs
<1>5. CASE CallCloseTransaction
  <2>1. LDInv'
    BY <1>5, CallKeeps DEF Core, CallCloseTransaction
  <2>2. pc = "open" /\ pc' \in {"image", "rmsnap"} /\ UNCHANGED <<snaps, activeLink, legacy, bootEnv, doomed, logged, snapshot, legacyClean>>
    BY <1>5 DEF Core, Call, CallCloseTransaction, LD!CloseTransaction, LD!CloseTransactionOnError, LD!object, LD!disk
  <2>3. upc = "close" /\ upc' = "closing" /\ HasEnv' /\ (First => First')
    BY <1>5, <2>2 DEF Core, Kinds, CallCloseTransaction, HasEnv, First, Unlinked, Linked
  <2> QED
    BY <1>1, <2>1, <2>2, <2>3 DEF Core, Kinds, Stack, Call, Error, Fresh, ClosePCs
<1> QED
  BY <1>2, <1>3, <1>4, <1>5

\* The steps that push.
LEMMA PushesKeep ==
  ASSUME Core, SourceFormISO \/ MountPartitions \/ StartReturns \/ MountRecovery
  PROVE  Core'
<1>1. UNCHANGED ldVars /\ request' = request
  BY DEF SourceFormISO, MountPartitions, StartReturns, MountRecovery, MountRW
<1>2. LDInv' /\ (New => New') /\ (First => First') /\ HasEnv' /\ UNCHANGED <<pc, snapshot>>
  BY <1>1, SnapshotterSame DEF Core, Kinds
<1>3. pc \notin LD!Steps /\ upc \in {"source", "mount", "starting", "mountrecovery"}
  BY DEF Core, Call, SourceFormISO, MountPartitions, StartReturns, MountRecovery, MountRW, LD!Steps
<1>4. CASE Fail /\ jobs' = jobs
  BY <1>1, <1>2, <1>3, <1>4, FailKeeps
<1>5. ASSUME NEW job \in SUBSET Partitions, jobs' = Append(jobs, job)
      PROVE  jobs' \in Seq(SUBSET Partitions) /\ (NoAbort /\ job # Abort => NoAbort')
  BY <1>5, PushJob DEF Core, Kinds
<1>6. CASE SourceFormISO /\ ~(Fail /\ jobs' = jobs)
  <2>1. \/ upc' = "prepare" /\ UNCHANGED <<jobs, err>>
        \/ jobs' = Append(jobs, {"iso"}) /\ upc' = "prepare" /\ UNCHANGED err
        \/ jobs' = Append(jobs, {"iso"}) /\ Fail
    BY <1>6 DEF SourceFormISO
  <2>2. upc = "source" /\ NoAbort /\ pc = "off"
    BY <1>6 DEF SourceFormISO, Core, Stack, Call
  <2>3. jobs' \in Seq(SUBSET Partitions) /\ NoAbort'
    BY <1>5, <2>1, <2>2 DEF Core, Kinds, NoAbort, Abort, Partitions
  <2> QED
    BY <1>1, <1>2, <2>1, <2>2, <2>3 DEF Core, Kinds, Stack, Call, Error, Fresh, Fail, LD!Steps
<1>7. CASE MountPartitions /\ ~(Fail /\ jobs' = jobs)
  <2>1. upc = "mount" /\ upc' = "init" /\ err' = err /\ NoAbort
    BY <1>7 DEF MountPartitions, Core, Stack
  <2>2. PICK parts \in {InstallPartitions, ResetPartitions} : jobs' = Append(jobs, parts)
    BY <1>7 DEF MountPartitions
  <2>3. parts \in SUBSET Partitions /\ parts # Abort
    BY <2>2 DEF InstallPartitions, ResetPartitions, Partitions, Abort
  <2>4. jobs' \in Seq(SUBSET Partitions) /\ NoAbort'
    BY <1>5, <2>1, <2>2, <2>3
  <2> QED
    BY <1>1, <1>2, <2>1, <2>4 DEF Core, Kinds, Stack, Call, Error, Fresh
<1>8. CASE StartReturns /\ ~(Fail /\ jobs' = jobs)
  <2>1. upc = "starting" /\ pc = "open" /\ upc' = "deploy" /\ err' = err /\ jobs' = Append(jobs, Abort)
    BY <1>8 DEF StartReturns
  <2>2. snapshot.ID # 0
    BY <2>1 DEF Core, LDInv, HasID, TxPCs
  <2>3. jobs' \in Seq(SUBSET Partitions)
    BY <1>5, <2>1, SMTT(30) DEF Abort
  <2> QED
    BY <1>1, <1>2, <2>1, <2>2, <2>3 DEF Core, Kinds, Stack, Call, Error, Fresh
<1>9. CASE MountRecovery /\ ~(Fail /\ jobs' = jobs)
  <2>1. upc = "mountrecovery" /\ upc' = "stateyaml" /\ err' = err /\ jobs' = Append(jobs, {"recovery"})
    BY <1>9 DEF MountRecovery, MountRW
  <2>2. snapshot.ID # 0
    BY <2>1 DEF Core, Call, LDInv, HasID, TxPCs
  <2>3. jobs' \in Seq(SUBSET Partitions)
    BY <1>5, <2>1 DEF Partitions
  <2> QED
    BY <1>1, <1>2, <2>1, <2>2, <2>3 DEF Core, Kinds, Stack, Call, Error, Fresh
<1> QED
  BY <1>4, <1>6, <1>7, <1>8, <1>9

\* The steps that pop.
LEMMA PopsKeep ==
  ASSUME Core, RunUmountJob \/ RunAbortJob
  PROVE  Core'
<1>1. /\ jobs # <<>> /\ jobs' = RemoveAt(jobs, Top)
      /\ upc \in {"cleanup", "completed"} /\ upc' = upc /\ pc \notin LD!Steps /\ request' = request
  BY DEF RunUmountJob, RunAbortJob, InCleanup
<1>2. /\ jobs' \in Seq(SUBSET Partitions)
      /\ NoAbort => NoAbort'
      /\ jobs[Top] = Abort => ~NoAbort
  BY <1>1, PopJob DEF Core, Kinds
<1>3. CASE RunUmountJob
  <2>1. UNCHANGED ldVars /\ (err' = err \/ (err' # "nil" /\ err = "nil"))
    BY <1>3 DEF RunUmountJob
  <2>2. LDInv' /\ (First => First') /\ HasEnv' /\ UNCHANGED <<pc, snapshot>>
    BY <2>1, SnapshotterSame DEF Core, Kinds
  <2>3. Kinds' /\ Stack' /\ Error'
    BY <1>1, <1>2, <2>1, <2>2 DEF Core, Kinds, Stack, Error
  <2>4. Call'
    BY <1>1, <2>1, <2>2 DEF Core, Call
  <2>5. Fresh'
    BY <1>1, <2>1, <2>2 DEF Core, Fresh
  <2> QED
    BY <2>2, <2>3, <2>4, <2>5 DEF Core
<1>4. CASE RunAbortJob
  <2>1. UNCHANGED ldRest /\ err' = err /\ pc' = (IF err = "error" THEN "rmsnap" ELSE pc) /\ jobs[Top] = Abort
    BY <1>4 DEF RunAbortJob
  <2>2. snapshot.ID # 0 /\ snapshot' = snapshot /\ HasEnv'
    BY <1>2, <2>1 DEF Core, Kinds, Stack, ldRest, ldDisk, HasEnv
  <2>3. Kinds' /\ Stack' /\ Error'
    BY <1>1, <1>2, <2>1, <2>2 DEF Core, Kinds, Stack, Error
  <2>4. CASE err = "error"
    <3>1. LDInv'
      BY <1>1, <2>1, <2>2, <2>4, CallKeeps DEF Core
    <3>2. Call' /\ Fresh'
      BY <1>1, <2>1, <2>4 DEF Call, Fresh, AbortPCs
    <3> QED
      BY <2>3, <3>1, <3>2 DEF Core
  <2>5. CASE err # "error"
    <3>1. UNCHANGED ldVars
      BY <2>1, <2>5 DEF ldVars
    <3>2. LDInv' /\ (First => First')
      BY <3>1, SnapshotterSame DEF Core
    <3>3. Call' /\ Fresh'
      BY <1>1, <2>1, <2>5, <3>2 DEF Core, Call, Fresh
    <3> QED
      BY <2>3, <3>2, <3>3 DEF Core
  <2> QED
    BY <2>4, <2>5
<1> QED
  BY <1>3, <1>4

\* The steps that format.
LEMMA FormatsKeep ==
  ASSUME Core, PrepareDevice \/ FormatState
  PROVE  Core'
<1>1. /\ upc \in {"prepare", "formatstate"} /\ pc = "off"
      /\ UNCHANGED <<ldProcess, jobs, request>> /\ UNCHANGED <<pc, snapshot>> /\ NoAbort'
  BY DEF Core, Call, Stack, NoAbort, PrepareDevice, FormatState, ldProcess
<1>2. pc \notin LD!Steps /\ upc # "off"
  BY <1>1 DEF LD!Steps
<1>3. CASE UNCHANGED <<snaps, activeLink, legacy, bootEnv>> /\ (Fail \/ (upc' = "mount" /\ err' = err /\ request.noFormat))
  <2>1. LDInv' /\ HasEnv'
    BY <1>1, <1>3, SnapshotterSame DEF Core, Kinds, ldVars, ldRest, ldDisk, ldProcess
  <2>2. CASE Fail
    BY <1>1, <1>2, <2>1, <2>2, FailKeeps
  <2>3. CASE upc' = "mount" /\ err' = err /\ request.noFormat
    BY <1>1, <2>1, <2>3 DEF Core, Kinds, Stack, Call, Error, Fresh
  <2> QED
    BY <1>3, <2>2, <2>3
<1>4. CASE Wiped /\ (Fail \/ (upc' \in {"format", "formatextra"} /\ err' = err))
  <2>1. LDInv'
    BY <1>1, <1>4 DEF Core, LDInv, LD!Typed, HasID, Spared, Imaged, TxPCs, Wiped, ldProcess
  <2>2. New'
    BY <1>1, <1>4 DEF Core, LDInv, Wiped, New, ldProcess
  <2>3. HasEnv'
    BY DEF Core, Kinds, HasEnv, PrepareDevice, FormatState, ldDisk
  <2>4. CASE Fail
    BY <1>1, <1>2, <2>1, <2>3, <2>4, FailKeeps
  <2>5. CASE upc' \in {"format", "formatextra"} /\ err' = err
    BY <1>1, <2>1, <2>2, <2>3, <2>5 DEF Core, Kinds, Stack, Call, Error, Fresh
  <2> QED
    BY <1>4, <2>4, <2>5
<1> QED
  BY <1>3, <1>4 DEF PrepareDevice, FormatState, ldDisk

\* The end of the process, by itself or with the machine.
LEMMA EndsKeep ==
  ASSUME Core, Exit \/ Reboot
  PROVE  Core'
<1>1. LDInv' /\ pc' = "off" /\ HasEnv'
  <2>1. CASE Exit /\ LD!Exit
    <3>1. LD!ProcessGone /\ UNCHANGED <<snaps, activeLink, legacy, bootEnv, booted>>
      BY <2>1 DEF LD!Exit, LD!disk
    <3> QED
      BY <3>1, CallKeeps DEF Core, Kinds, HasEnv, LDInv, LD!Typed, LD!ProcessGone
  <2>2. CASE Exit /\ ~LD!Exit
    BY <2>2, SnapshotterSame DEF Core, Kinds, Exit
  <2>3. CASE Reboot
    <3>1. /\ LD!ProcessGone /\ UNCHANGED <<snaps, activeLink, legacy, bootEnv>>
          /\ booted' \in LD!BootChoices \cup {[mode |-> "live", id |-> 0]}
      BY <2>3 DEF Reboot, ldDisk
    <3>2. booted' \in [mode : {"live", "active", "passive", "recovery"}, id : LD!SnapIDs \cup {0}]
      BY <3>1, QueryTypes DEF Core, LDInv
    <3> QED
      BY <3>1, <3>2, CallKeeps DEF Core, Kinds, HasEnv, LD!ProcessGone
  <2> QED
    BY <2>1, <2>2, <2>3
<1>2. upc' = "off" /\ jobs' = <<>> /\ err' = "nil" /\ request' = [action |-> "none"]
  BY DEF Exit, Reboot, ProcessEnds
<1>3. jobs' \in Seq(SUBSET Partitions) /\ NoAbort'
  BY <1>2, EmptySeq DEF NoAbort
<1> QED
  BY <1>1, <1>2, <1>3 DEF Core, Kinds, Stack, Call, Error, Fresh

\* Every step keeps it.
LEMMA CoreNext == Core /\ [Next]_allVars => Core'
<1> SUFFICES ASSUME Core, [Next]_allVars PROVE Core'
  OBVIOUS
<1>1. CASE UNCHANGED allVars
  <2>1. UNCHANGED <<ldVars, upc, jobs, err, request>>
    BY <1>1 DEF allVars, vars
  <2>2. LDInv' /\ (New => New') /\ (First => First') /\ HasEnv' /\ UNCHANGED <<pc, snapshot>> /\ (NoAbort => NoAbort')
    BY <2>1, SnapshotterSame DEF Core, Kinds, NoAbort
  <2>3. Kinds' /\ Stack' /\ Error'
    BY <2>1, <2>2 DEF Core, Kinds, Stack, Error
  <2>4. Call' /\ Fresh'
    BY <2>1, <2>2 DEF Core, Call, Fresh
  <2> QED
    BY <2>2, <2>3, <2>4 DEF Core
<1>2. CASE \/ InitReturns \/ BeforeHook \/ DeploySystem \/ RefineDeployment \/ CloseInstallReturns
           \/ RecoverySource \/ DeployRecoveryStarts \/ DeployRecoveryEnds \/ PostInstallHook
           \/ FormatDevice \/ UnmountPartitions \/ FormatExtra \/ WriteStateYaml \/ WriteRecoveryYaml
           \/ CleanupReturns \/ PowerAction \/ NewResetAction
           \/ \E noFormat, force \in BOOLEAN : NewInstallAction(noFormat, force)
  <2>1. UNCHANGED <<ldVars, jobs>>
    BY <1>2 DEF InitReturns, BeforeHook, DeploySystem, RefineDeployment, CloseInstallReturns, CloseReturns,
                RecoverySource, DeployRecoveryStarts, DeployRecoveryEnds, PostInstallHook, PostHook, FormatDevice,
                UnmountPartitions, FormatExtra, WriteStateYaml, WriteStateFile, WriteRecoveryYaml, Attempt,
                CleanupReturns, PowerAction, NewResetAction, NewInstallAction
  <2> QED
    BY <1>2, <2>1, QuietKeeps
<1> QED
  BY <1>1, <1>2, CallsKeep, PushesKeep, PopsKeep, FormatsKeep, EndsKeep DEF Next, RunStep, SharedStep

-----------------------------------------------------------------------------
(* What a run leaves behind.                                               *)

\* The steps before the state files are written, and those that fail.
LEMMA ResultsEarly ==
  ASSUME upc' \in {"off", "starting", "closing", "cleanup", "recoverysrc", "recoverydeploy", "recoveryends"}
                  \cup Formatting \cup Mounting \cup Preparing \cup Deploying,
         upc' = "cleanup" => err' # "nil"
  PROVE  Results'
BY DEF Results

\* Steps that leave the files, the snapshot and the recovery system alone.
LEMMA ResultsSame ==
  ASSUME Results, UNCHANGED <<stateYaml, recoveryYaml, State, recovery, snapshot, request>>,
         err' = "nil" => err = "nil",
         \/ upc' = upc
         \/ upc = "completed" /\ upc' \in {"power", "done"}
         \/ upc = "power" /\ upc' = "done"
  PROVE  Results'
BY DEF Results, Written

\* Every step keeps the results.
LEMMA ResultsNext == Inv /\ [Next]_allVars => Results'
<1> SUFFICES ASSUME Inv, [Next]_allVars PROVE Results'
  OBVIOUS
<1>0. err \in {"nil"} \/ upc \in Ending
  BY DEF Inv, Core, Error
<1>1. CASE UNCHANGED allVars
  <2>1. UNCHANGED <<stateYaml, recoveryYaml, State, recovery, snapshot, request, upc, err>>
    BY <1>1 DEF allVars, vars, yamls, ldVars, ldRest
  <2> QED
    BY <2>1, ResultsSame DEF Inv
<1>2. CASE Snapshotter
  <2>1. pc \in LD!Steps
    BY <1>2, StepFrame DEF Inv, Core, LDInv, Snapshotter
  <2>2. upc' = upc /\ err' = err /\ request' = request
    BY <1>2 DEF Snapshotter, vars
  <2>3. upc \in {"initing", "starting", "closing"} \/ err # "nil"
    BY <2>1 DEF Inv, Core, Call, Kinds, LD!Steps
  <2>4. CASE upc \in {"initing", "starting", "closing"}
    BY <2>2, <2>4 DEF Results
  <2>5. CASE err # "nil"
    BY <2>2, <2>5 DEF Inv, Results
  <2> QED
    BY <2>3, <2>4, <2>5
<1>3. CASE \/ CallInitSnapshotter \/ CallStartTransaction \/ CallCloseTransaction
           \/ SourceFormISO \/ MountPartitions \/ StartReturns \/ PrepareDevice \/ FormatState
  <2>1. \/ upc' \in {"initing", "starting", "closing", "prepare", "init", "deploy", "format", "mount", "formatextra"}
        \/ upc' = "cleanup" /\ err' = "error"
    BY <1>3 DEF CallInitSnapshotter, CallStartTransaction, CallCloseTransaction, SourceFormISO, MountPartitions,
                StartReturns, PrepareDevice, FormatState, Fail
  <2> QED
    BY <2>1, ResultsEarly
<1>4. CASE \/ InitReturns \/ BeforeHook \/ DeploySystem \/ RefineDeployment \/ RecoverySource
           \/ DeployRecoveryStarts \/ FormatDevice \/ UnmountPartitions \/ FormatExtra
  <2>1. \/ upc' \in {"beforehook", "start", "refine", "close", "recoverydeploy", "recoveryends", "mount", "formatstate"}
        \/ upc' = "cleanup" /\ err' = "error"
    BY <1>4 DEF InitReturns, BeforeHook, DeploySystem, RefineDeployment, RecoverySource, DeployRecoveryStarts,
                FormatDevice, UnmountPartitions, FormatExtra, Attempt, Fail
  <2> QED
    BY <2>1, ResultsEarly
<1>5. CASE CloseInstallReturns
  <2>1. \/ upc' = "recoverysrc"
        \/ upc' = "cleanup" /\ err' = "error"
        \/ upc' = "posthook" /\ request'.action = "reset"
    BY <1>5 DEF CloseInstallReturns, CloseReturns, Fail
  <2> QED
    BY <2>1 DEF Results
<1>6. CASE DeployRecoveryEnds
  <2>1. \/ upc' = "cleanup" /\ err' = "error"
        \/ upc' = "posthook" /\ recovery' = "whole"
    BY <1>6 DEF DeployRecoveryEnds, Attempt, Fail
  <2> QED
    BY <2>1 DEF Results
<1>7. CASE PostInstallHook \/ MountRecovery
  <2>1. /\ upc \in {"posthook", "mountrecovery"} /\ UNCHANGED <<request, recovery>>
        /\ \/ upc' = "cleanup" /\ err' = "error"
           \/ upc' = "mountrecovery" /\ request.action = "reset"
           \/ upc' = "stateyaml" /\ (upc = "mountrecovery" \/ request.action # "reset") /\ err' = err
    BY <1>7 DEF PostInstallHook, PostHook, MountRecovery, MountRW, Attempt, Fail
  <2> QED
    BY <2>1 DEF Inv, Results
<1>8. CASE WriteStateYaml
  <2>1. upc = "stateyaml" /\ UNCHANGED <<request, recovery, snapshot>>
    BY <1>8 DEF WriteStateYaml, WriteStateFile, ldVars, ldRest
  <2>2. \/ upc' = "cleanup" /\ err' = "error"
        \/ State' = NewInstallState /\ stateYaml' = State' /\ upc' = "recoveryyaml" /\ err' = err
    BY <1>8 DEF WriteStateYaml, WriteStateFile, Fail
  <2>3. State' = NewInstallState => State'.known = {snapshot.ID} /\ State'.actives = {snapshot.ID}
    BY DEF NewInstallState, InstallState
  <2> QED
    BY <2>1, <2>2, <2>3 DEF Inv, Results, Written
<1>9. CASE WriteRecoveryYaml /\ UNCHANGED <<recovery, formatted>>
  <2>1. upc = "recoveryyaml" /\ UNCHANGED <<request, recovery, snapshot, State, stateYaml>>
    BY <1>9 DEF WriteRecoveryYaml, ldVars, ldRest
  <2>2. \/ upc' = "cleanup" /\ err' = "error"
        \/ recoveryYaml' = State /\ upc' = "completed" /\ err' = err
    BY <1>9 DEF WriteRecoveryYaml, Fail
  <2> QED
    BY <2>1, <2>2 DEF Inv, Results, Written
<1>10. CASE (RunUmountJob \/ RunAbortJob) /\ UNCHANGED <<recovery, formatted>>
  <2>1. upc' = upc /\ (err' = "nil" => err = "nil") /\ UNCHANGED <<stateYaml, recoveryYaml, State, recovery, snapshot, request>>
    BY <1>10 DEF RunUmountJob, RunAbortJob, ldVars, ldRest, yamls
  <2> QED
    BY <2>1, ResultsSame DEF Inv
<1>11. CASE CleanupReturns /\ UNCHANGED <<recovery, formatted>>
  <2>1. /\ UNCHANGED <<stateYaml, recoveryYaml, State, recovery, snapshot, request, err>>
        /\ upc \in {"cleanup", "completed"} /\ upc' = IF upc = "completed" /\ err = "nil" THEN "power" ELSE "done"
    BY <1>11 DEF CleanupReturns, InCleanup, ldVars, ldRest, yamls
  <2>2. upc = "cleanup" => err # "nil"
    BY DEF Inv, Core, Error
  <2>3. CASE upc = "completed"
    BY <2>1, <2>3, ResultsSame DEF Inv
  <2>4. CASE upc = "cleanup"
    BY <2>1, <2>2, <2>4 DEF Results
  <2> QED
    BY <2>1, <2>3, <2>4
<1>12. CASE PowerAction /\ UNCHANGED <<recovery, formatted>>
  <2>1. /\ upc = "power" /\ upc' = "done" /\ err = "nil"
        /\ UNCHANGED <<stateYaml, recoveryYaml, State, recovery, snapshot, request>>
    BY <1>0, <1>12 DEF PowerAction, ldVars, ldRest, yamls
  <2> QED
    BY <2>1, ResultsSame DEF Inv
<1>13. CASE Exit \/ Reboot
  BY <1>13, ResultsEarly DEF Exit, Reboot, ProcessEnds
<1>14. CASE NewResetAction \/ \E noFormat, force \in BOOLEAN : NewInstallAction(noFormat, force)
  BY <1>14, ResultsEarly DEF NewResetAction, NewInstallAction
<1> QED
  BY <1>1, <1>2, <1>3, <1>4, <1>5, <1>6, <1>7, <1>8, <1>9, <1>10, <1>11, <1>12, <1>13, <1>14
     DEF Next, RunStep, SharedStep

-----------------------------------------------------------------------------
(* The theorems.                                                           *)

\* The invariant holds in the first states.
LEMMA InvInit == Init => Inv
<1> SUFFICES ASSUME Init PROVE Inv
  OBVIOUS
<1>1. LDInv /\ pc = "off" /\ HasEnv
  BY LDInvInit DEF Init, Idle, LD!Init, HasEnv
<1>2. upc = "off" /\ jobs = <<>> /\ err = "nil" /\ request = [action |-> "none"]
  BY DEF Init, Idle
<1>3. jobs \in Seq(SUBSET Partitions) /\ NoAbort
  BY <1>2, EmptySeq DEF NoAbort
<1> QED
  BY <1>1, <1>2, <1>3 DEF Inv, Core, Kinds, Stack, Call, Error, Fresh, Results

\* It is an invariant of install and reset.
LEMMA InvHolds == Spec => []Inv
<1>1. Inv /\ [Next]_allVars => Inv'
  BY CoreNext, ResultsNext DEF Inv
<1> QED
  BY <1>1, InvInit, PTL DEF Spec

\* Whatever earlier runs have left on the disk, an install or reset that
\* succeeds leaves a complete snapshot, the only one recorded, and with
\* formatting the only one there is.
THEOREM SuccessfulRunIsFresh == Spec => []SuccessIsFresh
<1>1. Inv => SuccessIsFresh
  <2> SUFFICES ASSUME Inv, upc = "done", err = "nil" PROVE SuccessIsFresh
    BY DEF SuccessIsFresh, Succeeded
  <2>1. pc = "closed" /\ request \in [action : {"install", "reset"}, noFormat : BOOLEAN, force : BOOLEAN]
    BY DEF Inv, Core, Call, Kinds
  <2>2. LD!Complete(snapshot.ID)
    BY <2>1 DEF Inv, Core, LDInv, Imaged
  <2>3. Written /\ recoveryYaml = stateYaml /\ (request.action = "install" => recovery = "whole")
    BY DEF Inv, Results
  <2>4. ASSUME ~request.noFormat
        PROVE  LD!GetSnapshots = {1} /\ activeLink = 1 /\ ("env" \notin logged => bootEnv.passives = <<>>)
    <3>1. First
      BY <2>4 DEF Inv, Core, Fresh
    <3>2. snapshot.ID = 1 /\ activeLink = 1 /\ ("env" \notin logged => bootEnv.passives = <<>>)
      BY <2>1, <3>1 DEF First, Linked
    <3>3. 1 \in LD!SnapIDs /\ snaps[1] # {} /\ \A i \in LD!SnapIDs \ {1} : snaps[i] = {}
      BY <2>2, <3>1, <3>2, ActionAssumption DEF First, LD!Complete, LD!SnapIDs
    <3> QED
      BY <3>2, <3>3 DEF LD!GetSnapshots
  <2> QED
    BY <2>2, <2>3, <2>4 DEF SuccessIsFresh, Written
<1> QED
  BY <1>1, InvHolds, PTL

-----------------------------------------------------------------------------
(* The snapshot the system runs from.                                      *)

\* No legacy deployment, found by the snapshotter or not.
NoLegacy == legacy = {} /\ ~legacyClean /\ pc \notin {"migrate", "link", "rmall"}

\* The snapshotter does not make one.
LEMMA NoLegacyStep == ASSUME NoLegacy, LD!SnapshotterStep PROVE NoLegacy'
<1>1. CASE LD!InitSnapshotter \/ LD!CleanLegacyImages \/ LD!RemoveSnapshotDir
  <2>1. CASE LD!InitSnapshotter
    BY <2>1 DEF LD!InitSnapshotter, NoLegacy, LD!disk
  <2>2. CASE LD!CleanLegacyImages
    BY <2>2 DEF LD!CleanLegacyImages, NoLegacy
  <2>3. CASE LD!RemoveSnapshotDir
    BY <2>3 DEF LD!RemoveSnapshotDir, NoLegacy, LD!object
  <2> QED
    BY <1>1, <2>1, <2>2, <2>3
<1>2. ~ (LD!LegacyImageToSnapshot \/ LD!LinkLegacyImage \/ LD!RemoveSnapshotsPath)
  BY DEF LD!LegacyImageToSnapshot, LD!LinkLegacyImage, LD!RemoveSnapshotsPath, NoLegacy
<1>3. CASE \/ LD!MkSnapDir \/ LD!MkWorkDir \/ LD!BindMount \/ LD!StartFails
           \/ LD!CreateImage \/ LD!SyncImage \/ LD!RemoveWorkDir \/ LD!RemoveActiveLink
           \/ LD!SymlinkActive \/ LD!SymlinkRestore
           \/ LD!CleanOldSnapshots \/ LD!DeleteSnapshot \/ LD!RemoveOldSnapshot \/ LD!CleanDone
           \/ LD!SetPassives \/ LD!SetFallback \/ LD!SetBootloaderFails \/ LD!CloseFails
  <2>1. UNCHANGED <<legacy, legacyClean>> /\ pc' \notin {"migrate", "link", "rmall"}
    BY <1>3 DEF NoLegacy, LD!MkSnapDir, LD!MkWorkDir, LD!BindMount, LD!StartFails, LD!CreateImage, LD!SyncImage,
       LD!RemoveWorkDir, LD!RemoveActiveLink, LD!SymlinkActive, LD!SymlinkRestore, LD!CleanOldSnapshots,
       LD!DeleteSnapshot, LD!RemoveOldSnapshot, LD!CleanDone, LD!SetPassives, LD!SetFallback,
       LD!SetBootloaderFails, LD!CloseFails, LD!disk, LD!object
  <2> QED
    BY <2>1 DEF NoLegacy
<1> QED
  BY <1>1, <1>2, <1>3 DEF LD!SnapshotterStep

\* Nor do the calls and the steps around them.
LEMMA NoLegacyCall ==
  ASSUME NoLegacy
  PROVE  /\ LD!NewLoopDeviceSnapshotter => NoLegacy'
         /\ LD!StartTransaction => NoLegacy'
         /\ LD!CloseTransaction \/ LD!CloseTransactionOnError => NoLegacy'
         /\ LD!Exit => NoLegacy'
         /\ (pc' = "rmsnap" /\ UNCHANGED ldRest) => NoLegacy'
         /\ UNCHANGED ldVars => NoLegacy'
<1>1. LD!NewLoopDeviceSnapshotter \/ LD!StartTransaction => NoLegacy'
  BY DEF LD!NewLoopDeviceSnapshotter, LD!StartTransaction, LD!disk, LD!object, NoLegacy
<1>2. LD!CloseTransaction \/ LD!CloseTransactionOnError => NoLegacy'
  BY DEF LD!CloseTransaction, LD!CloseTransactionOnError, LD!disk, LD!object, NoLegacy
<1>3. LD!Exit => NoLegacy'
  BY DEF LD!Exit, LD!ProcessGone, LD!disk, NoLegacy
<1>4. (pc' = "rmsnap" /\ UNCHANGED ldRest) \/ UNCHANGED ldVars => NoLegacy'
  BY DEF ldVars, ldRest, ldDisk, NoLegacy
<1> QED
  BY <1>1, <1>2, <1>3, <1>4

\* As long as nothing was formatted since the boot, the snapshot the system runs
\* from is complete, and not the one of the transaction.
Kept == NoLegacy /\ (~formatted => Apart)

\* On a disk without a legacy deployment, no step of any sequence of installs and
\* resets writes to the snapshot the system runs from, but for the formatting of
\* its partition and what comes after it.
THEOREM RunningSystemIsKept == ~LegacyDisk => (Spec => RunningKept)
<1>1. ~LegacyDisk /\ Init => Kept
  <2> SUFFICES ASSUME ~LegacyDisk, Init PROVE Kept
    OBVIOUS
  <2>1. \A b \in LD!BootChoices : b.id # 0 => LD!Complete(b.id)
    BY DEF LD!BootChoices
  <2>2. booted.id # 0 => LD!Complete(booted.id)
    BY <2>1 DEF Init, Idle, LD!Init
  <2> QED
    BY <2>2 DEF Init, Idle, LD!Init, LD!NoSnapshot, Apart, Kept, NoLegacy
<1>2. Inv /\ Kept /\ [Next]_allVars =>
        /\ Kept'
        /\ [(booted' = booted /\ booted.id # 0 /\ ~formatted')
              => snaps'[booted.id] = snaps[booted.id]]_allVars
  <2> SUFFICES ASSUME Inv, Kept, [Next]_allVars
               PROVE  Kept' /\ (booted' = booted /\ ~formatted' => BootedSame)
    BY DEF BootedSame
  <2>0. LDInv /\ NoLegacy /\ (~formatted => Apart)
    BY DEF Inv, Core, Kept
  <2>1. CASE UNCHANGED ldVars /\ formatted' = formatted
    BY <2>0, <2>1, ApartCall, NoLegacyCall DEF Kept
  <2>2. CASE Snapshotter /\ UNCHANGED <<recovery, formatted>>
    <3>1. CASE formatted
      BY <2>0, <2>2, <3>1, NoLegacyStep DEF Snapshotter, Kept
    <3>2. CASE ~formatted
      BY <2>0, <2>2, <3>2, NoLegacyStep, ApartStep DEF Snapshotter, Kept
    <3> QED
      BY <3>1, <3>2
  <2>3. CASE (CallInitSnapshotter \/ CallStartTransaction \/ CallCloseTransaction) /\ UNCHANGED <<recovery, formatted>>
    BY <2>0, <2>3, ApartCall, NoLegacyCall DEF CallInitSnapshotter, CallStartTransaction, CallCloseTransaction, Kept
  <2>4. CASE RunAbortJob /\ UNCHANGED <<recovery, formatted>>
    <3>1. UNCHANGED ldRest /\ pc' \in {pc, "rmsnap"} /\ formatted' = formatted
      BY <2>4 DEF RunAbortJob
    <3> QED
      BY <2>0, <3>1, ApartCall, NoLegacyCall DEF ldVars, Kept
  <2>5. CASE Exit /\ UNCHANGED <<recovery, formatted>>
    BY <2>0, <2>5, ApartCall, NoLegacyCall DEF Exit, Kept
  <2>6. CASE Reboot
    <3>1. \A b \in LD!BootChoices : b.id # 0 => LD!Complete(b.id)
      BY DEF LD!BootChoices
    <3>2. /\ booted' \in LD!BootChoices \cup {[mode |-> "live", id |-> 0]}
          /\ LD!ProcessGone /\ UNCHANGED <<snaps, legacy>>
      BY <2>6 DEF Reboot, ldDisk
    <3>3. booted'.id # 0 => LD!Complete(booted'.id)
      BY <3>1, <3>2
    <3>4. NoLegacy' /\ Apart'
      BY <2>0, <3>2, <3>3 DEF LD!ProcessGone, LD!NoSnapshot, NoLegacy, Apart, LD!Complete
    <3> QED
      BY <3>2, <3>4 DEF Kept, BootedSame
  <2>7. CASE PrepareDevice \/ FormatState
    <3>1. UNCHANGED <<booted, pc, snapshot, legacyClean, doomed>>
      BY <2>7 DEF PrepareDevice, FormatState, ldProcess
    <3>2. CASE Wiped
      BY <2>0, <3>1, <3>2 DEF Wiped, NoLegacy, Kept
    <3>3. CASE UNCHANGED <<snaps, legacy, formatted>>
      BY <2>0, <3>1, <3>3 DEF NoLegacy, Kept, Apart, BootedSame, LD!Complete
    <3> QED
      BY <2>7, <3>2, <3>3 DEF PrepareDevice, FormatState, ldDisk
  <2>8. CASE \/ UNCHANGED allVars
             \/ InitReturns /\ UNCHANGED <<recovery, formatted>>
             \/ BeforeHook /\ UNCHANGED <<recovery, formatted>>
             \/ DeploySystem /\ UNCHANGED <<recovery, formatted>>
             \/ RefineDeployment /\ UNCHANGED <<recovery, formatted>>
             \/ WriteRecoveryYaml /\ UNCHANGED <<recovery, formatted>>
             \/ CleanupReturns /\ UNCHANGED <<recovery, formatted>>
             \/ PowerAction /\ UNCHANGED <<recovery, formatted>>
             \/ StartReturns /\ UNCHANGED <<recovery, formatted>>
             \/ RunUmountJob /\ UNCHANGED <<recovery, formatted>>
    <3>1. UNCHANGED ldVars /\ formatted' = formatted
      BY <2>8 DEF allVars, vars, InitReturns, BeforeHook, DeploySystem, RefineDeployment, Attempt,
            WriteRecoveryYaml, CleanupReturns, PowerAction, StartReturns, RunUmountJob
    <3> QED
      BY <2>1, <3>1
  <2>9. CASE \/ CloseInstallReturns \/ RecoverySource \/ DeployRecoveryStarts \/ DeployRecoveryEnds
             \/ PostInstallHook \/ FormatDevice \/ UnmountPartitions \/ FormatExtra \/ WriteStateYaml
             \/ SourceFormISO \/ MountPartitions \/ MountRecovery \/ NewResetAction
             \/ \E noFormat, force \in BOOLEAN : NewInstallAction(noFormat, force)
    <3>1. UNCHANGED ldVars /\ formatted' = formatted
      BY <2>9 DEF CloseInstallReturns, CloseReturns, RecoverySource, DeployRecoveryStarts, DeployRecoveryEnds,
            PostInstallHook, PostHook, FormatDevice, UnmountPartitions, FormatExtra, WriteStateYaml, WriteStateFile,
            Attempt, SourceFormISO, MountPartitions, MountRecovery, MountRW, NewResetAction, NewInstallAction
    <3> QED
      BY <2>1, <3>1
  <2> QED
    BY <2>2, <2>3, <2>4, <2>5, <2>6, <2>7, <2>8, <2>9 DEF Next, RunStep, SharedStep
<1>3. Spec => Init /\ []Inv /\ [][Next]_allVars
  BY InvHolds, PTL DEF Spec
<1> QED
  BY <1>1, <1>2, <1>3, PTL DEF RunningKept
=============================================================================

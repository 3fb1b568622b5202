------------------------------ MODULE Install ------------------------------
(***************************************************************************)
(* `elemental install` (pkg/action/install.go) and `elemental reset`       *)
(* (pkg/action/reset.go): the steps of their own, over any sequence of     *)
(* runs on one disk.                                                       *)
(*                                                                         *)
(* Install wipes the disk, whatever the machine runs from, or with         *)
(* no-format deploys next to what is there; it also deploys the recovery   *)
(* system.  Reset runs from the recovery system and formats the state      *)
(* partition only.  Both replace state.yaml.                               *)
(***************************************************************************)
EXTENDS Action

VARIABLES
  recovery,    \* the recovery system in /boot: "none", "part" or "whole"
  formatted    \* history: has the state partition been formatted since the boot?

allVars == <<vars, recovery, formatted>>

\* PartitionsByMountPoint, without recovery for reset, which runs from it.
InstallPartitions == {"boot", "recovery", "state"}   \* OEM and persistent go with boot
ResetPartitions   == InstallPartitions \ {"recovery"}

\* A disk without a system, and a live medium.
Init ==
  /\ Idle
  /\ stateYaml = NoState
  /\ recoveryYaml = NoState
  /\ recovery = "none"
  /\ formatted = FALSE

\* CheckActiveDeployment
CheckActiveDeployment == booted.mode \in {"active", "passive", "recovery"}

\* NewInstallSpec and NewInstallAction, from a live medium or a system that is
\* installed.  (One that formats starts at ID 1; MaxID bounds the others.)
NewInstallAction(noFormat, force) ==
  /\ upc = "off"
  /\ noFormat => LD!NextID(LD!GetSnapshots) <= MaxID
  /\ request' = [action |-> "install", noFormat |-> noFormat, force |-> force]
  /\ upc' = "source"
  /\ UNCHANGED <<ldVars, jobs, held, err, State, yamls, recovery, formatted>>

\* SourceFormISO: with an ISO as source it is fetched and mounted; the clean up
\* of what was done is pushed before the error is looked at.
SourceFormISO ==
  /\ upc = "source"
  /\ \/ upc' = "prepare" /\ UNCHANGED <<jobs, held, err>>
     \/ /\ held' \in {held, held \cup {"iso"}}
        /\ jobs' = Append(jobs, {"iso"})
        /\ \/ upc' = "prepare" /\ held' # held /\ UNCHANGED err
           \/ Fail
  /\ UNCHANGED <<ldVars, request, State, yamls, recovery, formatted>>

\* NewResetSpec and NewResetAction: only from the recovery system, whose copy of
\* state.yaml is at hand.
NewResetAction ==
  /\ upc = "off"
  /\ IsRecoveryMode
  /\ State' \in LoadInstallState(recoveryYaml)
  /\ request' = [action |-> "reset", noFormat |-> FALSE, force |-> FALSE]
  /\ upc' = "unmount"
  /\ UNCHANGED <<ldVars, jobs, held, err, yamls, recovery, formatted>>

-----------------------------------------------------------------------------
(* Formatting                                                              *)

\* Faulty: mkfs finds a file system and leaves it alone.
Wiped_noop == UNCHANGED <<snaps, activeLink, legacy, stateYaml>> /\ formatted' = TRUE

\* An empty state partition.  A system that runs from it stays booted, and
\* losetup goes on to list the image it was mounted from.
Wiped ==
  /\ snaps' = [i \in LD!SnapIDs |-> {}]
  /\ activeLink' = LD!NoLink
  /\ legacy' = {}
  /\ stateYaml' = NoState
  /\ formatted' = TRUE

ldProcess == <<booted, pc, snapshot, currentSnapshotID, activeSnapshotID, legacyClean, doomed, logged>>

\* prepareDevice: no-format refuses to install over the running deployment.
\* With formatting nothing is asked, and force makes no difference.
PrepareDevice ==
  /\ upc = "prepare"
  /\ IF request.noFormat
     THEN /\ IF CheckActiveDeployment /\ ~request.force
             THEN Fail
             ELSE upc' = "mount" /\ UNCHANGED err
          /\ UNCHANGED <<ldDisk, yamls, recovery, formatted>>
     ELSE \/ Fail /\ UNCHANGED <<ldDisk, yamls, recovery, formatted>>
          \/ /\ Wiped
             /\ bootEnv' = [passives |-> <<>>, fallback |-> 1]
             /\ recoveryYaml' = NoState
             /\ recovery' = "none"
             /\ upc' = "format"
             /\ UNCHANGED err
  /\ UNCHANGED <<ldProcess, jobs, held, request, State>>

\* PartitionAndFormatDevice after the new partition table.
FormatDevice == Attempt("format", "mount") /\ UNCHANGED <<recovery, formatted>>

\* Reset first unmounts what the host has mounted.
UnmountPartitions == Attempt("unmount", "formatstate") /\ UNCHANGED <<recovery, formatted>>

\* FormatPartition of the state partition; the GRUB environment is elsewhere.
FormatState ==
  /\ upc = "formatstate"
  /\ \/ Wiped /\ upc' = "formatextra" /\ UNCHANGED err
     \/ Wiped /\ Fail
     \/ Fail /\ UNCHANGED <<snaps, activeLink, legacy, stateYaml, formatted>>
  /\ UNCHANGED <<bootEnv, ldProcess, jobs, held, request, State, recoveryYaml, recovery>>

\* The persistent and OEM partitions, if asked to.
FormatExtra == Attempt("formatextra", "mount") /\ UNCHANGED <<recovery, formatted>>

\* MountPartitions: all of them, or none, unless they cannot be unmounted again.
MountPartitions ==
  /\ upc = "mount"
  /\ LET parts == IF request.action = "reset" THEN ResetPartitions ELSE InstallPartitions
     IN \/ /\ held' = held \cup parts
           /\ jobs' = Append(jobs, parts)
           /\ upc' = "init"
           /\ UNCHANGED err
        \/ /\ Fail
           /\ \E left \in {{}, parts} : held' = held \cup left
           /\ UNCHANGED jobs
  /\ UNCHANGED <<ldVars, request, State, yamls, recovery, formatted>>

-----------------------------------------------------------------------------
CloseInstallReturns ==
  /\ CloseReturns(IF request.action = "reset" THEN "posthook" ELSE "recoverysrc")
  /\ UNCHANGED <<recovery, formatted>>

\* The directory and the source of the recovery system.
RecoverySource == Attempt("recoverysrc", "recoverydeploy") /\ UNCHANGED <<recovery, formatted>>

\* DeployRecoverySystem writes to /boot itself.
DeployRecoveryStarts ==
  /\ upc = "recoverydeploy"
  /\ recovery' = "part"
  /\ upc' = "recoveryends"
  /\ UNCHANGED <<ldVars, jobs, held, err, request, State, yamls, formatted>>

DeployRecoveryEnds ==
  /\ Attempt("recoveryends", "posthook")
  /\ recovery' = IF upc' = "posthook" THEN "whole" ELSE recovery
  /\ UNCHANGED formatted

PostInstallHook ==
  /\ PostHook(IF request.action = "reset" THEN "mountrecovery" ELSE "stateyaml")
  /\ UNCHANGED <<recovery, formatted>>

\* updateInstallState of reset makes the recovery partition writable.
MountRecovery == MountRW("mountrecovery", "recovery", "stateyaml") /\ UNCHANGED <<recovery, formatted>>

\* createInstallStateYaml and updateInstallState: one snapshot, the new one.
\* Reset keeps the recovery entry of the state it loaded, if there is one.
NewInstallState ==
  InstallState({snapshot.ID}, {snapshot.ID},
               IF request.action = "reset" THEN Recorded(State) /\ State.recovery ELSE TRUE)

WriteStateYaml ==
  /\ upc = "stateyaml"
  /\ WriteStateFile({NewInstallState})
  /\ UNCHANGED <<recovery, formatted>>

-----------------------------------------------------------------------------
\* The machine stops, and comes up again from the disk or a live medium.
Reboot ==
  /\ booted' \in {b \in LD!BootChoices : b.mode = "recovery" => recovery = "whole"}
                 \cup {[mode |-> "live", id |-> 0]}
  /\ formatted' = FALSE
  /\ LD!ProcessGone
  /\ ProcessEnds
  /\ UNCHANGED <<ldDisk, yamls, recovery>>

RunStep ==
  \/ SharedStep /\ UNCHANGED <<recovery, formatted>>
  \/ SourceFormISO \/ PrepareDevice \/ FormatDevice \/ UnmountPartitions \/ FormatState \/ FormatExtra
  \/ MountPartitions \/ CloseInstallReturns
  \/ RecoverySource \/ DeployRecoveryStarts \/ DeployRecoveryEnds
  \/ PostInstallHook \/ MountRecovery \/ WriteStateYaml

Next ==
  \/ RunStep
  \/ Exit /\ UNCHANGED <<recovery, formatted>>
  \/ Reboot
  \/ \E noFormat, force \in BOOLEAN : NewInstallAction(noFormat, force)
  \/ NewResetAction

Spec == Init /\ [][Next]_allVars

-----------------------------------------------------------------------------
(* Properties                                                              *)

\* A successful reset, or install with formatting, leaves one snapshot, which is
\* complete, active and the only one in two equal state files, and a boot menu
\* without passive entries, whatever earlier interrupted or failed runs have
\* left on the disk.  Without formatting the new snapshot is complete and the
\* only one recorded.  Every install leaves a complete recovery system.
SuccessIsFresh ==
  Succeeded =>
    /\ LD!Complete(snapshot.ID)
    /\ request.action = "install" => recovery = "whole"
    /\ stateYaml = recoveryYaml
    /\ stateYaml.known = {snapshot.ID} /\ stateYaml.actives = {snapshot.ID}
    /\ ~request.noFormat =>
         /\ LD!GetSnapshots = {1}
         /\ activeLink = 1
         /\ "env" \notin logged => bootEnv.passives = <<>>

\* Only formatting takes the running system away: an install over it, forced
\* or not, and whichever step fails, be it after the transaction was closed and
\* the abort job runs all the same, never touches the snapshot it runs from.
RunningKept ==
  [][(booted' = booted /\ booted.id # 0 /\ ~formatted')
       => snaps'[booted.id] = snaps[booted.id]]_allVars
=============================================================================

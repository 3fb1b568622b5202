------------------------------ MODULE Upgrade ------------------------------
(***************************************************************************)
(* `elemental upgrade` (pkg/action/upgrade.go): the steps of its own.      *)
(*                                                                         *)
(* Partitions are made writable one by one, the recovery system is         *)
(* upgraded on request (a nested run of UpgradeRecovery, of which only the *)
(* outcome matters here), and state.yaml is updated rather than replaced.  *)
(***************************************************************************)
EXTENDS Action

CONSTANT RecoveryUpgrades   \* is --recovery given?  The cases considered

ASSUME RequestsAssumption == RecoveryUpgrades \subseteq BOOLEAN

Init ==
  /\ Idle
  /\ stateYaml = InstallState({FirstID} \ {0}, {FirstID} \ {0}, TRUE)
  /\ recoveryYaml = stateYaml

\* NewUpgradeSpec and NewUpgradeAction.  The recovery system is not upgraded
\* from itself.  In recovery mode the state.yaml at hand is the recovery copy.
NewUpgradeAction(recovery) ==
  /\ upc = "off"
  /\ LD!NextID(LD!GetSnapshots) <= MaxID
  /\ ~(recovery /\ IsRecoveryMode)
  /\ State' \in LoadInstallState(IF IsRecoveryMode THEN recoveryYaml ELSE stateYaml)
  /\ request' = [action |-> "upgrade", recovery |-> recovery]
  /\ upc' = "mountboot"
  /\ UNCHANGED <<ldVars, jobs, held, err, yamls>>

-----------------------------------------------------------------------------
(* mountRWPartitions                                                       *)

MountBoot == MountRW("mountboot", "boot", "mountdata")

MountData == MountRW("mountdata", IF IsRecoveryMode THEN "state" ELSE "recovery", "mountpersistent")

MountPersistent == MountRW("mountpersistent", "persistent", "init")

-----------------------------------------------------------------------------
CloseUpgradeReturns == CloseReturns(IF request.recovery THEN "recovery" ELSE "posthook")

\* The nested run ends with PowerAction too: with --reboot the machine may go
\* down (Reboot) before this run has gone on to its state.yaml.
UpgradeRecovery == Attempt("recovery", "posthook")

PostUpgradeHook == PostHook("stateyaml")

\* Faulty: entries of deleted snapshots stay.
UpdatedStates_keepDeleted ==
  LET old == IF Recorded(State) THEN State ELSE InstallState({}, {}, FALSE)
  IN {InstallState(old.known \cup {snapshot.ID}, (old.actives \cup {snapshot.ID}) \ {oldActiveID},
                   old.recovery \/ request.recovery) :
        oldActiveID \in IF old.actives = {} THEN {0} ELSE old.actives}

\* upgradeInstallStateYaml: the new snapshot is recorded as active, one that
\* was active is cleared and those without a directory are dropped.  A Go map
\* is read in any order.
UpdatedStates ==
  LET old     == IF Recorded(State) THEN State ELSE InstallState({}, {}, FALSE)
      deleted == old.known \ LD!GetSnapshots
  IN {InstallState((old.known \cup {snapshot.ID}) \ deleted,
                   ((old.actives \cup {snapshot.ID}) \ {oldActiveID}) \ deleted,
                   old.recovery \/ request.recovery) :
        oldActiveID \in IF old.actives = {} THEN {0} ELSE old.actives}

\* The snapshots are listed, the state is updated and written.  Writing to a
\* nil map panics; the deferred clean up still runs, and sees no error.
WriteStateYaml ==
  /\ upc = "stateyaml"
  /\ \/ State # NilMap /\ WriteStateFile(UpdatedStates)
     \/ /\ State = NilMap
        /\ err' = "panic"
        /\ upc' = "cleanup"
        /\ UNCHANGED <<ldVars, jobs, held, request, State, yamls>>

\* Power loss, or the machine comes up again: nothing is mounted any more.
Reboot ==
  /\ LD!Reboot
  /\ ProcessEnds
  /\ UNCHANGED yamls

-----------------------------------------------------------------------------
\* The steps of Run.
RunStep ==
  \/ SharedStep
  \/ MountBoot \/ MountData \/ MountPersistent
  \/ CloseUpgradeReturns \/ UpgradeRecovery \/ PostUpgradeHook \/ WriteStateYaml

Next ==
  \/ RunStep \/ Exit \/ Reboot
  \/ \E recovery \in RecoveryUpgrades : NewUpgradeAction(recovery)

Spec == Init /\ [][Next]_vars

-----------------------------------------------------------------------------
(* Properties                                                              *)

\* The snapshotter, called by Run or by the abort job of the stack, only works
\* while the partitions it writes to are writable: jobs run last in, first out.
SnapshotterOnMounted ==
  pc \in LD!Steps =>
    {"boot"} \cup (IF IsRecoveryMode THEN {"state"} ELSE {}) \subseteq held

\* A successful run leaves two equal state files, which list the new snapshot,
\* none that is gone and a recovery system it upgraded, and name no other
\* snapshot as active, whatever earlier runs that crashed or failed have left
\* in them; and all its mounts are undone.
SuccessRecorded ==
  Succeeded =>
    /\ held = {}
    /\ stateYaml = recoveryYaml
    /\ stateYaml.actives \subseteq {snapshot.ID}
    /\ snapshot.ID \in stateYaml.known
    /\ stateYaml.known \subseteq LD!GetSnapshots
    /\ request.recovery => stateYaml.recovery

\* Once both state files are written no failure of the clean up discards the
\* snapshot: the abort job is dropped before any umount can fail.
CompletedIsFinal ==
  [][upc = "completed" => UNCHANGED <<snaps, activeLink>>]_vars

\* A run that fails, even after its transaction was closed, never touches the
\* snapshot the system runs from.
RunningKept ==
  [][(booted' = booted /\ booted.id # 0) => snaps'[booted.id] = snaps[booted.id]]_vars
=============================================================================

-------------------------- MODULE UpgradeRecovery --------------------------
(***************************************************************************)
(* The recovery upgrade (pkg/action/upgrade-recovery.go): a new recovery   *)
(* system is deployed to a transition directory of the recovery partition  *)
(* and then takes the place of /boot by two renames.                       *)
(*                                                                         *)
(* Every file system operation may fail, and the machine may stop between  *)
(* any two of them.  The action runs from `elemental upgrade-recovery`     *)
(* (updateInstallState) or nested in `elemental upgrade`.                  *)
(***************************************************************************)
EXTENDS Integers

CONSTANT Versions   \* the recovery systems that may be deployed

\* A directory that is not there, and one that is only partly written.
Absent == "absent"
Torn   == "torn"

ASSUME VersionsAssumption ==
  /\ Versions # {}
  /\ Absent \notin Versions
  /\ Torn \notin Versions

VARIABLES
  boot,                \* /boot of the recovery partition, what GRUB starts
  oldBoot,             \* the previous /boot while it is being replaced
  transition,          \* where the new system is deployed
  stateYaml,           \* recovery source recorded in state.yaml, state partition
  recoveryYaml,        \* the same on the recovery partition
  rpc,                 \* next step of Run
  target,              \* the system this run deploys
  loaded,              \* recovery entry of spec.State, Torn when it has no map
  updateInstallState,  \* does this run write state.yaml?
  err,                 \* the error the run would return
  bootAtStart          \* history: /boot when this run started

parts == <<boot, oldBoot, transition>>
yamls == <<stateYaml, recoveryYaml>>
spec  == <<target, loaded, updateInstallState>>
recoveryVars == <<parts, yamls, rpc, spec, err, bootAtStart>>

Contents == Versions \cup {Absent, Torn}

\* What RemoveAll leaves when it fails.
Leftovers(c) == IF c = Absent THEN {Absent} ELSE {c, Torn}

RecoveryInit ==
  /\ boot \in Versions
  /\ oldBoot = Absent
  /\ transition = Absent
  /\ stateYaml = boot
  /\ recoveryYaml = boot
  /\ rpc = "off"
  /\ target = boot
  /\ loaded = boot
  /\ updateInstallState = FALSE
  /\ err = FALSE
  /\ bootAtStart = boot

-----------------------------------------------------------------------------
\* LoadInstallState: a file that was only partly written may not parse, parse
\* without the recovery entry, or be empty and leave the map of partitions nil.
LoadInstallState(file) == IF file = Torn THEN {Absent, Torn} ELSE {file}

\* NewUpgradeSpec and NewUpgradeRecoveryAction.  Without a state.yaml that
\* parses there is no run that updates it.
NewUpgradeRecoveryAction(v, update) ==
  /\ rpc = "off"
  /\ loaded' \in LoadInstallState(stateYaml)
  /\ rpc' = "mount"
  /\ target' = v
  /\ updateInstallState' = update
  /\ err' = FALSE
  /\ bootAtStart' = boot
  /\ UNCHANGED <<parts, yamls>>

\* Run returns: the clean up of the stack unmounts the partition.
Return(e) ==
  /\ err' = e
  /\ rpc' = "return"

\* mountRWPartitions
MountRWPartitions ==
  /\ rpc = "mount"
  /\ \/ rpc' = "rmtransition" /\ UNCHANGED err
     \/ Return(TRUE)
  /\ UNCHANGED <<parts, yamls, spec, bootAtStart>>

\* Faulty: room is made by removing the current system as well.
RemoveTransition_boot ==
  /\ rpc = "rmtransition"
  /\ transition' = Absent
  /\ boot' = Absent
  /\ rpc' = "deploy"
  /\ UNCHANGED <<oldBoot, yamls, spec, err, bootAtStart>>

\* Traces of an earlier run that did not finish are removed first.
RemoveTransition ==
  /\ rpc = "rmtransition"
  /\ \/ transition' = Absent /\ rpc' = "deploy" /\ UNCHANGED err
     \/ transition' \in Leftovers(transition) /\ transition # Absent /\ Return(TRUE)
  /\ UNCHANGED <<boot, oldBoot, yamls, spec, bootAtStart>>

\* DeployRecoverySystem: the directory fills up while it runs.
DeployStarts ==
  /\ rpc = "deploy"
  /\ \/ transition' = Torn /\ rpc' = "deploying" /\ UNCHANGED err
     \/ transition' = transition /\ Return(TRUE)
  /\ UNCHANGED <<boot, oldBoot, yamls, spec, bootAtStart>>

\* Faulty: the error of the deployment is not looked at.
DeployEnds_unchecked ==
  /\ rpc = "deploying"
  /\ transition' \in {transition, target}
  /\ rpc' = "rmorphan"
  /\ UNCHANGED <<boot, oldBoot, yamls, spec, err, bootAtStart>>

\* It fails too when only the removal of the transient tree does.
DeployEnds ==
  /\ rpc = "deploying"
  /\ \/ transition' = target /\ rpc' = "rmorphan" /\ UNCHANGED err
     \/ transition' \in {transition, target} /\ Return(TRUE)
  /\ UNCHANGED <<boot, oldBoot, yamls, spec, bootAtStart>>

\* An old boot directory left by an earlier run goes away.
RemoveOrphanedBoot ==
  /\ rpc = "rmorphan"
  /\ \/ oldBoot' = Absent /\ rpc' = "saveboot" /\ UNCHANGED err
     \/ oldBoot' \in Leftovers(oldBoot) /\ oldBoot # Absent /\ Return(TRUE)
  /\ UNCHANGED <<boot, transition, yamls, spec, bootAtStart>>

RenameBootToOld ==
  /\ rpc = "saveboot"
  /\ \/ /\ boot # Absent
        /\ oldBoot' = boot
        /\ boot' = Absent
        /\ rpc' = "newboot"
        /\ UNCHANGED err
     \/ /\ boot = Absent
        /\ rpc' = "newboot"
        /\ UNCHANGED <<boot, oldBoot, err>>
     \/ /\ boot # Absent
        /\ Return(TRUE)
        /\ UNCHANGED <<boot, oldBoot>>
  /\ UNCHANGED <<transition, yamls, spec, bootAtStart>>

RenameTransitionToBoot ==
  /\ rpc = "newboot"
  /\ \/ boot' = transition /\ transition' = Absent /\ rpc' = "rmold"
     \/ UNCHANGED <<boot, transition>> /\ rpc' = "salvage"
  /\ UNCHANGED <<oldBoot, yamls, spec, err, bootAtStart>>

\* Faulty: a salvage that fails is only logged.
Salvage_logged ==
  /\ rpc = "salvage"
  /\ \/ oldBoot # Absent /\ boot' = oldBoot /\ oldBoot' = Absent
     \/ UNCHANGED <<boot, oldBoot>>
  /\ Return(FALSE)
  /\ UNCHANGED <<transition, yamls, spec, bootAtStart>>

\* Faulty: the renames are tried again until one succeeds.
Salvage_retry ==
  /\ rpc = "salvage"
  /\ rpc' = "newboot"
  /\ UNCHANGED <<parts, yamls, spec, err, bootAtStart>>

\* The error returned is that of the salvage: none, when it succeeds.
Salvage ==
  /\ rpc = "salvage"
  /\ \/ /\ oldBoot # Absent
        /\ boot' = oldBoot
        /\ oldBoot' = Absent
        /\ Return(FALSE)
     \/ /\ UNCHANGED <<boot, oldBoot>>
        /\ Return(TRUE)
  /\ UNCHANGED <<transition, yamls, spec, bootAtStart>>

\* A failure is only logged, yet err keeps it unless state.yaml is written.
RemoveOldBoot ==
  /\ rpc = "rmold"
  /\ \/ oldBoot' = Absent /\ UNCHANGED err
     \/ oldBoot' \in Leftovers(oldBoot) /\ oldBoot # Absent /\ err' = TRUE
  /\ rpc' = IF updateInstallState THEN "stateyaml" ELSE "completed"
  /\ UNCHANGED <<boot, transition, yamls, spec, bootAtStart>>

\* upgradeInstallStateYaml: an entry that is already there keeps its source.
RecordedSource == IF loaded = Absent THEN target ELSE loaded

\* Writing the entry to a nil map panics; the deferred clean up still runs.
WriteStateYaml ==
  /\ rpc = "stateyaml"
  /\ \/ loaded # Torn /\ stateYaml' = RecordedSource /\ rpc' = "recoveryyaml" /\ UNCHANGED err
     \/ loaded # Torn /\ stateYaml' \in {stateYaml, Torn} /\ Return(TRUE)
     \/ loaded = Torn /\ stateYaml' = stateYaml /\ Return(TRUE)
  /\ UNCHANGED <<parts, recoveryYaml, spec, bootAtStart>>

WriteRecoveryYaml ==
  /\ rpc = "recoveryyaml"
  /\ \/ recoveryYaml' = RecordedSource /\ err' = FALSE /\ rpc' = "completed"
     \/ recoveryYaml' \in {recoveryYaml, Torn} /\ Return(TRUE)
  /\ UNCHANGED <<parts, stateYaml, spec, bootAtStart>>

\* cleanup.Cleanup: the partition is unmounted, which may fail as well.
Cleanup ==
  /\ rpc \in {"return", "completed"}
  /\ err' \in {err, TRUE}
  /\ rpc' = IF rpc = "completed" /\ ~err' THEN "power" ELSE "done"
  /\ UNCHANGED <<parts, yamls, spec, bootAtStart>>

\* PowerAction: the machine goes down, or Run returns with the error of the
\* command, without one when no power action was asked for.
PowerAction ==
  /\ rpc = "power"
  /\ rpc' \in {"done", "off"}
  /\ err' \in BOOLEAN
  /\ UNCHANGED <<parts, yamls, spec, bootAtStart>>

Exit ==
  /\ rpc = "done"
  /\ rpc' = "off"
  /\ UNCHANGED <<parts, yamls, spec, err, bootAtStart>>

\* The machine stops: what is on the partition stays.
Crash ==
  /\ rpc # "off"
  /\ rpc' = "off"
  /\ UNCHANGED <<parts, yamls, spec, err, bootAtStart>>

-----------------------------------------------------------------------------
RecoveryStep ==
  \/ MountRWPartitions \/ RemoveTransition \/ DeployStarts \/ DeployEnds
  \/ RemoveOrphanedBoot \/ RenameBootToOld \/ RenameTransitionToBoot \/ Salvage
  \/ RemoveOldBoot \/ WriteStateYaml \/ WriteRecoveryYaml \/ Cleanup
  \/ PowerAction

RecoveryNext ==
  \/ RecoveryStep \/ Exit \/ Crash
  \/ \E v \in Versions, update \in BOOLEAN : NewUpgradeRecoveryAction(v, update)

RecoverySpec == RecoveryInit /\ [][RecoveryNext]_recoveryVars

\* Run waits for nothing but the operations it makes.
RecoveryFairSpec == RecoverySpec /\ WF_recoveryVars(RecoveryStep)

-----------------------------------------------------------------------------
(* Properties                                                              *)

RPCs == {"off", "mount", "rmtransition", "deploy", "deploying", "rmorphan", "saveboot",
         "newboot", "salvage", "rmold", "stateyaml", "recoveryyaml", "return", "completed", "power", "done"}

\* The values each variable may have.
RecoveryTypeOK ==
  /\ boot \in Contents /\ oldBoot \in Contents /\ transition \in Contents
  /\ stateYaml \in Contents /\ recoveryYaml \in Contents
  /\ rpc \in RPCs
  /\ target \in Versions
  /\ loaded \in Contents
  /\ updateInstallState \in BOOLEAN
  /\ err \in BOOLEAN
  /\ bootAtStart \in Contents

Complete(c) == c \in Versions

\* GRUB never finds half a recovery system in /boot: only complete directories
\* are renamed to it, whatever runs were interrupted before.
BootNeverTorn == boot # Torn

\* A run that starts with a recovery system in /boot never leaves the partition
\* without a complete one, not even for a moment.
RunKeepsRecovery ==
  (rpc # "off" /\ Complete(bootAtStart)) =>
    Complete(boot) \/ Complete(oldBoot) \/ Complete(transition)

\* A run that reports success leaves a complete system in /boot, also when it
\* started from what an interrupted run left or had to salvage the old one.
SuccessBoots == (rpc = "done" /\ ~err) => Complete(boot)

\* Every run returns.
RunReturns == rpc \in RPCs \ {"off", "done"} ~> rpc \in {"off", "done"}
=============================================================================

--------------------------- MODULE BootAssessment ---------------------------
(***************************************************************************)
(* Which system boots (grub.cfg, the GRUB snippet of the boot assessment   *)
(* feature and the elemental-boot-assessment service).                     *)
(*                                                                         *)
(* An upgrade asks for an assessment.  From then on GRUB remembers in its  *)
(* environment which entry it tries and takes the next one after a boot    *)
(* that did not get as far as a successful health check, until the active  *)
(* system has passed it.  GRUB, the service and an upgrade all write to    *)
(* the same environment.                                                   *)
(***************************************************************************)
EXTENDS Integers, Sequences, SequencesExt

CONSTANTS
  MaxID,       \* bound of the model: highest snapshot ID
  MaxSnaps,    \* snapshots that are kept, the active one included
  MaxBreaks,   \* bound of the model: power losses, and users who interfere
  Strict       \* does an upgrade stop when its hook fails?

ASSUME BoundsAssumption ==
  /\ MaxID \in Nat \ {0} /\ MaxSnaps \in Nat \ {0} /\ MaxBreaks \in Nat
  /\ Strict \in BOOLEAN

VARIABLES
  active,        \* ID of the active snapshot
  passives,      \* passive_snaps
  health,        \* what becomes of each snapshot when it is booted
  env,           \* grubenv: boot_assessment_check, boot_assessment_always_check,
                 \* last_boot_attempt, next_entry
  machine,       \* "off", "grub", "boot", "up"
  entry,         \* the entry GRUB tries or has booted
  fallbacks,     \* entries GRUB tries when that one cannot be loaded
  running,       \* the snapshot that was booted, 0 for recovery
  health_check,  \* is elemental.health_check in the kernel command line?
  service,       \* the assessment service: "off", "checks", "last"
  upgrade,       \* an upgrade: "no", "hook"
  proven,        \* snapshots that passed an assessment as the active system
  breaks,        \* how often a boot or its assessment was interfered with
  cut,           \* history: snapshots whose attempt was interfered with
  stale          \* history: did the list change under a remembered attempt?

snapshots == <<active, passives, health>>
bootVars  == <<machine, entry, fallbacks, running, health_check>>
vars      == <<snapshots, env, bootVars, service, upgrade, proven, breaks, cut, stale>>

-----------------------------------------------------------------------------
IDs == 1..MaxID

\* Menu entries: "active", "recovery" and passive<ID>; None where none is set.
None       == <<"", 0>>
Active     == <<"active", 0>>
Recovery   == <<"recovery", 0>>
Passive(i) == <<"passive", i>>

\* Boots and passes its check; boots and fails it; never comes up, and reboots
\* (rd.emergency=reboot, systemd.crash_reboot); cannot even be loaded by GRUB.
Healths == {"good", "sick", "crash", "unloadable"}

\* The snapshot an entry boots, 0 for recovery.
SnapshotOf(e) == IF e = Active THEN active ELSE e[2]

HealthOf(e) == IF e = Recovery THEN "good" ELSE health[SnapshotOf(e)]

\* The menu of grub.cfg; default_fallback numbers all its entries.
Menu == <<Active>> \o [k \in 1..Len(passives) |-> Passive(passives[k])] \o <<Recovery>>

\* Faulty: previous_done is set too late, the entry tried last is tried again.
NextDefault_late(last) ==
  LET loop[k \in 0..Len(passives)] ==
        IF k = 0 THEN [default |-> None, done |-> FALSE, break |-> FALSE]
        ELSE LET p == Passive(passives[k])
             IN IF loop[k - 1].break THEN loop[k - 1]
                ELSE IF last \in {Active, p} THEN [default |-> p, done |-> TRUE, break |-> TRUE]
                ELSE [default |-> p, done |-> FALSE, break |-> FALSE]
  IN IF last = None THEN Active ELSE loop[Len(passives)].default

\* Faulty: the loop has no break.
NextDefault_noBreak(last) ==
  IF last = None THEN Active
  ELSE IF passives = <<>> THEN None ELSE Passive(Last(passives))

\* The snippet's choice of the default entry.  The loop over passive_snaps stops
\* after the entry that was tried last, and otherwise ends with the oldest one;
\* without passives default stays what saved_entry says, nothing.
NextDefault(last) ==
  LET loop[k \in 0..Len(passives)] ==
        IF k = 0 THEN [default |-> None, done |-> FALSE, break |-> FALSE]
        ELSE LET p == Passive(passives[k])
             IN IF loop[k - 1].break THEN loop[k - 1]
                ELSE IF last = Active \/ loop[k - 1].done
                     THEN [default |-> p, done |-> loop[k - 1].done, break |-> TRUE]
                ELSE [default |-> p, done |-> last = p, break |-> FALSE]
  IN IF last = None THEN Active ELSE loop[Len(passives)].default

-----------------------------------------------------------------------------
\* A machine just installed: the hook has asked for an assessment.
Init ==
  /\ active = 1
  /\ passives = <<>>
  /\ health \in [IDs -> Healths]
  /\ \E always \in BOOLEAN : env = [check |-> TRUE, always |-> always, last |-> None, next |-> None]
  /\ machine = "off"
  /\ entry = None
  /\ fallbacks = <<>>
  /\ running = 0
  /\ health_check = FALSE
  /\ service = "off"
  /\ upgrade = "no"
  /\ proven = {}
  /\ breaks = 0
  /\ cut = {}
  /\ stale = FALSE

\* Is an assessment asked for, once or for every boot?
Asked == env.check \/ env.always

\* grub.cfg up to the menu: next_entry goes first and is cleared; otherwise the
\* snippet chooses while an assessment is asked for, and saves its choice.
\* A user at the menu may pick any entry.
GrubStarts(pick) ==
  /\ machine = "off"
  /\ LET assess  == Asked /\ env.next = None
         default == IF env.next # None THEN env.next
                    ELSE IF Asked THEN NextDefault(env.last) ELSE None
     IN /\ env' = [env EXCEPT !.next = None, !.last = IF assess THEN default ELSE @]
        /\ entry' = CASE pick # None    -> pick
                      [] default # None -> default
                      [] OTHER          -> Active
        /\ cut' = IF pick # None /\ assess /\ default # None THEN cut \cup {SnapshotOf(default)} ELSE cut
  /\ breaks' = IF pick # None THEN breaks + 1 ELSE breaks
  /\ health_check' = Asked
  /\ fallbacks' = Menu
  /\ machine' = "grub"
  /\ UNCHANGED <<snapshots, running, service, upgrade, proven, stale>>

\* The entry is loaded, or the next one of the fallback list is tried.
GrubLoads ==
  /\ machine = "grub"
  /\ IF HealthOf(entry) = "unloadable"
     THEN /\ entry' = Head(fallbacks)
          /\ fallbacks' = Tail(fallbacks)
          /\ UNCHANGED <<machine, running>>
     ELSE /\ machine' = "boot"
          /\ running' = SnapshotOf(entry)
          /\ UNCHANGED <<entry, fallbacks>>
  /\ UNCHANGED <<snapshots, env, health_check, service, upgrade, proven, breaks, cut, stale>>

\* What the end of a boot leaves of the machine.
GoesDown ==
  /\ machine' = "off"
  /\ entry' = None
  /\ fallbacks' = <<>>
  /\ running' = 0
  /\ health_check' = FALSE
  /\ service' = "off"
  /\ upgrade' = "no"

\* The kernel parameters of the snippet turn any failure into a reboot.
BootFails ==
  /\ machine = "boot"
  /\ HealthOf(entry) = "crash"
  /\ GoesDown
  /\ UNCHANGED <<snapshots, env, proven, breaks, cut, stale>>

\* elemental-boot-assessment.service: its conditions.
BootEnds ==
  /\ machine = "boot"
  /\ HealthOf(entry) # "crash"
  /\ machine' = "up"
  /\ service' = IF health_check /\ entry # Recovery THEN "checks" ELSE "off"
  /\ UNCHANGED <<snapshots, env, entry, fallbacks, running, health_check, upgrade, proven, breaks, cut, stale>>

\* Faulty: the request is dropped whichever system passed the check.
AssessmentPasses_any ==
  /\ service = "checks"
  /\ health[running] = "good"
  /\ env' = [env EXCEPT !.check = FALSE]
  /\ service' = "last"
  /\ UNCHANGED <<snapshots, bootVars, upgrade, proven, breaks, cut, stale>>

\* The checkers pass: in active mode the request is dropped ...
AssessmentPasses ==
  /\ service = "checks"
  /\ health[running] = "good"
  /\ env' = IF entry = Active THEN [env EXCEPT !.check = FALSE] ELSE env
  /\ proven' = IF entry = Active THEN proven \cup {running} ELSE proven
  /\ service' = "last"
  /\ UNCHANGED <<snapshots, bootVars, upgrade, breaks, cut, stale>>

\* ... and in any mode the attempts are forgotten.
ForgetAttempts ==
  /\ service = "last"
  /\ env' = [env EXCEPT !.last = None]
  /\ cut' = {}
  /\ stale' = FALSE
  /\ service' = "off"
  /\ UNCHANGED <<snapshots, bootVars, upgrade, proven, breaks>>

\* They fail until StartLimitBurst is reached: StartLimitAction=reboot.
AssessmentFails ==
  /\ service = "checks"
  /\ health[running] # "good"
  /\ GoesDown
  /\ UNCHANGED <<snapshots, env, proven, breaks, cut, stale>>

-----------------------------------------------------------------------------
\* Somebody reboots a running machine.
UserReboots ==
  /\ machine = "up"
  /\ service = "off"
  /\ GoesDown
  /\ UNCHANGED <<snapshots, env, proven, breaks, cut, stale>>

\* What a user does while an assessment is going on counts as a break.
Breaks == breaks' = IF service = "off" THEN breaks ELSE breaks + 1

\* grub2-editenv sets next_entry.
SetNextEntry(e) ==
  /\ machine = "up"
  /\ env.next = None
  /\ service = "off" \/ breaks < MaxBreaks
  /\ Breaks
  /\ env' = [env EXCEPT !.next = e]
  /\ UNCHANGED <<snapshots, bootVars, service, upgrade, proven, cut, stale>>

\* A power loss or a reboot before the boot and its assessment are over.
Interrupted ==
  /\ machine # "off"
  /\ breaks < MaxBreaks
  /\ breaks' = breaks + 1
  /\ cut' = IF entry = env.last THEN cut \cup {SnapshotOf(entry)} ELSE cut
  /\ GoesDown
  /\ UNCHANGED <<snapshots, env, proven, stale>>

\* The hook of an upgrade asks for an assessment, before the new snapshot is
\* active.  Without strict mode the upgrade goes on when it fails.
AfterUpgradeHook ==
  /\ machine = "up"
  /\ upgrade = "no"
  /\ active < MaxID
  /\ service = "off" \/ breaks < MaxBreaks
  /\ Breaks
  /\ upgrade' = "hook"
  /\ \/ env' = [env EXCEPT !.check = TRUE, !.last = None] /\ cut' = {} /\ stale' = FALSE
     \/ ~Strict /\ UNCHANGED <<env, cut, stale>>
  /\ UNCHANGED <<snapshots, bootVars, service, proven>>

\* The transaction is closed: the new snapshot is active and the oldest ones are
\* deleted, but for the one in use.  The list of passives may fail to be written;
\* its order is that of the snapshotter.
UpgradeCommits ==
  /\ upgrade = "hook"
  /\ LET new   == active + 1
         kept  == {i \in 1..active : i > new - MaxSnaps \/ i = running}
         alive == {i \in kept : health[i] # "unloadable"} \cup (kept \cap {active, running})
     IN /\ active' = new
        /\ health' = [i \in IDs |-> IF i < new /\ i \notin kept THEN "unloadable" ELSE health[i]]
        /\ passives' \in SetToSeqs(alive) \cup {passives}
  /\ upgrade' = "no"
  /\ stale' = (stale \/ env.last # None)
  /\ UNCHANGED <<env, bootVars, service, proven, breaks, cut>>

UpgradeFails ==
  /\ upgrade = "hook"
  /\ upgrade' = "no"
  /\ UNCHANGED <<snapshots, env, bootVars, service, proven, breaks, cut, stale>>

-----------------------------------------------------------------------------
\* What GRUB, the kernel and the service do by themselves.
MachineStep ==
  \/ GrubStarts(None) \/ GrubLoads \/ BootFails \/ BootEnds
  \/ AssessmentPasses \/ ForgetAttempts \/ AssessmentFails

Next ==
  \/ MachineStep
  \/ breaks < MaxBreaks /\ \E k \in 1..Len(Menu) : GrubStarts(Menu[k])
  \/ UserReboots \/ Interrupted
  \/ \E k \in 1..Len(Menu) : SetNextEntry(Menu[k])
  \/ AfterUpgradeHook \/ UpgradeCommits \/ UpgradeFails

Spec == Init /\ [][Next]_vars

\* A machine that is switched on goes on by itself.
FairSpec == Spec /\ WF_vars(MachineStep)

-----------------------------------------------------------------------------
(* Properties                                                              *)

Healthy == machine = "up" /\ (running = 0 \/ health[running] = "good")

\* Rollback: while an assessment is asked for, a round of boots that starts from
\* the active system and is not interrupted ends in a healthy system when the
\* active or any listed passive one is healthy, whatever the others do.
RoundFindsHealthy ==
  \A n \in 0..MaxBreaks :
    (/\ machine = "off" /\ Asked /\ env.last = None /\ breaks = n
     /\ \E k \in 1..(Len(Menu) - 1) : HealthOf(Menu[k]) = "good")
      ~> (Healthy \/ breaks > n)

\* After a rollback the request stays until the active system has passed: a
\* passive system that was booted under assessment never drops it.
PassiveKeepsRequest ==
  (machine = "up" /\ entry[1] = "passive" /\ health_check) => Asked

\* A healthy system is never passed over: when the attempts have come to a passive
\* entry, the active system and every passive one listed before it would have
\* failed, or the attempt at that very system was cut short, by a power loss or a
\* user at the menu, since the attempts were last forgotten.  (Only an upgrade
\* that goes on after its hook has failed changes the list under the attempts.)
HealthyNotSkipped ==
  Strict \/ ~stale =>
    \A k \in 1..Len(passives) : env.last = Passive(passives[k]) =>
      \A i \in {active} \cup {passives[j] : j \in 1..(k - 1)} : health[i] # "good" \/ i \in cut
=============================================================================

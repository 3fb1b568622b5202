----------------------------- MODULE BootProofs -----------------------------
(***************************************************************************)
(* Proofs about what a machine boots: the recovery system that an upgrade  *)
(* of it swaps (UpgradeRecovery), for any set of recovery systems, and the *)
(* entry that GRUB takes (BootAssessment), for any number of snapshots.    *)
(***************************************************************************)
EXTENDS UpgradeRecovery, BootAssessment, FiniteSetTheorems, WellFoundedInduction, TLAPS

-----------------------------------------------------------------------------
(* The swap of the recovery system.  The strengthening follows the one     *)
(* complete system through it: it is in /boot until the first rename, in   *)
(* the old boot directory until the second, and the transition directory   *)
(* is complete between the end of the deployment and the second rename.    *)

\* Steps before /boot is touched, between the renames, and after them.
BeforeSwap == {"mount", "rmtransition", "deploy", "deploying", "rmorphan", "saveboot"}
AfterSwap  == {"rmold", "stateyaml", "recoveryyaml", "completed", "power"}

TransitionDeployed ==
  rpc \in {"rmorphan", "saveboot", "newboot", "salvage"} => Complete(transition)

OldBootCleared == rpc = "saveboot" => oldBoot = Absent

BootMovedAway ==
  rpc \in {"newboot", "salvage"} =>
    /\ boot = Absent
    /\ oldBoot # Torn
    /\ oldBoot = bootAtStart

BootUntouched == rpc \in BeforeSwap => boot = bootAtStart

NewBootInPlace == rpc \in AfterSwap => Complete(boot)

ReturnedOK == (rpc \in {"return", "done"} /\ ~err) => Complete(boot)

RecoveryInv ==
  /\ RecoveryTypeOK
  /\ BootNeverTorn
  /\ TransitionDeployed
  /\ OldBootCleared
  /\ BootMovedAway
  /\ BootUntouched
  /\ NewBootInPlace
  /\ ReturnedOK
  /\ RunKeepsRecovery

\* The first state has a complete system in /boot and no run.
LEMMA RecoveryInvInit == RecoveryInit => RecoveryInv
  BY VersionsAssumption DEF RecoveryInit, RecoveryInv, RecoveryTypeOK, Contents, RPCs, BootNeverTorn, TransitionDeployed,
         OldBootCleared, BootMovedAway, BootUntouched, NewBootInPlace, ReturnedOK,
         RunKeepsRecovery, Complete, BeforeSwap, AfterSwap, Absent, Torn

\* Every step keeps the strengthened invariant.
LEMMA RecoveryInvNext == RecoveryInv /\ [RecoveryNext]_recoveryVars => RecoveryInv'
<1> SUFFICES ASSUME RecoveryInv, [RecoveryNext]_recoveryVars PROVE RecoveryInv'
  OBVIOUS
<1> USE VersionsAssumption DEF RecoveryInv, RecoveryTypeOK, Contents, RPCs, BootNeverTorn, TransitionDeployed,
            OldBootCleared, BootMovedAway, BootUntouched, NewBootInPlace, ReturnedOK,
            RunKeepsRecovery, Complete, BeforeSwap, AfterSwap, parts, yamls, spec, Return, Absent, Torn
<1>1. ASSUME NEW v \in Versions, NEW update \in BOOLEAN, NewUpgradeRecoveryAction(v, update)
      PROVE  RecoveryInv'
  BY <1>1 DEF NewUpgradeRecoveryAction, LoadInstallState
<1>2. CASE MountRWPartitions
  <2>1. err' \in BOOLEAN
    BY <1>2, Zenon DEF MountRWPartitions
  <2>2. RecoveryTypeOK'
    BY <1>2, <2>1 DEF MountRWPartitions
  <2>3. BootNeverTorn' /\ TransitionDeployed' /\ OldBootCleared' /\ BootMovedAway' /\ BootUntouched'
    BY <1>2 DEF MountRWPartitions
  <2>4. NewBootInPlace' /\ ReturnedOK' /\ RunKeepsRecovery'
    BY <1>2 DEF MountRWPartitions
  <2>5. QED
    BY <2>2, <2>3, <2>4
<1>3. CASE RemoveTransition
  <2>1. err' \in BOOLEAN
    BY <1>3, Zenon DEF RemoveTransition
  <2>2. RecoveryTypeOK'
    BY <1>3, <2>1 DEF RemoveTransition, Leftovers
  <2>3. BootNeverTorn' /\ TransitionDeployed' /\ OldBootCleared' /\ BootMovedAway' /\ BootUntouched'
    BY <1>3 DEF RemoveTransition, Leftovers
  <2>4. NewBootInPlace' /\ ReturnedOK' /\ RunKeepsRecovery'
    BY <1>3 DEF RemoveTransition, Leftovers
  <2>5. QED
    BY <2>2, <2>3, <2>4
<1>4. CASE DeployStarts
  <2>1. err' \in BOOLEAN
    BY <1>4, Zenon DEF DeployStarts
  <2>2. RecoveryTypeOK'
    BY <1>4, <2>1 DEF DeployStarts
  <2>3. BootNeverTorn' /\ TransitionDeployed' /\ OldBootCleared' /\ BootMovedAway' /\ BootUntouched'
    BY <1>4 DEF DeployStarts
  <2>4. NewBootInPlace' /\ ReturnedOK' /\ RunKeepsRecovery'
    BY <1>4 DEF DeployStarts
  <2>5. QED
    BY <2>2, <2>3, <2>4
<1>5. CASE DeployEnds
  <2>1. err' \in BOOLEAN
    BY <1>5, Zenon DEF DeployEnds
  <2>2. RecoveryTypeOK'
    BY <1>5, <2>1 DEF DeployEnds
  <2>3. BootNeverTorn' /\ TransitionDeployed' /\ OldBootCleared' /\ BootMovedAway' /\ BootUntouched'
    BY <1>5 DEF DeployEnds
  <2>4. NewBootInPlace' /\ ReturnedOK' /\ RunKeepsRecovery'
    BY <1>5 DEF DeployEnds
  <2>5. QED
    BY <2>2, <2>3, <2>4
<1>6. CASE RemoveOrphanedBoot
  <2>1. err' \in BOOLEAN
    BY <1>6, Zenon DEF RemoveOrphanedBoot
  <2>2. RecoveryTypeOK'
    BY <1>6, <2>1 DEF RemoveOrphanedBoot, Leftovers
  <2>3. BootNeverTorn' /\ TransitionDeployed' /\ OldBootCleared' /\ BootMovedAway' /\ BootUntouched'
    BY <1>6 DEF RemoveOrphanedBoot, Leftovers
  <2>4. NewBootInPlace' /\ ReturnedOK' /\ RunKeepsRecovery'
    BY <1>6 DEF RemoveOrphanedBoot, Leftovers
  <2>5. QED
    BY <2>2, <2>3, <2>4
<1>7. CASE RenameBootToOld
  <2>1. err' \in BOOLEAN
    BY <1>7, Zenon DEF RenameBootToOld
  <2>2. RecoveryTypeOK'
    BY <1>7, <2>1 DEF RenameBootToOld
  <2>3. BootNeverTorn' /\ TransitionDeployed' /\ OldBootCleared' /\ BootMovedAway' /\ BootUntouched'
    BY <1>7 DEF RenameBootToOld
  <2>4. NewBootInPlace' /\ ReturnedOK' /\ RunKeepsRecovery'
    BY <1>7 DEF RenameBootToOld
  <2>5. QED
    BY <2>2, <2>3, <2>4
<1>8. CASE RenameTransitionToBoot
  <2>1. err' \in BOOLEAN
    BY <1>8, Zenon DEF RenameTransitionToBoot
  <2>2. RecoveryTypeOK'
    BY <1>8, <2>1 DEF RenameTransitionToBoot
  <2>3. BootNeverTorn' /\ TransitionDeployed' /\ OldBootCleared' /\ BootMovedAway' /\ BootUntouched'
    BY <1>8 DEF RenameTransitionToBoot
  <2>4. NewBootInPlace' /\ ReturnedOK' /\ RunKeepsRecovery'
    BY <1>8 DEF RenameTransitionToBoot
  <2>5. QED
    BY <2>2, <2>3, <2>4
<1>9. CASE Salvage
  <2>1. err' \in BOOLEAN
    BY <1>9, Zenon DEF Salvage
  <2>2. RecoveryTypeOK'
    BY <1>9, <2>1 DEF Salvage
  <2>3. BootNeverTorn' /\ TransitionDeployed' /\ OldBootCleared' /\ BootMovedAway' /\ BootUntouched'
    BY <1>9 DEF Salvage
  <2>4. NewBootInPlace' /\ ReturnedOK' /\ RunKeepsRecovery'
    BY <1>9 DEF Salvage
  <2>5. QED
    BY <2>2, <2>3, <2>4
<1>10. CASE RemoveOldBoot
  <2>1. err' \in BOOLEAN
    BY <1>10, Zenon DEF RemoveOldBoot
  <2>2. RecoveryTypeOK'
    BY <1>10, <2>1 DEF RemoveOldBoot, Leftovers
  <2>3. BootNeverTorn' /\ TransitionDeployed' /\ OldBootCleared' /\ BootMovedAway' /\ BootUntouched'
    BY <1>10 DEF RemoveOldBoot, Leftovers
  <2>4. NewBootInPlace' /\ ReturnedOK' /\ RunKeepsRecovery'
    BY <1>10 DEF RemoveOldBoot, Leftovers
  <2>5. QED
    BY <2>2, <2>3, <2>4
<1>11. CASE WriteStateYaml
  <2>1. err' \in BOOLEAN
    BY <1>11, Zenon DEF WriteStateYaml
  <2>2. RecoveryTypeOK'
    BY <1>11, <2>1 DEF WriteStateYaml, RecordedSource
  <2>3. BootNeverTorn' /\ TransitionDeployed' /\ OldBootCleared' /\ BootMovedAway' /\ BootUntouched'
    BY <1>11 DEF WriteStateYaml, RecordedSource
  <2>4. NewBootInPlace' /\ ReturnedOK' /\ RunKeepsRecovery'
    BY <1>11 DEF WriteStateYaml, RecordedSource
  <2>5. QED
    BY <2>2, <2>3, <2>4
<1>12. CASE WriteRecoveryYaml
  <2>1. err' \in BOOLEAN
    BY <1>12, Zenon DEF WriteRecoveryYaml
  <2>2. RecoveryTypeOK'
    BY <1>12, <2>1 DEF WriteRecoveryYaml, RecordedSource
  <2>3. BootNeverTorn' /\ TransitionDeployed' /\ OldBootCleared' /\ BootMovedAway' /\ BootUntouched'
    BY <1>12 DEF WriteRecoveryYaml, RecordedSource
  <2>4. NewBootInPlace' /\ ReturnedOK' /\ RunKeepsRecovery'
    BY <1>12 DEF WriteRecoveryYaml, RecordedSource
  <2>5. QED
    BY <2>2, <2>3, <2>4
<1>13. CASE Cleanup
  <2>1. err' \in BOOLEAN /\ (~err' => ~err)
    <3>1. CASE err' = err
      BY <3>1, Zenon
    <3>2. CASE err' = TRUE
      BY <3>2, Zenon
    <3>3. QED
      BY <1>13, <3>1, <3>2 DEF Cleanup
  <2>2. rpc' = "done" \/ (rpc' = "power" /\ rpc = "completed")
    BY <1>13 DEF Cleanup
  <2>3. ReturnedOK'
    BY <1>13, <2>1, <2>2 DEF Cleanup
  <2>4. QED
    BY <1>13, <2>1, <2>2, <2>3 DEF Cleanup
<1>14. CASE PowerAction
  BY <1>14 DEF PowerAction
<1>15. CASE Exit
  BY <1>15 DEF Exit
<1>16. CASE Crash
  BY <1>16 DEF Crash
<1>17. CASE UNCHANGED recoveryVars
  BY <1>17 DEF recoveryVars
<1>18. QED
  BY <1>1, <1>2, <1>3, <1>4, <1>5, <1>6, <1>7, <1>8, <1>9, <1>10, <1>11, <1>12, <1>13,
     <1>14, <1>15, <1>16, <1>17 DEF RecoveryNext, RecoveryStep

\* The strengthened invariant holds in every behaviour of the recovery upgrade.
THEOREM RecoveryInvariance == RecoverySpec => []RecoveryInv
  BY RecoveryInvInit, RecoveryInvNext, PTL DEF RecoverySpec

\* GRUB never finds half a recovery system: only a directory DeployRecoverySystem
\* has completed is ever renamed to /boot, whatever earlier runs left behind.
THEOREM BootIsWhole == RecoverySpec => []BootNeverTorn
<1>1. RecoveryInv => BootNeverTorn
  BY DEF RecoveryInv
<1>2. QED
  BY <1>1, RecoveryInvariance, PTL

\* A run started with a recovery system in /boot has a complete one on the
\* partition at every step, so one interruption or failure never loses it.
THEOREM RecoverySurvivesRun == RecoverySpec => []RunKeepsRecovery
<1>1. RecoveryInv => RunKeepsRecovery
  BY DEF RecoveryInv
<1>2. QED
  BY <1>1, RecoveryInvariance, PTL

\* When Run returns no error GRUB finds a complete recovery system in /boot.
THEOREM SuccessfulRunBoots == RecoverySpec => []SuccessBoots
<1>1. RecoveryInv => SuccessBoots
  BY DEF RecoveryInv, ReturnedOK, SuccessBoots
<1>2. QED
  BY <1>1, RecoveryInvariance, PTL
-----------------------------------------------------------------------------
(* The request for an assessment.  GRUB puts it into the command line when *)
(* it starts; from then on only a passed check of the active system, once  *)
(* it is up, may drop it.  One for every boot is never dropped.            *)

EnvIsRecord == env = [check |-> env.check, always |-> env.always, last |-> env.last, next |-> env.next]

ServiceOnlyUp == service # "off" => machine = "up"

RequestLasts ==
  (machine # "off" /\ health_check /\ ~(machine = "up" /\ entry = Active)) => Asked

\* The list of passives has every snapshot once.
ListedOnce ==
  /\ active \in Nat
  /\ passives = [k \in 1..Len(passives) |-> passives[k]] /\ Len(passives) \in Nat
  /\ \A i, j \in 1..Len(passives) : passives[i] = passives[j] => i = j

AssessmentInv == EnvIsRecord /\ ServiceOnlyUp /\ RequestLasts /\ ListedOnce

\* The first state.
LEMMA AssessmentInit == Init => AssessmentInv
  BY DEF Init, AssessmentInv, EnvIsRecord, ServiceOnlyUp, RequestLasts, ListedOnce

\* A list of a finite set.
LEMMA ListingIsOnce ==
  ASSUME NEW S, IsFiniteSet(S), NEW s \in SetToSeqs(S)
  PROVE  /\ s = [k \in 1..Len(s) |-> s[k]] /\ Len(s) \in Nat
         /\ \A i, j \in 1..Len(s) : s[i] = s[j] => i = j
<1>1. Cardinality(S) \in Nat
  BY FS_CardinalityType
<1>2. s \in [1..Cardinality(S) -> S] /\ \A i, j \in 1..Cardinality(S) : i # j => s[i] # s[j]
  BY DEF SetToSeqs
<1>3. Len(s) = Cardinality(S)
  BY <1>1, <1>2
<1> QED
  BY <1>1, <1>2, <1>3

\* Every step keeps the request and the list.
LEMMA AssessmentNext == AssessmentInv /\ [Next]_vars => AssessmentInv'
<1> SUFFICES ASSUME AssessmentInv, [Next]_vars PROVE AssessmentInv'
  OBVIOUS
<1> USE DEF AssessmentInv, EnvIsRecord, ServiceOnlyUp, RequestLasts, Asked
<1>a. UNCHANGED <<active, passives>> => ListedOnce'
  BY DEF ListedOnce
<1>1. ASSUME NEW pick, GrubStarts(pick)
      PROVE  AssessmentInv'
  <2>1. UNCHANGED <<active, passives, service>> /\ machine = "off" /\ health_check' = Asked
    BY <1>1 DEF GrubStarts, snapshots
  <2>2. EnvIsRecord' /\ env'.check = env.check /\ env'.always = env.always
    BY <1>1 DEF GrubStarts
  <2> QED
    BY <1>a, <2>1, <2>2
<1>2. CASE GrubLoads
  BY <1>2, <1>a DEF GrubLoads, snapshots
<1>3. CASE GoesDown /\ UNCHANGED <<snapshots, env>>
  BY <1>3, <1>a DEF GoesDown, snapshots
<1>4. CASE BootFails \/ AssessmentFails \/ UserReboots \/ Interrupted
  BY <1>3, <1>4 DEF BootFails, AssessmentFails, UserReboots, Interrupted
<1>5. CASE BootEnds
  BY <1>5, <1>a DEF BootEnds, snapshots
<1>6. CASE AssessmentPasses
  <2>1. EnvIsRecord' /\ machine = "up" /\ (entry # Active => env' = env)
    BY <1>6 DEF AssessmentPasses
  <2> QED
    BY <1>6, <1>a, <2>1 DEF AssessmentPasses, snapshots, bootVars
<1>7. CASE ForgetAttempts
  <2>1. EnvIsRecord' /\ env'.check = env.check /\ env'.always = env.always /\ service' = "off"
    BY <1>7 DEF ForgetAttempts
  <2> QED
    BY <1>7, <1>a, <2>1 DEF ForgetAttempts, snapshots, bootVars
<1>8. ASSUME NEW e, SetNextEntry(e)
      PROVE  AssessmentInv'
  <2>1. EnvIsRecord' /\ env'.check = env.check /\ env'.always = env.always
    BY <1>8 DEF SetNextEntry
  <2> QED
    BY <1>8, <1>a, <2>1 DEF SetNextEntry, snapshots, bootVars
<1>9. CASE AfterUpgradeHook
  <2>1. EnvIsRecord' /\ (env.check => env'.check) /\ env'.always = env.always
    BY <1>9 DEF AfterUpgradeHook
  <2> QED
    BY <1>9, <1>a, <2>1 DEF AfterUpgradeHook, snapshots, bootVars
<1>10. CASE UpgradeCommits
  <2> DEFINE new   == active + 1
             kept  == {i \in 1..active : i > new - MaxSnaps \/ i = running}
             alive == {i \in kept : health[i] # "unloadable"} \cup (kept \cap {active, running})
  <2>1. passives' \in SetToSeqs(alive) \cup {passives}
    BY <1>10, Zenon DEF UpgradeCommits
  <2>2. IsFiniteSet(alive)
    <3>1. IsFiniteSet(1..active)
      <4>1. active \in Int /\ 1 \in Int
        BY DEF ListedOnce
      <4> QED
        BY <4>1, FS_Interval
    <3>2. alive \subseteq 1..active
      OBVIOUS
    <3> QED
      BY <3>1, <3>2, FS_Subset
  <2>3. ListedOnce'
    <3> HIDE DEF alive
    <3>1. CASE passives' \in SetToSeqs(alive)
      <4>1. active' \in Nat
        BY <1>10 DEF UpgradeCommits, ListedOnce
      <4> QED
        BY <2>2, <3>1, <4>1, ListingIsOnce DEF ListedOnce
    <3>2. active' \in Nat
      BY <1>10 DEF UpgradeCommits, ListedOnce
    <3>3. CASE passives' = passives
      BY <3>2, <3>3 DEF ListedOnce
    <3> QED
      BY <2>1, <3>1, <3>3
  <2> QED
    BY <1>10, <2>3 DEF UpgradeCommits, bootVars
<1>11. CASE UpgradeFails \/ UNCHANGED vars
  BY <1>11, <1>a DEF UpgradeFails, snapshots, bootVars, vars
<1> QED
  BY <1>1, <1>2, <1>4, <1>5, <1>6, <1>7, <1>8, <1>9, <1>10, <1>11 DEF Next, MachineStep

\* A passive system that was booted under assessment never drops the request for
\* one, so a later boot still tries the active system first.
THEOREM PassiveNeverDropsRequest == Spec => []PassiveKeepsRequest
<1>1. AssessmentInv => PassiveKeepsRequest
  <2>1. entry[1] = "passive" => entry # Active
    BY DEF Active
  <2> QED
    BY <2>1 DEF AssessmentInv, RequestLasts, PassiveKeepsRequest
<1> QED
  BY <1>1, AssessmentInit, AssessmentNext, PTL DEF Spec

-----------------------------------------------------------------------------
(* The loop of the snippet.  What its definition by recursion yields is    *)
(* found by giving, for each entry that was tried last, the states of the  *)
(* loop outright: they satisfy the recursion, and nothing else does.       *)

\* A nonempty set of natural numbers has a least element.
LEMMA LeastNat ==
  ASSUME NEW T \in SUBSET Nat, T # {}
  PROVE  \E m \in T : \A y \in T : m <= y
<1>1. PICK m \in T : \A y \in T : ~ (<<y, m>> \in OpToRel(<, Nat))
  BY NatLessThanWellFounded, WFMin
<1>2. ASSUME NEW y \in T PROVE m <= y
  <2>1. y < m => <<y, m>> \in OpToRel(<, Nat)
    BY DEF OpToRel
  <2>2. ~ (y < m)
    BY <1>1, <2>1, Zenon
  <2> QED BY <2>2
<1> QED BY <1>2

\* One pass of the loop.
LoopBody(last, f, k) ==
  IF k = 0 THEN [default |-> None, done |-> FALSE, break |-> FALSE]
  ELSE LET p == Passive(passives[k])
       IN IF f[k - 1].break THEN f[k - 1]
          ELSE IF last = Active \/ f[k - 1].done
               THEN [default |-> p, done |-> f[k - 1].done, break |-> TRUE]
          ELSE [default |-> p, done |-> last = p, break |-> FALSE]

LoopOf(last, f) == [k \in 0..Len(passives) |-> LoopBody(last, f, k)]

LEMMA NextDefaultLoop ==
  ASSUME NEW last, last # None
  PROVE  NextDefault(last) = (CHOOSE f : f = LoopOf(last, f))[Len(passives)].default
  BY Zenon DEF NextDefault, LoopOf, LoopBody

\* Two runs of the loop are the same.
LEMMA LoopUnique ==
  ASSUME NEW last, NEW f, NEW g, f = LoopOf(last, f), g = LoopOf(last, g), Len(passives) \in Nat
  PROVE  f = g
<1> DEFINE n == Len(passives)
           T == {k \in 0..n : f[k] # g[k]}
<1>1. DOMAIN f = 0..n /\ DOMAIN g = 0..n
  BY DEF LoopOf
<1>2. \A k \in 0..n : f[k] = LoopBody(last, f, k) /\ g[k] = LoopBody(last, g, k)
  BY DEF LoopOf
<1>3. T = {}
  <2> SUFFICES ASSUME T # {} PROVE FALSE
    OBVIOUS
  <2>0. T \in SUBSET Nat
    OBVIOUS
  <2>1. PICK k \in T : \A y \in T : k <= y
    <3> HIDE DEF T
    <3> QED
      BY <2>0, LeastNat
  <2>2. CASE k = 0
    BY <1>2, <2>2 DEF LoopBody
  <2>3. CASE k # 0
    <3>1. k - 1 \in 0..n /\ ~(k <= k - 1)
      BY <2>3
    <3>2. f[k - 1] = g[k - 1]
      BY <2>1, <3>1
    <3>3. LoopBody(last, f, k) = LoopBody(last, g, k)
      BY <3>2 DEF LoopBody
    <3> QED
      BY <1>2, <3>3
  <2> QED
    BY <2>2, <2>3
<1> HIDE DEF n
<1>4. f = [k \in 0..n |-> f[k]] /\ g = [k \in 0..n |-> g[k]]
  BY DEF LoopOf, n
<1> QED
  BY <1>3, <1>4

\* Hence what satisfies the recursion is what the snippet computes.
LEMMA NextDefaultIs ==
  ASSUME NEW last, last # None, Len(passives) \in Nat, NEW g, g = LoopOf(last, g)
  PROVE  NextDefault(last) = g[Len(passives)].default
<1> DEFINE f == CHOOSE f : f = LoopOf(last, f)
<1>1. f = LoopOf(last, f)
  OBVIOUS
<1> HIDE DEF f
<1>2. f = g
  BY <1>1, LoopUnique
<1> QED
  BY <1>2, NextDefaultLoop DEF f

\* After the active system it stops at the first passive.
LEMMA AfterActive ==
  ASSUME ListedOnce, passives # <<>>
  PROVE  NextDefault(Active) = Passive(passives[1])
<1> DEFINE n == Len(passives)
           g == [k \in 0..n |-> IF k = 0 THEN [default |-> None, done |-> FALSE, break |-> FALSE]
                                ELSE [default |-> Passive(passives[1]), done |-> FALSE, break |-> TRUE]]
<1>1. n \in Nat /\ n > 0
  <2>1. n = 0 => passives = <<>>
    BY DEF ListedOnce
  <2> QED
    BY <2>1 DEF ListedOnce
<1>2. ASSUME NEW k \in 0..n PROVE g[k] = LoopBody(Active, g, k)
  <2>1. CASE k = 0
    BY <2>1 DEF LoopBody
  <2>2. CASE k = 1
    <3>1. g[k - 1].break = FALSE /\ g[k - 1].done = FALSE /\ k # 0
      BY <1>1, <2>2
    <3>2. LoopBody(Active, g, k) = [default |-> Passive(passives[k]), done |-> g[k - 1].done, break |-> TRUE]
      <4> HIDE DEF g
      <4> QED
        BY <3>1, Zenon DEF LoopBody
    <3> QED
      BY <1>1, <2>2, <3>1, <3>2
  <2>3. CASE k > 1
    BY <1>1, <2>3 DEF LoopBody
  <2> QED
    BY <1>1, <2>1, <2>2, <2>3
<1>3. g = LoopOf(Active, g)
  BY <1>2 DEF LoopOf
<1>4. g[n].default = Passive(passives[1])
  BY <1>1
<1>5. Active # None
  BY DEF Active, None
<1> HIDE DEF g
<1> QED
  BY <1>1, <1>3, <1>4, <1>5, NextDefaultIs

\* After a passive it stops at the next one, or ends with the last.
LEMMA AfterPassive ==
  ASSUME ListedOnce, NEW j \in 1..Len(passives)
  PROVE  NextDefault(Passive(passives[j])) = Passive(passives[IF j < Len(passives) THEN j + 1 ELSE j])
<1> DEFINE n == Len(passives)
           last == Passive(passives[j])
           g == [k \in 0..n |->
                   IF k = 0      THEN [default |-> None, done |-> FALSE, break |-> FALSE]
                   ELSE IF k < j THEN [default |-> Passive(passives[k]), done |-> FALSE, break |-> FALSE]
                   ELSE IF k = j THEN [default |-> Passive(passives[k]), done |-> TRUE, break |-> FALSE]
                   ELSE [default |-> Passive(passives[j + 1]), done |-> TRUE, break |-> TRUE]]
<1>1. n \in Nat
  BY DEF ListedOnce
<1>2. \A k \in 1..n : last = Passive(passives[k]) <=> k = j
  BY DEF ListedOnce, Passive
<1>3. last # Active /\ last # None
  BY DEF Passive, Active, None
<1>4. ASSUME NEW k \in 0..n PROVE g[k] = LoopBody(last, g, k)
  <2> HIDE DEF last
  <2>1. CASE k = 0
    BY <1>1, <2>1 DEF LoopBody
  <2>2. CASE k > 0 /\ k <= j
    <3>1. g[k - 1].break = FALSE /\ g[k - 1].done = FALSE
      BY <1>1, <2>2
    <3>2. LoopBody(last, g, k) = [default |-> Passive(passives[k]), done |-> last = Passive(passives[k]), break |-> FALSE]
      BY <1>3, <2>2, <3>1 DEF LoopBody
    <3>3. CASE k < j
      <4>1. (last = Passive(passives[k])) = FALSE
        BY <1>1, <1>2, <2>2, <3>3
      <4>2. LoopBody(last, g, k) = [default |-> Passive(passives[k]), done |-> FALSE, break |-> FALSE]
        BY <3>2, <4>1, Zenon
      <4> QED
        BY <1>1, <2>2, <3>3, <4>2
    <3>4. CASE k = j
      <4>1. (last = Passive(passives[k])) = TRUE
        BY <1>1, <1>2, <2>2, <3>4
      <4>2. LoopBody(last, g, k) = [default |-> Passive(passives[k]), done |-> TRUE, break |-> FALSE]
        BY <3>2, <4>1, Zenon
      <4> QED
        BY <1>1, <2>2, <3>4, <4>2
    <3> QED
      BY <1>1, <2>2, <3>3, <3>4
  <2>3. CASE k = j + 1
    <3>1. g[k - 1].break = FALSE /\ g[k - 1].done = TRUE
      BY <1>1, <2>3
    <3>2. LoopBody(last, g, k) = [default |-> Passive(passives[k]), done |-> g[k - 1].done, break |-> TRUE]
      <4> HIDE DEF g
      <4>1. k # 0
        BY <2>3
      <4> QED
        BY <3>1, <4>1, Zenon DEF LoopBody
    <3>3. LoopBody(last, g, k) = [default |-> Passive(passives[k]), done |-> TRUE, break |-> TRUE]
      <4> HIDE DEF g
      <4> QED
        BY <3>1, <3>2, Zenon
    <3>4. g[k] = [default |-> Passive(passives[j + 1]), done |-> TRUE, break |-> TRUE]
      BY <1>1, <2>3
    <3> HIDE DEF g
    <3> QED
      BY <2>3, <3>3, <3>4
  <2>4. CASE k > j + 1
    <3>1. g[k - 1].break = TRUE
      BY <1>1, <2>4
    <3>2. LoopBody(last, g, k) = g[k - 1]
      BY <2>4, <3>1 DEF LoopBody
    <3> QED
      BY <1>1, <2>4, <3>2
  <2> QED
    BY <1>1, <2>1, <2>2, <2>3, <2>4
<1>5. g = LoopOf(last, g)
  BY <1>4 DEF LoopOf
<1>6. g[n].default = Passive(passives[IF j < n THEN j + 1 ELSE j])
  BY <1>1
<1> HIDE DEF g
<1> QED
  BY <1>1, <1>3, <1>5, <1>6, NextDefaultIs

-----------------------------------------------------------------------------
(* No healthy system is passed over.  The attempt that GRUB remembers is   *)
(* under way, or it was cut short, or it was one at a system that fails.   *)

Excused(i) == health[i] # "good" \/ i \in cut

\* The remembered attempt is at a listed system ...
Listed == env.last = Active \/ \E k \in 1..Len(passives) : env.last = Passive(passives[k])

\* ... which has booted or is about to, and has not been found healthy yet.
UnderWay ==
  /\ machine # "off" /\ entry = env.last /\ health_check
  /\ machine = "up" => service # "off"
  /\ machine # "grub" => running = SnapshotOf(entry)

NoneSkipped ==
  \A k \in 1..Len(passives) : env.last = Passive(passives[k]) =>
    \A i \in {active} \cup {passives[j] : j \in 1..(k - 1)} : Excused(i)

Remembered ==
  (~stale /\ env.last # None) =>
    /\ Listed
    /\ UnderWay \/ Excused(SnapshotOf(env.last))
    /\ NoneSkipped

\* With strict hooks an upgrade has always made GRUB forget.
HookForgets ==
  /\ upgrade = "hook" => machine = "up" /\ (Strict => env.last = None)
  /\ Strict => ~stale

AttemptInv == AssessmentInv /\ Remembered /\ HookForgets

\* Where the list and the attempt stay, what excuses a system goes on to.
LEMMA SameAttempt ==
  ASSUME Remembered, UNCHANGED <<active, passives, health, stale>>, env'.last = env.last, cut \subseteq cut',
         UnderWay => UnderWay' \/ Excused(SnapshotOf(env.last))'
  PROVE  Remembered'
<1>1. \A i : Excused(i) => Excused(i)'
  BY DEF Excused
<1>2. SnapshotOf(env.last)' = SnapshotOf(env.last)
  BY DEF SnapshotOf
<1>3. Excused(SnapshotOf(env.last)) => Excused(SnapshotOf(env.last))'
  BY <1>2 DEF Excused
<1>4. NoneSkipped => NoneSkipped'
  BY <1>1 DEF NoneSkipped
<1>5. Listed => Listed'
  BY DEF Listed
<1> QED
  BY <1>3, <1>4, <1>5 DEF Remembered

\* A listed system is not recovery, and its health is that of its snapshot.
LEMMA ListedHealth ==
  ASSUME Listed
  PROVE  env.last # Recovery /\ HealthOf(env.last) = health[SnapshotOf(env.last)]
BY DEF Listed, HealthOf, Active, Passive, Recovery

\* The choice of the snippet, after an attempt that was lost.
LEMMA ChoiceSkipsNone ==
  ASSUME ListedOnce, Listed, NoneSkipped, Excused(SnapshotOf(env.last)),
         NEW d, d = NextDefault(env.last), d # None
  PROVE  \E k \in 1..Len(passives) :
           /\ d = Passive(passives[k])
           /\ \A i \in {active} \cup {passives[j] : j \in 1..(k - 1)} : Excused(i)
<1>1. Len(passives) \in Nat
  BY DEF ListedOnce
<1>2. CASE env.last = Active
  <2>1. passives # <<>>
    <3> SUFFICES ASSUME passives = <<>> PROVE FALSE
      OBVIOUS
    <3> DEFINE g == [k \in 0..Len(passives) |-> [default |-> None, done |-> FALSE, break |-> FALSE]]
    <3>1. Len(passives) = 0
      OBVIOUS
    <3>2. g = LoopOf(Active, g)
      BY <3>1 DEF LoopOf, LoopBody
    <3>3. g[Len(passives)].default = None
      BY <3>1
    <3>4. Active # None
      BY DEF Active, None
    <3> HIDE DEF g
    <3> QED
      BY <1>1, <1>2, <3>2, <3>3, <3>4, NextDefaultIs
  <2>2. d = Passive(passives[1]) /\ 1 \in 1..Len(passives)
    <3>1. Len(passives) = 0 => passives = <<>>
      BY DEF ListedOnce
    <3> QED
      BY <1>1, <1>2, <2>1, <3>1, AfterActive
  <2>3. Excused(active)
    BY <1>2 DEF SnapshotOf
  <2> QED
    BY <2>2, <2>3
<1>3. ASSUME NEW m \in 1..Len(passives), env.last = Passive(passives[m])
      PROVE  \E k \in 1..Len(passives) :
               /\ d = Passive(passives[k])
               /\ \A i \in {active} \cup {passives[j] : j \in 1..(k - 1)} : Excused(i)
  <2>1. \A i \in {active} \cup {passives[j] : j \in 1..(m - 1)} : Excused(i)
    BY <1>3 DEF NoneSkipped
  <2>2. Excused(passives[m])
    BY <1>3 DEF SnapshotOf, Passive, Active
  <2>3. d = Passive(passives[IF m < Len(passives) THEN m + 1 ELSE m])
    BY <1>3, AfterPassive
  <2>4. CASE m < Len(passives)
    <3>1. m + 1 \in 1..Len(passives) /\ d = Passive(passives[m + 1])
      BY <1>1, <2>3, <2>4
    <3>2. \A j \in 1..((m + 1) - 1) : j = m \/ j \in 1..(m - 1)
      BY <1>1
    <3>3. \A i \in {active} \cup {passives[j] : j \in 1..((m + 1) - 1)} : Excused(i)
      BY <2>1, <2>2, <3>2
    <3> QED
      BY <3>1, <3>3
  <2>5. CASE ~(m < Len(passives))
    BY <2>1, <2>3, <2>5
  <2> QED
    BY <2>4, <2>5
<1> QED
  BY <1>2, <1>3 DEF Listed

\* GRUB starts: it tries the next system, or leaves the attempt as it was.
LEMMA StartSkipsNone ==
  ASSUME AttemptInv, NEW pick, GrubStarts(pick)
  PROVE  Remembered'
<1> DEFINE assess  == Asked /\ env.next = None
           default == IF env.next # None THEN env.next
                      ELSE IF Asked THEN NextDefault(env.last) ELSE None
<1>1. /\ machine = "off" /\ machine' = "grub" /\ health_check' = Asked
      /\ UNCHANGED <<active, passives, health, stale>>
      /\ env'.last = IF assess THEN default ELSE env.last
      /\ entry' = CASE pick # None -> pick [] default # None -> default [] OTHER -> Active
      /\ cut' = IF pick # None /\ assess /\ default # None THEN cut \cup {SnapshotOf(default)} ELSE cut
  BY DEF GrubStarts, snapshots, AttemptInv, AssessmentInv, EnvIsRecord
<1>2. ~UnderWay /\ cut \subseteq cut'
  BY <1>1 DEF UnderWay
<1>3. CASE ~assess
  <2>1. env'.last = env.last
    BY <1>1, <1>3
  <2> QED
    BY <1>1, <1>2, <2>1, SameAttempt DEF AttemptInv
<1>4. CASE assess
  <2> SUFFICES ASSUME ~stale, default # None
               PROVE  Listed' /\ (UnderWay' \/ Excused(SnapshotOf(env.last))') /\ NoneSkipped'
    BY <1>1, <1>4 DEF Remembered
  <2>0. env'.last = default /\ default = NextDefault(env.last)
    BY <1>1, <1>4
  <2>1. UnderWay' \/ Excused(SnapshotOf(env.last))'
    <3>1. SnapshotOf(env.last)' = SnapshotOf(default)
      BY <1>1, <2>0 DEF SnapshotOf
    <3>2. CASE pick = None
      <4>1. entry' = default
        BY <1>1, <3>2
      <4> QED
        BY <1>1, <1>4, <2>0, <4>1 DEF UnderWay
    <3>3. CASE pick # None
      <4>1. SnapshotOf(default) \in cut'
        BY <1>1, <1>4, <3>3
      <4> QED
        BY <3>1, <4>1 DEF Excused
    <3> QED
      BY <3>2, <3>3
  <2>2. CASE env.last = None
    <3>1. default = Active
      BY <2>0, <2>2 DEF NextDefault
    <3>2. \A k \in 1..Len(passives) : Active # Passive(passives[k])
      BY DEF Active, Passive
    <3> QED
      BY <1>1, <2>0, <2>1, <3>1, <3>2 DEF Listed, NoneSkipped
  <2>3. CASE env.last # None
    <3>1. Listed /\ Excused(SnapshotOf(env.last)) /\ NoneSkipped /\ ListedOnce
      BY <1>2, <2>3 DEF AttemptInv, Remembered, AssessmentInv
    <3>2. PICK k \in 1..Len(passives) :
            /\ default = Passive(passives[k])
            /\ \A i \in {active} \cup {passives[j] : j \in 1..(k - 1)} : Excused(i)
      <4> HIDE DEF default
      <4> QED
        BY <2>0, <3>1, ChoiceSkipsNone
    <3>3. \A i : Excused(i) => Excused(i)'
      BY <1>1, <1>2 DEF Excused
    <3>4. \A m \in 1..Len(passives) : Passive(passives[m]) = Passive(passives[k]) => m = k
      BY <3>1 DEF ListedOnce, Passive
    <3>5. Listed'
      BY <1>1, <2>0, <3>2 DEF Listed
    <3>6. NoneSkipped'
      <4> HIDE DEF default
      <4> SUFFICES ASSUME NEW m \in 1..Len(passives), default = Passive(passives[m]),
                          NEW i \in {active} \cup {passives[j] : j \in 1..(m - 1)}
                   PROVE  Excused(i)'
        BY <1>1, <2>0 DEF NoneSkipped
      <4>1. m = k
        BY <3>2, <3>4
      <4> QED
        BY <3>2, <3>3, <4>1
    <3> QED
      BY <2>1, <3>5, <3>6
  <2> QED
    BY <2>2, <2>3
<1> QED
  BY <1>3, <1>4

\* Every other step keeps the attempt, excuses it or forgets it.
LEMMA AttemptNext == AttemptInv /\ [Next]_vars => AttemptInv'
<1> SUFFICES ASSUME AttemptInv, [Next]_vars PROVE Remembered' /\ HookForgets'
  BY AssessmentNext DEF AttemptInv
<1>0. Remembered /\ HookForgets /\ ServiceOnlyUp
  BY DEF AttemptInv, AssessmentInv
<1>1. ASSUME NEW pick, GrubStarts(pick)
      PROVE  Remembered' /\ HookForgets'
  <2>1. HookForgets'
    BY <1>0, <1>1 DEF GrubStarts, HookForgets
  <2> QED
    BY <1>1, <2>1, StartSkipsNone
<1>2. CASE GrubLoads
  <2>1. UNCHANGED <<active, passives, health, stale, env, cut, service, upgrade, health_check>>
    BY <1>2 DEF GrubLoads, snapshots
  <2>2. ASSUME UnderWay, ~stale, env.last # None PROVE UnderWay' \/ Excused(SnapshotOf(env.last))
    <3>1. HealthOf(entry) = health[SnapshotOf(env.last)]
      BY <1>0, <2>2, ListedHealth DEF Remembered, UnderWay
    <3>2. CASE HealthOf(entry) = "unloadable"
      BY <3>1, <3>2 DEF Excused
    <3>3. CASE HealthOf(entry) # "unloadable"
      <4>1. machine' = "boot" /\ running' = SnapshotOf(entry) /\ entry' = entry
        BY <1>2, <3>3 DEF GrubLoads
      <4>2. SnapshotOf(entry)' = SnapshotOf(entry)
        BY <2>1, <4>1 DEF SnapshotOf
      <4> QED
        BY <2>1, <2>2, <4>1, <4>2 DEF UnderWay
    <3> QED
      BY <3>2, <3>3
  <2>3. Excused(SnapshotOf(env.last)) => Excused(SnapshotOf(env.last))'
    BY <2>1 DEF Excused, SnapshotOf
  <2>4. Remembered'
    <3>1. CASE stale \/ env.last = None
      BY <2>1, <3>1 DEF Remembered
    <3>2. CASE ~stale /\ env.last # None
      BY <1>0, <2>1, <2>2, <2>3, <3>2, SameAttempt
    <3> QED
      BY <3>1, <3>2
  <2>5. HookForgets'
    BY <1>0, <1>2, <2>1 DEF HookForgets, GrubLoads
  <2> QED
    BY <2>4, <2>5
<1>3. CASE BootFails \/ AssessmentFails \/ UserReboots \/ Interrupted
  <2>1. GoesDown /\ UNCHANGED <<active, passives, health, stale, env>> /\ cut \subseteq cut'
    BY <1>3 DEF BootFails, AssessmentFails, UserReboots, Interrupted, snapshots
  <2>2. ASSUME UnderWay, ~stale, env.last # None PROVE Excused(SnapshotOf(env.last))'
    <3>0. SnapshotOf(env.last)' = SnapshotOf(env.last)
      BY <2>1 DEF SnapshotOf
    <3>1. HealthOf(entry) = health[SnapshotOf(env.last)] /\ entry = env.last
      BY <1>0, <2>2, ListedHealth DEF Remembered, UnderWay
    <3>2. CASE BootFails
      BY <2>1, <3>0, <3>1, <3>2 DEF BootFails, Excused
    <3>3. CASE AssessmentFails
      <4>1. machine = "up" /\ running = SnapshotOf(env.last)
        BY <1>0, <2>2, <3>1, <3>3 DEF AssessmentFails, ServiceOnlyUp, UnderWay
      <4> QED
        BY <2>1, <3>0, <3>3, <4>1 DEF AssessmentFails, Excused
    <3>4. CASE UserReboots
      BY <2>2, <3>4 DEF UserReboots, UnderWay
    <3>5. CASE Interrupted
      BY <3>0, <3>1, <3>5 DEF Interrupted, Excused
    <3> QED
      BY <1>3, <3>2, <3>3, <3>4, <3>5
  <2>3. Remembered'
    <3>1. CASE stale \/ env.last = None
      BY <2>1, <3>1 DEF Remembered
    <3>2. CASE ~stale /\ env.last # None
      BY <1>0, <2>1, <2>2, <3>2, SameAttempt
    <3> QED
      BY <3>1, <3>2
  <2>4. HookForgets'
    BY <1>0, <2>1 DEF HookForgets, GoesDown
  <2> QED
    BY <2>3, <2>4
<1>4. CASE BootEnds
  <2>1. /\ UNCHANGED <<active, passives, health, stale, env, cut, upgrade, health_check, entry, running>>
        /\ machine = "boot" /\ machine' = "up"
        /\ service' = IF health_check /\ entry # Recovery THEN "checks" ELSE "off"
    BY <1>4 DEF BootEnds, snapshots
  <2>2. ASSUME UnderWay, ~stale, env.last # None PROVE UnderWay'
    <3>1. entry # Recovery /\ health_check
      BY <1>0, <2>2, ListedHealth DEF Remembered, UnderWay
    <3>2. SnapshotOf(entry)' = SnapshotOf(entry)
      BY <2>1 DEF SnapshotOf
    <3> QED
      BY <2>1, <2>2, <3>1, <3>2 DEF UnderWay
  <2>3. Remembered'
    <3>1. CASE stale \/ env.last = None
      BY <2>1, <3>1 DEF Remembered
    <3>2. CASE ~stale /\ env.last # None
      BY <1>0, <2>1, <2>2, <3>2, SameAttempt
    <3> QED
      BY <3>1, <3>2
  <2>4. HookForgets'
    BY <1>0, <2>1 DEF HookForgets
  <2> QED
    BY <2>3, <2>4
<1>5. CASE AssessmentPasses \/ UpgradeFails \/ (\E k \in 1..Len(Menu) : SetNextEntry(Menu[k])) \/ UNCHANGED vars
  <2>1. /\ UNCHANGED <<active, passives, health, stale, cut, machine, entry, running, health_check>>
        /\ env'.last = env.last
        /\ service' = service \/ service' = "last"
        /\ upgrade' \in {upgrade, "no"}
    <3>1. CASE AssessmentPasses
      BY <3>1 DEF AssessmentPasses, snapshots, bootVars, AttemptInv, AssessmentInv, EnvIsRecord
    <3>2. CASE UpgradeFails \/ UNCHANGED vars
      BY <3>2 DEF UpgradeFails, vars, snapshots, bootVars
    <3>3. CASE \E k \in 1..Len(Menu) : SetNextEntry(Menu[k])
      BY <3>3 DEF SetNextEntry, snapshots, bootVars, AttemptInv, AssessmentInv, EnvIsRecord
    <3> QED
      BY <1>5, <3>1, <3>2, <3>3
  <2>2. UnderWay => UnderWay'
    BY <2>1 DEF UnderWay, SnapshotOf
  <2>3. Remembered'
    BY <1>0, <2>1, <2>2, SameAttempt
  <2>4. HookForgets'
    BY <1>0, <2>1 DEF HookForgets
  <2> QED
    BY <2>3, <2>4
<1>6. CASE ForgetAttempts
  <2>1. env'.last = None /\ stale' = FALSE /\ UNCHANGED <<machine, upgrade>>
    BY <1>6 DEF ForgetAttempts, bootVars, AttemptInv, AssessmentInv, EnvIsRecord
  <2> QED
    BY <1>0, <2>1 DEF Remembered, HookForgets
<1>7. CASE AfterUpgradeHook
  <2>1. /\ UNCHANGED <<active, passives, health, machine, entry, running, health_check, service>>
        /\ machine = "up"
    BY <1>7 DEF AfterUpgradeHook, snapshots, bootVars
  <2>2. CASE env' = [env EXCEPT !.check = TRUE, !.last = None] /\ stale' = FALSE
    <3>1. env'.last = None
      BY <2>2 DEF AttemptInv, AssessmentInv, EnvIsRecord
    <3> QED
      BY <2>1, <2>2, <3>1 DEF Remembered, HookForgets
  <2>3. CASE ~Strict /\ UNCHANGED <<env, cut, stale>>
    <3>1. UnderWay => UnderWay'
      BY <2>1, <2>3 DEF UnderWay, SnapshotOf
    <3>2. Remembered'
      BY <1>0, <2>1, <2>3, <3>1, SameAttempt
    <3> QED
      BY <2>1, <2>3, <3>2 DEF HookForgets
  <2> QED
    BY <1>7, <2>2, <2>3 DEF AfterUpgradeHook
<1>8. CASE UpgradeCommits
  <2>1. upgrade = "hook" /\ upgrade' = "no" /\ stale' = (stale \/ env.last # None) /\ env' = env
    BY <1>8 DEF UpgradeCommits
  <2>2. stale' \/ env'.last = None
    BY <2>1
  <2>3. Strict => ~stale'
    BY <1>0, <2>1 DEF HookForgets
  <2> QED
    BY <2>1, <2>2, <2>3 DEF Remembered, HookForgets
<1> QED
  BY <1>1, <1>2, <1>3, <1>4, <1>5, <1>6, <1>7, <1>8 DEF Next, MachineStep

\* For any number of snapshots, boots, power losses and upgrades, the attempts
\* pass over a healthy system only when the attempt at it was cut short.
THEOREM HealthyIsNotSkipped == Spec => []HealthyNotSkipped
<1>1. Init => AttemptInv
  <2>1. Init => Remembered /\ HookForgets
    BY DEF Init, Remembered, HookForgets
  <2> QED
    BY <2>1, AssessmentInit DEF AttemptInv
<1>2. AttemptInv => HealthyNotSkipped
  <2> SUFFICES ASSUME AttemptInv, Strict \/ ~stale,
                      NEW k \in 1..Len(passives), env.last = Passive(passives[k]),
                      NEW i \in {active} \cup {passives[j] : j \in 1..(k - 1)}
               PROVE  health[i] # "good" \/ i \in cut
    BY DEF HealthyNotSkipped
  <2>1. ~stale
    BY DEF AttemptInv, HookForgets
  <2>2. env.last # None
    BY DEF Passive, None
  <2> QED
    BY <2>1, <2>2 DEF AttemptInv, Remembered, NoneSkipped, Excused
<1> QED
  BY <1>1, <1>2, AttemptNext, PTL DEF Spec
=============================================================================

---------------------------- MODULE ActionProofs ----------------------------
(***************************************************************************)
(* What the proofs about install, upgrade and reset need to know of the    *)
(* snapshotter they drive: facts about its steps, for every MaxID and      *)
(* MaxSnaps.  They are weaker than those of LoopDeviceProofs, because an   *)
(* action may give up a transaction that was already closed, which the     *)
(* protocol of the snapshotter does not allow.                             *)
(***************************************************************************)
EXTENDS Action, FiniteSetTheorems, SequenceTheorems, WellFoundedInduction, TLAPS

-----------------------------------------------------------------------------
(* The operators that choose an ID.                                        *)

\* A nonempty set of snapshot IDs has an oldest one.
LEMMA OldestMember ==
  ASSUME NEW S \in SUBSET LD!SnapIDs, S # {}
  PROVE  LD!Oldest(S) \in S
<1>1. S \subseteq Nat
  BY ActionAssumption DEF LD!SnapIDs
<1>2. PICK x \in S : \A y \in S : ~ (<<y, x>> \in OpToRel(<, Nat))
  BY <1>1, NatLessThanWellFounded, WFMin
<1>3. ASSUME NEW y \in S PROVE x <= y
  <2>1. x \in Nat /\ y \in Nat
    BY <1>1
  <2>2. y < x => <<y, x>> \in OpToRel(<, Nat)
    BY <2>1 DEF OpToRel
  <2>3. ~ (y < x)
    BY <1>2, <2>2, Zenon
  <2> QED
    BY <2>1, <2>3
<1> QED
  BY <1>3, Zenon DEF LD!Oldest

\* The ID of a new snapshot is above every directory in use.
LEMMA NextIDFresh ==
  ASSUME NEW S \in SUBSET LD!SnapIDs
  PROVE  /\ LD!NextID(S) \in 1..(MaxID + 1)
         /\ \A i \in S : i < LD!NextID(S)
         /\ LD!NextID(S) = 1 \/ LD!NextID(S) - 1 \in S
<1> DEFINE T == {n \in 1..(MaxID + 1) : \A i \in S : i < n}
<1>1. T \subseteq Nat /\ T # {}
  <2>1. MaxID + 1 \in T
    BY ActionAssumption DEF LD!SnapIDs
  <2> QED
    BY <2>1, ActionAssumption
<1>2. PICK m \in T : \A y \in T : ~ (<<y, m>> \in OpToRel(<, Nat))
  BY <1>1, NatLessThanWellFounded, WFMin
<1>3. m \in 1..(MaxID + 1) /\ \A i \in S : i < m
  OBVIOUS
<1>4. m = 1 \/ m - 1 \in S
  <2>1. SUFFICES ASSUME m # 1, m - 1 \notin S PROVE FALSE
    OBVIOUS
  <2>2. m - 1 \in 1..(MaxID + 1) /\ m - 1 < m
    BY <1>3, <2>1, ActionAssumption
  <2>3. \A i \in S : i < m - 1
    BY <1>3, <2>1, ActionAssumption DEF LD!SnapIDs
  <2>4. m - 1 \in T
    BY <2>2, <2>3
  <2>5. <<m - 1, m>> \in OpToRel(<, Nat)
    BY <2>2, <2>4, <1>1 DEF OpToRel
  <2> QED
    BY <1>2, <2>4, <2>5
<1>5. \E n \in 1..(MaxID + 1) : (\A i \in S : i < n) /\ (n = 1 \/ n - 1 \in S)
  BY <1>3, <1>4
<1> QED
  BY <1>5, Zenon DEF LD!NextID

-----------------------------------------------------------------------------
(* The snapshotter's own invariant.                                        *)

\* Where a transaction has a snapshot.
TxPCs == {"mkdir", "mkwork", "bind", "open", "image", "sync", "rmwork", "unlink",
          "symlink", "restore", "rmsnap", "rmall", "clean", "delete", "rmold",
          "setboot", "setpassives", "setfallback", "cleanlegacy", "closed"}

\* Where its image is complete.
Imaged == {"rmwork", "unlink", "symlink", "clean", "delete", "rmold", "setboot",
           "setpassives", "setfallback", "cleanlegacy", "closed"}

HasID == /\ pc \in TxPCs => snapshot.ID # 0
         /\ pc = "rmold" => doomed # {}
         /\ snapshot # LD!NoSnapshot => snapshot.ID # 0

\* Clean up does not come to the new snapshot.
Spared == /\ pc \notin {"delete", "rmold"} => doomed = {}
          /\ pc = "clean" => activeLink = snapshot.ID
          /\ snapshot.ID \notin doomed

LDInv == /\ LD!Typed
         /\ HasID
         /\ pc \in Imaged => LD!Complete(snapshot.ID)
         /\ pc = "off" => ~legacyClean
         /\ Spared

\* What the queries return.
LEMMA QueryTypes ==
  ASSUME LD!Typed
  PROVE  /\ LD!GetSnapshots \in SUBSET LD!SnapIDs
         /\ LD!getActiveSnapshot \in LD!SnapIDs \cup {0, -1}
         /\ LD!getPassiveSnapshots \in SUBSET LD!SnapIDs
         /\ \A b \in LD!BootChoices : b \in [mode : {"live", "active", "passive", "recovery"},
                                            id : LD!SnapIDs \cup {0}]
         /\ \A i \in LD!SnapIDs : \A r \in LD!Residues(snaps[i]) : r \in SUBSET LD!Parts
         /\ 0 \notin LD!SnapIDs /\ -1 \notin LD!SnapIDs
<1>1. LD!GetSnapshots \in SUBSET LD!SnapIDs /\ LD!getPassiveSnapshots \in SUBSET LD!SnapIDs
  BY DEF LD!GetSnapshots, LD!getPassiveSnapshots
<1>2. LD!getActiveSnapshot \in LD!SnapIDs \cup {0, -1}
  BY DEF LD!getActiveSnapshot
<1>3. \A b \in LD!BootChoices : b \in [mode : {"live", "active", "passive", "recovery"},
                                      id : LD!SnapIDs \cup {0}]
  BY DEF LD!BootChoices
<1>4. \A i \in LD!SnapIDs : \A r \in LD!Residues(snaps[i]) : r \in SUBSET LD!Parts
  BY DEF LD!Typed, LD!Residues
<1>5. 0 \notin LD!SnapIDs /\ -1 \notin LD!SnapIDs
  BY ActionAssumption DEF LD!SnapIDs
<1> QED
  BY <1>1, <1>2, <1>3, <1>4, <1>5

\* The first states.
LEMMA LDInvInit == LD!Init => LDInv
<1> SUFFICES ASSUME LD!Init PROVE LDInv
  OBVIOUS
<1>1. LD!Typed
  <2>1. booted \in [mode : {"live", "active", "passive", "recovery"}, id : LD!SnapIDs \cup {0}]
    BY DEF LD!Init, LD!BootChoices
  <2>2. snaps \in [LD!SnapIDs -> SUBSET LD!Parts]
    BY DEF LD!Init, LD!Parts
  <2>3. activeLink \in LD!SnapIDs \cup {LD!NoLink, 0}
    BY ActionAssumption DEF LD!Init, LD!SnapIDs
  <2> QED
    BY <2>1, <2>2, <2>3 DEF LD!Init, LD!Typed, LD!Calls, LD!NoSnapshot
<1>2. HasID /\ Spared /\ pc \notin Imaged /\ ~legacyClean
  BY DEF LD!Init, HasID, Spared, Imaged, TxPCs, LD!NoSnapshot
<1> QED
  BY <1>1, <1>2 DEF LDInv

\* The steps that work on the new snapshot.
LEMMA FillNext ==
  ASSUME LDInv,
         LD!MkSnapDir \/ LD!MkWorkDir \/ LD!BindMount \/ LD!StartFails \/ LD!RemoveSnapshotDir
           \/ LD!RemoveSnapshotsPath \/ LD!CreateImage \/ LD!SyncImage \/ LD!RemoveWorkDir
           \/ LD!RemoveActiveLink \/ LD!SymlinkActive \/ LD!SymlinkRestore \/ LD!CloseFails
  PROVE  LDInv'
<1> USE QueryTypes DEF LDInv, LD!Typed, HasID, Spared, TxPCs, Imaged, LD!Steps, LD!Calls, LD!Complete
<1>1. CASE LD!MkSnapDir
  BY <1>1 DEF LD!MkSnapDir, LD!object, LD!Parts
<1>2. CASE LD!MkWorkDir
  BY <1>2 DEF LD!MkWorkDir, LD!object, LD!Parts
<1>3. CASE LD!BindMount
  BY <1>3 DEF LD!BindMount, LD!disk, LD!NoSnapshot
<1>4. CASE LD!StartFails
  BY <1>4 DEF LD!StartFails, LD!NoSnapshot
<1>5. CASE LD!RemoveSnapshotDir
  BY <1>5 DEF LD!RemoveSnapshotDir, LD!object
<1>6. CASE LD!RemoveSnapshotsPath
  BY <1>6 DEF LD!RemoveSnapshotsPath, LD!object, LD!Parts
<1>7. CASE LD!CreateImage
  BY <1>7 DEF LD!CreateImage, LD!object, LD!Parts
<1>8. CASE LD!SyncImage
  BY <1>8 DEF LD!SyncImage, LD!object, LD!Parts
<1>9. CASE LD!RemoveWorkDir
  BY <1>9 DEF LD!RemoveWorkDir, LD!object, LD!Parts
<1>10. CASE LD!RemoveActiveLink
  BY <1>10 DEF LD!RemoveActiveLink, LD!object
<1>11. CASE LD!SymlinkActive
  BY <1>11 DEF LD!SymlinkActive, LD!object
<1>12. CASE LD!SymlinkRestore
  BY <1>12 DEF LD!SymlinkRestore, LD!object
<1>13. CASE LD!CloseFails
  BY <1>13 DEF LD!CloseFails, LD!disk, LD!object
<1> QED
  BY <1>1, <1>2, <1>3, <1>4, <1>5, <1>6, <1>7, <1>8, <1>9, <1>10, <1>11, <1>12, <1>13

\* The steps before and after them.
LEMMA LDInvStep == ASSUME LDInv, LD!SnapshotterStep PROVE LDInv'
<1> USE QueryTypes DEF LDInv, LD!Typed, HasID, Spared, TxPCs, Imaged, LD!Steps, LD!Calls, LD!Complete
<1>1. CASE LD!InitSnapshotter
  BY <1>1 DEF LD!InitSnapshotter, LD!disk
<1>2. CASE LD!LegacyImageToSnapshot
  BY <1>2, ActionAssumption DEF LD!LegacyImageToSnapshot, LD!Parts, LD!SnapIDs
<1>3. CASE LD!LinkLegacyImage
  BY <1>3 DEF LD!LinkLegacyImage, LD!object, LD!Parts
<1>4. CASE LD!CleanOldSnapshots
  <2>1. snapshot.ID \in LD!SnapIDs /\ activeLink = snapshot.ID /\ LD!Complete(snapshot.ID)
    BY <1>4 DEF LD!CleanOldSnapshots
  <2>2. LD!getActiveSnapshot = snapshot.ID
    BY <2>1 DEF LD!getActiveSnapshot, LD!NoLink
  <2>3. /\ LD!Doomed(LD!getPassiveSnapshots) \subseteq LD!SnapIDs
        /\ snapshot.ID \notin LD!Doomed(LD!getPassiveSnapshots)
    BY <2>2 DEF LD!Doomed, LD!getPassiveSnapshots
  <2>4. /\ doomed' \subseteq LD!SnapIDs /\ snapshot.ID \notin doomed'
        /\ logged' \subseteq {"clean", "env"} /\ pc' \in {"delete", "setboot"}
        /\ pc' = "setboot" => doomed' = {}
    BY <1>4, <2>3 DEF LD!CleanOldSnapshots
  <2>5. UNCHANGED <<snaps, activeLink, legacy, booted, snapshot, currentSnapshotID, activeSnapshotID, legacyClean>>
    BY <1>4 DEF LD!CleanOldSnapshots, LD!disk, LD!object
  <2> QED
    BY <1>4, <2>1, <2>4, <2>5
<1>5. CASE LD!DeleteSnapshot
  BY <1>5, ZenonT(30) DEF LD!DeleteSnapshot, LD!object
<1>6. CASE LD!RemoveOldSnapshot
  <2>1. LD!Oldest(doomed) \in doomed /\ LD!Oldest(doomed) \in LD!SnapIDs
    BY <1>6, OldestMember DEF LD!RemoveOldSnapshot
  <2>2. LD!Oldest(doomed) # snapshot.ID
    BY <2>1
  <2> QED
    BY <1>6, <2>1, <2>2 DEF LD!RemoveOldSnapshot, LD!object
<1>7. CASE LD!CleanDone
  BY <1>7 DEF LD!CleanDone, LD!disk, LD!object
<1>8. CASE LD!SetPassives
  BY <1>8 DEF LD!SetPassives, LD!object
<1>9. CASE LD!SetFallback
  BY <1>9 DEF LD!SetFallback, LD!object
<1>10. CASE LD!SetBootloaderFails
  BY <1>10 DEF LD!SetBootloaderFails, LD!disk, LD!object
<1>11. CASE LD!CleanLegacyImages
  BY <1>11, ZenonT(40) DEF LD!CleanLegacyImages, LD!NoSnapshot, LD!LegacyLeftovers
<1> QED
  BY <1>1, <1>2, <1>3, <1>4, <1>5, <1>6, <1>7, <1>8, <1>9, <1>10, <1>11, FillNext DEF LD!SnapshotterStep

-----------------------------------------------------------------------------
(* Where a call to the snapshotter may be.                                 *)

InitPCs  == {"init", "migrate", "link", "ready", "failed"}
StartPCs == {"mkdir", "mkwork", "bind", "open", "failed"}
ClosePCs == {"image", "sync", "rmwork", "unlink", "symlink", "restore", "clean", "delete",
             "rmold", "setboot", "setpassives", "setfallback", "cleanlegacy", "rmsnap", "rmall",
             "closed", "failed"}
AbortPCs == {"rmsnap", "rmall", "failed"}

\* A step of the snapshotter is a step of the call at hand; it leaves the
\* running system alone, and Close does not change the ID of its transaction.
LEMMA StepFrame ==
  ASSUME LD!Typed, LD!SnapshotterStep
  PROVE  /\ booted' = booted
         /\ pc \in LD!Steps
         /\ pc \in InitPCs => pc' \in InitPCs /\ snapshot' = snapshot
         /\ pc \in StartPCs => pc' \in StartPCs
         /\ pc \in ClosePCs => pc' \in ClosePCs /\ snapshot'.ID = snapshot.ID
         /\ pc \in AbortPCs => pc' \in AbortPCs
<1> USE DEF LD!Typed, LD!Steps, InitPCs, StartPCs, ClosePCs, AbortPCs
<1>1. CASE LD!InitSnapshotter
  BY <1>1 DEF LD!InitSnapshotter
<1>2. CASE LD!LegacyImageToSnapshot
  BY <1>2 DEF LD!LegacyImageToSnapshot
<1>3. CASE LD!LinkLegacyImage
  BY <1>3 DEF LD!LinkLegacyImage, LD!object
<1>4. CASE LD!MkSnapDir
  BY <1>4 DEF LD!MkSnapDir, LD!object
<1>5. CASE LD!MkWorkDir
  BY <1>5 DEF LD!MkWorkDir, LD!object
<1>6. CASE LD!BindMount
  BY <1>6 DEF LD!BindMount
<1>7. CASE LD!StartFails
  BY <1>7 DEF LD!StartFails
<1>8. CASE LD!RemoveSnapshotDir
  BY <1>8 DEF LD!RemoveSnapshotDir, LD!object
<1>9. CASE LD!RemoveSnapshotsPath
  BY <1>9 DEF LD!RemoveSnapshotsPath, LD!object
<1>10. CASE LD!CreateImage
  BY <1>10 DEF LD!CreateImage, LD!object
<1>11. CASE LD!SyncImage
  BY <1>11 DEF LD!SyncImage, LD!object
<1>12. CASE LD!RemoveWorkDir
  BY <1>12 DEF LD!RemoveWorkDir, LD!object
<1>13. CASE LD!RemoveActiveLink
  BY <1>13 DEF LD!RemoveActiveLink, LD!object
<1>14. CASE LD!SymlinkActive
  BY <1>14 DEF LD!SymlinkActive, LD!object
<1>15. CASE LD!SymlinkRestore
  BY <1>15 DEF LD!SymlinkRestore, LD!object
<1>16. CASE LD!CleanOldSnapshots
  BY <1>16 DEF LD!CleanOldSnapshots, LD!object
<1>17. CASE LD!DeleteSnapshot
  BY <1>17 DEF LD!DeleteSnapshot, LD!object
<1>18. CASE LD!RemoveOldSnapshot
  BY <1>18 DEF LD!RemoveOldSnapshot, LD!object
<1>19. CASE LD!CleanDone
  BY <1>19 DEF LD!CleanDone, LD!object
<1>20. CASE LD!SetPassives
  BY <1>20 DEF LD!SetPassives, LD!object
<1>21. CASE LD!SetFallback
  BY <1>21 DEF LD!SetFallback, LD!object
<1>22. CASE LD!SetBootloaderFails
  BY <1>22 DEF LD!SetBootloaderFails, LD!object
<1>23. CASE LD!CleanLegacyImages
  BY <1>23 DEF LD!CleanLegacyImages
<1>24. CASE LD!CloseFails
  BY <1>24 DEF LD!CloseFails, LD!object
<1> QED
  BY <1>1, <1>2, <1>3, <1>4, <1>5, <1>6, <1>7, <1>8, <1>9, <1>10, <1>11, <1>12, <1>13, <1>14,
     <1>15, <1>16, <1>17, <1>18, <1>19, <1>20, <1>21, <1>22, <1>23, <1>24 DEF LD!SnapshotterStep

-----------------------------------------------------------------------------
(* The calls.                                                              *)

\* A new transaction works on a directory that was not there.
LEMMA StartFresh ==
  ASSUME LDInv, LD!StartTransaction
  PROVE  /\ LDInv'
         /\ UNCHANGED <<ldDisk, booted, legacyClean>>
         /\ pc' \in {"mkdir", "failed"}
         /\ pc' = "mkdir" => snapshot'.ID \in LD!SnapIDs /\ snapshot'.ID \notin LD!GetSnapshots
         /\ pc' = "failed" => snapshot' = snapshot
<1> DEFINE id == LD!NextID(LD!GetSnapshots)
<1>1. LD!GetSnapshots \in SUBSET LD!SnapIDs /\ LD!getActiveSnapshot \in LD!SnapIDs \cup {0, -1}
      /\ 0 \notin LD!SnapIDs
  BY QueryTypes DEF LDInv
<1>2. id \in 1..(MaxID + 1) /\ \A i \in LD!GetSnapshots : i < id
  BY <1>1, NextIDFresh
<1>3. id \in LD!SnapIDs
  BY <1>2, ActionAssumption DEF LD!StartTransaction, LD!SnapIDs
<1>4. id \notin LD!GetSnapshots
  BY <1>2, <1>3, ActionAssumption DEF LD!SnapIDs
<1> HIDE DEF id
<1>5. /\ pc = "ready" /\ pc' \in {"mkdir", "failed"}
      /\ pc' = "mkdir" => /\ snapshot' = [ID |-> id, InProgress |-> FALSE]
                          /\ LD!getActiveSnapshot # -1 /\ activeSnapshotID' = LD!getActiveSnapshot
      /\ pc' = "failed" => UNCHANGED <<snapshot, activeSnapshotID>>
      /\ currentSnapshotID' \in {booted.id, currentSnapshotID}
      /\ UNCHANGED <<snaps, activeLink, legacy, bootEnv, booted, legacyClean, doomed, logged>>
  BY DEF LD!StartTransaction, LD!disk, id
<1>6. snapshot' \in [ID : LD!SnapIDs \cup {0}, InProgress : BOOLEAN] /\ (snapshot' # LD!NoSnapshot => snapshot'.ID # 0)
  <2>1. CASE pc' = "mkdir"
    <3>1. snapshot' = [ID |-> id, InProgress |-> FALSE]
      BY <1>5, <2>1
    <3>2. id \in LD!SnapIDs \cup {0} /\ id # 0
      BY <1>1, <1>3
    <3> QED
      BY <3>1, <3>2
  <2>2. CASE pc' = "failed"
    BY <1>5, <2>2 DEF LDInv, LD!Typed, HasID
  <2> QED
    BY <1>5, <2>1, <2>2
<1>7. activeSnapshotID' \in LD!SnapIDs \cup {0} /\ currentSnapshotID' \in LD!SnapIDs \cup {0}
  BY <1>1, <1>5 DEF LDInv, LD!Typed
<1>8. LD!Typed'
  BY <1>5, <1>6, <1>7 DEF LDInv, LD!Typed, LD!Steps, LD!Calls
<1>9. HasID' /\ Spared' /\ pc' \notin Imaged
  BY <1>1, <1>3, <1>5, <1>6 DEF LDInv, HasID, Spared, Imaged, TxPCs
<1> QED
  BY <1>3, <1>4, <1>5, <1>8, <1>9 DEF LDInv, ldDisk

\* The other calls, and what the process leaves when it is gone.
LEMMA CallKeeps ==
  ASSUME LDInv
  PROVE  /\ LD!NewLoopDeviceSnapshotter => LDInv'
         /\ LD!CloseTransaction \/ LD!CloseTransactionOnError => LDInv'
         /\ (/\ LD!ProcessGone
             /\ UNCHANGED <<snaps, activeLink, legacy>>
             /\ booted' \in [mode : {"live", "active", "passive", "recovery"}, id : LD!SnapIDs \cup {0}])
              => LDInv'
         /\ (pc \notin LD!Steps /\ snapshot.ID # 0 /\ pc' = "rmsnap" /\ UNCHANGED ldRest) => LDInv'
         /\ UNCHANGED ldVars => LDInv'
<1> USE DEF LDInv, LD!Typed, HasID, Spared, Imaged, TxPCs, LD!Steps, LD!Calls, LD!Complete
<1>1. LD!NewLoopDeviceSnapshotter => LDInv'
  BY DEF LD!NewLoopDeviceSnapshotter, LD!disk, LD!object
<1>2. LD!CloseTransaction => LDInv'
  BY DEF LD!CloseTransaction, LD!disk, LD!object, LD!NoSnapshot
<1>3. LD!CloseTransactionOnError => LDInv'
  BY DEF LD!CloseTransactionOnError, LD!disk, LD!object
<1>4. ASSUME LD!ProcessGone, UNCHANGED <<snaps, activeLink, legacy>>,
             booted' \in [mode : {"live", "active", "passive", "recovery"}, id : LD!SnapIDs \cup {0}]
      PROVE  LDInv'
  BY <1>4 DEF LD!ProcessGone, LD!NoSnapshot
<1>5. (pc \notin LD!Steps /\ snapshot.ID # 0 /\ pc' = "rmsnap" /\ UNCHANGED ldRest) => LDInv'
  BY DEF ldRest, ldDisk
<1>6. UNCHANGED ldVars => LDInv'
  BY DEF ldVars, ldRest, ldDisk
<1> QED
  BY <1>1, <1>2, <1>3, <1>4, <1>5, <1>6

-----------------------------------------------------------------------------
(* The snapshot the system runs from, where no legacy deployment is left.  *)

\* It is complete, and not the one of the transaction.
Apart == /\ legacy = {} /\ ~legacyClean /\ pc \notin {"migrate", "link", "rmall"}
         /\ booted.id # 0 => LD!Complete(booted.id)
         /\ snapshot.ID # 0 => snapshot.ID # booted.id
         /\ pc = "rmold" => LD!Oldest(doomed) # booted.id

BootedSame == booted.id # 0 => snaps'[booted.id] = snaps[booted.id]

\* No step of the snapshotter touches it.
LEMMA ApartStep ==
  ASSUME LDInv, Apart, LD!SnapshotterStep
  PROVE  Apart' /\ BootedSame
<1>0. booted' = booted /\ booted.id \in LD!SnapIDs \cup {0} /\ 0 \notin LD!SnapIDs
  BY StepFrame, QueryTypes DEF LDInv, LD!Typed
<1> USE <1>0 DEF LDInv, LD!Typed, HasID, TxPCs, Apart, BootedSame, LD!Complete
<1>1. CASE LD!InitSnapshotter
  BY <1>1 DEF LD!InitSnapshotter, LD!disk
<1>2. CASE LD!MkSnapDir
  BY <1>2 DEF LD!MkSnapDir, LD!object
<1>3. CASE LD!MkWorkDir
  BY <1>3 DEF LD!MkWorkDir, LD!object
<1>4. CASE LD!BindMount
  BY <1>4 DEF LD!BindMount, LD!disk
<1>5. CASE LD!StartFails
  BY <1>5 DEF LD!StartFails, LD!NoSnapshot
<1>6. CASE LD!RemoveSnapshotDir
  BY <1>6 DEF LD!RemoveSnapshotDir, LD!object
<1>7. CASE LD!CreateImage
  BY <1>7 DEF LD!CreateImage, LD!object
<1>8. CASE LD!SyncImage
  BY <1>8 DEF LD!SyncImage, LD!object
<1>9. CASE LD!RemoveWorkDir
  BY <1>9 DEF LD!RemoveWorkDir, LD!object
<1>10. CASE LD!RemoveActiveLink \/ LD!SymlinkActive \/ LD!SymlinkRestore
  BY <1>10 DEF LD!RemoveActiveLink, LD!SymlinkActive, LD!SymlinkRestore, LD!object
<1>11. CASE LD!CleanOldSnapshots
  BY <1>11 DEF LD!CleanOldSnapshots, LD!disk, LD!object
<1>12. CASE LD!DeleteSnapshot
  BY <1>12 DEF LD!DeleteSnapshot, LD!object, LD!isSnapshotInUse
<1>13. CASE LD!RemoveOldSnapshot
  <2>1. LD!Oldest(doomed) \in LD!SnapIDs /\ LD!Oldest(doomed) # booted.id
    BY <1>13, OldestMember DEF LD!RemoveOldSnapshot
  <2> QED
    BY <1>13, <2>1 DEF LD!RemoveOldSnapshot, LD!object
<1>14. CASE LD!CleanDone \/ LD!SetBootloaderFails \/ LD!CloseFails
  BY <1>14 DEF LD!CleanDone, LD!SetBootloaderFails, LD!CloseFails, LD!disk, LD!object
<1>15. CASE LD!SetPassives \/ LD!SetFallback
  BY <1>15 DEF LD!SetPassives, LD!SetFallback, LD!object
<1>16. CASE LD!CleanLegacyImages
  BY <1>16 DEF LD!CleanLegacyImages
<1>17. ~ (LD!LegacyImageToSnapshot \/ LD!LinkLegacyImage \/ LD!RemoveSnapshotsPath)
  BY DEF LD!LegacyImageToSnapshot, LD!LinkLegacyImage, LD!RemoveSnapshotsPath
<1> QED
  BY <1>1, <1>2, <1>3, <1>4, <1>5, <1>6, <1>7, <1>8, <1>9, <1>10, <1>11, <1>12, <1>13, <1>14,
     <1>15, <1>16, <1>17 DEF LD!SnapshotterStep

\* Nor does a call, and the system that comes up after a reboot is complete.
LEMMA ApartCall ==
  ASSUME LDInv, Apart
  PROVE  /\ LD!NewLoopDeviceSnapshotter => Apart' /\ BootedSame
         /\ LD!StartTransaction => Apart' /\ BootedSame
         /\ LD!CloseTransaction \/ LD!CloseTransactionOnError => Apart' /\ BootedSame
         /\ LD!Exit => Apart' /\ BootedSame
         /\ LD!Reboot => Apart'
         /\ (pc' = "rmsnap" /\ UNCHANGED ldRest) => Apart' /\ BootedSame
         /\ UNCHANGED ldVars => Apart' /\ BootedSame
<1>1. LD!NewLoopDeviceSnapshotter => Apart' /\ BootedSame
  BY DEF LD!NewLoopDeviceSnapshotter, LD!disk, LD!object, Apart, BootedSame, LD!Complete
<1>2. ASSUME LD!StartTransaction PROVE Apart' /\ BootedSame
  <2>1. /\ UNCHANGED <<snaps, legacy, booted, legacyClean>>
        /\ pc' \in {"mkdir", "failed"}
        /\ pc' = "mkdir" => snapshot'.ID \in LD!SnapIDs /\ snapshot'.ID \notin LD!GetSnapshots
        /\ pc' = "failed" => snapshot' = snapshot
    BY <1>2, StartFresh DEF ldDisk
  <2>2. booted.id # 0 => booted.id \in LD!GetSnapshots
    BY DEF Apart, LDInv, LD!Typed, LD!GetSnapshots, LD!Complete
  <2> QED
    BY <2>1, <2>2 DEF Apart, BootedSame, LD!Complete
<1>3. LD!CloseTransaction \/ LD!CloseTransactionOnError => Apart' /\ BootedSame
  BY DEF LD!CloseTransaction, LD!CloseTransactionOnError, LD!disk, LD!object, Apart, BootedSame, LD!Complete
<1>4. LD!Exit => Apart' /\ BootedSame
  BY DEF LD!Exit, LD!ProcessGone, LD!NoSnapshot, LD!disk, Apart, BootedSame, LD!Complete
<1>5. ASSUME LD!Reboot PROVE Apart'
  <2>1. \A b \in LD!BootChoices : b.id # 0 => LD!Complete(b.id)
    BY DEF LD!BootChoices
  <2>2. booted' \in LD!BootChoices /\ snaps' = snaps
    BY <1>5 DEF LD!Reboot, LD!disk
  <2>3. booted'.id # 0 => LD!Complete(booted'.id)
    BY <2>1, <2>2
  <2> QED
    BY <1>5, <2>2, <2>3 DEF LD!Reboot, LD!ProcessGone, LD!NoSnapshot, LD!disk, Apart, LD!Complete
<1>6. (pc' = "rmsnap" /\ UNCHANGED ldRest) => Apart' /\ BootedSame
  BY DEF ldRest, ldDisk, Apart, BootedSame, LD!Complete
<1>7. UNCHANGED ldVars => Apart' /\ BootedSame
  BY DEF ldVars, ldRest, ldDisk, Apart, BootedSame, LD!Complete
<1> QED
  BY <1>1, <1>2, <1>3, <1>4, <1>5, <1>6, <1>7

-----------------------------------------------------------------------------
(* The stack.                                                              *)

\* Pop leaves the jobs below as they are.
LEMMA PopTop ==
  ASSUME NEW S, jobs \in Seq(S), jobs # <<>>
  PROVE  /\ Len(jobs) \in Nat \ {0}
         /\ RemoveAt(jobs, Top) \in Seq(S)
         /\ Len(RemoveAt(jobs, Top)) = Len(jobs) - 1
         /\ \A i \in 1..(Len(jobs) - 1) : RemoveAt(jobs, Top)[i] = jobs[i]
<1>1. Len(jobs) \in Nat \ {0} /\ \A i \in 1..Len(jobs) : jobs[i] \in S
  BY EmptySeq, LenProperties
<1>2. SubSeq(jobs, Len(jobs) + 1, Len(jobs)) = <<>>
  BY <1>1, SubSeqEmpty
<1>3. /\ SubSeq(jobs, 1, Len(jobs) - 1) \in Seq(S)
      /\ Len(SubSeq(jobs, 1, Len(jobs) - 1)) = Len(jobs) - 1
      /\ \A i \in 1..(Len(jobs) - 1) : SubSeq(jobs, 1, Len(jobs) - 1)[i] = jobs[i]
  <2>1. \A i \in 1..(Len(jobs) - 1) : jobs[i] \in S
    BY <1>1
  <2>2. /\ SubSeq(jobs, 1, Len(jobs) - 1) \in Seq(S)
        /\ Len(SubSeq(jobs, 1, Len(jobs) - 1))
             = IF 1 <= Len(jobs) - 1 THEN (Len(jobs) - 1) - 1 + 1 ELSE 0
        /\ \A i \in 1..((Len(jobs) - 1) - 1 + 1) : SubSeq(jobs, 1, Len(jobs) - 1)[i] = jobs[1 + i - 1]
    BY <1>1, <2>1, SubSeqProperties
  <2>3. \A i \in 1..(Len(jobs) - 1) : SubSeq(jobs, 1, Len(jobs) - 1)[i] = jobs[i]
    <3> TAKE i \in 1..(Len(jobs) - 1)
    <3>1. 1 + i - 1 = i /\ i \in 1..((Len(jobs) - 1) - 1 + 1)
      BY <1>1
    <3>2. SubSeq(jobs, 1, Len(jobs) - 1)[i] = jobs[1 + i - 1]
      BY <2>2, <3>1
    <3> QED
      BY <3>1, <3>2
  <2>4. Len(SubSeq(jobs, 1, Len(jobs) - 1)) = Len(jobs) - 1
    <3>1. CASE 1 <= Len(jobs) - 1
      BY <1>1, <2>2, <3>1
    <3>2. CASE ~ (1 <= Len(jobs) - 1)
      <4>1. Len(SubSeq(jobs, 1, Len(jobs) - 1)) = 0
        BY <2>2, <3>2, Zenon
      <4>2. Len(jobs) \in Nat \ {0}
        BY <1>1
      <4>3. \A n \in Nat \ {0} : ~ (1 <= n - 1) => 0 = n - 1
        OBVIOUS
      <4> QED
        BY <3>2, <4>1, <4>2, <4>3, Zenon
    <3> QED
      BY <3>1, <3>2
  <2> QED
    BY <2>2, <2>3, <2>4
<1>4. RemoveAt(jobs, Top) = SubSeq(jobs, 1, Len(jobs) - 1)
  BY <1>2, <1>3, ConcatEmptySeq DEF RemoveAt, Top
<1> QED
  BY <1>1, <1>3, <1>4
=============================================================================

-------------------------- MODULE LoopDeviceProofs --------------------------
(***************************************************************************)
(* Proofs about the loop device snapshotter, for every MaxID, MaxSnaps and *)
(* FirstID.  For disks without a legacy deployment: the active link never  *)
(* dangles, the running snapshot is never touched, and the snapshotter     *)
(* implements SnapshotStore.  For any disk: the types, and what a closed   *)
(* transaction leaves: the number of snapshots, the boot menu, the old     *)
(* active system, and a legacy image that is in use.                       *)
(***************************************************************************)
EXTENDS LoopDevice, FiniteSetTheorems, SequenceTheorems, WellFoundedInduction, TLAPS

-----------------------------------------------------------------------------
(* The operators that choose an ID.                                        *)

\* A nonempty set of natural numbers has a least element.
LEMMA LeastNat ==
  ASSUME NEW T \in SUBSET Nat, T # {}
  PROVE  \E m \in T : \A y \in T : m <= y
<1>1. PICK m \in T : \A y \in T : ~ (<<y, m>> \in OpToRel(<, Nat))
  BY NatLessThanWellFounded, WFMin
<1>2. ASSUME NEW y \in T PROVE m <= y
  <2>1. y < m => <<y, m>> \in OpToRel(<, Nat)
    BY DEF OpToRel
  <2>2. ~ (y < m)
    BY <1>1, <2>1, Zenon
  <2> QED BY <2>2
<1> QED BY <1>2

\* A nonempty set of snapshot IDs has an oldest one.
LEMMA OldestMember ==
  ASSUME NEW S \in SUBSET SnapIDs, S # {}
  PROVE  Oldest(S) \in S /\ \A j \in S : Oldest(S) <= j
<1>1. S \in SUBSET Nat
  BY ConstantsAssumption DEF SnapIDs
<1> QED
  BY <1>1, LeastNat, Zenon DEF Oldest

\* The ID of a new snapshot is above every directory in use.
LEMMA NextIDFresh ==
  ASSUME NEW S \in SUBSET SnapIDs
  PROVE  /\ NextID(S) \in 1..(MaxID + 1)
         /\ \A i \in S : i < NextID(S)
<1> DEFINE T == {n \in 1..(MaxID + 1) : \A i \in S : i < n}
<1>1. T \in SUBSET Nat /\ T # {}
  <2>1. MaxID + 1 \in T
    BY ConstantsAssumption DEF SnapIDs
  <2> QED BY <2>1, ConstantsAssumption
<1>2. PICK m \in T : \A y \in T : m <= y
  BY <1>1, LeastNat
<1>3. m \in 1..(MaxID + 1) /\ \A i \in S : i < m
  OBVIOUS
<1>4. m = 1 \/ m - 1 \in S
  <2>1. SUFFICES ASSUME m # 1, m - 1 \notin S PROVE FALSE
    OBVIOUS
  <2>2. m - 1 \in 1..(MaxID + 1) /\ m - 1 < m
    BY <1>3, <2>1, ConstantsAssumption
  <2>3. \A i \in S : i < m - 1
    BY <1>3, <2>1, ConstantsAssumption DEF SnapIDs
  <2>4. m - 1 \in T
    BY <2>2, <2>3
  <2>5. m - 1 \in Int /\ m \in Int /\ m <= m - 1
    BY <1>2, <1>3, <2>2, <2>4, ConstantsAssumption
  <2> QED BY <2>5
<1>5. \E n \in 1..(MaxID + 1) : (\A i \in S : i < n) /\ (n = 1 \/ n - 1 \in S)
  BY <1>3, <1>4
<1> QED
  BY <1>5, Zenon DEF NextID

-----------------------------------------------------------------------------
(* Type correctness.                                                       *)

\* What the queries return.
LEMMA QueryTypes ==
  ASSUME Typed
  PROVE  /\ GetSnapshots \in SUBSET SnapIDs
         /\ getActiveSnapshot \in SnapIDs \cup {0, -1}
         /\ getPassiveSnapshots \in SUBSET SnapIDs
         /\ \A b \in BootChoices : b \in [mode : {"live", "active", "passive", "recovery"},
                                         id : SnapIDs \cup {0}]
         /\ \A i \in SnapIDs : \A r \in Residues(snaps[i]) : r \in SUBSET Parts
         /\ 0 \notin SnapIDs /\ -1 \notin SnapIDs
<1>1. GetSnapshots \in SUBSET SnapIDs /\ getPassiveSnapshots \in SUBSET SnapIDs
  BY DEF GetSnapshots, getPassiveSnapshots
<1>2. getActiveSnapshot \in SnapIDs \cup {0, -1}
  BY DEF getActiveSnapshot
<1>3. \A b \in BootChoices : b \in [mode : {"live", "active", "passive", "recovery"},
                                   id : SnapIDs \cup {0}]
  BY DEF BootChoices
<1>4. \A i \in SnapIDs : \A r \in Residues(snaps[i]) : r \in SUBSET Parts
  BY DEF Typed, Residues
<1>5. 0 \notin SnapIDs /\ -1 \notin SnapIDs
  BY ConstantsAssumption DEF SnapIDs
<1> QED BY <1>1, <1>2, <1>3, <1>4, <1>5

\* While a transaction is open its snapshot has an ID, and a deletion has a
\* snapshot to delete; the steps that index snaps rely on it.
TxPCs == {"mkdir", "mkwork", "bind", "open", "image", "sync", "rmwork", "unlink",
          "symlink", "restore", "rmsnap", "rmall", "clean", "delete", "rmold",
          "setboot", "setpassives", "setfallback", "cleanlegacy", "closed"}

HasID == /\ pc \in TxPCs => snapshot.ID # 0
         /\ pc = "rmold" => doomed # {}
         /\ snapshot # NoSnapshot => snapshot.ID # 0

TypeInv == Typed /\ HasID

\* The first states have the types.
LEMMA TypeInit == Init => TypeInv
<1> SUFFICES ASSUME Init PROVE TypeInv
  OBVIOUS
<1>1. Typed
  <2>1. booted \in [mode : {"live", "active", "passive", "recovery"}, id : SnapIDs \cup {0}]
    BY DEF Init, BootChoices
  <2>2. snaps \in [SnapIDs -> SUBSET Parts]
    BY DEF Init, Parts
  <2>3. activeLink \in SnapIDs \cup {NoLink, 0}
    BY ConstantsAssumption DEF Init, SnapIDs
  <2> QED BY <2>1, <2>2, <2>3 DEF Init, Typed, Calls, NoSnapshot
<1>2. HasID
  BY DEF Init, HasID, TxPCs, NoSnapshot
<1> QED BY <1>1, <1>2 DEF TypeInv

\* Every step of the snapshotter and of its client keeps the types.
LEMMA TypeNext == TypeInv /\ [Next]_vars => TypeInv'
<1> SUFFICES ASSUME TypeInv, [Next]_vars PROVE TypeInv'
  OBVIOUS
<1> USE DEF TypeInv, HasID, TxPCs, Typed
<1>1. CASE NewLoopDeviceSnapshotter
  BY <1>1, QueryTypes DEF NewLoopDeviceSnapshotter, disk, object, Steps
<1>2. CASE Exit
  BY <1>2, QueryTypes DEF Exit, ProcessGone, disk, Calls, NoSnapshot
<1>3. CASE Reboot
  BY <1>3, QueryTypes DEF Reboot, ProcessGone, disk, Calls, NoSnapshot
<1>4. CASE InitSnapshotter
  BY <1>4, QueryTypes DEF InitSnapshotter, disk, Calls, Steps
<1>5. CASE LegacyImageToSnapshot
  BY <1>5, QueryTypes, ConstantsAssumption DEF LegacyImageToSnapshot, Calls, Steps, Parts, SnapIDs
<1>6. CASE LinkLegacyImage
  BY <1>6, QueryTypes DEF LinkLegacyImage, object, Calls, Parts
<1>7. CASE StartTransaction
  <2>1. NextID(GetSnapshots) \in SnapIDs
    <3>1. NextID(GetSnapshots) \in 1..(MaxID + 1) /\ NextID(GetSnapshots) <= MaxID
      BY <1>7, QueryTypes, NextIDFresh DEF StartTransaction
    <3> QED BY <3>1, ConstantsAssumption DEF SnapIDs
  <2>2. activeSnapshotID' \in SnapIDs \cup {0} /\ currentSnapshotID' \in SnapIDs \cup {0}
    BY <1>7, QueryTypes DEF StartTransaction
  <2>3. /\ snapshot' \in [ID : SnapIDs \cup {0}, InProgress : BOOLEAN]
        /\ pc' \in {"mkdir", "failed"}
        /\ pc' = "mkdir" => snapshot'.ID # 0
        /\ snapshot'.ID = 0 => snapshot' = NoSnapshot
    <3>1. CASE snapshot' = snapshot /\ pc' = "failed"
      BY <3>1 DEF NoSnapshot
    <3>2. CASE snapshot' = [ID |-> NextID(GetSnapshots), InProgress |-> FALSE] /\ pc' = "mkdir"
      BY <2>1, <3>2, QueryTypes
    <3> QED BY <1>7, <3>1, <3>2 DEF StartTransaction
  <2> QED
    BY <1>7, <2>2, <2>3 DEF StartTransaction, disk, Calls, Steps
<1>8. CASE StartFails
  BY <1>8, QueryTypes DEF StartFails, Calls, NoSnapshot
<1>9. CASE MkSnapDir
  BY <1>9, QueryTypes DEF MkSnapDir, object, Steps, Parts
<1>10. CASE MkWorkDir
  BY <1>10, QueryTypes DEF MkWorkDir, object, Steps, Parts
<1>11. CASE BindMount
  BY <1>11, QueryTypes DEF BindMount, disk, Calls, NoSnapshot
<1>12. CASE CloseTransactionOnError
  BY <1>12, QueryTypes DEF CloseTransactionOnError, disk, object, Steps
<1>13. CASE RemoveSnapshotDir
  BY <1>13, QueryTypes DEF RemoveSnapshotDir, object, Steps, Calls
<1>14. CASE RemoveSnapshotsPath
  BY <1>14, QueryTypes DEF RemoveSnapshotsPath, object, Calls, Parts
<1>15. CASE CloseFails
  BY <1>15, QueryTypes DEF CloseFails, disk, object, Steps
<1>16. CASE CloseTransaction
  BY <1>16, QueryTypes DEF CloseTransaction, disk, object, Steps
<1>17. CASE CreateImage
  BY <1>17, QueryTypes DEF CreateImage, object, Steps, Parts
<1>18. CASE SyncImage
  BY <1>18, QueryTypes DEF SyncImage, object, Steps, Parts
<1>19. CASE RemoveWorkDir
  BY <1>19, QueryTypes DEF RemoveWorkDir, object, Steps, Parts
<1>20. CASE RemoveActiveLink
  BY <1>20, QueryTypes DEF RemoveActiveLink, object, Steps
<1>21. CASE SymlinkActive
  BY <1>21, QueryTypes DEF SymlinkActive, object, Steps
<1>22. CASE SymlinkRestore
  BY <1>22, QueryTypes DEF SymlinkRestore, object, Steps
<1>23. CASE CleanOldSnapshots
  <2>1. doomed' \subseteq SnapIDs /\ logged' \subseteq {"clean", "env"} /\ pc' \in {"delete", "setboot"}
    BY <1>23, QueryTypes DEF CleanOldSnapshots, Doomed
  <2>2. UNCHANGED <<snaps, activeLink, legacy, booted, snapshot, currentSnapshotID, activeSnapshotID, legacyClean>>
    BY <1>23 DEF CleanOldSnapshots, disk, object
  <2> QED BY <1>23, <2>1, <2>2 DEF CleanOldSnapshots, Steps
<1>24. CASE DeleteSnapshot
  BY <1>24, QueryTypes, ZenonT(30) DEF DeleteSnapshot, object, Steps
<1>25. CASE RemoveOldSnapshot
  BY <1>25, QueryTypes, OldestMember DEF RemoveOldSnapshot, object, Steps
<1>26. CASE CleanDone
  BY <1>26, QueryTypes DEF CleanDone, disk, object, Steps
<1>27. CASE SetPassives
  BY <1>27, QueryTypes DEF SetPassives, object, Steps
<1>28. CASE SetFallback
  BY <1>28, QueryTypes DEF SetFallback, object, Steps
<1>29. CASE SetBootloaderFails
  BY <1>29, QueryTypes DEF SetBootloaderFails, disk, object, Steps
<1>30. CASE CleanLegacyImages
  BY <1>30, QueryTypes DEF CleanLegacyImages, Calls, NoSnapshot, LegacyLeftovers
<1>31. CASE UNCHANGED vars
  BY <1>31 DEF vars, disk, object
<1> QED
  BY <1>1, <1>2, <1>3, <1>4, <1>5, <1>6, <1>7, <1>8, <1>9, <1>10, <1>11, <1>12, <1>13, <1>14, <1>15, <1>16, <1>17, <1>18, <1>19, <1>20, <1>21, <1>22, <1>23, <1>24, <1>25, <1>26, <1>27, <1>28, <1>29, <1>30, <1>31 DEF Next, SnapshotterStep, ClientStep

\* Every variable keeps its type, for every value of the constants.
THEOREM TypeCorrect == Spec => []Typed
<1>1. TypeInv => Typed
  BY DEF TypeInv
<1> QED BY TypeInit, TypeNext, <1>1, PTL DEF Spec

-----------------------------------------------------------------------------
(* The inductive invariant, for a disk without a legacy deployment.        *)

\* Before the image of the new snapshot is complete.
Filling == {"mkdir", "mkwork", "bind", "open", "image", "sync"}

\* After it is complete and before the link has moved.
Switching == {"rmwork", "unlink", "symlink", "restore"}

\* After the link has moved.
Committed == {"clean", "delete", "rmold", "setboot", "setpassives", "setfallback",
              "cleanlegacy", "closed"}

\* Nothing to migrate: the snapshotter never wipes .snapshots.
NoLegacy == legacy = {} /\ ~legacyClean /\ pc \notin {"migrate", "link", "rmall"}

LinkComplete == activeLink \in SnapIDs => Complete(activeLink)

RunningComplete == booted.id # 0 => Complete(booted.id)

\* The directory of the transaction is neither the running snapshot nor, until
\* the link has moved, the active one.
OwnSnapshot ==
  /\ snapshot.ID # 0 => snapshot.ID \notin {booted.id, activeSnapshotID}
  /\ (snapshot.ID # 0 /\ pc \notin Committed) => snapshot.ID # activeLink
  /\ pc \in Filling => ~Complete(snapshot.ID)
  /\ pc \in Switching \ {"restore"} => Complete(snapshot.ID)
  /\ pc \in {"off", "init", "ready"} => snapshot.ID = 0

\* The snapshot to go back to when the link cannot be moved is complete.
OldActive ==
  (pc \in Filling \cup Switching /\ activeSnapshotID # 0) => Complete(activeSnapshotID)

\* The clean up never reaches the new snapshot nor the running one.
CleanUp ==
  /\ pc \in Committed => activeLink \in {snapshot.ID, NoLink}
  /\ pc = "clean" => activeLink = snapshot.ID
  /\ pc \notin {"delete", "rmold"} => doomed = {}
  /\ snapshot.ID \notin doomed
  /\ pc = "rmold" => Oldest(doomed) # booted.id

IInv == /\ NoLegacy /\ LinkComplete /\ RunningComplete
        /\ OwnSnapshot /\ OldActive /\ CleanUp

\* A disk without legacy images satisfies the strengthened invariant at first.
LEMMA IInvInit == ~LegacyDisk /\ Init => IInv
<1> SUFFICES ASSUME ~LegacyDisk, Init PROVE IInv
  OBVIOUS
<1>1. NoLegacy /\ LinkComplete
  BY ConstantsAssumption DEF Init, NoLegacy, LinkComplete, Complete, SnapIDs, NoLink
<1>2. RunningComplete
  BY DEF Init, RunningComplete, BootChoices, Complete
<1>3. OwnSnapshot /\ OldActive /\ CleanUp
  BY DEF Init, OwnSnapshot, OldActive, CleanUp, Filling, Switching, Committed, NoSnapshot
<1> QED BY <1>1, <1>2, <1>3 DEF IInv

\* Every step keeps the strengthened invariant: one case per action.
LEMMA IInvNext == TypeInv /\ TypeInv' /\ IInv /\ [Next]_vars => IInv'
<1> SUFFICES ASSUME TypeInv, TypeInv', IInv, [Next]_vars PROVE IInv'
  OBVIOUS
<1> USE DEF TypeInv, HasID, TxPCs, Typed, IInv, NoLegacy, LinkComplete, RunningComplete,
            OwnSnapshot, OldActive, CleanUp, Filling, Switching, Committed, Complete
<1>1. CASE NewLoopDeviceSnapshotter
  BY <1>1, QueryTypes DEF NewLoopDeviceSnapshotter, disk, object
<1>2. CASE Exit
  BY <1>2, QueryTypes DEF Exit, ProcessGone, disk, NoSnapshot
<1>3. CASE Reboot
  BY <1>3, QueryTypes DEF Reboot, ProcessGone, disk, NoSnapshot, BootChoices
<1>4. CASE InitSnapshotter
  BY <1>4, QueryTypes DEF InitSnapshotter, disk
<1>5. CASE LegacyImageToSnapshot
  BY <1>5, QueryTypes DEF LegacyImageToSnapshot
<1>6. CASE LinkLegacyImage
  BY <1>6, QueryTypes DEF LinkLegacyImage
<1>7. CASE StartTransaction
  <2>1. \A i \in GetSnapshots : i # NextID(GetSnapshots)
    BY QueryTypes, NextIDFresh, ConstantsAssumption DEF SnapIDs
  <2>2. booted.id # 0 => booted.id \in GetSnapshots
    BY DEF GetSnapshots
  <2>3. activeLink \in SnapIDs => activeLink \in GetSnapshots
    BY DEF GetSnapshots
  <2>4. CASE pc' = "failed"
    BY <1>7, <2>4 DEF StartTransaction, disk
  <2>5. CASE pc' = "mkdir"
    <3> DEFINE n == NextID(GetSnapshots)
    <3>1. /\ snapshot'.ID = n
          /\ activeSnapshotID' = getActiveSnapshot
          /\ getActiveSnapshot # -1
          /\ UNCHANGED <<disk, booted, legacyClean, doomed>>
      BY <1>7, <2>5 DEF StartTransaction
    <3>2. n \in SnapIDs /\ n # 0
      BY <1>7, <2>5, <3>1, QueryTypes DEF StartTransaction, disk
    <3>3. n \notin GetSnapshots
      BY <2>1
    <3>4. getActiveSnapshot # 0 => getActiveSnapshot = activeLink /\ activeLink \in SnapIDs
      BY <3>1 DEF getActiveSnapshot
    <3>5. ~Complete(n) /\ n # booted.id /\ n # activeLink /\ n # getActiveSnapshot
      <4>1. snaps[n] = {}
        BY <3>2, <3>3 DEF GetSnapshots
      <4>2. n # booted.id
        BY <2>2, <3>2, <3>3
      <4>3. n # activeLink
        BY <2>3, <3>2, <3>3
      <4> QED BY <3>2, <3>4, <4>1, <4>2, <4>3
    <3> QED
      BY <1>7, <2>5, <3>1, <3>2, <3>4, <3>5, QueryTypes DEF StartTransaction, disk
  <2> QED BY <1>7, <2>4, <2>5 DEF StartTransaction
<1>8. CASE StartFails
  BY <1>8, QueryTypes DEF StartFails, NoSnapshot, Residues
<1>9. CASE MkSnapDir
  BY <1>9, QueryTypes DEF MkSnapDir, object
<1>10. CASE MkWorkDir
  BY <1>10, QueryTypes DEF MkWorkDir, object
<1>11. CASE BindMount
  BY <1>11, QueryTypes DEF BindMount, disk
<1>12. CASE CloseTransactionOnError
  BY <1>12, QueryTypes DEF CloseTransactionOnError, disk, object
<1>13. CASE RemoveSnapshotDir
  BY <1>13, QueryTypes DEF RemoveSnapshotDir, object, Residues
<1>14. CASE RemoveSnapshotsPath
  BY <1>14, QueryTypes DEF RemoveSnapshotsPath
<1>15. CASE CloseFails
  BY <1>15, QueryTypes DEF CloseFails, disk, object
<1>16. CASE CloseTransaction
  BY <1>16, QueryTypes DEF CloseTransaction, disk, object
<1>17. CASE CreateImage
  BY <1>17, QueryTypes DEF CreateImage, object
<1>18. CASE SyncImage
  BY <1>18, QueryTypes DEF SyncImage, object
<1>19. CASE RemoveWorkDir
  BY <1>19, QueryTypes DEF RemoveWorkDir, object
<1>20. CASE RemoveActiveLink
  BY <1>20, QueryTypes DEF RemoveActiveLink, object, NoLink
<1>21. CASE SymlinkActive
  BY <1>21, QueryTypes DEF SymlinkActive, object, NoLink
<1>22. CASE SymlinkRestore
  BY <1>22, QueryTypes DEF SymlinkRestore, object
<1>23. CASE CleanOldSnapshots
  <2>1. snapshot.ID \in SnapIDs /\ activeLink = snapshot.ID
    BY <1>23 DEF CleanOldSnapshots
  <2>2. getActiveSnapshot = snapshot.ID
    BY <2>1, QueryTypes DEF getActiveSnapshot, NoLink
  <2>3. snapshot.ID \notin Doomed(getPassiveSnapshots)
    BY <2>2 DEF Doomed, getPassiveSnapshots
  <2> QED
    BY <1>23, <2>3 DEF CleanOldSnapshots, disk, object
<1>24. CASE DeleteSnapshot
  BY <1>24, QueryTypes DEF DeleteSnapshot, object, isSnapshotInUse, NoLink
<1>25. CASE RemoveOldSnapshot
  <2> DEFINE id == Oldest(doomed)
  <2>1. id \in doomed /\ id \in SnapIDs
    BY <1>25, OldestMember DEF RemoveOldSnapshot
  <2>2. id # snapshot.ID /\ id # booted.id /\ id # activeLink
    BY <1>25, <2>1, QueryTypes DEF RemoveOldSnapshot, NoLink
  <2>3. \A i \in SnapIDs : i # id => snaps'[i] = snaps[i]
    BY <1>25 DEF RemoveOldSnapshot
  <2> QED
    BY <1>25, <2>1, <2>2, <2>3 DEF RemoveOldSnapshot, object
<1>26. CASE CleanDone
  BY <1>26, QueryTypes DEF CleanDone, disk, object
<1>27. CASE SetPassives
  BY <1>27, QueryTypes DEF SetPassives, object
<1>28. CASE SetFallback
  BY <1>28, QueryTypes DEF SetFallback, object
<1>29. CASE SetBootloaderFails
  BY <1>29, QueryTypes DEF SetBootloaderFails, disk, object
<1>30. CASE CleanLegacyImages
  BY <1>30, QueryTypes DEF CleanLegacyImages, NoSnapshot
<1>31. CASE UNCHANGED vars
  BY <1>31 DEF vars, disk, object
<1> QED
  BY <1>1, <1>2, <1>3, <1>4, <1>5, <1>6, <1>7, <1>8, <1>9, <1>10, <1>11, <1>12, <1>13, <1>14, <1>15, <1>16, <1>17, <1>18, <1>19, <1>20, <1>21, <1>22, <1>23, <1>24, <1>25, <1>26, <1>27, <1>28, <1>29, <1>30, <1>31 DEF Next, SnapshotterStep, ClientStep

\* Types and the strengthened invariant hold in every reachable state.
LEMMA Invariance == ASSUME ~LegacyDisk PROVE Spec => [](TypeInv /\ IInv)
<1>1. Init => TypeInv /\ IInv
  BY TypeInit, IInvInit
<1>2. (TypeInv /\ IInv) /\ [Next]_vars => (TypeInv /\ IInv)'
  BY TypeNext, IInvNext
<1> QED BY <1>1, <1>2, PTL DEF Spec

\* The active link of a disk without legacy images points to a complete image
\* in every reachable state, for every MaxSnaps, after any failure or crash.
THEOREM ActiveNeverDangles == Spec => []ActiveIsComplete
<1>1. CASE LegacyDisk
  <2>1. ActiveIsComplete
    BY <1>1 DEF ActiveIsComplete
  <2> QED BY <2>1, PTL
<1>2. CASE ~LegacyDisk
  <2>1. TypeInv /\ IInv => ActiveIsComplete
    BY DEF IInv, LinkComplete, ActiveIsComplete
  <2> QED BY <1>2, <2>1, Invariance, PTL
<1> QED BY <1>1, <1>2

-----------------------------------------------------------------------------
(* What a step does to the directories of the snapshots.                   *)

\* A step changes at most one directory, and neither that of the running
\* snapshot nor that of a complete and active one.
LEMMA OneDirectory ==
  ASSUME TypeInv, IInv, [Next]_vars
  PROVE  \/ snaps' = snaps
         \/ /\ UNCHANGED <<activeLink, booted>>
            /\ \E i \in SnapIDs :
                 /\ i \notin {booted.id, activeLink}
                 /\ \A j \in SnapIDs \ {i} : snaps'[j] = snaps[j]
<1> USE DEF TypeInv, HasID, TxPCs, Typed
<1>1. CASE MkSnapDir \/ MkWorkDir \/ CreateImage \/ SyncImage \/ RemoveWorkDir
           \/ StartFails \/ RemoveSnapshotDir
  <2>1. snapshot.ID \in SnapIDs
    BY <1>1 DEF MkSnapDir, MkWorkDir, CreateImage, SyncImage, RemoveWorkDir,
                StartFails, RemoveSnapshotDir
  <2>2. snapshot.ID \notin {booted.id, activeLink}
    BY <1>1, <2>1, QueryTypes
       DEF MkSnapDir, MkWorkDir, CreateImage, SyncImage, RemoveWorkDir, StartFails,
           RemoveSnapshotDir, IInv, OwnSnapshot, Committed
  <2>3. UNCHANGED <<activeLink, booted>>
    BY <1>1 DEF MkSnapDir, MkWorkDir, CreateImage, SyncImage, RemoveWorkDir, StartFails,
                RemoveSnapshotDir
  <2>4. \A j \in SnapIDs \ {snapshot.ID} : snaps'[j] = snaps[j]
    BY <1>1 DEF MkSnapDir, MkWorkDir, CreateImage, SyncImage, RemoveWorkDir, StartFails,
                RemoveSnapshotDir
  <2> QED BY <2>1, <2>2, <2>3, <2>4
<1>2. CASE RemoveOldSnapshot
  <2>1. Oldest(doomed) \in doomed /\ Oldest(doomed) \in SnapIDs
    BY <1>2, OldestMember DEF RemoveOldSnapshot
  <2>2. Oldest(doomed) \notin {booted.id, activeLink}
    BY <1>2, <2>1, QueryTypes DEF RemoveOldSnapshot, NoLink, IInv, CleanUp, Committed
  <2>3. UNCHANGED <<activeLink, booted>>
    BY <1>2 DEF RemoveOldSnapshot
  <2>4. \A j \in SnapIDs \ {Oldest(doomed)} : snaps'[j] = snaps[j]
    BY <1>2 DEF RemoveOldSnapshot
  <2> QED BY <2>1, <2>2, <2>3, <2>4
<1>3. CASE LegacyImageToSnapshot \/ LinkLegacyImage \/ RemoveSnapshotsPath
  BY <1>3 DEF LegacyImageToSnapshot, LinkLegacyImage, RemoveSnapshotsPath, IInv, NoLegacy
<1>4. CASE UNCHANGED vars
  BY <1>4 DEF vars, disk
<1>5. CASE \/ NewLoopDeviceSnapshotter \/ Exit \/ Reboot \/ InitSnapshotter
           \/ StartTransaction \/ BindMount \/ CloseTransactionOnError \/ CloseFails
           \/ CloseTransaction \/ RemoveActiveLink \/ SymlinkActive \/ SymlinkRestore
           \/ CleanOldSnapshots \/ DeleteSnapshot \/ CleanDone \/ SetPassives
           \/ SetFallback \/ SetBootloaderFails \/ CleanLegacyImages
  BY <1>5 DEF NewLoopDeviceSnapshotter, Exit, ProcessGone, Reboot, InitSnapshotter, StartTransaction,
              BindMount, CloseTransactionOnError, CloseFails, CloseTransaction,
              RemoveActiveLink, SymlinkActive, SymlinkRestore, CleanOldSnapshots,
              DeleteSnapshot, CleanDone, SetPassives, SetFallback, SetBootloaderFails,
              CleanLegacyImages, disk
<1> QED
  BY <1>1, <1>2, <1>3, <1>4, <1>5 DEF Next, SnapshotterStep, ClientStep

\* No step of any transaction writes to or deletes the running snapshot.
THEOREM RunningSnapshotKept == Spec => BootedKept
<1> DEFINE A == (~LegacyDisk /\ booted' = booted /\ booted.id # 0)
                   => snaps'[booted.id] = snaps[booted.id]
<1>1. CASE LegacyDisk
  <2>1. [Next]_vars => [A]_vars
    BY <1>1
  <2> QED BY <2>1, PTL DEF Spec, BootedKept
<1>2. CASE ~LegacyDisk
  <2>1. TypeInv /\ IInv /\ [Next]_vars => [A]_vars
    <3> SUFFICES ASSUME TypeInv, IInv, [Next]_vars, booted.id # 0
                 PROVE  snaps'[booted.id] = snaps[booted.id]
      OBVIOUS
    <3>1. booted.id \in SnapIDs
      BY DEF TypeInv, Typed
    <3> QED BY <3>1, OneDirectory
  <2> QED BY <1>2, <2>1, Invariance, PTL DEF Spec, BootedKept
<1> QED BY <1>1, <1>2

-----------------------------------------------------------------------------
(* The snapshotter implements the abstract store.                          *)

StoreSet == {i \in SnapIDs : Complete(i)}
StoreActive == IF activeLink \in SnapIDs THEN activeLink ELSE 0

\* Every step of the snapshotter is a step of the abstract store, or none.
LEMMA StoreStep ==
  ASSUME TypeInv, IInv, IInv', [Next]_vars
  PROVE  [Store!Next]_(Store!vars)
<1> USE DEF TypeInv, HasID, TxPCs, Typed
<1> SUFFICES \/ UNCHANGED <<StoreSet, StoreActive, booted.id>>
             \/ \E i \in SnapIDs :
                  /\ i \notin StoreSet
                  /\ StoreSet' = StoreSet \cup {i}
                  /\ UNCHANGED <<StoreActive, booted.id>>
             \/ /\ StoreActive' = 0
                /\ UNCHANGED <<StoreSet, booted.id>>
             \/ \E i \in SnapIDs :
                  /\ StoreActive = 0 /\ i \in StoreSet /\ StoreActive' = i
                  /\ UNCHANGED <<StoreSet, booted.id>>
             \/ \E i \in SnapIDs :
                  /\ i \in StoreSet /\ i \notin {StoreActive, booted.id}
                  /\ StoreSet' = StoreSet \ {i}
                  /\ UNCHANGED <<StoreActive, booted.id>>
             \/ \E i \in SnapIDs \cup {0} :
                  /\ i \in StoreSet \cup {0} /\ booted.id' = i
                  /\ UNCHANGED <<StoreSet, StoreActive>>
  BY DEF Store!Next, Store!vars, Store!Add, Store!Deactivate, Store!Activate, Store!Delete,
         Store!Boot, StoreSet, StoreActive
<1>1. CASE snaps' # snaps
  <2>1. PICK i \in SnapIDs : /\ UNCHANGED <<activeLink, booted>>
                             /\ i \notin {booted.id, activeLink}
                             /\ \A j \in SnapIDs \ {i} : snaps'[j] = snaps[j]
    BY <1>1, OneDirectory
  <2>2. UNCHANGED <<StoreActive, booted.id>>
    BY <2>1 DEF StoreActive
  <2>3. i # StoreActive
    BY <2>1, QueryTypes DEF StoreActive
  <2>4. \A j \in SnapIDs \ {i} : j \in StoreSet' <=> j \in StoreSet
    BY <2>1 DEF StoreSet, Complete
  <2>5. CASE i \in StoreSet' <=> i \in StoreSet
    <3>1. StoreSet' = StoreSet
      BY <2>4, <2>5 DEF StoreSet
    <3> QED BY <2>2, <3>1
  <2>6. CASE i \in StoreSet' /\ i \notin StoreSet
    <3>1. StoreSet' = StoreSet \cup {i}
      BY <2>4, <2>6 DEF StoreSet
    <3> QED BY <2>2, <2>6, <3>1
  <2>7. CASE i \notin StoreSet' /\ i \in StoreSet
    <3>1. StoreSet' = StoreSet \ {i}
      BY <2>4, <2>7 DEF StoreSet
    <3> QED BY <2>1, <2>2, <2>3, <2>7, <3>1
  <2> QED BY <2>5, <2>6, <2>7
<1>2. CASE snaps' = snaps
  <2>1. StoreSet' = StoreSet
    BY <1>2 DEF StoreSet, Complete
  <2>2. CASE UNCHANGED <<activeLink, booted>>
    BY <2>1, <2>2 DEF StoreActive
  <2>3. CASE Reboot
    <3>1. booted.id' \in StoreSet \cup {0}
      BY <2>3 DEF Reboot, ProcessGone, BootChoices, StoreSet
    <3>2. UNCHANGED StoreActive
      BY <2>3 DEF Reboot, ProcessGone, StoreActive, disk
    <3> QED BY <2>1, <3>1, <3>2 DEF StoreSet
  <2>4. CASE RemoveActiveLink
    <3>1. UNCHANGED booted /\ activeLink' \in {NoLink, activeLink}
      BY <2>4 DEF RemoveActiveLink
    <3>2. UNCHANGED StoreActive \/ StoreActive' = 0
      BY <3>1, QueryTypes DEF StoreActive, NoLink
    <3> QED BY <2>1, <3>1, <3>2
  <2>5. CASE DeleteSnapshot
    <3>1. UNCHANGED booted /\ activeLink' \in {NoLink, activeLink}
      BY <2>5 DEF DeleteSnapshot
    <3>2. UNCHANGED StoreActive \/ StoreActive' = 0
      BY <3>1, QueryTypes DEF StoreActive, NoLink
    <3> QED BY <2>1, <3>1, <3>2
  <2>6. CASE SymlinkActive \/ SymlinkRestore
    <3>1. UNCHANGED booted /\ (activeLink' = activeLink \/ activeLink = NoLink)
      BY <2>6 DEF SymlinkActive, SymlinkRestore
    <3>2. activeLink = NoLink => StoreActive = 0
      BY QueryTypes DEF StoreActive, NoLink
    <3>3. activeLink' \in SnapIDs => activeLink' \in StoreSet
      BY <2>1 DEF IInv, LinkComplete, StoreSet
    <3>4. UNCHANGED StoreActive
          \/ (StoreActive = 0 /\ StoreActive' \in StoreSet /\ StoreActive' \in SnapIDs)
      BY <3>1, <3>2, <3>3 DEF StoreActive
    <3> QED BY <2>1, <3>1, <3>4
  <2>7. CASE LegacyImageToSnapshot \/ LinkLegacyImage \/ RemoveSnapshotsPath
    BY <2>7 DEF LegacyImageToSnapshot, LinkLegacyImage, RemoveSnapshotsPath, IInv, NoLegacy
  <2>8. CASE UNCHANGED vars
    BY <2>2, <2>8 DEF vars, disk
  <2>9. CASE \/ NewLoopDeviceSnapshotter \/ Exit \/ InitSnapshotter \/ StartTransaction
             \/ StartFails \/ MkSnapDir \/ MkWorkDir \/ BindMount
             \/ CloseTransactionOnError \/ RemoveSnapshotDir \/ CloseFails
             \/ CloseTransaction \/ CreateImage \/ SyncImage \/ RemoveWorkDir
             \/ CleanOldSnapshots \/ RemoveOldSnapshot \/ CleanDone \/ SetPassives
             \/ SetFallback \/ SetBootloaderFails \/ CleanLegacyImages
    BY <2>2, <2>9
       DEF NewLoopDeviceSnapshotter, Exit, ProcessGone, InitSnapshotter, StartTransaction, StartFails,
           MkSnapDir, MkWorkDir, BindMount, CloseTransactionOnError, RemoveSnapshotDir,
           CloseFails, CloseTransaction, CreateImage, SyncImage, RemoveWorkDir,
           CleanOldSnapshots, RemoveOldSnapshot, CleanDone, SetPassives, SetFallback,
           SetBootloaderFails, CleanLegacyImages, disk
  <2> QED
    BY <2>3, <2>4, <2>5, <2>6, <2>7, <2>8, <2>9 DEF Next, SnapshotterStep, ClientStep
<1> QED BY <1>1, <1>2

\* Without legacy images every behaviour of the snapshotter is one of the
\* abstract store: only complete snapshots are activated or booted, and neither
\* the active nor the running one is ever deleted.
THEOREM StoreImplemented == ASSUME ~LegacyDisk PROVE Spec => ImplementsStore
<1>1. Init => Store!Init
  <2> SUFFICES ASSUME Init PROVE Store!Init
    OBVIOUS
  <2>1. TypeInv /\ IInv
    BY TypeInit, IInvInit
  <2> QED
    BY <2>1 DEF TypeInv, Typed, IInv, LinkComplete, RunningComplete, Store!Init
<1>2. TypeInv /\ IInv /\ (TypeInv /\ IInv)' /\ [Next]_vars => [Store!Next]_(Store!vars)
  BY StoreStep
<1> QED BY <1>1, <1>2, Invariance, PTL DEF Spec, ImplementsStore, Store!Spec

-----------------------------------------------------------------------------
(* The order of the names.                                                 *)

\* The digits of a number, once those of the numbers below are known.
DigitsOf(f, n) == IF n < 10 THEN <<n>> ELSE Append(f[n \div 10], n % 10)

\* f has the digits of the numbers up to m.
UpTo(f, m) == f \in [0..m -> Seq(Nat)] /\ \A n \in 0..m : f[n] = DigitsOf(f, n)

\* A number without its last digit is smaller.
LEMMA Tenth ==
  ASSUME NEW n \in Nat, n >= 10
  PROVE  /\ n \div 10 \in Nat /\ n \div 10 < n /\ n \div 10 >= 1
         /\ n % 10 \in 0..9 /\ n % 10 = n - 10 * (n \div 10)
<1>1. n \div 10 \in Nat
  OBVIOUS
<1>2. n \div 10 >= 1
  OBVIOUS
<1>3. n % 10 \in 0..9
  OBVIOUS
<1>4. n % 10 = n - 10 * (n \div 10)
  OBVIOUS
<1>5. n \div 10 < n
  OBVIOUS
<1> QED BY <1>1, <1>2, <1>3, <1>4, <1>5

\* There is such a function for every bound.
LEMMA UpToExists == \A m \in Nat : \E f : UpTo(f, m)
<1> DEFINE T == {m \in Nat : ~ \E f : UpTo(f, m)}
<1> SUFFICES ASSUME T # {} PROVE FALSE
  OBVIOUS
<1>1. PICK m \in T : \A y \in T : m <= y
  BY LeastNat
<1>2. m \in Nat /\ ~ \E f : UpTo(f, m)
  OBVIOUS
<1>3. CASE m = 0
  <2> DEFINE f == [n \in 0..0 |-> <<0>>]
  <2>1. f \in [0..0 -> Seq(Nat)] /\ \A n \in 0..0 : f[n] = DigitsOf(f, n)
    BY DEF DigitsOf
  <2> QED BY <1>2, <1>3, <2>1 DEF UpTo
<1>4. CASE m # 0
  <2>1. m - 1 \in Nat /\ ~ (m <= m - 1)
    BY <1>2, <1>4
  <2>2. PICK g : UpTo(g, m - 1)
    BY <1>1, <2>1
  <2> HIDE DEF T
  <2>3. DigitsOf(g, m) \in Seq(Nat)
    <3>1. CASE m < 10
      BY <1>2, <3>1 DEF DigitsOf
    <3>2. CASE m >= 10
      <4>1. m \div 10 \in 0..(m - 1) /\ m % 10 \in Nat
        BY <1>2, <3>2, Tenth
      <4>2. g[m \div 10] \in Seq(Nat)
        BY <2>2, <4>1 DEF UpTo
      <4> QED BY <1>2, <3>2, <4>1, <4>2 DEF DigitsOf
    <3> QED BY <1>2, <3>1, <3>2
  <2> DEFINE f == [n \in 0..m |-> IF n = m THEN DigitsOf(g, m) ELSE g[n]]
  <2>4. f \in [0..m -> Seq(Nat)]
    BY <1>2, <2>2, <2>3 DEF UpTo
  <2>5. ASSUME NEW n \in 0..m PROVE f[n] = DigitsOf(f, n)
    <3>1. n >= 10 => n \div 10 \in 0..(m - 1) /\ n \div 10 # m
      BY <1>2, Tenth
    <3>2. n >= 10 => f[n \div 10] = g[n \div 10]
      BY <1>2, <3>1
    <3>3. DigitsOf(f, n) = DigitsOf(g, n)
      BY <1>2, <3>2 DEF DigitsOf
    <3>4. f[n] = DigitsOf(g, n)
      BY <1>2, <2>2 DEF UpTo
    <3> QED BY <3>3, <3>4
  <2> HIDE DEF f
  <2> QED BY <1>2, <2>4, <2>5 DEF UpTo
<1> QED BY <1>3, <1>4

\* Two of them agree where both are defined.
LEMMA UpToUnique ==
  ASSUME NEW a \in Nat, NEW b \in Nat, NEW f, NEW g, UpTo(f, a), UpTo(g, b)
  PROVE  \A n \in Nat : n <= a /\ n <= b => f[n] = g[n]
<1> DEFINE T == {n \in Nat : n <= a /\ n <= b /\ f[n] # g[n]}
<1> SUFFICES ASSUME T # {} PROVE FALSE
  OBVIOUS
<1>1. PICK n \in T : \A y \in T : n <= y
  BY LeastNat
<1>2. n \in Nat /\ n <= a /\ n <= b /\ f[n] # g[n]
  OBVIOUS
<1>3. n >= 10 => f[n \div 10] = g[n \div 10]
  BY <1>1, <1>2, Tenth
<1> HIDE DEF T
<1>4. f[n] = DigitsOf(f, n) /\ g[n] = DigitsOf(g, n)
  BY <1>2 DEF UpTo
<1> QED BY <1>2, <1>3, <1>4 DEF DigitsOf

\* The digits of a number are what their definition says.
LEMMA DigitsDef ==
  /\ Digits \in [Nat -> Seq(Nat)]
  /\ \A n \in Nat : Digits[n] = IF n < 10 THEN <<n>> ELSE Append(Digits[n \div 10], n % 10)
<1> DEFINE h == [m \in Nat |-> CHOOSE f : UpTo(f, m)]
           g == [n \in Nat |-> h[n][n]]
<1>1. \A m \in Nat : UpTo(h[m], m)
  BY UpToExists
<1> HIDE DEF h
<1>2. g \in [Nat -> Seq(Nat)]
  BY <1>1 DEF UpTo
<1>3. ASSUME NEW n \in Nat PROVE g[n] = DigitsOf(g, n)
  <2>1. g[n] = DigitsOf(h[n], n)
    BY <1>1 DEF UpTo
  <2>2. n >= 10 => h[n][n \div 10] = g[n \div 10]
    <3> SUFFICES ASSUME n >= 10 PROVE h[n][n \div 10] = g[n \div 10]
      OBVIOUS
    <3>1. n \div 10 \in Nat /\ n \div 10 <= n
      BY Tenth
    <3>2. h[n][n \div 10] = h[n \div 10][n \div 10]
      BY <1>1, <3>1, UpToUnique
    <3> QED BY <3>1, <3>2
  <2> HIDE DEF g
  <2> QED BY <2>1, <2>2 DEF DigitsOf
<1> DEFINE D(f) == [n \in Nat |-> DigitsOf(f, n)]
<1>4. g = D(g)
  BY <1>2, <1>3
<1> HIDE DEF g
<1>5. Digits = D(Digits)
  BY <1>4 DEF Digits, DigitsOf
<1>6. \A n \in Nat : Digits[n] = DigitsOf(Digits, n)
  BY <1>5
<1>7. \A n \in Nat : Digits[n] \in Seq(Nat)
  <2> DEFINE T == {n \in Nat : Digits[n] \notin Seq(Nat)}
  <2> SUFFICES ASSUME T # {} PROVE FALSE
    OBVIOUS
  <2>1. PICK n \in T : \A y \in T : n <= y
    BY LeastNat
  <2>2. n >= 10 => Digits[n \div 10] \in Seq(Nat) /\ n % 10 \in Nat
    BY <2>1, Tenth
  <2>3. n \in Nat /\ Digits[n] \notin Seq(Nat)
    OBVIOUS
  <2> HIDE DEF T
  <2>4. CASE n < 10
    <3>1. Digits[n] = <<n>>
      BY <1>6, <2>3, <2>4 DEF DigitsOf
    <3> QED BY <2>3, <3>1
  <2>5. CASE n >= 10
    <3>1. ~ (n < 10)
      BY <2>3, <2>5
    <3>a. Digits[n] = Append(Digits[n \div 10], n % 10)
      BY <1>6, <2>3, <3>1, Zenon DEF DigitsOf
    <3>2. Append(Digits[n \div 10], n % 10) \in Seq(Nat)
      BY <2>2, <2>5, AppendProperties
    <3> QED BY <2>3, <3>a, <3>2
  <2> QED BY <2>3, <2>4, <2>5
<1>8. Digits \in [Nat -> Seq(Nat)]
  <2>1. Digits = [n \in Nat |-> Digits[n]]
    BY <1>5
  <2> QED BY <1>7, <2>1
<1> QED BY <1>6, <1>8 DEF DigitsOf

\* A digit more than the number without its last one, which comes at the end.
LEMMA DigitsFacts ==
  ASSUME NEW n \in Nat
  PROVE  /\ Digits[n] \in Seq(Nat) /\ Len(Digits[n]) \in Nat /\ Len(Digits[n]) >= 1
         /\ n < 10 => Len(Digits[n]) = 1 /\ Digits[n][1] = n
         /\ n >= 10 => /\ Len(Digits[n]) = Len(Digits[n \div 10]) + 1
                       /\ \A j \in 1..Len(Digits[n \div 10]) : Digits[n][j] = Digits[n \div 10][j]
                       /\ Digits[n][Len(Digits[n])] = n % 10
<1>1. Digits[n] \in Seq(Nat) /\ Len(Digits[n]) \in Nat
  BY DigitsDef
<1>2. CASE n < 10
  <2>1. Digits[n] = <<n>>
    BY <1>2, DigitsDef
  <2> QED BY <1>1, <1>2, <2>1
<1>3. CASE n >= 10
  <2> DEFINE q == n \div 10
             r == n % 10
  <2>1. q \in Nat /\ r \in Nat
    BY <1>3, Tenth
  <2>2. ~ (n < 10)
    BY <1>3
  <2>3. Digits[n] = Append(Digits[q], r)
    BY <2>2, DigitsDef, Zenon
  <2>4. Digits[q] \in Seq(Nat) /\ Len(Digits[q]) \in Nat
    BY <2>1, DigitsDef
  <2> HIDE DEF q, r
  <2>5. /\ Len(Digits[n]) = Len(Digits[q]) + 1
        /\ \A j \in 1..Len(Digits[q]) : Digits[n][j] = Digits[q][j]
        /\ Digits[n][Len(Digits[n])] = r
    BY <2>1, <2>3, <2>4, AppendProperties
  <2>6. Len(Digits[n]) >= 1
    BY <2>4, <2>5
  <2> QED BY <1>1, <1>3, <2>5, <2>6 DEF q, r
<1> QED BY <1>2, <1>3

\* The order of sequences of numbers behind NameBefore.
Before(x, y) ==
  \E k \in 1..Len(y) :
    /\ k - 1 <= Len(x)
    /\ \A j \in 1..(k - 1) : x[j] = y[j]
    /\ k <= Len(x) => x[k] < y[k]

\* A sequence is not before itself.
LEMMA BeforeIrreflexive ==
  ASSUME NEW x \in Seq(Nat)
  PROVE  ~ Before(x, x)
<1> SUFFICES ASSUME NEW k \in 1..Len(x), x[k] < x[k] PROVE FALSE
  BY DEF Before
<1>1. x[k] \in Nat
  OBVIOUS
<1> QED BY <1>1

\* The order is transitive: the first difference of the two decides.
LEMMA BeforeTransitive ==
  ASSUME NEW x \in Seq(Nat), NEW y \in Seq(Nat), NEW z \in Seq(Nat), Before(x, y), Before(y, z)
  PROVE  Before(x, z)
<1>1. Len(x) \in Nat /\ Len(y) \in Nat /\ Len(z) \in Nat
  OBVIOUS
<1>2. /\ \A i \in 1..Len(x) : x[i] \in Nat
      /\ \A i \in 1..Len(y) : y[i] \in Nat
      /\ \A i \in 1..Len(z) : z[i] \in Nat
  OBVIOUS
<1>3. PICK k \in 1..Len(y) : /\ k - 1 <= Len(x)
                             /\ \A j \in 1..(k - 1) : x[j] = y[j]
                             /\ k <= Len(x) => x[k] < y[k]
  BY DEF Before
<1>4. PICK l \in 1..Len(z) : /\ l - 1 <= Len(y)
                             /\ \A j \in 1..(l - 1) : y[j] = z[j]
                             /\ l <= Len(y) => y[l] < z[l]
  BY DEF Before
<1>5. CASE k < l
  <2>1. k \in 1..Len(z) /\ y[k] = z[k] /\ \A j \in 1..(k - 1) : x[j] = z[j]
    BY <1>1, <1>3, <1>4, <1>5
  <2> QED BY <1>3, <2>1 DEF Before
<1>6. CASE k = l
  <2>1. /\ k \in 1..Len(z)
        /\ \A j \in 1..(k - 1) : x[j] = z[j]
        /\ y[k] < z[k]
    BY <1>1, <1>3, <1>4, <1>6
  <2>2. k <= Len(x) => x[k] < z[k]
    <3> SUFFICES ASSUME k <= Len(x) PROVE x[k] < z[k]
      OBVIOUS
    <3>1. x[k] < y[k] /\ x[k] \in Nat /\ y[k] \in Nat /\ z[k] \in Nat
      BY <1>1, <1>2, <1>3, <2>1
    <3> DEFINE a == x[k]
               b == y[k]
               c == z[k]
    <3>2. a \in Nat /\ b \in Nat /\ c \in Nat /\ a < b /\ b < c
      BY <2>1, <3>1
    <3> HIDE DEF a, b, c
    <3>3. a < c
      BY <3>2
    <3> QED BY <3>3 DEF a, c
  <2> QED BY <1>3, <2>1, <2>2 DEF Before
<1>7. CASE l < k
  <2>1. /\ l \in 1..Len(z) /\ l - 1 <= Len(x)
        /\ x[l] = y[l] /\ y[l] < z[l]
        /\ \A j \in 1..(l - 1) : x[j] = z[j]
    <3>1. l \in 1..Len(z) /\ l - 1 <= Len(x) /\ l \in 1..(k - 1) /\ l <= Len(y)
      BY <1>1, <1>3, <1>4, <1>7
    <3>2. x[l] = y[l] /\ y[l] < z[l]
      BY <1>3, <1>4, <3>1
    <3>3. ASSUME NEW j \in 1..(l - 1) PROVE x[j] = z[j]
      <4>1. j \in 1..(k - 1)
        BY <3>1
      <4> QED BY <1>3, <1>4, <4>1
    <3> QED BY <3>1, <3>2, <3>3
  <2> QED BY <2>1 DEF Before
<1> QED BY <1>1, <1>5, <1>6, <1>7

\* Of two sequences one is before the other.
LEMMA BeforeTotal ==
  ASSUME NEW x \in Seq(Nat), NEW y \in Seq(Nat), x # y
  PROVE  Before(x, y) \/ Before(y, x)
<1>1. Len(x) \in Nat /\ Len(y) \in Nat
  OBVIOUS
<1>2. /\ \A i \in 1..Len(x) : x[i] \in Nat
      /\ \A i \in 1..Len(y) : y[i] \in Nat
  OBVIOUS
<1> DEFINE T == {k \in Nat : k >= 1 /\ (k <= Len(x) /\ k <= Len(y) => x[k] # y[k])}
<1>3. T \in SUBSET Nat /\ Len(x) + 1 \in T
  BY <1>1
<1>4. PICK k \in T : \A i \in T : k <= i
  BY <1>3, LeastNat
<1>5. k \in Nat /\ k >= 1 /\ (k <= Len(x) /\ k <= Len(y) => x[k] # y[k])
  OBVIOUS
<1>6. \A j \in 1..(k - 1) : j <= Len(x) /\ j <= Len(y) /\ x[j] = y[j]
  <2> SUFFICES ASSUME NEW j \in 1..(k - 1) PROVE ~ (j \in T)
    OBVIOUS
  <2>1. j \in Nat /\ ~ (k <= j)
    BY <1>5
  <2> QED BY <1>4, <2>1
<1> HIDE DEF T
<1>7. k - 1 <= Len(x) /\ k - 1 <= Len(y)
  BY <1>1, <1>5, <1>6
<1>8. CASE k <= Len(x) /\ k <= Len(y)
  <2>1. x[k] < y[k] \/ y[k] < x[k]
    BY <1>2, <1>5, <1>8
  <2> QED BY <1>1, <1>5, <1>6, <1>7, <1>8, <2>1 DEF Before
<1>9. CASE k > Len(x) /\ k <= Len(y)
  BY <1>1, <1>5, <1>6, <1>7, <1>9 DEF Before
<1>10. CASE k <= Len(x) /\ k > Len(y)
  BY <1>1, <1>5, <1>6, <1>7, <1>10 DEF Before
<1>11. CASE k > Len(x) /\ k > Len(y)
  <2>1. Len(x) = Len(y) /\ \A j \in 1..Len(x) : x[j] = y[j]
    BY <1>1, <1>5, <1>6, <1>7, <1>11
  <2>2. x = y
    BY <2>1, SeqEqual
  <2> QED BY <2>2
<1> QED BY <1>1, <1>5, <1>8, <1>9, <1>10, <1>11

\* At the same number of digits the order of the names is that of the numbers.
LEMMA SameLength ==
  \A b \in Nat : \A a \in Nat :
    (Len(Digits[a]) = Len(Digits[b]) /\ a < b) => Before(Digits[a], Digits[b])
<1> DEFINE T == {b \in Nat : ~ \A a \in Nat :
                   (Len(Digits[a]) = Len(Digits[b]) /\ a < b) => Before(Digits[a], Digits[b])}
<1> SUFFICES ASSUME T # {} PROVE FALSE
  OBVIOUS
<1>1. PICK b \in T : \A y \in T : b <= y
  BY LeastNat
<1>2. PICK a \in Nat : Len(Digits[a]) = Len(Digits[b]) /\ a < b /\ ~ Before(Digits[a], Digits[b])
  OBVIOUS
<1>3. \A c \in Nat : c < b => \A d \in Nat :
        (Len(Digits[d]) = Len(Digits[c]) /\ d < c) => Before(Digits[d], Digits[c])
  BY <1>1
<1>4. b \in Nat
  OBVIOUS
<1> HIDE DEF T
<1>5. CASE b < 10
  <2>1. a < 10
    BY <1>2, <1>4, <1>5
  <2>2. Len(Digits[a]) = 1 /\ Len(Digits[b]) = 1 /\ Digits[a][1] = a /\ Digits[b][1] = b
    BY <1>4, <1>5, <2>1, DigitsFacts
  <2>3. Before(Digits[a], Digits[b])
    BY <1>2, <1>4, <2>2 DEF Before
  <2> QED BY <1>2, <2>3
<1>6. CASE b >= 10
  <2> DEFINE p == a \div 10
             q == b \div 10
             u == a % 10
             v == b % 10
             L == Len(Digits[q])
  <2>0. q \in Nat /\ q < b /\ v \in 0..9 /\ v = b - 10 * q
    BY <1>4, <1>6, Tenth
  <2>1. L \in Nat /\ L >= 1 /\ Len(Digits[b]) = L + 1
        /\ (\A j \in 1..L : Digits[b][j] = Digits[q][j]) /\ Digits[b][L + 1] = v
    BY <1>4, <1>6, <2>0, DigitsFacts
  <2>2. a >= 10
    <3> SUFFICES ASSUME a < 10 PROVE FALSE
      BY <1>2
    <3>1. Len(Digits[a]) = 1
      BY DigitsFacts
    <3> HIDE DEF L
    <3> QED BY <1>2, <2>1, <3>1
  <2>3. p \in Nat /\ u \in 0..9 /\ u = a - 10 * p
    BY <2>2, Tenth
  <2>4. Len(Digits[a]) = Len(Digits[p]) + 1
        /\ (\A j \in 1..Len(Digits[p]) : Digits[a][j] = Digits[p][j])
        /\ Digits[a][Len(Digits[a])] = u /\ Len(Digits[p]) \in Nat
    BY <2>2, <2>3, DigitsFacts
  <2> HIDE DEF p, q, u, v
  <2>5. Len(Digits[p]) = L /\ (\A j \in 1..L : Digits[a][j] = Digits[p][j]) /\ Digits[a][L + 1] = u
    <3> HIDE DEF L
    <3>1. Len(Digits[p]) = L
      BY <1>2, <2>1, <2>4
    <3> QED BY <1>2, <2>1, <2>4, <3>1
  <2>6. p < q \/ (p = q /\ u < v)
    BY <1>2, <1>4, <2>0, <2>3
  <2>7. CASE p < q
    <3>1. Before(Digits[p], Digits[q])
      BY <1>3, <2>0, <2>3, <2>5, <2>7
    <3> HIDE DEF L
    <3>2. PICK k \in 1..L : /\ \A j \in 1..(k - 1) : Digits[p][j] = Digits[q][j]
                            /\ k <= L => Digits[p][k] < Digits[q][k]
      BY <3>1, <2>5 DEF Before, L
    <3>3. /\ k \in 1..Len(Digits[b]) /\ k - 1 <= Len(Digits[a])
          /\ \A j \in 1..(k - 1) : Digits[a][j] = Digits[b][j]
          /\ Digits[a][k] < Digits[b][k]
      BY <1>2, <2>1, <2>5, <3>2
    <3> QED BY <1>2, <3>3 DEF Before
  <2>8. CASE p = q /\ u < v
    <3> HIDE DEF L
    <3>1. /\ L + 1 \in 1..Len(Digits[b]) /\ (L + 1) - 1 <= Len(Digits[a])
          /\ \A j \in 1..((L + 1) - 1) : Digits[a][j] = Digits[b][j]
          /\ Digits[a][L + 1] < Digits[b][L + 1]
      BY <1>2, <2>1, <2>5, <2>8
    <3> QED BY <1>2, <3>1 DEF Before
  <2> QED BY <2>6, <2>7, <2>8
<1> QED BY <1>4, <1>5, <1>6

\* NameBefore is a strict total order of the numbers, and that of numbers with
\* as many digits.
LEMMA NameOrder ==
  /\ \A a \in Nat : ~ NameBefore(a, a)
  /\ \A a, b, c \in Nat : NameBefore(a, b) /\ NameBefore(b, c) => NameBefore(a, c)
  /\ \A a, b \in Nat : a # b => NameBefore(a, b) \/ NameBefore(b, a)
  /\ \A a, b \in Nat : Len(Digits[a]) = Len(Digits[b]) /\ a < b => NameBefore(a, b)
<1>1. \A a, b : NameBefore(a, b) <=> Before(Digits[a], Digits[b])
  BY DEF NameBefore, Before
<1>2. \A a \in Nat : Digits[a] \in Seq(Nat)
  BY DigitsDef
<1>3. ASSUME NEW a \in Nat PROVE ~ Before(Digits[a], Digits[a])
  BY <1>2, BeforeIrreflexive
<1>4. ASSUME NEW a \in Nat, NEW b \in Nat, NEW c \in Nat,
             Before(Digits[a], Digits[b]), Before(Digits[b], Digits[c])
      PROVE  Before(Digits[a], Digits[c])
  BY <1>2, <1>4, BeforeTransitive
<1>5. ASSUME NEW a \in Nat, NEW b \in Nat, a # b
      PROVE  Before(Digits[a], Digits[b]) \/ Before(Digits[b], Digits[a])
  <2>1. Digits[a] # Digits[b]
    <3> SUFFICES ASSUME Digits[a] = Digits[b] PROVE FALSE
      OBVIOUS
    <3>1. a < b \/ b < a
      BY <1>5
    <3>2. Before(Digits[a], Digits[b]) \/ Before(Digits[b], Digits[a])
      BY <3>1, SameLength
    <3> QED BY <1>3, <3>2
  <2> QED BY <1>2, <2>1, BeforeTotal
<1> QED BY <1>1, <1>3, <1>4, <1>5, SameLength

\* Where an element is in the list: behind those with later names.
Rank(S, x) == Cardinality({y \in S : NameBefore(x, y)})

\* The list has every element of the set once, and the newest first among those
\* with as many digits.
LEMMA LatestFirstIs ==
  ASSUME NEW S \in SUBSET Nat, IsFiniteSet(S)
  PROVE  LET list == LatestFirst(S) IN
         /\ list \in Seq(S)
         /\ Len(list) = Cardinality(S)
         /\ ToSet(list) = S
         /\ \A j, k \in 1..Len(list) :
              (j < k /\ Len(Digits[list[j]]) = Len(Digits[list[k]])) => list[j] > list[k]
<1> DEFINE n == Cardinality(S)
           list == LatestFirst(S)
<1>1. n \in Nat
  BY FS_CardinalityType
<1>2. \A x \in S : IsFiniteSet({y \in S : NameBefore(x, y)}) /\ Rank(S, x) \in Nat
  <2> SUFFICES ASSUME NEW x \in S
               PROVE  IsFiniteSet({y \in S : NameBefore(x, y)}) /\ Rank(S, x) \in Nat
    OBVIOUS
  <2> DEFINE U == {y \in S : NameBefore(x, y)}
  <2>1. U \in SUBSET S
    OBVIOUS
  <2> HIDE DEF U
  <2>2. IsFiniteSet(U) /\ Cardinality(U) \in Nat
    BY <2>1, FS_Subset, FS_CardinalityType
  <2> QED BY <2>2 DEF U, Rank
<1>3. ASSUME NEW x \in S, NEW y \in S, NameBefore(x, y)
      PROVE  Rank(S, y) < Rank(S, x)
  <2> DEFINE U == {z \in S : NameBefore(x, z)}
             V == {z \in S : NameBefore(y, z)}
  <2>1. V \in SUBSET U
    BY <1>3, NameOrder
  <2>2. y \in U /\ y \notin V
    BY <1>3, NameOrder
  <2>3. IsFiniteSet(U) /\ Cardinality(U) \in Nat /\ Cardinality(V) \in Nat
    BY <1>2 DEF Rank
  <2> HIDE DEF U, V
  <2>4. Cardinality(V) <= Cardinality(U) /\ (Cardinality(U) = Cardinality(V) => U = V)
    BY <2>1, <2>3, FS_Subset
  <2>5. Cardinality(V) < Cardinality(U)
    BY <2>2, <2>3, <2>4
  <2> QED BY <2>5 DEF U, V, Rank
<1>4. ASSUME NEW x \in S, NEW y \in S, x # y PROVE Rank(S, x) # Rank(S, y)
  <2>1. NameBefore(x, y) \/ NameBefore(y, x)
    BY <1>4, NameOrder
  <2>2. Rank(S, x) < Rank(S, y) \/ Rank(S, y) < Rank(S, x)
    BY <1>3, <2>1
  <2>3. Rank(S, x) \in Nat /\ Rank(S, y) \in Nat
    BY <1>2
  <2> QED BY <2>2, <2>3
<1>5. \A x \in S : Rank(S, x) \in 0..(n - 1)
  <2> SUFFICES ASSUME NEW x \in S PROVE Rank(S, x) \in 0..(n - 1)
    OBVIOUS
  <2> DEFINE U == {z \in S : NameBefore(x, z)}
  <2>1. U \in SUBSET S /\ x \notin U
    BY NameOrder
  <2> HIDE DEF U
  <2>2. Cardinality(U) <= n /\ (n = Cardinality(U) => S = U)
    BY <2>1, FS_Subset
  <2>3. Cardinality(U) \in Nat
    BY <1>2 DEF Rank, U
  <2>4. Cardinality(U) \in 0..(n - 1)
    <3> HIDE DEF n
    <3> QED BY <1>1, <2>1, <2>2, <2>3
  <2> QED BY <2>4 DEF U, Rank
<1> DEFINE f == [x \in S |-> Rank(S, x)]
<1>6. f \in Injection(S, 0..(n - 1))
  BY <1>4, <1>5 DEF Injection, IsInjective
<1>7. IsFiniteSet(0..(n - 1)) /\ Cardinality(0..(n - 1)) = n
  <2> HIDE DEF n
  <2>1. 0 \in Int /\ n - 1 \in Int
    BY <1>1
  <2>2. IsFiniteSet(0..(n - 1)) /\ Cardinality(0..(n - 1)) = IF 0 > n - 1 THEN 0 ELSE (n - 1) - 0 + 1
    BY <2>1, FS_Interval
  <2> QED BY <1>1, <2>2
<1>8. f \in Surjection(S, 0..(n - 1))
  <2> HIDE DEF f
  <2> QED BY <1>6, <1>7, FS_Injection
<1>9. \A k \in 1..n : \E x \in S : Rank(S, x) = k - 1
  <2> SUFFICES ASSUME NEW k \in 1..n PROVE \E x \in S : Rank(S, x) = k - 1
    OBVIOUS
  <2>1. k - 1 \in 0..(n - 1)
    BY <1>1
  <2> QED BY <1>8, <2>1 DEF Surjection
<1>10. list = [k \in 1..n |-> CHOOSE x \in S : Rank(S, x) = k - 1]
  BY DEF LatestFirst, Rank
<1> HIDE DEF n, list, f
<1>11. \A k \in 1..n : list[k] \in S /\ Rank(S, list[k]) = k - 1
  BY <1>9, <1>10
<1>12. list \in [1..n -> S]
  BY <1>10, <1>11
<1>13. list \in Seq(S) /\ Len(list) = n /\ DOMAIN list = 1..n
  BY <1>1, <1>12
<1>14. ToSet(list) = S
  <2>1. ASSUME NEW x \in S PROVE \E k \in 1..n : list[k] = x
    <3>1. Rank(S, x) + 1 \in 1..n /\ (Rank(S, x) + 1) - 1 = Rank(S, x)
      BY <1>1, <1>2, <1>5
    <3>2. list[Rank(S, x) + 1] \in S /\ Rank(S, list[Rank(S, x) + 1]) = Rank(S, x)
      BY <1>11, <3>1
    <3>3. list[Rank(S, x) + 1] = x
      BY <1>4, <3>2
    <3> QED BY <3>1, <3>3
  <2> QED BY <1>11, <1>13, <2>1 DEF ToSet
<1>15. ASSUME NEW j \in 1..n, NEW k \in 1..n, j < k, Len(Digits[list[j]]) = Len(Digits[list[k]])
       PROVE  list[j] > list[k]
  <2> DEFINE x == list[j]
             y == list[k]
  <2>1. x \in S /\ y \in S /\ Rank(S, x) = j - 1 /\ Rank(S, y) = k - 1
    BY <1>11
  <2>2. Len(Digits[x]) = Len(Digits[y])
    BY <1>15
  <2> HIDE DEF x, y
  <2>3. ~ (Rank(S, y) < Rank(S, x)) /\ Rank(S, x) # Rank(S, y)
    BY <1>1, <1>15, <2>1
  <2>4. ~ NameBefore(x, y) /\ x # y
    BY <1>3, <2>1, <2>3
  <2>5. ~ (x < y)
    BY <2>1, <2>2, <2>4, NameOrder
  <2>6. x > y
    BY <2>1, <2>4, <2>5
  <2> QED BY <2>6 DEF x, y
<1> QED BY <1>13, <1>14, <1>15 DEF n, list

-----------------------------------------------------------------------------
(* What a closed transaction leaves, on any disk, legacy ones included.    *)

\* The image of the new snapshot is there.
NewComplete ==
  pc \in (Switching \ {"restore"}) \cup Committed => Complete(snapshot.ID)

\* The link points to it, unless clean up removed the snapshot that was active.
LinkMoved ==
  /\ pc \in Committed => activeLink \in {snapshot.ID, NoLink}
  /\ pc = "clean" => activeLink = snapshot.ID
  /\ (pc \in Committed /\ booted.id = activeSnapshotID) => activeLink = snapshot.ID

\* Clean up comes neither to the new snapshot nor to the one in use.
Visits ==
  /\ pc \notin {"delete", "rmold"} => doomed = {}
  /\ snapshot.ID \notin doomed
  /\ pc = "rmold" => Oldest(doomed) # booted.id

\* The snapshot that was active is there, in the end if it is the one in use.
OldActiveThere ==
  pc \in Filling \cup Switching \cup Committed =>
    /\ activeSnapshotID # snapshot.ID
    /\ (activeSnapshotID # 0 /\ (pc \in Committed => booted.id = activeSnapshotID))
         => activeSnapshotID \in GetSnapshots

TxInv == NewComplete /\ LinkMoved /\ Visits /\ OldActiveThere

\* What clean up has not deleted and will not visit fits next to the new one.
Spare == IF MaxSnaps > 0 THEN MaxSnaps - 1 ELSE 0

Kept == GetSnapshots \ ({snapshot.ID, booted.id} \cup doomed)

Retained ==
  (pc \in Committed \ {"clean"} /\ "clean" \notin logged) => Cardinality(Kept) <= Spare

\* The variables that are written are those of the snapshots on the disk.
Passives == GetSnapshots \ {activeLink}

MenuWritten ==
  "env" \notin logged =>
    /\ pc \in {"setfallback", "cleanlegacy", "closed"} => bootEnv.passives = PassiveList(Passives)
    /\ pc \in {"setpassives", "cleanlegacy", "closed"} => bootEnv.fallback = Cardinality(Passives) + 1

\* The first states.
LEMMA TxInvInit == Init => TxInv /\ Retained /\ MenuWritten
  BY DEF Init, TxInv, NewComplete, LinkMoved, Visits, OldActiveThere, Retained, MenuWritten,
         Filling, Switching, Committed, NoSnapshot

\* A new snapshot gets a directory that is not there.
LEMMA NextIDNew ==
  ASSUME Typed
  PROVE  NextID(GetSnapshots) \notin GetSnapshots
<1>1. \A i \in GetSnapshots : i < NextID(GetSnapshots)
  BY QueryTypes, NextIDFresh
<1>2. NextID(GetSnapshots) \in Int
  BY QueryTypes, NextIDFresh, ConstantsAssumption
<1> QED BY <1>1, <1>2

\* Every step keeps what is known of the transaction: one case per action.
LEMMA TxInvNext == TypeInv /\ TypeInv' /\ TxInv /\ [Next]_vars => TxInv'
<1> SUFFICES ASSUME TypeInv, TypeInv', TxInv, [Next]_vars PROVE TxInv'
  OBVIOUS
<1> USE DEF TypeInv, HasID, TxPCs, Typed, TxInv, NewComplete, LinkMoved, Visits, OldActiveThere,
            Filling, Switching, Committed, Complete, GetSnapshots
<1>1. CASE NewLoopDeviceSnapshotter
  BY <1>1, QueryTypes DEF NewLoopDeviceSnapshotter, disk, object
<1>2. CASE Exit
  BY <1>2, QueryTypes DEF Exit, ProcessGone, disk, NoSnapshot
<1>3. CASE Reboot
  BY <1>3, QueryTypes DEF Reboot, ProcessGone, disk, NoSnapshot
<1>4. CASE InitSnapshotter
  BY <1>4, QueryTypes DEF InitSnapshotter, disk
<1>5. CASE LegacyImageToSnapshot
  BY <1>5, QueryTypes DEF LegacyImageToSnapshot
<1>6. CASE LinkLegacyImage
  BY <1>6, QueryTypes DEF LinkLegacyImage, object
<1>7. CASE StartTransaction
  <2>1. CASE pc' = "failed"
    BY <1>7, <2>1 DEF StartTransaction, disk
  <2>2. CASE pc' = "mkdir"
    <3>1. /\ snapshot'.ID = NextID(GetSnapshots)
          /\ activeSnapshotID' = getActiveSnapshot
          /\ getActiveSnapshot # -1
          /\ UNCHANGED <<disk, booted, doomed>>
          /\ doomed = {}
      BY <1>7, <2>2 DEF StartTransaction
    <3>2. getActiveSnapshot # 0 => getActiveSnapshot \in GetSnapshots
      BY <3>1 DEF getActiveSnapshot
    <3>3. NextID(GetSnapshots) \notin GetSnapshots
      BY NextIDNew, Zenon
    <3>4. snapshot'.ID # 0
      BY <2>2
    <3> QED BY <2>2, <3>1, <3>2, <3>3, <3>4 DEF disk
  <2> QED BY <1>7, <2>1, <2>2 DEF StartTransaction
<1>8. CASE StartFails
  BY <1>8, QueryTypes DEF StartFails, NoSnapshot
<1>9. CASE MkSnapDir
  BY <1>9, QueryTypes DEF MkSnapDir, object
<1>10. CASE MkWorkDir
  BY <1>10, QueryTypes DEF MkWorkDir, object
<1>11. CASE BindMount
  BY <1>11, QueryTypes DEF BindMount, disk
<1>12. CASE CloseTransactionOnError
  BY <1>12, QueryTypes DEF CloseTransactionOnError, disk, object
<1>13. CASE RemoveSnapshotDir
  BY <1>13, QueryTypes DEF RemoveSnapshotDir, object
<1>14. CASE RemoveSnapshotsPath
  BY <1>14, QueryTypes DEF RemoveSnapshotsPath, object
<1>15. CASE CloseFails
  BY <1>15, QueryTypes DEF CloseFails, disk, object
<1>16. CASE CloseTransaction
  BY <1>16, QueryTypes DEF CloseTransaction, disk, object
<1>17. CASE CreateImage
  BY <1>17, QueryTypes DEF CreateImage, object
<1>18. CASE SyncImage
  BY <1>18, QueryTypes DEF SyncImage, object
<1>19. CASE RemoveWorkDir
  BY <1>19, QueryTypes DEF RemoveWorkDir, object
<1>20. CASE RemoveActiveLink
  BY <1>20, QueryTypes DEF RemoveActiveLink, object
<1>21. CASE SymlinkActive
  BY <1>21, QueryTypes DEF SymlinkActive, object
<1>22. CASE SymlinkRestore
  BY <1>22, QueryTypes DEF SymlinkRestore, object
<1>23. CASE CleanOldSnapshots
  <2>1. snapshot.ID \in SnapIDs /\ activeLink = snapshot.ID
    BY <1>23 DEF CleanOldSnapshots
  <2>2. getActiveSnapshot = snapshot.ID
    BY <1>23, <2>1, QueryTypes DEF CleanOldSnapshots, getActiveSnapshot, NoLink
  <2>3. snapshot.ID \notin Doomed(getPassiveSnapshots)
    BY <2>2 DEF Doomed, getPassiveSnapshots
  <2> QED
    BY <1>23, <2>1, <2>3 DEF CleanOldSnapshots, disk, object
<1>24. CASE DeleteSnapshot
  BY <1>24, QueryTypes DEF DeleteSnapshot, object, isSnapshotInUse
<1>25. CASE RemoveOldSnapshot
  <2> DEFINE id == Oldest(doomed)
  <2>1. id \in doomed /\ id \in SnapIDs
    BY <1>25, OldestMember DEF RemoveOldSnapshot
  <2>2. id # snapshot.ID /\ id # booted.id
    BY <1>25, <2>1 DEF RemoveOldSnapshot
  <2>3. \A i \in SnapIDs : i # id => snaps'[i] = snaps[i]
    BY <1>25 DEF RemoveOldSnapshot
  <2>4. /\ pc = "rmold" /\ pc' = "delete" /\ doomed' \subseteq doomed
        /\ UNCHANGED <<activeLink, booted, snapshot, activeSnapshotID>>
    BY <1>25 DEF RemoveOldSnapshot, object
  <2> HIDE DEF id
  <2> QED
    BY <2>1, <2>2, <2>3, <2>4
<1>26. CASE CleanDone
  BY <1>26, QueryTypes DEF CleanDone, disk, object
<1>27. CASE SetPassives
  BY <1>27, QueryTypes DEF SetPassives, object
<1>28. CASE SetFallback
  BY <1>28, QueryTypes DEF SetFallback, object
<1>29. CASE SetBootloaderFails
  BY <1>29, QueryTypes DEF SetBootloaderFails, disk, object
<1>30. CASE CleanLegacyImages
  BY <1>30, QueryTypes DEF CleanLegacyImages
<1>31. CASE UNCHANGED vars
  BY <1>31 DEF vars, disk, object
<1> QED
  BY <1>1, <1>2, <1>3, <1>4, <1>5, <1>6, <1>7, <1>8, <1>9, <1>10, <1>11, <1>12, <1>13, <1>14, <1>15, <1>16, <1>17, <1>18, <1>19, <1>20, <1>21, <1>22, <1>23, <1>24, <1>25, <1>26, <1>27, <1>28, <1>29, <1>30, <1>31 DEF Next, SnapshotterStep, ClientStep

\* Sets of snapshots are finite.
LEMMA FiniteIDs ==
  ASSUME NEW S \in SUBSET SnapIDs
  PROVE  IsFiniteSet(S) /\ Cardinality(S) \in Nat
<1>1. IsFiniteSet(SnapIDs)
  BY FS_Interval, ConstantsAssumption DEF SnapIDs
<1> QED BY <1>1, FS_Subset, FS_CardinalityType

\* The snapshots cleanOldSnapshots does not visit: those above the oldest of
\* them are few enough, or it would have been visited.
LEMMA DoomedRest ==
  ASSUME NEW P \in SUBSET SnapIDs
  PROVE  Cardinality(P \ Doomed(P)) <= Spare
<1> DEFINE K == P \ Doomed(P)
<1>1. K \in SUBSET SnapIDs
  OBVIOUS
<1>2. CASE K = {}
  BY <1>2, FS_EmptySet, ConstantsAssumption DEF Spare
<1>3. CASE K # {}
  <2> DEFINE m == Oldest(K)
             U == {j \in P : j >= m}
  <2>1. m \in K /\ \A j \in K : m <= j
    BY <1>1, <1>3, OldestMember
  <2>2. m \in SnapIDs /\ m \in P /\ ~ (Cardinality(U) > MaxSnaps - 1)
    BY <2>1 DEF Doomed
  <2>3. U \in SUBSET SnapIDs /\ K \in SUBSET U
    <3>1. ASSUME NEW j \in K PROVE j \in U
      <4>1. m <= j /\ j \in Int /\ m \in Int
        BY <2>1, <2>2, <1>1 DEF SnapIDs
      <4> QED BY <4>1
    <3> QED BY <3>1
  <2> HIDE DEF U, K, m
  <2>4. Cardinality(K) <= Cardinality(U) /\ Cardinality(K) \in Nat /\ Cardinality(U) \in Nat
    BY <1>1, <2>3, FiniteIDs, FS_Subset
  <2>5. Cardinality(K) # 0
    BY <1>1, <1>3, FiniteIDs, FS_EmptySet
  <2> QED BY <2>2, <2>4, <2>5, ConstantsAssumption DEF Spare, K
<1> QED BY <1>2, <1>3

\* After clean up has looked at the directories their number only goes down.
LEMMA KeptShrinks ==
  ASSUME TypeInv, TypeInv', TxInv, [Next]_vars, pc \in Committed \ {"clean"}, pc' \in Committed,
         "clean" \notin logged'
  PROVE  "clean" \notin logged /\ pc' # "clean" /\ Kept' \in SUBSET Kept
<1> USE DEF TypeInv, Typed, Kept, Committed, GetSnapshots
<1>1. CASE DeleteSnapshot
  <2>1. CASE doomed' = doomed
    BY <1>1, <2>1 DEF DeleteSnapshot, object
  <2>2. CASE isSnapshotInUse(Oldest(doomed)) /\ doomed' = doomed \ {Oldest(doomed)} /\ logged' = logged
    BY <1>1, <2>2 DEF DeleteSnapshot, object, isSnapshotInUse
  <2> QED BY <1>1, <2>1, <2>2 DEF DeleteSnapshot
<1>2. CASE RemoveOldSnapshot
  <2> DEFINE id == Oldest(doomed)
  <2>1. id \in doomed /\ id \in SnapIDs
    BY <1>2, OldestMember DEF RemoveOldSnapshot, HasID
  <2>2. PICK r \in Residues(snaps[id]) :
          /\ snaps' = [snaps EXCEPT ![id] = r]
          /\ logged' = IF r = {} THEN logged ELSE logged \cup {"clean"}
    BY <1>2 DEF RemoveOldSnapshot
  <2>3. r = {} /\ logged' = logged
    BY <2>2
  <2>4. UNCHANGED <<booted, snapshot>> /\ doomed' = doomed \ {id} /\ pc' = "delete"
    BY <1>2 DEF RemoveOldSnapshot, object
  <2>5. snaps'[id] = {} /\ \A i \in SnapIDs : i # id => snaps'[i] = snaps[i]
    BY <2>1, <2>2, <2>3
  <2> HIDE DEF id
  <2> QED BY <2>3, <2>4, <2>5
<1>3. CASE CleanDone \/ SetPassives \/ SetFallback \/ SetBootloaderFails
  BY <1>3 DEF CleanDone, SetPassives, SetFallback, SetBootloaderFails, disk, object
<1>4. CASE CleanLegacyImages
  BY <1>4 DEF CleanLegacyImages
<1>5. CASE UNCHANGED vars
  BY <1>5 DEF vars, disk, object
<1>6. CASE \/ NewLoopDeviceSnapshotter \/ Exit \/ Reboot \/ InitSnapshotter \/ LegacyImageToSnapshot
           \/ LinkLegacyImage \/ StartTransaction \/ StartFails \/ MkSnapDir \/ MkWorkDir
           \/ BindMount \/ CloseTransactionOnError \/ RemoveSnapshotDir \/ RemoveSnapshotsPath
  BY <1>6 DEF NewLoopDeviceSnapshotter, Exit, ProcessGone, Reboot, InitSnapshotter,
              LegacyImageToSnapshot, LinkLegacyImage, StartTransaction, StartFails, MkSnapDir,
              MkWorkDir, BindMount, CloseTransactionOnError, RemoveSnapshotDir, RemoveSnapshotsPath
<1>7. CASE \/ CloseFails \/ CloseTransaction \/ CreateImage \/ SyncImage \/ RemoveWorkDir
           \/ RemoveActiveLink \/ SymlinkActive \/ SymlinkRestore \/ CleanOldSnapshots
  BY <1>7 DEF CloseFails, CloseTransaction, CreateImage, SyncImage, RemoveWorkDir,
              RemoveActiveLink, SymlinkActive, SymlinkRestore, CleanOldSnapshots
<1> QED
  BY <1>1, <1>2, <1>3, <1>4, <1>5, <1>6, <1>7 DEF Next, SnapshotterStep, ClientStep

\* A transaction is committed by the move of the link.
LEMMA CommitStep ==
  ASSUME [Next]_vars, pc \notin Committed \ {"clean"}, pc' \in Committed \ {"clean"}
  PROVE  CleanOldSnapshots
<1> USE DEF Committed
<1>1. CASE \/ NewLoopDeviceSnapshotter \/ Exit \/ Reboot \/ InitSnapshotter \/ LegacyImageToSnapshot
           \/ LinkLegacyImage \/ StartTransaction \/ StartFails \/ MkSnapDir \/ MkWorkDir
           \/ BindMount \/ CloseTransactionOnError \/ RemoveSnapshotDir \/ RemoveSnapshotsPath
  BY <1>1 DEF NewLoopDeviceSnapshotter, Exit, ProcessGone, Reboot, InitSnapshotter,
              LegacyImageToSnapshot, LinkLegacyImage, StartTransaction, StartFails, MkSnapDir,
              MkWorkDir, BindMount, CloseTransactionOnError, RemoveSnapshotDir, RemoveSnapshotsPath
<1>2. CASE \/ CloseFails \/ CloseTransaction \/ CreateImage \/ SyncImage \/ RemoveWorkDir
           \/ RemoveActiveLink \/ SymlinkActive \/ SymlinkRestore
  BY <1>2 DEF CloseFails, CloseTransaction, CreateImage, SyncImage, RemoveWorkDir,
              RemoveActiveLink, SymlinkActive, SymlinkRestore
<1>3. CASE DeleteSnapshot \/ RemoveOldSnapshot \/ CleanDone \/ SetPassives \/ SetFallback
           \/ SetBootloaderFails \/ CleanLegacyImages \/ UNCHANGED vars
  BY <1>3 DEF DeleteSnapshot, RemoveOldSnapshot, CleanDone, SetPassives, SetFallback,
              SetBootloaderFails, CleanLegacyImages, vars
<1> QED
  BY <1>1, <1>2, <1>3 DEF Next, SnapshotterStep, ClientStep

\* Clean up ends with as many snapshots as it should.
LEMMA RetainedNext ==
  ASSUME TypeInv, TypeInv', TxInv, Retained, [Next]_vars
  PROVE  Retained'
<1> SUFFICES ASSUME pc' \in Committed \ {"clean"}, "clean" \notin logged'
             PROVE  Cardinality(Kept)' <= Spare
  BY DEF Retained, Spare
<1>1. CASE pc \in Committed \ {"clean"}
  <2>1. "clean" \notin logged /\ Kept' \in SUBSET Kept
    BY <1>1, KeptShrinks
  <2>2. Cardinality(Kept) <= Spare
    BY <1>1, <2>1 DEF Retained
  <2>3. Kept \in SUBSET SnapIDs /\ Kept' \in SUBSET SnapIDs
    BY <2>1 DEF Kept, GetSnapshots
  <2>4. Cardinality(Kept') <= Cardinality(Kept) /\ Cardinality(Kept') \in Nat /\ Cardinality(Kept) \in Nat
    BY <2>1, <2>3, FiniteIDs, FS_Subset
  <2> QED BY <2>2, <2>4, ConstantsAssumption DEF Spare
<1>2. CASE pc \notin Committed \ {"clean"}
  <2>1. CleanOldSnapshots
    BY <1>2, CommitStep
  <2>2. pc = "clean" /\ doomed' = Doomed(getPassiveSnapshots) /\ UNCHANGED <<snaps, snapshot, booted>>
    BY <2>1 DEF CleanOldSnapshots, disk, object
  <2>3. snapshot.ID \in SnapIDs /\ activeLink = snapshot.ID /\ Complete(snapshot.ID)
    BY <2>2 DEF TypeInv, HasID, TxPCs, Typed, TxInv, LinkMoved, NewComplete, Committed
  <2>4. getActiveSnapshot = snapshot.ID
    BY <2>3, QueryTypes DEF getActiveSnapshot, NoLink, Complete, TypeInv
  <2> DEFINE P == getPassiveSnapshots
  <2>5. Kept' \in SUBSET (P \ Doomed(P)) /\ P \in SUBSET SnapIDs
    BY <2>2, <2>4 DEF Kept, GetSnapshots, getPassiveSnapshots
  <2> HIDE DEF P
  <2>6. Cardinality(P \ Doomed(P)) <= Spare /\ P \ Doomed(P) \in SUBSET SnapIDs /\ Kept' \in SUBSET SnapIDs
    BY <2>5, DoomedRest
  <2>7. /\ Cardinality(Kept') <= Cardinality(P \ Doomed(P))
        /\ Cardinality(Kept') \in Nat /\ Cardinality(P \ Doomed(P)) \in Nat
    BY <2>5, <2>6, FiniteIDs, FS_Subset
  <2> QED BY <2>6, <2>7, ConstantsAssumption DEF Spare
<1> QED BY <1>1, <1>2

\* The list of any set of snapshots, and of those GetSnapshots returns.
LEMMA PassiveListIs ==
  ASSUME NEW S \in SUBSET SnapIDs
  PROVE  LET list == PassiveList(S) IN
         /\ list \in Seq(SnapIDs)
         /\ Len(list) = Cardinality(S)
         /\ ToSet(list) = S
         /\ \A j, k \in 1..Len(list) :
              (j < k /\ Len(Digits[list[j]]) = Len(Digits[list[k]])) => list[j] > list[k]
<1>1. S \in SUBSET Nat /\ IsFiniteSet(S)
  BY FiniteIDs, ConstantsAssumption DEF SnapIDs
<1>2. PassiveList(S) \in Seq(S)
  BY <1>1, LatestFirstIs DEF PassiveList
<1>3. PassiveList(S) \in Seq(SnapIDs)
  BY <1>2
<1> QED
  BY <1>1, <1>3, LatestFirstIs DEF PassiveList

\* Only setBootloader writes the variables of the boot menu.
LEMMA EnvSteps ==
  ASSUME [Next]_vars
  PROVE  UNCHANGED bootEnv \/ SetPassives \/ SetFallback
<1>1. CASE \/ NewLoopDeviceSnapshotter \/ Exit \/ Reboot \/ InitSnapshotter \/ LegacyImageToSnapshot
           \/ LinkLegacyImage \/ StartTransaction \/ StartFails \/ MkSnapDir \/ MkWorkDir
           \/ BindMount \/ CloseTransactionOnError \/ RemoveSnapshotDir \/ RemoveSnapshotsPath
  BY <1>1 DEF NewLoopDeviceSnapshotter, Exit, Reboot, InitSnapshotter,
              LegacyImageToSnapshot, LinkLegacyImage, StartTransaction, StartFails, MkSnapDir,
              MkWorkDir, BindMount, CloseTransactionOnError, RemoveSnapshotDir, RemoveSnapshotsPath, disk
<1>2. CASE \/ CloseFails \/ CloseTransaction \/ CreateImage \/ SyncImage \/ RemoveWorkDir
           \/ RemoveActiveLink \/ SymlinkActive \/ SymlinkRestore \/ CleanOldSnapshots
  BY <1>2 DEF CloseFails, CloseTransaction, CreateImage, SyncImage, RemoveWorkDir,
              RemoveActiveLink, SymlinkActive, SymlinkRestore, CleanOldSnapshots, disk
<1>3. CASE DeleteSnapshot \/ RemoveOldSnapshot \/ CleanDone
           \/ SetBootloaderFails \/ CleanLegacyImages \/ UNCHANGED vars
  BY <1>3 DEF DeleteSnapshot, RemoveOldSnapshot, CleanDone, SetBootloaderFails, CleanLegacyImages, vars, disk
<1> QED
  BY <1>1, <1>2, <1>3 DEF Next, SnapshotterStep, ClientStep

\* The types of the variables of the boot menu.
EnvTyped == bootEnv \in [passives : Seq(SnapIDs), fallback : Nat]

LEMMA EnvTypedNext == TypeInv /\ EnvTyped /\ [Next]_vars => EnvTyped'
<1> SUFFICES ASSUME TypeInv, EnvTyped, [Next]_vars PROVE EnvTyped'
  OBVIOUS
<1> DEFINE P == getPassiveSnapshots
<1>1. P \in SUBSET SnapIDs
  BY QueryTypes DEF TypeInv
<1> HIDE DEF P
<1>2. PassiveList(P) \in Seq(SnapIDs) /\ Cardinality(P) + 1 \in Nat
  BY <1>1, PassiveListIs, FiniteIDs
<1>3. CASE SetPassives
  BY <1>2, <1>3 DEF SetPassives, EnvTyped, P
<1>4. CASE SetFallback
  BY <1>2, <1>4 DEF SetFallback, EnvTyped, P
<1>5. CASE UNCHANGED bootEnv
  BY <1>5 DEF EnvTyped
<1> QED BY <1>3, <1>4, <1>5, EnvSteps

\* Every variable keeps its type, the list of passive snapshots included.
THEOREM AllTypesCorrect == Spec => []TypeOK
<1>1. Init => TypeInv /\ EnvTyped
  BY TypeInit DEF Init, EnvTyped
<1>2. (TypeInv /\ EnvTyped) /\ [Next]_vars => (TypeInv /\ EnvTyped)'
  BY TypeNext, EnvTypedNext
<1>3. TypeInv /\ EnvTyped => TypeOK
  BY DEF TypeInv, EnvTyped, TypeOK
<1> QED BY <1>1, <1>2, <1>3, PTL DEF Spec

\* Once the link has moved, the passive snapshots are all but its target.
LEMMA PassivesQuery ==
  ASSUME TypeInv, TxInv, pc \in Committed, getActiveSnapshot # -1
  PROVE  getPassiveSnapshots = Passives
<1>1. snapshot.ID \in SnapIDs /\ Complete(snapshot.ID) /\ activeLink \in {snapshot.ID, NoLink}
  BY DEF TypeInv, HasID, TxPCs, Typed, TxInv, NewComplete, LinkMoved, Committed
<1>2. CASE activeLink = NoLink
  BY <1>2, QueryTypes DEF TypeInv, getActiveSnapshot, getPassiveSnapshots, Passives, GetSnapshots, NoLink
<1>3. CASE activeLink = snapshot.ID
  <2>1. getActiveSnapshot = activeLink
    BY <1>1, <1>3, QueryTypes DEF TypeInv, getActiveSnapshot, Complete, NoLink
  <2> QED BY <2>1 DEF getPassiveSnapshots, Passives
<1> QED BY <1>1, <1>2, <1>3

\* Steps at the end of a transaction that is closed without an error of
\* setBootloader: they write a variable, or leave the disk alone.
LEMMA MenuSteps ==
  ASSUME [Next]_vars, pc' \in {"setpassives", "setfallback", "cleanlegacy", "closed"}, "env" \notin logged'
  PROVE  /\ "env" \notin logged
         /\ \/ SetPassives \/ SetFallback
            \/ /\ UNCHANGED <<bootEnv, snaps, activeLink>>
               /\ pc \in {pc', "cleanlegacy"}
               /\ pc = "cleanlegacy" => pc' \in {"cleanlegacy", "closed"}
<1>1. CASE \/ NewLoopDeviceSnapshotter \/ Exit \/ Reboot \/ InitSnapshotter \/ LegacyImageToSnapshot
           \/ LinkLegacyImage \/ StartTransaction \/ StartFails \/ MkSnapDir \/ MkWorkDir
           \/ BindMount \/ CloseTransactionOnError \/ RemoveSnapshotDir \/ RemoveSnapshotsPath
  BY <1>1 DEF NewLoopDeviceSnapshotter, Exit, ProcessGone, Reboot, InitSnapshotter,
              LegacyImageToSnapshot, LinkLegacyImage, StartTransaction, StartFails, MkSnapDir,
              MkWorkDir, BindMount, CloseTransactionOnError, RemoveSnapshotDir, RemoveSnapshotsPath
<1>2. CASE \/ CloseFails \/ CloseTransaction \/ CreateImage \/ SyncImage \/ RemoveWorkDir
           \/ RemoveActiveLink \/ SymlinkActive \/ SymlinkRestore \/ CleanOldSnapshots
  BY <1>2 DEF CloseFails, CloseTransaction, CreateImage, SyncImage, RemoveWorkDir,
              RemoveActiveLink, SymlinkActive, SymlinkRestore, CleanOldSnapshots
<1>3. CASE DeleteSnapshot \/ RemoveOldSnapshot \/ CleanDone \/ SetBootloaderFails
  BY <1>3 DEF DeleteSnapshot, RemoveOldSnapshot, CleanDone, SetBootloaderFails
<1>4. CASE CleanLegacyImages
  BY <1>4 DEF CleanLegacyImages
<1>5. CASE UNCHANGED vars
  BY <1>5 DEF vars, disk
<1>6. CASE SetPassives \/ SetFallback
  BY <1>6 DEF SetPassives, SetFallback
<1> QED
  BY <1>1, <1>2, <1>3, <1>4, <1>5, <1>6 DEF Next, SnapshotterStep, ClientStep

\* What has been written is what a query would find.
LEMMA MenuNext ==
  ASSUME TypeInv, TxInv, EnvTyped, MenuWritten, [Next]_vars
  PROVE  MenuWritten'
<1> SUFFICES ASSUME pc' \in {"setpassives", "setfallback", "cleanlegacy", "closed"}, "env" \notin logged'
             PROVE  MenuWritten'
  BY DEF MenuWritten
<1>1. "env" \notin logged
  BY MenuSteps
<1>2. CASE SetPassives
  <2>1. getPassiveSnapshots = Passives
    BY <1>2, PassivesQuery DEF SetPassives, Committed
  <2>2. /\ bootEnv'.passives = PassiveList(Passives)
        /\ bootEnv'.fallback = bootEnv.fallback
        /\ UNCHANGED <<snaps, activeLink>>
        /\ pc' = IF pc = "setboot" THEN "setfallback" ELSE "cleanlegacy"
        /\ pc \in {"setboot", "setpassives"}
    BY <1>2, <2>1 DEF SetPassives, EnvTyped
  <2>3. UNCHANGED Passives
    BY <2>2 DEF Passives, GetSnapshots
  <2> QED BY <1>1, <2>2, <2>3 DEF MenuWritten
<1>3. CASE SetFallback
  <2>1. getPassiveSnapshots = Passives
    BY <1>3, PassivesQuery DEF SetFallback, Committed
  <2>2. /\ bootEnv'.fallback = Cardinality(Passives) + 1
        /\ bootEnv'.passives = bootEnv.passives
        /\ UNCHANGED <<snaps, activeLink>>
        /\ pc' = IF pc = "setboot" THEN "setpassives" ELSE "cleanlegacy"
        /\ pc \in {"setboot", "setfallback"}
    BY <1>3, <2>1 DEF SetFallback, EnvTyped
  <2>3. UNCHANGED Passives
    BY <2>2 DEF Passives, GetSnapshots
  <2> QED BY <1>1, <2>2, <2>3 DEF MenuWritten
<1>4. CASE /\ UNCHANGED <<bootEnv, snaps, activeLink>>
           /\ pc \in {pc', "cleanlegacy"}
           /\ pc = "cleanlegacy" => pc' \in {"cleanlegacy", "closed"}
  <2>1. UNCHANGED Passives
    BY <1>4 DEF Passives, GetSnapshots
  <2> QED BY <1>1, <1>4, <2>1 DEF MenuWritten
<1> QED BY <1>2, <1>3, <1>4, MenuSteps

\* The invariant of a transaction on any disk.
CloseInv == TypeInv /\ EnvTyped /\ TxInv /\ Retained /\ MenuWritten

LEMMA CloseInvariance == Spec => []CloseInv
<1>1. Init => CloseInv
  BY TypeInit, TxInvInit DEF Init, EnvTyped, CloseInv
<1>2. CloseInv /\ [Next]_vars => CloseInv'
  BY TypeNext, EnvTypedNext, TxInvNext, RetainedNext, MenuNext DEF CloseInv
<1> QED BY <1>1, <1>2, PTL DEF Spec

\* For every MaxSnaps, whatever the disk held before, a transaction whose clean
\* up met no error leaves MaxSnaps snapshots, and the one in use on top.
THEOREM RetentionIsBounded == Spec => []RetentionBound
<1>1. CloseInv => RetentionBound
  <2> SUFFICES ASSUME CloseInv, pc = "closed", "clean" \notin logged
               PROVE  Cardinality(GetSnapshots \ {snapshot.ID, booted.id}) <= Spare
    BY DEF RetentionBound, Spare
  <2>1. Kept = GetSnapshots \ {snapshot.ID, booted.id}
    BY DEF CloseInv, TxInv, Visits, Kept
  <2>2. Cardinality(Kept) <= Spare
    BY DEF CloseInv, Retained, Committed
  <2> QED BY <2>1, <2>2
<1> QED BY <1>1, CloseInvariance, PTL

\* A transaction closed without an error of setBootloader leaves a boot menu
\* with every snapshot but the active one, once, the newest first among IDs with
\* as many digits, and a fallback list that ends at recovery.
THEOREM BootMenuIsDisk == Spec => []BootMenuMatchesDisk
<1>1. CloseInv => BootMenuMatchesDisk
  <2> SUFFICES ASSUME CloseInv, pc = "closed", "env" \notin logged
               PROVE  LET list == bootEnv.passives IN
                      /\ ToSet(list) = Passives
                      /\ bootEnv.fallback = Len(list) + 1
                      /\ \A j, k \in 1..Len(list) :
                           (j < k /\ Len(Digits[list[j]]) = Len(Digits[list[k]])) => list[j] > list[k]
    BY DEF BootMenuMatchesDisk, Passives
  <2>1. bootEnv.passives = PassiveList(Passives) /\ bootEnv.fallback = Cardinality(Passives) + 1
    BY DEF CloseInv, MenuWritten
  <2>2. Passives \in SUBSET SnapIDs
    BY DEF Passives, GetSnapshots
  <2> QED BY <2>1, <2>2, PassiveListIs
<1> QED BY <1>1, CloseInvariance, PTL

\* A transaction run from the active system and closed leaves the new snapshot
\* active and that system as a complete passive one the boot menu lists.
THEOREM OldActiveStaysPassive == Spec => []OldActiveIsPassive
<1> DEFINE Running == ~LegacyDisk => RunningComplete
<1>1. Spec => []Running
  <2>1. CASE LegacyDisk
    <3>1. Running
      BY <2>1
    <3> QED BY <3>1, PTL
  <2>2. CASE ~LegacyDisk
    <3>1. TypeInv /\ IInv => Running
      BY DEF IInv
    <3> QED BY <2>2, <3>1, Invariance, PTL
  <2> QED BY <2>1, <2>2
<1>2. CloseInv /\ Running => OldActiveIsPassive
  <2> SUFFICES ASSUME CloseInv, Running, pc = "closed", activeSnapshotID # 0,
                      booted.id = activeSnapshotID
               PROVE  /\ activeLink = snapshot.ID
                      /\ ~LegacyDisk => Complete(activeSnapshotID)
                      /\ "env" \notin logged => activeSnapshotID \in ToSet(bootEnv.passives)
    BY DEF OldActiveIsPassive
  <2>1. activeLink = snapshot.ID
    BY DEF CloseInv, TxInv, LinkMoved, Committed
  <2>2. ~LegacyDisk => Complete(activeSnapshotID)
    BY DEF RunningComplete
  <2>3. activeSnapshotID \in Passives
    BY <2>1 DEF CloseInv, TxInv, OldActiveThere, Committed, Passives
  <2>4. Passives \in SUBSET SnapIDs
    BY DEF Passives, GetSnapshots
  <2>5. "env" \notin logged => bootEnv.passives = PassiveList(Passives)
    BY DEF CloseInv, MenuWritten
  <2>6. ToSet(PassiveList(Passives)) = Passives
    BY <2>4, PassiveListIs
  <2> QED BY <2>1, <2>2, <2>3, <2>5, <2>6
<1> QED BY <1>1, <1>2, CloseInvariance, PTL

-----------------------------------------------------------------------------
(* The image of a legacy deployment.                                       *)

\* The snapshotter knows the snapshot it runs from or none.
CurrentIsRunning == currentSnapshotID \in {0, booted.id}

LEMMA CurrentNext == CurrentIsRunning /\ [Next]_vars => CurrentIsRunning'
<1> SUFFICES ASSUME CurrentIsRunning, [Next]_vars PROVE CurrentIsRunning'
  OBVIOUS
<1> USE DEF CurrentIsRunning
<1>1. CASE \/ NewLoopDeviceSnapshotter \/ Exit \/ Reboot \/ InitSnapshotter \/ LegacyImageToSnapshot
           \/ LinkLegacyImage \/ StartTransaction \/ StartFails \/ MkSnapDir \/ MkWorkDir
           \/ BindMount \/ CloseTransactionOnError \/ RemoveSnapshotDir \/ RemoveSnapshotsPath
  BY <1>1 DEF NewLoopDeviceSnapshotter, Exit, ProcessGone, Reboot, InitSnapshotter,
              LegacyImageToSnapshot, LinkLegacyImage, StartTransaction, StartFails, MkSnapDir,
              MkWorkDir, BindMount, CloseTransactionOnError, RemoveSnapshotDir, RemoveSnapshotsPath, object
<1>2. CASE \/ CloseFails \/ CloseTransaction \/ CreateImage \/ SyncImage \/ RemoveWorkDir
           \/ RemoveActiveLink \/ SymlinkActive \/ SymlinkRestore \/ CleanOldSnapshots
  BY <1>2 DEF CloseFails, CloseTransaction, CreateImage, SyncImage, RemoveWorkDir,
              RemoveActiveLink, SymlinkActive, SymlinkRestore, CleanOldSnapshots, object
<1>3. CASE DeleteSnapshot \/ RemoveOldSnapshot \/ CleanDone \/ SetPassives \/ SetFallback
           \/ SetBootloaderFails \/ CleanLegacyImages \/ UNCHANGED vars
  BY <1>3 DEF DeleteSnapshot, RemoveOldSnapshot, CleanDone, SetPassives, SetFallback,
              SetBootloaderFails, CleanLegacyImages, vars, object
<1> QED
  BY <1>1, <1>2, <1>3 DEF Next, SnapshotterStep, ClientStep

\* Only cleanLegacyImages touches /cOS.
LEMMA LegacySteps ==
  ASSUME [Next]_vars
  PROVE  UNCHANGED legacy \/ CleanLegacyImages
<1>1. CASE \/ NewLoopDeviceSnapshotter \/ Exit \/ Reboot \/ InitSnapshotter \/ LegacyImageToSnapshot
           \/ LinkLegacyImage \/ StartTransaction \/ StartFails \/ MkSnapDir \/ MkWorkDir
           \/ BindMount \/ CloseTransactionOnError \/ RemoveSnapshotDir \/ RemoveSnapshotsPath
  BY <1>1 DEF NewLoopDeviceSnapshotter, Exit, Reboot, InitSnapshotter,
              LegacyImageToSnapshot, LinkLegacyImage, StartTransaction, StartFails, MkSnapDir,
              MkWorkDir, BindMount, CloseTransactionOnError, RemoveSnapshotDir, RemoveSnapshotsPath, disk
<1>2. CASE \/ CloseFails \/ CloseTransaction \/ CreateImage \/ SyncImage \/ RemoveWorkDir
           \/ RemoveActiveLink \/ SymlinkActive \/ SymlinkRestore \/ CleanOldSnapshots
  BY <1>2 DEF CloseFails, CloseTransaction, CreateImage, SyncImage, RemoveWorkDir,
              RemoveActiveLink, SymlinkActive, SymlinkRestore, CleanOldSnapshots, disk
<1>3. CASE DeleteSnapshot \/ RemoveOldSnapshot \/ CleanDone \/ SetPassives \/ SetFallback
           \/ SetBootloaderFails \/ UNCHANGED vars
  BY <1>3 DEF DeleteSnapshot, RemoveOldSnapshot, CleanDone, SetPassives, SetFallback,
              SetBootloaderFails, vars, disk
<1> QED
  BY <1>1, <1>2, <1>3 DEF Next, SnapshotterStep, ClientStep

\* The image under /cOS that a legacy system runs from is never deleted,
\* whichever images earlier transactions have migrated or removed.
THEOREM LegacyImageKept == Spec => LegacyBootedKept
<1>1. Init => TypeInv /\ CurrentIsRunning
  BY TypeInit DEF Init, CurrentIsRunning
<1>2. (TypeInv /\ CurrentIsRunning) /\ [Next]_vars => (TypeInv /\ CurrentIsRunning)'
  BY TypeNext, CurrentNext
<1>3. ASSUME TypeInv, CurrentIsRunning, [Next]_vars
      PROVE  [(booted' = booted /\ booted.id = 0 /\ booted.mode \in legacy) => booted.mode \in legacy']_vars
  <2> SUFFICES ASSUME booted.id = 0, booted.mode \in legacy PROVE booted.mode \in legacy'
    OBVIOUS
  <2>1. booted.mode \in {"active", "passive"}
    BY <1>3 DEF TypeInv, Typed
  <2>2. currentSnapshotID = 0
    BY <1>3 DEF CurrentIsRunning
  <2>3. \A l \in LegacyLeftovers : booted.mode \in l
    BY <2>1, <2>2 DEF LegacyLeftovers
  <2> QED BY <1>3, <2>3, LegacySteps DEF CleanLegacyImages
<1> QED BY <1>1, <1>2, <1>3, PTL DEF Spec, LegacyBootedKept

=============================================================================

----------------------------- MODULE LoopDevice -----------------------------
(***************************************************************************)
(* The loop device snapshotter (pkg/snapshotter/loopdevice.go).            *)
(*                                                                         *)
(* The state partition holds one directory .snapshots/<id> per snapshot,   *)
(* with the image of the system in snapshot.img, and a symbolic link       *)
(* .snapshots/active to the image that boots by default.  An upgrade is a  *)
(* transaction: it fills a new directory, builds the image, moves the link *)
(* and deletes the oldest snapshots.                                       *)
(*                                                                         *)
(* Every call to the operating system is a step of its own that may fail,  *)
(* and the machine may lose power or reboot between any two steps.  The    *)
(* caller follows the protocol of types.Snapshotter: Init, Start, then     *)
(* either Close or CloseOnError.                                           *)
(***************************************************************************)
EXTENDS Integers, FiniteSets, Sequences, SequencesExt, SnapshotNames

CONSTANTS
  MaxID,       \* bound of the model: highest snapshot ID ever used
  MaxSnaps,    \* snapshotterCfg.MaxSnaps; nothing in the code bounds it
  FirstID,     \* active snapshot at the start, 0 for a freshly formatted disk
  LegacyDisk   \* does the disk come from a release with /cOS/*.img images?

ASSUME ConstantsAssumption ==
  /\ MaxID \in Nat \ {0}
  /\ MaxSnaps \in Int
  /\ FirstID \in 0..MaxID
  /\ LegacyDisk \in BOOLEAN
  /\ LegacyDisk => FirstID = 0

VARIABLES
  snaps,              \* what is in .snapshots/<id>; {} when there is no directory
  activeLink,         \* target of .snapshots/active
  legacy,             \* what is left of the legacy /cOS directory
  bootEnv,            \* passive_snaps and default_fallback in grub_oem_env
  booted,             \* the running system: boot mode and snapshot it runs from
  pc,                 \* next step of the snapshotter
  snapshot,           \* the transaction's types.Snapshot; ID = 0 stands for nil
  currentSnapshotID,  \* LoopDevice.currentSnapshotID
  activeSnapshotID,   \* LoopDevice.activeSnapshotID
  legacyClean,        \* LoopDevice.legacyClean
  doomed,             \* snapshots cleanOldSnapshots has still to visit
  logged              \* clean up steps of this transaction that failed

disk   == <<snaps, activeLink, legacy, bootEnv>>
object == <<snapshot, currentSnapshotID, activeSnapshotID, legacyClean>>
vars   == <<disk, booted, pc, object, doomed, logged>>

-----------------------------------------------------------------------------
SnapIDs == 1..MaxID

\* No link; a link to 0/snapshot.img is possible too (see SymlinkRestore).
NoLink == -1

\* Parts of a snapshot directory: the directory, the work tree, an image that
\* is still being written and a complete image.
Parts == {"dir", "work", "raw", "img"}

NoSnapshot == [ID |-> 0, InProgress |-> FALSE]

Calls == {"off", "ready", "open", "closed", "failed"}

Steps == {"init", "migrate", "link", "mkdir", "mkwork", "bind",
          "image", "sync", "rmwork", "unlink", "symlink", "restore",
          "clean", "delete", "rmold", "setboot", "setpassives", "setfallback",
          "cleanlegacy", "rmsnap", "rmall"}

-----------------------------------------------------------------------------
(* The queries of the snapshotter.                                         *)

\* GetSnapshots: the numeric directories of .snapshots.
GetSnapshots == {i \in SnapIDs : snaps[i] # {}}

Complete(i) == "img" \in snaps[i]

\* getActiveSnapshot: 0 without a link, -1 (and an error) when it dangles.
getActiveSnapshot ==
  IF activeLink = NoLink
  THEN 0
  ELSE IF activeLink \in SnapIDs /\ snaps[activeLink] \cap {"raw", "img"} # {}
       THEN activeLink
       ELSE -1

\* getPassiveSnapshots, when getActiveSnapshot is not an error.
getPassiveSnapshots == GetSnapshots \ {getActiveSnapshot}

\* Faulty: losetup prints another path, no snapshot ever looks in use.
isSnapshotInUse_never(i) == FALSE

\* isSnapshotInUse: losetup lists the image the running system is mounted from.
isSnapshotInUse(i) == booted.id = i

\* Faulty: one above the active snapshot.
NextID_active(S) == getActiveSnapshot + 1

\* getNextSnapshotID: one above the highest directory, complete or not.
NextID(S) == CHOOSE n \in 1..(MaxID + 1) :
               /\ \A i \in S : i < n
               /\ n = 1 \/ n - 1 \in S

\* Faulty: the active snapshot is not counted.
Doomed_offByOne(S) == {i \in S : Cardinality({j \in S : j >= i}) > MaxSnaps}

\* The snapshots the loop of cleanOldSnapshots visits: the oldest ones, until
\* MaxSnaps-1 are left.  A snapshot it fails to delete counts as visited.
Doomed(S) == {i \in S : Cardinality({j \in S : j >= i}) > MaxSnaps - 1}

Oldest(S) == CHOOSE i \in S : \A j \in S : i <= j

\* setBootloader: the passive list, in reverse order of the directory listing.
PassiveList(S) == LatestFirst(S)

\* What RemoveAll may leave of a directory: nothing, or, with an error, a part.
Residues(parts) == {p \in SUBSET parts : p # {} => "dir" \in p}

\* The menu of grub.cfg: the entries that really boot.  Recovery always does.
BootChoices ==
  {[mode |-> "recovery", id |-> 0]}
  \cup {[mode |-> "active", id |-> i] : i \in {j \in SnapIDs : activeLink = j /\ Complete(j)}}
  \cup {[mode |-> "passive", id |-> i] :
          i \in {j \in SnapIDs : j \in ToSet(bootEnv.passives) /\ Complete(j)}}
  \cup {[mode |-> m, id |-> 0] : m \in {n \in {"active", "passive"} : n \in legacy}}

-----------------------------------------------------------------------------
Init ==
  /\ snaps = [i \in SnapIDs |-> IF i = FirstID THEN {"dir", "img"} ELSE {}]
  /\ activeLink = IF FirstID = 0 THEN NoLink ELSE FirstID
  /\ legacy = IF LegacyDisk THEN {"cOS", "active", "passive"} ELSE {}
  /\ bootEnv = [passives |-> <<>>, fallback |-> 1]
  /\ booted \in IF FirstID = 0 /\ ~LegacyDisk
                THEN {[mode |-> "live", id |-> 0]}
                ELSE BootChoices
  /\ pc = "off"
  /\ snapshot = NoSnapshot
  /\ currentSnapshotID = 0
  /\ activeSnapshotID = 0
  /\ legacyClean = FALSE
  /\ doomed = {}
  /\ logged = {}

\* The object of one run of the program.
NewLoopDeviceSnapshotter ==
  /\ pc = "off"
  /\ pc' = "init"
  /\ UNCHANGED <<disk, booted, object, doomed, logged>>

\* What the process knows is gone with it.
ProcessGone ==
  /\ pc' = "off"
  /\ snapshot' = NoSnapshot
  /\ currentSnapshotID' = 0
  /\ activeSnapshotID' = 0
  /\ legacyClean' = FALSE
  /\ doomed' = {}
  /\ logged' = {}

\* The program ends, or never goes on with a snapshotter it initiated.
Exit ==
  /\ pc \in {"ready", "closed", "failed"}
  /\ ProcessGone
  /\ UNCHANGED <<disk, booted>>

\* Power loss or reboot at any point: the process is gone, the disk stays.
Reboot ==
  /\ booted' \in BootChoices
  /\ ProcessGone
  /\ UNCHANGED disk

-----------------------------------------------------------------------------
(* InitSnapshotter                                                         *)

InitSnapshotter ==
  /\ pc = "init"
  /\ legacyClean' = (legacy # {})
  /\ pc' \in {IF legacy # {} THEN "migrate" ELSE "ready", "failed"}
  /\ UNCHANGED <<disk, booted, snapshot, currentSnapshotID, activeSnapshotID, doomed, logged>>

\* legacyImageToSnapsot migrates only into an empty .snapshots.
LegacyImageToSnapshot ==
  /\ pc = "migrate"
  /\ LET image == IF booted.mode = "passive" THEN "passive" ELSE "active"
         skip  == image \notin legacy
         found == ~skip /\ GetSnapshots # {}
     IN /\ \/ /\ skip \/ found
              /\ pc' = "ready"
              /\ snaps' = snaps
           \/ /\ ~skip /\ ~found
              /\ pc' = "link"
              /\ snaps' = [snaps EXCEPT ![1] = {"dir"}]
           \/ /\ ~skip                     \* losetup or mkdir fails
              /\ pc' = "failed"
              /\ snaps' = snaps
        /\ currentSnapshotID' = IF found /\ booted.id \in GetSnapshots
                                THEN booted.id ELSE currentSnapshotID
  /\ UNCHANGED <<activeLink, legacy, bootEnv, booted, snapshot, activeSnapshotID, legacyClean, doomed, logged>>

LinkLegacyImage ==
  /\ pc = "link"
  /\ \/ /\ snaps' = [snaps EXCEPT ![1] = @ \cup {"img"}]
        /\ pc' = "ready"
     \/ /\ snaps' = snaps
        /\ pc' = "failed"
  /\ UNCHANGED <<activeLink, legacy, bootEnv, booted, object, doomed, logged>>


-----------------------------------------------------------------------------
(* StartTransaction                                                        *)

\* Faulty: the error of getActiveSnapshot is not looked at.
StartTransaction_unchecked ==
  /\ pc = "ready"
  /\ NextID(GetSnapshots) <= MaxID
  /\ pc' = "mkdir"
  /\ snapshot' = [ID |-> NextID(GetSnapshots), InProgress |-> FALSE]
  /\ activeSnapshotID' = getActiveSnapshot
  /\ UNCHANGED <<disk, booted, currentSnapshotID, legacyClean, doomed, logged>>

\* The IDs and the active snapshot are read; either query may fail.
StartTransaction ==
  /\ pc = "ready"
  /\ NextID(GetSnapshots) <= MaxID
  /\ \/ /\ getActiveSnapshot # -1
        /\ pc' = "mkdir"
        /\ snapshot' = [ID |-> NextID(GetSnapshots), InProgress |-> FALSE]
        /\ activeSnapshotID' = getActiveSnapshot
     \/ /\ pc' = "failed"
        /\ UNCHANGED <<snapshot, activeSnapshotID>>
  /\ currentSnapshotID' = IF booted.id \in GetSnapshots THEN booted.id ELSE currentSnapshotID
  /\ UNCHANGED <<disk, booted, legacyClean, doomed, logged>>

\* A step of StartTransaction failed: it removes the directory it was making.
StartFails ==
  /\ pc \in {"mkdir", "mkwork", "bind"}
  /\ \E r \in Residues(snaps[snapshot.ID]) : snaps' = [snaps EXCEPT ![snapshot.ID] = r]
  /\ snapshot' = NoSnapshot
  /\ pc' = "failed"
  /\ UNCHANGED <<activeLink, legacy, bootEnv, booted, currentSnapshotID, activeSnapshotID,
                 legacyClean, doomed, logged>>

MkSnapDir ==
  /\ pc = "mkdir"
  /\ snaps' = [snaps EXCEPT ![snapshot.ID] = {"dir"}]
  /\ pc' = "mkwork"
  /\ UNCHANGED <<activeLink, legacy, bootEnv, booted, object, doomed, logged>>

MkWorkDir ==
  /\ pc = "mkwork"
  /\ snaps' = [snaps EXCEPT ![snapshot.ID] = {"dir", "work"}]
  /\ pc' = "bind"
  /\ UNCHANGED <<activeLink, legacy, bootEnv, booted, object, doomed, logged>>

BindMount ==
  /\ pc = "bind"
  /\ snapshot' = [snapshot EXCEPT !.InProgress = TRUE]
  /\ pc' = "open"
  /\ UNCHANGED <<disk, booted, currentSnapshotID, activeSnapshotID, legacyClean, doomed, logged>>

-----------------------------------------------------------------------------
(* CloseTransactionOnError                                                 *)

\* The client gives the transaction up, Close fails to unmount the work tree,
\* or the client cleans up after a failed Close.
CloseTransactionOnError ==
  /\ pc \in {"open", "failed"}
  /\ snapshot # NoSnapshot
  /\ pc' = "rmsnap"
  /\ UNCHANGED <<disk, booted, object, doomed, logged>>

RemoveSnapshotDir ==
  /\ pc = "rmsnap"
  /\ \E r \in Residues(snaps[snapshot.ID]) : snaps' = [snaps EXCEPT ![snapshot.ID] = r]
  /\ pc' = IF legacyClean THEN "rmall" ELSE "failed"
  /\ UNCHANGED <<activeLink, legacy, bootEnv, booted, object, doomed, logged>>

\* With a legacy deployment around, all of .snapshots goes.
RemoveSnapshotsPath ==
  /\ pc = "rmall"
  /\ \E gone \in SUBSET GetSnapshots :
     \E hollow \in SUBSET (GetSnapshots \ gone) :
       snaps' = [i \in SnapIDs |-> CASE i \in gone   -> {}
                                    [] i \in hollow -> {"dir"}
                                    [] OTHER       -> snaps[i]]
  /\ activeLink' \in {activeLink, NoLink}
  /\ GetSnapshots' = {} => activeLink' = NoLink
  /\ pc' = "failed"
  /\ UNCHANGED <<legacy, bootEnv, booted, object, doomed, logged>>

-----------------------------------------------------------------------------
(* CloseTransaction, up to the point where the link has moved.             *)

\* Faulty: an error of cleanOldSnapshots is returned as well.
CloseFails_late ==
  /\ pc \in {"image", "sync", "rmwork", "delete"}
  /\ pc' = "rmsnap"
  /\ UNCHANGED <<disk, booted, object, doomed, logged>>

\* Any error before that point runs CloseTransactionOnError.
CloseFails ==
  /\ pc \in {"image", "sync", "rmwork"}
  /\ pc' = "rmsnap"
  /\ UNCHANGED <<disk, booted, object, doomed, logged>>

CloseTransaction ==
  /\ pc = "open"
  /\ snapshot.InProgress
  /\ pc' = "image"
  /\ UNCHANGED <<disk, booted, object, doomed, logged>>

CreateImage ==
  /\ pc = "image"
  /\ snaps' = [snaps EXCEPT ![snapshot.ID] = @ \cup {"raw"}]
  /\ pc' = "sync"
  /\ UNCHANGED <<activeLink, legacy, bootEnv, booted, object, doomed, logged>>

SyncImage ==
  /\ pc = "sync"
  /\ snaps' = [snaps EXCEPT ![snapshot.ID] = {"dir", "work", "img"}]
  /\ pc' = "rmwork"
  /\ UNCHANGED <<activeLink, legacy, bootEnv, booted, object, doomed, logged>>

RemoveWorkDir ==
  /\ pc = "rmwork"
  /\ snaps' = [snaps EXCEPT ![snapshot.ID] = @ \ {"work"}]
  /\ pc' = "unlink"
  /\ UNCHANGED <<activeLink, legacy, bootEnv, booted, object, doomed, logged>>

\* The error of this step is ignored.
RemoveActiveLink ==
  /\ pc = "unlink"
  /\ activeLink' \in {NoLink, activeLink}
  /\ pc' = "symlink"
  /\ UNCHANGED <<snaps, legacy, bootEnv, booted, object, doomed, logged>>

SymlinkActive ==
  /\ pc = "symlink"
  /\ \/ /\ activeLink = NoLink
        /\ activeLink' = snapshot.ID
        /\ pc' = "clean"
     \/ /\ activeLink' = activeLink
        /\ pc' = "restore"
  /\ UNCHANGED <<snaps, legacy, bootEnv, booted, object, doomed, logged>>

\* Back to the previous link, to 0/snapshot.img when there was none.
SymlinkRestore ==
  /\ pc = "restore"
  /\ \/ /\ activeLink = NoLink
        /\ activeLink' = activeSnapshotID
     \/ activeLink' = activeLink
  /\ pc' = "rmsnap"
  /\ UNCHANGED <<snaps, legacy, bootEnv, booted, object, doomed, logged>>

-----------------------------------------------------------------------------
(* CloseTransaction, after the link has moved: errors are only logged.     *)

CleanOldSnapshots ==
  /\ pc = "clean"
  /\ \/ /\ doomed' = Doomed(getPassiveSnapshots)
        /\ pc' = "delete"
        /\ logged' = logged
     \/ /\ doomed' = doomed
        /\ pc' = "setboot"
        /\ logged' = logged \cup {"clean"}
  /\ UNCHANGED <<disk, booted, object>>

\* DeleteSnapshot up to its RemoveAll, for the oldest snapshot left.
DeleteSnapshot ==
  /\ pc = "delete"
  /\ doomed # {}
  /\ LET id == Oldest(doomed) IN
       \/ /\ ~isSnapshotInUse(id)
          /\ activeLink' = IF activeSnapshotID = id THEN NoLink ELSE activeLink
          /\ pc' = "rmold"
          /\ UNCHANGED <<doomed, logged>>
       \/ /\ isSnapshotInUse(id)
          /\ doomed' = doomed \ {id}
          /\ UNCHANGED <<activeLink, pc, logged>>
       \/ /\ doomed' = doomed \ {id}      \* losetup, ReadDir or Remove fails
          /\ logged' = logged \cup {"clean"}
          /\ UNCHANGED <<activeLink, pc>>
  /\ UNCHANGED <<snaps, legacy, bootEnv, booted, object>>

RemoveOldSnapshot ==
  /\ pc = "rmold"
  /\ LET id == Oldest(doomed) IN
       /\ \E r \in Residues(snaps[id]) :
            /\ snaps' = [snaps EXCEPT ![id] = r]
            /\ logged' = IF r = {} THEN logged ELSE logged \cup {"clean"}
       /\ doomed' = doomed \ {id}
  /\ pc' = "delete"
  /\ UNCHANGED <<activeLink, legacy, bootEnv, booted, object>>

CleanDone ==
  /\ pc = "delete"
  /\ doomed = {}
  /\ pc' = "setboot"
  /\ UNCHANGED <<disk, booted, object, doomed, logged>>

\* setBootloader writes two variables, one grub2-editenv each, in the order
\* of a Go map; an error leaves the rest unwritten.
SetPassives ==
  /\ pc \in {"setboot", "setpassives"}
  /\ getActiveSnapshot # -1
  /\ bootEnv' = [bootEnv EXCEPT !.passives = PassiveList(getPassiveSnapshots)]
  /\ pc' = IF pc = "setboot" THEN "setfallback" ELSE "cleanlegacy"
  /\ UNCHANGED <<snaps, activeLink, legacy, booted, object, doomed, logged>>

\* Faulty: recovery is forgotten in the fallback list.
SetFallback_noRecovery ==
  /\ pc \in {"setboot", "setfallback"}
  /\ getActiveSnapshot # -1
  /\ bootEnv' = [bootEnv EXCEPT !.fallback = Cardinality(getPassiveSnapshots)]
  /\ pc' = IF pc = "setboot" THEN "setpassives" ELSE "cleanlegacy"
  /\ UNCHANGED <<snaps, activeLink, legacy, booted, object, doomed, logged>>

SetFallback ==
  /\ pc \in {"setboot", "setfallback"}
  /\ getActiveSnapshot # -1
  /\ bootEnv' = [bootEnv EXCEPT !.fallback = Cardinality(getPassiveSnapshots) + 1]
  /\ pc' = IF pc = "setboot" THEN "setpassives" ELSE "cleanlegacy"
  /\ UNCHANGED <<snaps, activeLink, legacy, booted, object, doomed, logged>>

\* Faulty: setBootloader tries again until it succeeds.
SetBootloaderFails_retry ==
  /\ pc \in {"setboot", "setpassives", "setfallback"}
  /\ logged' = logged \cup {"env"}
  /\ pc' = "setboot"
  /\ UNCHANGED <<disk, booted, object, doomed>>

SetBootloaderFails ==
  /\ pc \in {"setboot", "setpassives", "setfallback"}
  /\ logged' = logged \cup {"env"}
  /\ pc' = "cleanlegacy"
  /\ UNCHANGED <<disk, booted, object, doomed>>

\* Faulty: passive mode is not told apart.
LegacyLeftovers_passive ==
  IF currentSnapshotID > 0 \/ booted.mode = "recovery"
  THEN {l \in SUBSET legacy : l # {} => "cOS" \in l}
  ELSE {legacy \ {"passive"}}

\* cleanLegacyImages: never the image the system may be running from.
LegacyLeftovers ==
  IF booted.mode = "passive"
  THEN {legacy \ {"active"}}
  ELSE IF currentSnapshotID > 0 \/ booted.mode = "recovery"
       THEN {l \in SUBSET legacy : l # {} => "cOS" \in l}
       ELSE {legacy \ {"passive"}}

CleanLegacyImages ==
  /\ pc = "cleanlegacy"
  /\ legacy' \in IF legacyClean THEN LegacyLeftovers \cup {legacy} ELSE {legacy}
  /\ snapshot' = [snapshot EXCEPT !.InProgress = FALSE]
  /\ pc' = "closed"
  /\ UNCHANGED <<snaps, activeLink, bootEnv, booted, currentSnapshotID, activeSnapshotID,
                 legacyClean, doomed, logged>>

-----------------------------------------------------------------------------
\* The steps of the snapshotter itself, without its client.
SnapshotterStep ==
  \/ InitSnapshotter \/ LegacyImageToSnapshot \/ LinkLegacyImage
  \/ MkSnapDir \/ MkWorkDir \/ BindMount \/ StartFails
  \/ RemoveSnapshotDir \/ RemoveSnapshotsPath
  \/ CreateImage \/ SyncImage \/ RemoveWorkDir \/ RemoveActiveLink
  \/ SymlinkActive \/ SymlinkRestore
  \/ CleanOldSnapshots \/ DeleteSnapshot \/ RemoveOldSnapshot \/ CleanDone
  \/ SetPassives \/ SetFallback \/ SetBootloaderFails \/ CleanLegacyImages
  \/ CloseFails

\* What the client decides: to call a method, to stop, to switch off.
ClientStep ==
  \/ NewLoopDeviceSnapshotter \/ StartTransaction
  \/ CloseTransaction \/ CloseTransactionOnError \/ Exit

Next == SnapshotterStep \/ ClientStep \/ Reboot

Spec == Init /\ [][Next]_vars

\* A method that was called goes on: nothing in the snapshotter waits for
\* anything but the operating system calls it makes.
FairSpec == Spec /\ WF_vars(SnapshotterStep)
-----------------------------------------------------------------------------
(* Properties                                                              *)

\* The values each variable may have, but for the list of passive snapshots.
Typed ==
  /\ snaps \in [SnapIDs -> SUBSET Parts]
  /\ activeLink \in SnapIDs \cup {NoLink, 0}
  /\ legacy \subseteq {"cOS", "active", "passive"}
  /\ booted \in [mode : {"live", "active", "passive", "recovery"}, id : SnapIDs \cup {0}]
  /\ pc \in Calls \cup Steps
  /\ snapshot \in [ID : SnapIDs \cup {0}, InProgress : BOOLEAN]
  /\ currentSnapshotID \in SnapIDs \cup {0}
  /\ activeSnapshotID \in SnapIDs \cup {0}
  /\ legacyClean \in BOOLEAN
  /\ doomed \subseteq SnapIDs
  /\ logged \subseteq {"clean", "env"}

\* The values each variable may have.
TypeOK == Typed /\ bootEnv \in [passives : Seq(SnapIDs), fallback : Nat]

\* Whatever fails and wherever the machine stops, the active link never points
\* to a snapshot directory without a complete image: CloseTransaction moves it
\* last, and neither cleanOldSnapshots nor CloseTransactionOnError removes the
\* directory it points to.  (Not so on a legacy disk: RemoveSnapshotsPath.)
ActiveIsComplete ==
  ~LegacyDisk => (activeLink \in SnapIDs => Complete(activeLink))

\* A transaction run from the active system and closed without error leaves
\* the new snapshot active and the system it ran from as a complete passive one
\* that the boot menu lists, for any MaxSnaps.
OldActiveIsPassive ==
  (pc = "closed" /\ activeSnapshotID # 0 /\ booted.id = activeSnapshotID) =>
    /\ activeLink = snapshot.ID
    /\ ~LegacyDisk => Complete(activeSnapshotID)
    /\ "env" \notin logged => activeSnapshotID \in ToSet(bootEnv.passives)

\* cleanOldSnapshots keeps MaxSnaps snapshots, directories that crashed
\* transactions left behind included; only the one in use may come on top.
RetentionBound ==
  (pc = "closed" /\ "clean" \notin logged) =>
    LET others == GetSnapshots \ {snapshot.ID, booted.id}
    IN Cardinality(others) <= IF MaxSnaps > 0 THEN MaxSnaps - 1 ELSE 0

\* After CloseTransaction the boot menu lists every snapshot but the active one,
\* once, and the fallback list ends at the recovery entry.  The newest comes
\* first, but only among IDs with the same number of digits: the list follows
\* the order of directory names.
BootMenuMatchesDisk ==
  LET list == bootEnv.passives IN
  (pc = "closed" /\ "env" \notin logged) =>
    /\ ToSet(list) = GetSnapshots \ {activeLink}
    /\ bootEnv.fallback = Len(list) + 1
    /\ \A j, k \in 1..Len(list) :
         (j < k /\ Len(Digits[list[j]]) = Len(Digits[list[k]])) => list[j] > list[k]

\* No step writes to or deletes the snapshot the running system is mounted from.
BootedKept ==
  [][(~LegacyDisk /\ booted' = booted /\ booted.id # 0)
       => snaps'[booted.id] = snaps[booted.id]]_vars

\* On a legacy disk the image under /cOS the system runs from is never deleted,
\* whichever images earlier transactions have already migrated or removed.
LegacyBootedKept ==
  [][(booted' = booted /\ booted.id = 0 /\ booted.mode \in legacy)
       => booted.mode \in legacy']_vars

\* Every call to the snapshotter returns.
CallsReturn == pc \in Steps ~> pc \in Calls

\* What a snapshotter promises: see SnapshotStore.
Store == INSTANCE SnapshotStore WITH
  IDs     <- SnapIDs,
  store   <- {i \in SnapIDs : Complete(i)},
  active  <- IF activeLink \in SnapIDs THEN activeLink ELSE 0,
  running <- booted.id

\* Without a legacy deployment every step of the loop device snapshotter is a
\* step of the abstract store.
ImplementsStore == Store!Spec
=============================================================================

------------------------------- MODULE Btrfs -------------------------------
(***************************************************************************)
(* The Btrfs snapshotter (pkg/snapshotter/btrfs.go) with its btrfs backend *)
(* (pkg/snapshotter/btrfs-backend.go).                                     *)
(*                                                                         *)
(* A snapshot is a subvolume @/.snapshots/<id>/snapshot; the one that      *)
(* boots is the default subvolume of the file system.  A transaction takes *)
(* a copy of the active snapshot, mirrors the new tree into it and makes   *)
(* it the default.  Run from a system that is not on this partition, it    *)
(* also mounts the snapshots subvolume inside the active snapshot.         *)
(*                                                                         *)
(* Every command may fail, and the machine may stop between any two steps. *)
(***************************************************************************)
EXTENDS Integers, FiniteSets, Sequences, SequencesExt, SnapshotNames

CONSTANTS
  IDs,        \* bound of the model: the snapshot IDs there may be
  MaxSnaps,   \* maxSnapshots; nothing in the code bounds it
  FirstIDs    \* active snapshots at the start, 0 for a freshly formatted disk

ASSUME ConstantsAssumption ==
  /\ IDs \subseteq Nat \ {0}
  /\ MaxSnaps \in Int
  /\ FirstIDs \subseteq IDs \cup {0}

VARIABLES
  subvols,    \* what each snapshot subvolume holds
  default,    \* the snapshot that is the default subvolume, 0 when none is
  volumes,    \* how many of the essential subvolumes @ and @/.snapshots exist
  bootEnv,    \* passive_snaps, default_fallback and active_snap in grub_oem_env
  booted,     \* the running system: boot mode and snapshot it runs from
  mounts,     \* how often the snapshots subvolume is mounted in the active snapshot
  bind,       \* is the work tree bind mounted?
  pc,         \* next step of the snapshotter
  snapshot,   \* ID of the transaction's types.Snapshot, 0 for nil
  activeSnapshotID,   \* Btrfs.activeSnapshotID
  backend,    \* what Probe has told the backend: activeID, currentID
  err,        \* the error the method at work would return
  doomed,     \* snapshots SnapshotsCleanup has still to delete
  logged      \* steps of this run that failed without an error returned

disk   == <<subvols, default, volumes, bootEnv>>
object == <<snapshot, activeSnapshotID, backend>>
mnt    == <<mounts, bind>>
vars   == <<disk, booted, mnt, pc, object, err, doomed, logged>>

-----------------------------------------------------------------------------
\* A subvolume is "none", a "copy" of its base, "torn" while the new tree is being
\* written to it, or "whole".
Bootable(i) == subvols[i] \in {"copy", "whole"}

\* subvolumesListToSnapshotsIDs: every subvolume counts, finished or not.
Listed == {i \in IDs : subvols[i] # "none"}

\* Faulty: the list is not reversed.
PassiveList_oldestFirst(S) == Reverse(LatestFirst(S))

\* `--sort=path`, reversed by setBootloader.
PassiveList(S) == LatestFirst(S)

NewestOf(S) == CHOOSE i \in S : \A j \in S : j <= i
OldestOf(S) == CHOOSE i \in S : \A j \in S : i <= j

\* computeNewID
ComputeNewID == IF backend.activeID = 0 THEN 1 ELSE NewestOf(Listed) + 1

\* Does the system run from this partition?
OnState == booted.mode \in {"active", "passive"}

\* Faulty: findmnt's output is not understood, no snapshot is the current one.
FindStateMount_none == 0

\* findStateMount: the snapshot the running system is mounted from.
FindStateMount == IF OnState THEN booted.id ELSE 0

\* snapshotsMount and snapshotsUmount do something only after
\* mountSnapshotsSubvolumeInSnapshot.
Hooked == ~OnState /\ backend.activeID > 0

\* grub.cfg: the entries that really boot.
BootChoices ==
  {[mode |-> "recovery", id |-> 0]}
  \cup {[mode |-> "active", id |-> i] : i \in {j \in IDs : j = default /\ Bootable(j)}}
  \cup {[mode |-> "passive", id |-> i] : i \in {j \in IDs : j \in ToSet(bootEnv.passives) /\ Bootable(j)}}

NoBackend == [activeID |-> 0, currentID |-> 0]

Init ==
  /\ default \in FirstIDs
  /\ subvols = [i \in IDs |-> IF i = default THEN "whole" ELSE "none"]
  /\ volumes = IF default = 0 THEN 0 ELSE 2
  /\ bootEnv = [passives |-> <<>>, fallback |-> 1, active |-> default]
  /\ booted \in BootChoices    \* the live medium counts as recovery
  /\ mounts = 0
  /\ bind = FALSE
  /\ pc = "off"
  /\ snapshot = 0
  /\ activeSnapshotID = 0
  /\ backend = NoBackend
  /\ err = FALSE
  /\ doomed = {}
  /\ logged = {}

\* What the process knows is gone with it.
ProcessGone ==
  /\ pc' = "off"
  /\ snapshot' = 0
  /\ activeSnapshotID' = 0
  /\ backend' = NoBackend
  /\ err' = FALSE
  /\ doomed' = {}
  /\ logged' = {}

\* The program ends, or never goes on with a snapshotter it initiated.  What it
\* has mounted stays.
Exit ==
  /\ pc \in {"ready", "closed", "aborted", "failed"}
  /\ ProcessGone
  /\ UNCHANGED <<disk, booted, mnt>>

\* Power loss or reboot at any point.
Reboot ==
  /\ booted' \in BootChoices
  /\ mounts' = 0
  /\ bind' = FALSE
  /\ ProcessGone
  /\ UNCHANGED disk

-----------------------------------------------------------------------------
(* InitSnapshotter                                                         *)

\* newBtrfsSnapshotter, isInitiated and Probe
Probe ==
  /\ pc = "off"
  /\ \/ /\ activeSnapshotID' = default
        /\ backend' = [activeID |-> default, currentID |-> FindStateMount]
        /\ pc' = CASE default = 0             -> "initpartition"
                   [] default # 0 /\ OnState  -> "ready"
                   [] default # 0 /\ ~OnState -> "remount"
     \/ pc' = "failed" /\ UNCHANGED <<activeSnapshotID, backend>>
  /\ UNCHANGED <<disk, booted, mnt, snapshot, err, doomed, logged>>

\* A subvolume that is already there cannot be created.
InitBrfsPartition ==
  /\ pc = "initpartition"
  /\ \/ volumes = 0 /\ volumes' = 2 /\ pc' = "remount"
     \/ volumes' \in (IF volumes = 0 THEN 0..2 ELSE {volumes}) /\ pc' = "failed"
  /\ UNCHANGED <<subvols, default, bootEnv, booted, mnt, object, err, doomed, logged>>

\* A partition something is mounted in cannot be unmounted.
RemountStatePartition ==
  /\ pc = "remount"
  /\ \/ /\ mounts = 0
        /\ mounts' = IF Hooked THEN 1 ELSE 0
        /\ pc' = "ready"
     \/ pc' = "failed" /\ UNCHANGED mounts
  /\ UNCHANGED <<disk, booted, bind, object, err, doomed, logged>>

-----------------------------------------------------------------------------
(* StartTransaction                                                        *)

\* The new ID and its subvolume: empty, or a copy of the active snapshot.
CreateNewSnapshot ==
  /\ pc = "ready"
  /\ ComputeNewID \in IDs
  /\ \/ /\ subvols[ComputeNewID] = "none"
        /\ activeSnapshotID # 0 => subvols[activeSnapshotID] # "none"
        /\ subvols' = [subvols EXCEPT ![ComputeNewID] = IF activeSnapshotID = 0 THEN "torn" ELSE "copy"]
        /\ snapshot' = ComputeNewID
        /\ pc' = IF activeSnapshotID = 0 THEN "bind" ELSE "mkwork"
     \/ pc' = "failed" /\ UNCHANGED <<subvols, snapshot>>
  /\ UNCHANGED <<default, volumes, bootEnv, booted, mnt, activeSnapshotID, backend, err, doomed, logged>>

\* Without a work directory the subvolume is deleted again, if possible.
MkWorkDir ==
  /\ pc = "mkwork"
  /\ \/ pc' = "bind" /\ UNCHANGED <<subvols, snapshot>>
     \/ /\ subvols' \in {subvols, [subvols EXCEPT ![snapshot] = "none"]}
        /\ snapshot' = 0
        /\ pc' = "failed"
  /\ UNCHANGED <<default, volumes, bootEnv, booted, mnt, activeSnapshotID, backend, err, doomed, logged>>

\* info.xml, the mount point and the bind mount.  A failure leaves the subvolume:
\* DeleteSnapshot is called with newID, which nobody has set.
BindMount ==
  /\ pc = "bind"
  /\ \/ bind' = TRUE /\ pc' = "open" /\ UNCHANGED snapshot
     \/ snapshot' = 0 /\ pc' = "failed" /\ UNCHANGED bind
  /\ UNCHANGED <<disk, booted, mounts, activeSnapshotID, backend, err, doomed, logged>>

-----------------------------------------------------------------------------
(* GetSnapshots and DeleteSnapshot                                         *)

\* GetSnapshots mounts the snapshots subvolume for itself when it is not where
\* the active snapshot should have it; snapshotsMount only knows the snapshot
\* that was active at the start.
MountsForItself ==
  Hooked /\ activeSnapshotID > 0 /\ (mounts = 0 \/ activeSnapshotID # backend.activeID)

GetSnapshotsWorks ==
  /\ MountsForItself => subvols[backend.activeID] # "none"
  /\ activeSnapshotID' = IF activeSnapshotID > 0 THEN default ELSE 0
  /\ UNCHANGED mounts

\* Its umount may be what fails.
GetSnapshotsFails ==
  /\ activeSnapshotID > 0
  /\ \/ UNCHANGED <<activeSnapshotID, mounts>>
     \/ /\ MountsForItself
        /\ subvols[backend.activeID] # "none"
        /\ mounts' = mounts + 1
        /\ activeSnapshotID' \in {activeSnapshotID, default}

\* Faulty: the snapshot in use may be deleted.
Deletable_current(i) == i # default

\* The backend refuses the current snapshot, the kernel the default subvolume.
Deletable(i) == i \notin {backend.currentID, default}

\* DeleteSnapshot of the transaction's snapshot.  Without an active snapshot
\* GetSnapshots returns nothing, and nothing is deleted.
DeleteSnapshot(here, next) ==
  /\ pc = here
  /\ \/ /\ GetSnapshotsWorks
        /\ IF activeSnapshotID > 0 /\ snapshot \in Listed
           THEN \/ /\ Deletable(snapshot)
                   /\ subvols' = [subvols EXCEPT ![snapshot] = "none"]
                   /\ UNCHANGED <<err, logged>>
                \/ /\ logged' = logged \cup {"delete"}
                   /\ err' = TRUE
                   /\ UNCHANGED subvols
           ELSE UNCHANGED <<subvols, err, logged>>
     \/ /\ GetSnapshotsFails
        /\ logged' = logged \cup {"delete"} \cup (IF mounts' > mounts THEN {"umount"} ELSE {})
        /\ err' = TRUE
        /\ UNCHANGED subvols
  /\ pc' = next
  /\ UNCHANGED <<default, volumes, bootEnv, booted, bind, snapshot, backend, doomed>>

\* The deferred snapshotsUmount: it fails when there is nothing to unmount.
SnapshotsUmount(here, next, fails) ==
  /\ pc = here
  /\ IF Hooked
     THEN \/ /\ mounts > 0
             /\ mounts' = mounts - 1
             /\ pc' = IF err THEN fails ELSE next
             /\ UNCHANGED <<err, logged>>
          \/ /\ err' = TRUE
             /\ logged' = IF mounts > 0 THEN logged \cup {"umount"} ELSE logged
             /\ pc' = fails
             /\ UNCHANGED mounts
     ELSE pc' = (IF err THEN fails ELSE next) /\ UNCHANGED <<mounts, err, logged>>
  /\ UNCHANGED <<disk, booted, bind, object, doomed>>

-----------------------------------------------------------------------------
(* CloseTransactionOnError                                                 *)

\* The client gives the transaction up, cleans up after a failed Close, or fails
\* itself after one that succeeded.  The error of the umount is overwritten.
CloseTransactionOnError ==
  /\ pc \in {"open", "closed", "failed"}
  /\ snapshot # 0
  /\ \/ bind' = FALSE /\ UNCHANGED logged
     \/ logged' = (IF bind THEN logged \cup {"umount"} ELSE logged) /\ UNCHANGED bind
  /\ err' = FALSE
  /\ pc' = "abort"
  /\ UNCHANGED <<disk, booted, mounts, object, doomed>>

AbortDeletes == DeleteSnapshot("abort", "abortumount")

AbortUmounts == SnapshotsUmount("abortumount", "aborted", "aborted")

-----------------------------------------------------------------------------
(* CloseTransaction                                                        *)

\* The mount point of the snapshots in the new tree, and the umount of the work
\* tree.  The first snapshot is its own work tree: it is complete now.
CloseTransaction ==
  /\ pc = "open"
  /\ \/ /\ bind' = FALSE
        /\ IF snapshot > 1
           THEN pc' = "mirror" /\ UNCHANGED subvols
           ELSE pc' = "commit" /\ subvols' = [subvols EXCEPT ![snapshot] = "whole"]
        /\ UNCHANGED err
     \/ err' = TRUE /\ pc' = "discard" /\ UNCHANGED <<subvols, bind>>
  /\ UNCHANGED <<default, volumes, bootEnv, booted, mounts, object, doomed, logged>>

MirrorDataStarts ==
  /\ pc = "mirror"
  /\ subvols' = [subvols EXCEPT ![snapshot] = "torn"]
  /\ pc' = "mirroring"
  /\ UNCHANGED <<default, volumes, bootEnv, booted, mnt, object, err, doomed, logged>>

\* Faulty: an error of rsync goes unnoticed.
MirrorDataEnds_unchecked ==
  /\ pc = "mirroring"
  /\ subvols' \in {subvols, [subvols EXCEPT ![snapshot] = "whole"]}
  /\ pc' = "commit"
  /\ UNCHANGED <<default, volumes, bootEnv, booted, mnt, object, err, doomed, logged>>

MirrorDataEnds ==
  /\ pc = "mirroring"
  /\ subvols' = [subvols EXCEPT ![snapshot] = "whole"]
  /\ pc' = "commit"
  /\ UNCHANGED <<default, volumes, bootEnv, booted, mnt, object, err, doomed, logged>>

\* rsync, the removal of the work tree, SELinux labels or CommitSnapshot fails.
CloseFails ==
  /\ pc \in {"mirroring", "commit"}
  /\ err' = TRUE
  /\ pc' = "discard"
  /\ UNCHANGED <<disk, booted, mnt, object, doomed, logged>>

CloseDeletes == DeleteSnapshot("discard", "closeumount")

\* CommitSnapshot ends with `btrfs subvolume set-default`.
CommitSnapshot ==
  /\ pc = "commit"
  /\ default' = snapshot
  /\ pc' = "clean"
  /\ UNCHANGED <<subvols, volumes, bootEnv, booted, mnt, object, err, doomed, logged>>

-----------------------------------------------------------------------------
(* CloseTransaction after the commit: errors are ignored.                  *)

\* Faulty: the new snapshot is not counted.
Doomed_offByOne(S) == {i \in S : Cardinality({j \in S : j >= i}) > MaxSnaps + 1}

\* The snapshots SnapshotsCleanup wants to delete: the oldest ones.
Doomed(S) == {i \in S : Cardinality({j \in S : j >= i}) > MaxSnaps}

SnapshotsCleanup ==
  /\ pc = "clean"
  /\ \/ doomed' = Doomed(Listed) /\ pc' = "delete" /\ UNCHANGED logged
     \/ logged' = logged \cup {"clean"} /\ pc' = "setboot" /\ UNCHANGED doomed
  /\ UNCHANGED <<disk, booted, mnt, object, err>>

\* One round of its loop: it ends at the current snapshot or at an error.  What
\* is mounted in a subvolume is detached when the kernel agrees to delete it.
CleanOldest ==
  /\ pc = "delete"
  /\ doomed # {}
  /\ LET id == OldestOf(doomed) IN
       \/ /\ Deletable(id)
          /\ subvols' = [subvols EXCEPT ![id] = "none"]
          /\ doomed' = doomed \ {id}
          /\ mounts' = IF id = backend.activeID THEN 0 ELSE mounts
          /\ UNCHANGED logged
       \/ /\ doomed' = {}
          /\ logged' = IF id = backend.currentID THEN logged ELSE logged \cup {"clean"}
          /\ UNCHANGED <<subvols, mounts>>
  /\ UNCHANGED <<default, volumes, bootEnv, booted, bind, pc, object, err>>

CleanDone ==
  /\ pc = "delete"
  /\ doomed = {}
  /\ pc' = "setboot"
  /\ UNCHANGED <<disk, booted, mnt, object, err, doomed, logged>>

\* setBootloader: GetSnapshots refreshes activeSnapshotID; the variables are
\* written one by one, in the order of a Go map, until one fails.
SetBootloader ==
  /\ pc = "setboot"
  /\ \/ /\ GetSnapshotsWorks
        /\ \E written \in SUBSET DOMAIN bootEnv :
             LET passives == IF activeSnapshotID > 0 THEN Listed \ {default} ELSE {}
                 new == [passives |-> PassiveList(passives), fallback |-> Cardinality(passives) + 1,
                         active |-> snapshot]
             IN /\ bootEnv' = [v \in DOMAIN bootEnv |-> IF v \in written THEN new[v] ELSE bootEnv[v]]
                /\ logged' = IF written = DOMAIN bootEnv THEN logged ELSE logged \cup {"env"}
     \/ /\ GetSnapshotsFails
        /\ logged' = logged \cup {"env"} \cup (IF mounts' > mounts THEN {"umount"} ELSE {})
        /\ UNCHANGED bootEnv
  /\ pc' = "closeumount"
  /\ UNCHANGED <<subvols, default, volumes, booted, bind, snapshot, backend, err, doomed>>

\* Faulty: the snapshots are only unmounted after an error.
CloseUmounts_onError ==
  \/ err /\ SnapshotsUmount("closeumount", "closed", "failed")
  \/ /\ ~err /\ pc = "closeumount" /\ pc' = "closed"
     /\ UNCHANGED <<disk, booted, mnt, object, err, doomed, logged>>

\* An umount that fails makes a committed transaction return an error.
CloseUmounts == SnapshotsUmount("closeumount", "closed", "failed")

-----------------------------------------------------------------------------
\* The steps of the snapshotter itself, without its client.
SnapshotterStep ==
  \/ InitBrfsPartition \/ RemountStatePartition \/ MkWorkDir \/ BindMount
  \/ AbortDeletes \/ AbortUmounts
  \/ MirrorDataStarts \/ MirrorDataEnds \/ CloseFails \/ CloseDeletes \/ CommitSnapshot
  \/ SnapshotsCleanup \/ CleanOldest \/ CleanDone \/ SetBootloader \/ CloseUmounts

\* What the client decides: to call a method or to stop.
ClientStep == Probe \/ CreateNewSnapshot \/ CloseTransaction \/ CloseTransactionOnError \/ Exit

Next == SnapshotterStep \/ ClientStep \/ Reboot

Spec == Init /\ [][Next]_vars

-----------------------------------------------------------------------------
(* Properties                                                              *)

\* Whatever fails and wherever the machine stops, the default subvolume is a
\* complete snapshot, even when a committed transaction is given up later.
DefaultIsWhole == default # 0 => subvols[default] = "whole"

\* A transaction run from the active system and closed without error leaves it
\* as a complete passive one that the boot menu lists, for any MaxSnaps and
\* whatever interrupted transactions have left behind.
OldActiveIsPassive ==
  (pc = "closed" /\ booted.id # 0 /\ booted.id = backend.activeID) =>
    /\ default = snapshot
    /\ subvols[booted.id] = "whole"
    /\ "env" \notin logged => booted.id \in ToSet(bootEnv.passives)

\* SnapshotsCleanup leaves MaxSnaps snapshots, those of interrupted transactions
\* included, unless it came to the one in use first.
RetentionBound ==
  (pc = "closed" /\ "clean" \notin logged) =>
    \/ Cardinality(Listed) <= MaxSnaps
    \/ OldestOf(Listed) = booted.id

\* The boot menu lists every snapshot but the default one, once, and the
\* fallback list ends at the recovery entry.  The newest comes first, but only
\* among IDs with the same number of digits.
BootMenuMatchesDisk ==
  LET list == bootEnv.passives IN
  (pc = "closed" /\ "env" \notin logged) =>
    /\ ToSet(list) = Listed \ {default}
    /\ bootEnv.fallback = Len(list) + 1
    /\ bootEnv.active = default
    /\ \A j, k \in 1..Len(list) :
         (j < k /\ Len(Digits[list[j]]) = Len(Digits[list[k]])) => list[j] > list[k]

\* A transaction that is given up, before or after a failed CloseTransaction,
\* leaves no snapshot behind unless a deletion failed.  (Not so for the first
\* snapshot of a partition, which GetSnapshots never finds.)  Whichever way it
\* ended, nothing it mounted is left mounted unless an umount failed.
NothingLeft ==
  /\ (pc = "aborted" /\ backend.activeID # 0 /\ "delete" \notin logged) =>
       subvols[snapshot] = "none"
  /\ (pc \in {"closed", "aborted"} /\ "umount" \notin logged) => (mounts = 0 /\ ~bind)

\* No step writes to or deletes the snapshot the running system is mounted from.
BootedKept ==
  [][(booted' = booted /\ booted.id # 0) => subvols'[booted.id] = subvols[booted.id]]_vars

\* What a snapshotter promises: see SnapshotStore.  A copy of the base is as
\* good as the base.
Store == INSTANCE SnapshotStore WITH
  store   <- {i \in IDs : Bootable(i)},
  active  <- default,
  running <- booted.id

ImplementsStore == Store!Spec
=============================================================================

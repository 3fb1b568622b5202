---------------------------- MODULE BtrfsProofs ----------------------------
(***************************************************************************)
(* Proofs about Btrfs, for any set of IDs, any maximum of snapshots and    *)
(* any snapshot at the start.                                              *)
(*                                                                         *)
(* The argument: the subvolume a transaction works on is neither the       *)
(* default nor the one in use until it is complete and committed, and what *)
(* clean up and aborts delete is checked against both, provided that the   *)
(* backend knows the snapshot in use.  Then what a transaction leaves,     *)
(* closed or given up: mounts, snapshots, the boot menu, the old active    *)
(* system.                                                                 *)
(***************************************************************************)
EXTENDS Btrfs, FiniteSetTheorems, SequenceTheorems, WellFoundedInduction, TLAPS

Contents == {"none", "copy", "torn", "whole"}

Typed ==
  /\ subvols \in [IDs -> Contents]
  /\ default \in IDs \cup {0}
  /\ snapshot \in IDs \cup {0}
  /\ pc = "off" => snapshot = 0

\* The running system is complete.
RunningBootable ==
  IF OnState THEN booted.id \in IDs /\ Bootable(booted.id) ELSE booted.id = 0

\* While there is a snapshot to work on, the backend knows the one in use.
Probed == (pc # "off" /\ (pc = "failed" => snapshot # 0)) => backend.currentID = booted.id

\* The snapshot of an open transaction is its own.
OwnSnapshot ==
  pc \in {"mkwork", "bind", "open", "mirror", "mirroring", "commit"} =>
    snapshot \in IDs /\ snapshot \notin {default, booted.id}

WholeAtCommit == pc = "commit" => subvols[snapshot] = "whole"

IInv ==
  /\ Typed
  /\ RunningBootable
  /\ Probed
  /\ OwnSnapshot
  /\ WholeAtCommit
  /\ DefaultIsWhole

LEMMA ZeroIsNoID == 0 \notin IDs
  BY ConstantsAssumption

\* Everything GRUB can boot is complete.
LEMMA ChoicesBootable ==
  ASSUME NEW b \in BootChoices
  PROVE  \/ b.mode = "recovery" /\ b.id = 0
         \/ b.mode \in {"active", "passive"} /\ b.id \in IDs /\ Bootable(b.id)
  BY DEF BootChoices

\* The first state.
LEMMA IInvInit == Init => IInv
<1> SUFFICES ASSUME Init PROVE IInv
  OBVIOUS
<1>1. default \in IDs \cup {0} /\ subvols = [i \in IDs |-> IF i = default THEN "whole" ELSE "none"]
      /\ snapshot = 0 /\ pc = "off" /\ booted \in BootChoices
  BY ConstantsAssumption DEF Init
<1>2. Typed
  BY <1>1 DEF Typed, Contents
<1>3. RunningBootable
  BY <1>1, ChoicesBootable DEF RunningBootable, OnState
<1>4. DefaultIsWhole
  BY <1>1 DEF DefaultIsWhole
<1> QED
  BY <1>1, <1>2, <1>3, <1>4 DEF IInv, Probed, OwnSnapshot, WholeAtCommit

\* A step that changes a subvolume changes one, which is neither the default nor
\* the one in use; an open transaction changes its own.
LEMMA OneSubvolume ==
  ASSUME IInv, Next, subvols' # subvols
  PROVE  /\ UNCHANGED <<default, booted>>
         /\ \E i : \E v \in Contents :
              /\ i \notin {default, booted.id}
              /\ subvols' = [subvols EXCEPT ![i] = v]
<1> USE DEF Contents
<1>1. CASE CreateNewSnapshot
  <2>1. /\ subvols[ComputeNewID] = "none" /\ UNCHANGED <<default, booted>>
        /\ \E v \in Contents : subvols' = [subvols EXCEPT ![ComputeNewID] = v]
    BY <1>1 DEF CreateNewSnapshot
  <2>2. ComputeNewID # default
    BY <1>1, <2>1, ConstantsAssumption DEF CreateNewSnapshot, IInv, DefaultIsWhole
  <2>3. ComputeNewID # booted.id
    BY <1>1, <2>1, ZeroIsNoID DEF CreateNewSnapshot, IInv, RunningBootable, Bootable
  <2> QED
    BY <2>1, <2>2, <2>3
<1>2. CASE MkWorkDir \/ MirrorDataStarts \/ MirrorDataEnds \/ CloseTransaction
  <2>1. snapshot \notin {default, booted.id}
    BY <1>2 DEF MkWorkDir, MirrorDataStarts, MirrorDataEnds, CloseTransaction, IInv, OwnSnapshot
  <2>2. UNCHANGED <<default, booted>> /\ \E v \in Contents : subvols' = [subvols EXCEPT ![snapshot] = v]
    BY <1>2 DEF MkWorkDir, MirrorDataStarts, MirrorDataEnds, CloseTransaction
  <2> QED
    BY <2>1, <2>2
<1>3. ASSUME NEW here \in {"abort", "discard"}, NEW next, DeleteSnapshot(here, next)
      PROVE  /\ UNCHANGED <<default, booted>>
             /\ snapshot \notin {default, booted.id}
             /\ subvols' = [subvols EXCEPT ![snapshot] = "none"]
  <2>1. backend.currentID = booted.id
    BY <1>3 DEF DeleteSnapshot, IInv, Probed
  <2> QED
    BY <1>3, <2>1 DEF DeleteSnapshot, Deletable
<1>4. CASE AbortDeletes \/ CloseDeletes
  BY <1>3, <1>4 DEF AbortDeletes, CloseDeletes
<1>5. CASE CleanOldest
  <2>1. backend.currentID = booted.id
    BY <1>5 DEF CleanOldest, IInv, Probed
  <2> QED
    BY <1>5, <2>1 DEF CleanOldest, Deletable
<1>6. CASE Exit \/ Reboot \/ Probe \/ InitBrfsPartition \/ RemountStatePartition \/ BindMount
  BY <1>6 DEF Exit, Reboot, Probe, InitBrfsPartition, RemountStatePartition, BindMount, disk
<1>7. CASE \/ CloseTransactionOnError \/ AbortUmounts \/ CloseFails \/ CommitSnapshot
           \/ SnapshotsCleanup \/ CleanDone \/ SetBootloader \/ CloseUmounts
  BY <1>7 DEF CloseTransactionOnError, AbortUmounts, CloseFails, CommitSnapshot, SnapshotsCleanup,
              CleanDone, SetBootloader, CloseUmounts, SnapshotsUmount, disk
<1> QED
  BY <1>1, <1>2, <1>4, <1>5, <1>6, <1>7 DEF Next, SnapshotterStep, ClientStep

\* What a step does to the default subvolume and to the running system.
LEMMA DefaultAndRunning ==
  ASSUME Next
  PROVE  /\ UNCHANGED default \/ CommitSnapshot
         /\ UNCHANGED booted \/ Reboot
<1>1. CASE Exit \/ Probe \/ InitBrfsPartition \/ RemountStatePartition \/ BindMount \/ CreateNewSnapshot \/ MkWorkDir
  BY <1>1 DEF Exit, Probe, InitBrfsPartition, RemountStatePartition, BindMount, CreateNewSnapshot, MkWorkDir, disk
<1>2. CASE CloseTransaction \/ MirrorDataStarts \/ MirrorDataEnds \/ CloseFails \/ CommitSnapshot \/ SnapshotsCleanup
  BY <1>2 DEF CloseTransaction, MirrorDataStarts, MirrorDataEnds, CloseFails, CommitSnapshot, SnapshotsCleanup, disk
<1>3. CASE CleanOldest \/ CleanDone \/ SetBootloader \/ CloseUmounts \/ AbortUmounts
  BY <1>3 DEF CleanOldest, CleanDone, SetBootloader, CloseUmounts, AbortUmounts, SnapshotsUmount, disk
<1>4. CASE AbortDeletes \/ CloseDeletes \/ CloseTransactionOnError
  BY <1>4 DEF AbortDeletes, CloseDeletes, DeleteSnapshot, CloseTransactionOnError, disk
<1>5. CASE Reboot
  BY <1>5 DEF Reboot, disk
<1> QED
  BY <1>1, <1>2, <1>3, <1>4, <1>5 DEF Next, SnapshotterStep, ClientStep

\* The default subvolume stays complete, and so does the running system.
LEMMA WholeNext == ASSUME IInv, Next PROVE DefaultIsWhole' /\ RunningBootable'
<1>1. DefaultIsWhole'
  <2>1. CASE CommitSnapshot
    BY <2>1 DEF CommitSnapshot, IInv, WholeAtCommit, DefaultIsWhole
  <2>2. CASE UNCHANGED default /\ UNCHANGED subvols
    BY <2>2 DEF IInv, DefaultIsWhole
  <2>3. CASE UNCHANGED default /\ subvols' # subvols
    BY <2>3, OneSubvolume DEF IInv, DefaultIsWhole, Typed
  <2> QED
    BY <2>1, <2>2, <2>3, DefaultAndRunning
<1>2. RunningBootable'
  <2>1. CASE Reboot
    <3>1. booted' \in BootChoices /\ UNCHANGED subvols
      BY <2>1 DEF Reboot, disk
    <3> QED
      BY <3>1, ChoicesBootable DEF RunningBootable, OnState, Bootable
  <2>2. CASE UNCHANGED booted /\ UNCHANGED subvols
    BY <2>2 DEF IInv, RunningBootable, OnState, Bootable
  <2>3. CASE UNCHANGED booted /\ subvols' # subvols
    BY <2>3, OneSubvolume DEF IInv, RunningBootable, OnState, Bootable, Typed
  <2> QED
    BY <2>1, <2>2, <2>3, DefaultAndRunning
<1> QED
  BY <1>1, <1>2

\* Every step keeps the invariant.
LEMMA IInvNext == IInv /\ [Next]_vars => IInv'
<1> SUFFICES ASSUME IInv, [Next]_vars PROVE IInv'
  OBVIOUS
<1>0. CASE UNCHANGED vars
  BY <1>0 DEF IInv, vars, disk, mnt, object, Typed, RunningBootable, Probed, OwnSnapshot, WholeAtCommit,
              DefaultIsWhole, OnState, Bootable
<1> SUFFICES ASSUME Next PROVE Typed' /\ Probed' /\ OwnSnapshot' /\ WholeAtCommit'
  BY <1>0, WholeNext DEF IInv
<1>1. subvols' \in [IDs -> Contents]
  BY OneSubvolume DEF IInv, Typed
<1>2. default' \in IDs \cup {0}
  BY DefaultAndRunning DEF CommitSnapshot, IInv, Typed
<1> USE <1>1, <1>2 DEF Typed, Probed, OwnSnapshot, WholeAtCommit
<1>3. CASE Exit \/ Reboot
  BY <1>3 DEF Exit, Reboot, ProcessGone
<1>4. CASE Probe
  <2>1. FindStateMount = booted.id
    BY DEF FindStateMount, IInv, RunningBootable
  <2> QED
    BY <1>4, <2>1 DEF Probe, IInv, object, disk, mnt
<1>5. CASE InitBrfsPartition \/ RemountStatePartition
  BY <1>5 DEF InitBrfsPartition, RemountStatePartition, IInv, object, disk, mnt
<1>6. CASE CreateNewSnapshot
  <2>1. subvols' # subvols => ComputeNewID \notin {default, booted.id}
    BY <1>6, ZeroIsNoID DEF CreateNewSnapshot, IInv, DefaultIsWhole, RunningBootable, Bootable
  <2>2. CASE pc' = "failed"
    BY <1>6, <2>2 DEF CreateNewSnapshot, IInv, object, disk, mnt
  <2>3. CASE /\ subvols[ComputeNewID] = "none"
             /\ snapshot' = ComputeNewID
             /\ subvols' = [subvols EXCEPT ![ComputeNewID] = IF activeSnapshotID = 0 THEN "torn" ELSE "copy"]
             /\ pc' = IF activeSnapshotID = 0 THEN "bind" ELSE "mkwork"
    <3>1. subvols' # subvols
      BY <1>6, <2>3 DEF CreateNewSnapshot, IInv
    <3> QED
      BY <1>6, <2>1, <2>3, <3>1 DEF CreateNewSnapshot, IInv
  <2> QED
    BY <1>6, <2>2, <2>3 DEF CreateNewSnapshot
<1>7. CASE MkWorkDir \/ BindMount
  BY <1>7 DEF MkWorkDir, BindMount, IInv, object, disk, mnt
<1>8. CASE CloseTransactionOnError
  BY <1>8 DEF CloseTransactionOnError, IInv, object, disk, mnt
<1>9. CASE AbortDeletes \/ CloseDeletes
  BY <1>9 DEF AbortDeletes, CloseDeletes, DeleteSnapshot, IInv
<1>10. CASE AbortUmounts \/ CloseUmounts
  BY <1>10 DEF AbortUmounts, CloseUmounts, SnapshotsUmount, IInv, object, disk
<1>11. CASE CloseTransaction \/ MirrorDataStarts \/ MirrorDataEnds \/ CloseFails
  BY <1>11 DEF CloseTransaction, MirrorDataStarts, MirrorDataEnds, CloseFails, IInv, object, disk, mnt
<1>12. CASE CommitSnapshot \/ SnapshotsCleanup \/ CleanOldest \/ CleanDone \/ SetBootloader
  BY <1>12 DEF CommitSnapshot, SnapshotsCleanup, CleanOldest, CleanDone, SetBootloader, IInv, object, disk, mnt
<1> QED
  BY <1>3, <1>4, <1>5, <1>6, <1>7, <1>8, <1>9, <1>10, <1>11, <1>12 DEF Next, SnapshotterStep, ClientStep

LEMMA Invariance == Spec => []IInv
  BY IInvInit, IInvNext, PTL DEF Spec

\* Whatever fails and wherever the machine stops, the default subvolume is a
\* complete snapshot, also when a committed transaction is given up.
THEOREM DefaultStaysWhole == Spec => []DefaultIsWhole
<1>1. IInv => DefaultIsWhole
  BY DEF IInv
<1> QED
  BY <1>1, Invariance, PTL

\* No step writes to or deletes the snapshot the system is running from.
THEOREM RunningSnapshotKept == Spec => BootedKept
<1>1. ASSUME IInv, [Next]_vars
      PROVE  [(booted' = booted /\ booted.id # 0) => subvols'[booted.id] = subvols[booted.id]]_vars
  <2>1. CASE subvols' = subvols
    BY <2>1
  <2>2. CASE subvols' # subvols
    <3>1. Next
      BY <1>1, <2>2 DEF vars, disk
    <3>2. PICK i : i # booted.id /\ \E v \in Contents : subvols' = [subvols EXCEPT ![i] = v]
      BY <1>1, <2>2, <3>1, OneSubvolume
    <3>3. booted.id # 0 => booted.id \in IDs
      BY <1>1 DEF IInv, RunningBootable
    <3>4. \A j \in IDs \ {i} : subvols'[j] = subvols[j]
      BY <1>1, <3>2 DEF IInv, Typed
    <3> QED
      BY <3>2, <3>3, <3>4
  <2> QED
    BY <2>1, <2>2
<1> QED
  BY <1>1, Invariance, PTL DEF Spec, BootedKept

-----------------------------------------------------------------------------
(* The abstract store.                                                     *)

StoreSet == {i \in IDs : Bootable(i)}

\* Every step is a step of the store or leaves it alone: a snapshot comes into it
\* as a copy or when it is complete, goes when it is deleted or written to, is
\* activated by the commit, and a boot is of one that is in it.
LEMMA StoreStep == IInv /\ [Next]_vars => [Store!Next]_(Store!vars)
<1> SUFFICES ASSUME IInv, [Next]_vars PROVE [Store!Next]_(Store!vars)
  OBVIOUS
<1>0. CASE UNCHANGED vars
  BY <1>0 DEF vars, disk, Store!vars, Bootable
<1> SUFFICES ASSUME Next PROVE [Store!Next]_(Store!vars)
  BY <1>0
<1>a. SUFFICES \/ UNCHANGED <<StoreSet, default, booted.id>>
               \/ \E i \in IDs :
                    /\ i \notin StoreSet /\ StoreSet' = StoreSet \cup {i}
                    /\ UNCHANGED <<default, booted.id>>
               \/ \E i \in IDs :
                    /\ i \in StoreSet /\ default' = i
                    /\ UNCHANGED <<StoreSet, booted.id>>
               \/ \E i \in IDs :
                    /\ i \in StoreSet /\ i \notin {default, booted.id}
                    /\ StoreSet' = StoreSet \ {i}
                    /\ UNCHANGED <<default, booted.id>>
               \/ \E i \in IDs \cup {0} :
                    /\ i \in StoreSet \cup {0} /\ booted.id' = i
                    /\ UNCHANGED <<StoreSet, default>>
  BY DEF Store!Next, Store!vars, Store!Add, Store!Activate, Store!Delete, Store!Boot, StoreSet
<1>1. CASE subvols' # subvols
  <2>1. PICK i : /\ UNCHANGED <<default, booted>>
                 /\ i \notin {default, booted.id}
                 /\ \E v \in Contents : subvols' = [subvols EXCEPT ![i] = v]
    BY <1>1, OneSubvolume
  <2>2. i \in IDs /\ \A j \in IDs \ {i} : j \in StoreSet' <=> j \in StoreSet
    BY <1>1, <2>1 DEF IInv, Typed, StoreSet, Bootable
  <2>3. CASE i \in StoreSet' <=> i \in StoreSet
    <3>1. StoreSet' = StoreSet
      BY <2>2, <2>3 DEF StoreSet
    <3> QED BY <2>1, <3>1
  <2>4. CASE i \in StoreSet' /\ i \notin StoreSet
    <3>1. StoreSet' = StoreSet \cup {i}
      BY <2>2, <2>4 DEF StoreSet
    <3> QED BY <2>1, <2>2, <2>4, <3>1
  <2>5. CASE i \notin StoreSet' /\ i \in StoreSet
    <3>1. StoreSet' = StoreSet \ {i}
      BY <2>2, <2>5 DEF StoreSet
    <3> QED BY <2>1, <2>2, <2>5, <3>1
  <2> QED BY <2>3, <2>4, <2>5
<1>2. CASE subvols' = subvols
  <2>1. StoreSet' = StoreSet
    BY <1>2 DEF StoreSet, Bootable
  <2>2. CASE CommitSnapshot
    BY <2>1, <2>2 DEF CommitSnapshot, IInv, OwnSnapshot, WholeAtCommit, StoreSet, Bootable
  <2>3. CASE Reboot
    <3>1. booted' \in BootChoices /\ UNCHANGED default
      BY <2>3 DEF Reboot, disk
    <3>2. booted.id' \in StoreSet \cup {0}
      BY <3>1, ChoicesBootable DEF StoreSet
    <3> QED BY <2>1, <3>1, <3>2 DEF StoreSet
  <2>4. CASE UNCHANGED <<default, booted>>
    BY <2>1, <2>4
  <2> QED
    BY <2>2, <2>3, <2>4, DefaultAndRunning
<1> QED
  BY <1>1, <1>2

\* Every behaviour of the snapshotter is one of the abstract store: only complete
\* snapshots are activated or booted, and neither the active nor the running one
\* is ever deleted.
THEOREM StoreImplemented == Spec => ImplementsStore
<1>1. Init => Store!Init
  <2> SUFFICES ASSUME Init PROVE Store!Init
    OBVIOUS
  <2>1. IInv
    BY IInvInit
  <2> QED
    BY <2>1 DEF IInv, Typed, DefaultIsWhole, RunningBootable, Bootable, Store!Init
<1> QED
  BY <1>1, StoreStep, Invariance, PTL DEF Spec, ImplementsStore, Store!Spec
-----------------------------------------------------------------------------
(* The state of the process.                                               *)

\* Where there is a snapshot to finish or to discard.
Closing  == {"mirror", "mirroring", "commit", "clean", "delete", "setboot", "closed"}
Aborting == {"abort", "abortumount", "aborted"}
Open     == {"mkwork", "bind", "open", "discard", "closeumount"} \cup Closing \cup Aborting

\* The default subvolume is the new one.
Committed == pc \in {"clean", "delete", "setboot", "closed"} \/ (pc = "closeumount" /\ ~err)

Counters == mounts \in Nat

Process ==
  /\ backend \in [activeID : IDs \cup {0}, currentID : IDs \cup {0}]
  /\ activeSnapshotID \in IDs \cup {0}
  /\ pc \in {"off", "initpartition", "remount", "ready"} => snapshot = 0
  /\ pc \in Open => snapshot # 0
  /\ pc = "discard" => err
  /\ pc # "delete" => doomed = {}

\* The snapshotter knows of an active snapshot if there was one.
Known ==
  /\ backend.activeID # 0 <=> activeSnapshotID # 0
  /\ backend.activeID # 0 => default # 0
  /\ Committed => default = snapshot

ProcInv == IInv /\ Counters /\ Process /\ Known

\* The first state.
LEMMA ProcInit == Init => Counters /\ Process /\ Known
  BY DEF Init, Counters, Process, Known, Committed, Open, Closing, Aborting, NoBackend

\* What is mounted is counted.
LEMMA CountersNext == Counters /\ Next => Counters'
<1> SUFFICES ASSUME Counters, Next PROVE Counters'
  OBVIOUS
<1> USE DEF Counters
<1>1. CASE Exit \/ Reboot \/ Probe \/ InitBrfsPartition \/ RemountStatePartition
  BY <1>1 DEF Exit, Reboot, ProcessGone, Probe, InitBrfsPartition, RemountStatePartition, mnt
<1>2. CASE CreateNewSnapshot \/ MkWorkDir \/ BindMount \/ CloseTransaction \/ MirrorDataStarts \/ MirrorDataEnds
  BY <1>2 DEF CreateNewSnapshot, MkWorkDir, BindMount, CloseTransaction, MirrorDataStarts, MirrorDataEnds, mnt
<1>3. CASE CloseTransactionOnError \/ CloseFails \/ CommitSnapshot \/ SnapshotsCleanup \/ CleanOldest \/ CleanDone
  BY <1>3 DEF CloseTransactionOnError, CloseFails, CommitSnapshot, SnapshotsCleanup, CleanOldest, CleanDone, mnt
<1>4. CASE SetBootloader
  BY <1>4 DEF SetBootloader, GetSnapshotsWorks, GetSnapshotsFails
<1>5. CASE AbortDeletes \/ CloseDeletes
  BY <1>5 DEF AbortDeletes, CloseDeletes, DeleteSnapshot, GetSnapshotsWorks, GetSnapshotsFails
<1>6. CASE AbortUmounts \/ CloseUmounts
  BY <1>6 DEF AbortUmounts, CloseUmounts, SnapshotsUmount
<1> QED
  BY <1>1, <1>2, <1>3, <1>4, <1>5, <1>6 DEF Next, SnapshotterStep, ClientStep

\* GetSnapshots finds an active snapshot if there was one before.
LEMMA QueryKnows ==
  ASSUME Process, Known, Typed, GetSnapshotsWorks \/ GetSnapshotsFails
  PROVE  /\ activeSnapshotID' \in IDs \cup {0}
         /\ activeSnapshotID' # 0 <=> activeSnapshotID # 0
<1>1. activeSnapshotID \in IDs \cup {0} /\ default \in IDs \cup {0} /\ (activeSnapshotID # 0 => default # 0)
  BY DEF Process, Known, Typed
<1>2. activeSnapshotID > 0 <=> activeSnapshotID # 0
  BY <1>1, ConstantsAssumption
<1> QED BY <1>1, <1>2 DEF GetSnapshotsWorks, GetSnapshotsFails

\* Every step keeps what the process knows.
LEMMA ProcNext == ASSUME ProcInv, IInv', Counters', Next PROVE Process' /\ Known'
<1> USE ZeroIsNoID DEF ProcInv, Process, Known, Committed, Open, Closing, Aborting, IInv, Typed, Counters
<1>1. CASE Exit \/ Reboot
  BY <1>1 DEF Exit, Reboot, ProcessGone, NoBackend, disk
<1>2. CASE Probe
  <2>1. FindStateMount \in IDs \cup {0}
    BY DEF FindStateMount, RunningBootable
  <2> QED BY <1>2, <2>1 DEF Probe, object, disk, mnt
<1>3. CASE InitBrfsPartition \/ RemountStatePartition
  BY <1>3 DEF InitBrfsPartition, RemountStatePartition, object, disk, mnt
<1>4. CASE CreateNewSnapshot
  BY <1>4 DEF CreateNewSnapshot
<1>5. CASE MkWorkDir
  BY <1>5 DEF MkWorkDir
<1>6. CASE BindMount
  BY <1>6 DEF BindMount, disk
<1>7. CASE CloseTransactionOnError
  BY <1>7 DEF CloseTransactionOnError, object, disk
<1>8. CASE AbortDeletes
  BY <1>8, QueryKnows DEF AbortDeletes, DeleteSnapshot
<1>9. CASE CloseDeletes
  BY <1>9, QueryKnows DEF CloseDeletes, DeleteSnapshot
<1>10. CASE AbortUmounts
  BY <1>10 DEF AbortUmounts, SnapshotsUmount, object, disk
<1>11. CASE CloseUmounts
  BY <1>11 DEF CloseUmounts, SnapshotsUmount, object, disk
<1>12. CASE CloseTransaction
  BY <1>12 DEF CloseTransaction, object
<1>13. CASE MirrorDataStarts \/ MirrorDataEnds \/ CloseFails
  BY <1>13 DEF MirrorDataStarts, MirrorDataEnds, CloseFails, object, disk
<1>14. CASE CommitSnapshot
  BY <1>14 DEF CommitSnapshot, object
<1>15. CASE SnapshotsCleanup \/ CleanOldest \/ CleanDone
  BY <1>15 DEF SnapshotsCleanup, CleanOldest, CleanDone, object, disk
<1>16. CASE SetBootloader
  BY <1>16, QueryKnows DEF SetBootloader
<1> QED
  BY <1>1, <1>2, <1>3, <1>4, <1>5, <1>6, <1>7, <1>8, <1>9, <1>10, <1>11, <1>12, <1>13, <1>14, <1>15, <1>16
  DEF Next, SnapshotterStep, ClientStep

-----------------------------------------------------------------------------
(* What a transaction leaves mounted, and the snapshot it gave up.         *)

\* A system that runs from this partition does not mount it in a snapshot.
NotMounted == OnState => mounts = 0

\* One mount at most, and none after the umount, unless one has failed.
OneMount ==
  "umount" \notin logged =>
    /\ (pc = "ready" \/ pc \in Open \/ (pc = "failed" /\ snapshot # 0)) =>
         mounts \in {0, 1} /\ (~Hooked => mounts = 0)
    /\ pc \in {"closed", "aborted"} => mounts = 0

BindGone ==
  /\ (pc \in Closing \/ Committed) => ~bind
  /\ (pc \in Aborting /\ "umount" \notin logged) => ~bind

Discarded ==
  (pc \in {"abortumount", "aborted"} /\ backend.activeID # 0 /\ "delete" \notin logged) =>
    subvols[snapshot] = "none"

LeftInv == NotMounted /\ OneMount /\ BindGone /\ Discarded

\* The first state.
LEMMA LeftInit == Init => LeftInv
  BY DEF Init, LeftInv, NotMounted, OneMount, BindGone, Discarded, Committed, Open, Closing, Aborting

\* A query leaves nothing mounted, or one more, which is logged.
LEMMA QueryMounts ==
  ASSUME Counters, GetSnapshotsWorks \/ GetSnapshotsFails
  PROVE  mounts' = mounts \/ (GetSnapshotsFails /\ Hooked /\ mounts' = mounts + 1 /\ mounts' > mounts)
  BY DEF Counters, GetSnapshotsWorks, GetSnapshotsFails, MountsForItself

\* So the step that asked has logged it.
LEMMA StepMounts ==
  ASSUME Counters, \/ DeleteSnapshot("abort", "abortumount") \/ DeleteSnapshot("discard", "closeumount")
                   \/ SetBootloader
  PROVE  mounts' = mounts \/ (Hooked /\ "umount" \in logged')
<1>1. \/ GetSnapshotsWorks
      \/ GetSnapshotsFails /\ (mounts' > mounts => "umount" \in logged')
  BY DEF DeleteSnapshot, SetBootloader
<1>2. CASE GetSnapshotsWorks
  BY <1>2 DEF GetSnapshotsWorks
<1>3. CASE GetSnapshotsFails /\ (mounts' > mounts => "umount" \in logged')
  <2>1. mounts' = mounts \/ (Hooked /\ mounts' > mounts)
    BY <1>3, QueryMounts
  <2> QED BY <1>3, <2>1
<1> QED BY <1>1, <1>2, <1>3

\* The discarded snapshot is gone unless the deletion was refused or failed.
LEMMA DeleteDiscards ==
  ASSUME ProcInv, NEW here \in {"abort", "discard"}, NEW next, DeleteSnapshot(here, next),
         backend.activeID # 0, "delete" \notin logged'
  PROVE  subvols'[snapshot] = "none"
<1>1. activeSnapshotID > 0
  BY ConstantsAssumption DEF ProcInv, Known, Process
<1>2. snapshot \in IDs
  BY DEF DeleteSnapshot, ProcInv, Process, Open, Aborting, IInv, Typed
<1>3. CASE snapshot \in Listed
  BY <1>1, <1>2, <1>3 DEF DeleteSnapshot, ProcInv, IInv, Typed
<1>4. CASE snapshot \notin Listed
  BY <1>1, <1>2, <1>4 DEF DeleteSnapshot, Listed
<1> QED BY <1>3, <1>4

\* Every step keeps it.
LEMMA LeftNext == ASSUME ProcInv, ProcInv', LeftInv, Next PROVE LeftInv'
<1> USE DEF ProcInv, Process, Counters, LeftInv, NotMounted, OneMount, BindGone, Discarded,
            Committed, Open, Closing, Aborting, Hooked, OnState
<1>1. CASE Exit
  BY <1>1 DEF Exit, ProcessGone, mnt
<1>2. CASE Reboot
  BY <1>2 DEF Reboot, ProcessGone
<1>3. CASE Probe
  BY <1>3 DEF Probe, mnt
<1>4. CASE InitBrfsPartition
  BY <1>4 DEF InitBrfsPartition, mnt, object
<1>5. CASE RemountStatePartition
  BY <1>5 DEF RemountStatePartition, object
<1>6. CASE CreateNewSnapshot
  BY <1>6 DEF CreateNewSnapshot, mnt
<1>7. CASE MkWorkDir
  BY <1>7 DEF MkWorkDir, mnt
<1>8. CASE BindMount
  BY <1>8 DEF BindMount
<1>9. CASE CloseTransactionOnError
  BY <1>9 DEF CloseTransactionOnError, object
<1>10. CASE AbortDeletes
  <2>1. DeleteSnapshot("abort", "abortumount")
    BY <1>10 DEF AbortDeletes
  <2>2. mounts' = mounts \/ (Hooked /\ "umount" \in logged')
    BY <2>1, StepMounts DEF Hooked, OnState, Counters
  <2>3. /\ pc = "abort" /\ pc' = "abortumount" /\ UNCHANGED <<bind, booted, backend, snapshot>>
        /\ logged \subseteq logged'
    BY <2>1 DEF DeleteSnapshot
  <2>4. Discarded'
    BY <2>1, <2>3, DeleteDiscards
  <2> QED BY <2>2, <2>3, <2>4
<1>11. CASE CloseDeletes
  <2>1. DeleteSnapshot("discard", "closeumount")
    BY <1>11 DEF CloseDeletes
  <2>2. mounts' = mounts \/ (Hooked /\ "umount" \in logged')
    BY <2>1, StepMounts DEF Hooked, OnState, Counters
  <2>3. /\ pc = "discard" /\ pc' = "closeumount" /\ UNCHANGED <<bind, booted, backend, snapshot>>
        /\ logged \subseteq logged' /\ err'
    BY <2>1 DEF DeleteSnapshot
  <2> QED BY <2>2, <2>3
<1>12. CASE AbortUmounts
  BY <1>12 DEF AbortUmounts, SnapshotsUmount, object, disk
<1>13. CASE CloseUmounts
  BY <1>13 DEF CloseUmounts, SnapshotsUmount, object, disk
<1>14. CASE CloseTransaction
  BY <1>14 DEF CloseTransaction, object
<1>15. CASE MirrorDataStarts \/ MirrorDataEnds
  BY <1>15 DEF MirrorDataStarts, MirrorDataEnds, object, mnt
<1>16. CASE CloseFails
  BY <1>16 DEF CloseFails, object, mnt
<1>17. CASE CommitSnapshot
  BY <1>17 DEF CommitSnapshot, object, mnt
<1>18. CASE SnapshotsCleanup
  BY <1>18 DEF SnapshotsCleanup, object, mnt
<1>19. CASE CleanOldest
  BY <1>19 DEF CleanOldest, object
<1>20. CASE CleanDone
  BY <1>20 DEF CleanDone, object, mnt
<1>21. CASE SetBootloader
  <2>1. mounts' = mounts \/ (Hooked /\ "umount" \in logged')
    BY <1>21, StepMounts DEF Hooked, OnState, Counters
  <2>2. /\ pc = "setboot" /\ pc' = "closeumount" /\ UNCHANGED <<bind, booted, backend, snapshot, err>>
        /\ logged \subseteq logged'
    BY <1>21 DEF SetBootloader
  <2> QED BY <2>1, <2>2
<1> QED
  BY <1>1, <1>2, <1>3, <1>4, <1>5, <1>6, <1>7, <1>8, <1>9, <1>10, <1>11, <1>12, <1>13, <1>14, <1>15, <1>16,
     <1>17, <1>18, <1>19, <1>20, <1>21
  DEF Next, SnapshotterStep, ClientStep

LEMMA LeftInvariance == Spec => [](ProcInv /\ LeftInv)
<1>1. Init => ProcInv /\ LeftInv
  BY IInvInit, ProcInit, LeftInit DEF ProcInv
<1>2. (ProcInv /\ LeftInv) /\ [Next]_vars => (ProcInv /\ LeftInv)'
  <2> SUFFICES ASSUME ProcInv, LeftInv, [Next]_vars PROVE ProcInv' /\ LeftInv'
    OBVIOUS
  <2>1. CASE Next
    <3>1. IInv' /\ Counters'
      BY <2>1, IInvNext, CountersNext DEF ProcInv
    <3>2. Process' /\ Known'
      BY <2>1, <3>1, ProcNext
    <3>3. ProcInv'
      BY <3>1, <3>2 DEF ProcInv
    <3> QED BY <2>1, <3>3, LeftNext
  <2>2. CASE UNCHANGED vars
    <3>1. IInv'
      BY <2>2, IInvNext DEF ProcInv
    <3>2. Counters' /\ Process' /\ Known'
      BY <2>2 DEF ProcInv, Counters, Process, Known, Committed, vars, disk, mnt, object
    <3>3. LeftInv'
      BY <2>2 DEF LeftInv, NotMounted, OneMount, BindGone, Discarded, Committed, Hooked, OnState,
                  vars, disk, mnt, object
    <3> QED BY <3>1, <3>2, <3>3 DEF ProcInv
  <2> QED BY <2>1, <2>2
<1> QED BY <1>1, <1>2, PTL DEF Spec

\* A transaction that is given up leaves no snapshot behind unless a deletion
\* failed or the partition had none, and, however it ended, nothing mounted
\* unless an umount failed.
THEOREM NothingIsLeft == Spec => []NothingLeft
<1>1. ProcInv /\ LeftInv => NothingLeft
  BY DEF LeftInv, OneMount, BindGone, Discarded, NothingLeft, Closing, Aborting
<1> QED BY <1>1, LeftInvariance, PTL

-----------------------------------------------------------------------------
(* How many snapshots SnapshotsCleanup leaves.                             *)

LEMMA IDsAreInts == \A i \in IDs : i \in Int
  BY ConstantsAssumption

\* A nonempty set of natural numbers has a least element.
LEMMA LeastNat ==
  ASSUME NEW T \in SUBSET Nat, T # {}
  PROVE  \E m \in T : \A y \in T : m <= y
<1>1. PICK m \in T : \A y \in T : ~ (<<y, m>> \in OpToRel(<, Nat))
  BY NatLessThanWellFounded, WFMin
<1>2. ASSUME NEW y \in T PROVE m <= y
  <2>1. y < m => <<y, m>> \in OpToRel(<, Nat)
    BY DEF OpToRel
  <2>2. ~ (y < m)
    BY <1>1, <2>1, Zenon
  <2> QED BY <2>2
<1> QED BY <1>2

\* A nonempty set of IDs has an oldest one.
LEMMA OldestMember ==
  ASSUME NEW S \in SUBSET IDs, S # {}
  PROVE  OldestOf(S) \in S /\ \A j \in S : OldestOf(S) <= j
<1>1. S \in SUBSET Nat
  BY ConstantsAssumption
<1> QED
  BY <1>1, LeastNat, Zenon DEF OldestOf

\* There are finitely many snapshots, however many IDs there are.
LEMMA ListedInit == Init => IsFiniteSet(Listed)
<1> SUFFICES ASSUME Init PROVE IsFiniteSet(Listed)
  OBVIOUS
<1>1. Listed \in SUBSET {default}
  BY DEF Init, Listed
<1>2. IsFiniteSet({default})
  BY FS_Singleton
<1> QED BY <1>1, <1>2, FS_Subset

LEMMA ListedNext == ASSUME IInv, IsFiniteSet(Listed), Next PROVE IsFiniteSet(Listed)'
<1>1. PICK i : \A j \in IDs : j # i => subvols'[j] = subvols[j]
  <2>1. CASE subvols' = subvols
    BY <2>1
  <2>2. CASE subvols' # subvols
    <3>1. PICK i : \E v \in Contents : subvols' = [subvols EXCEPT ![i] = v]
      BY <2>2, OneSubvolume
    <3>2. \A j \in IDs : j # i => subvols'[j] = subvols[j]
      BY <3>1 DEF IInv, Typed
    <3> QED BY <3>2
  <2> QED BY <2>1, <2>2
<1>2. Listed' \in SUBSET (Listed \cup {i})
  BY <1>1 DEF Listed
<1>3. IsFiniteSet(Listed \cup {i})
  BY FS_AddElement
<1> QED BY <1>2, <1>3, FS_Subset

\* What clean up visits is all of it, or all but the MaxSnaps youngest.
LEMMA DoomedRest ==
  ASSUME NEW P \in SUBSET IDs, IsFiniteSet(P), MaxSnaps >= 0
  PROVE  Cardinality(P \ Doomed(P)) <= MaxSnaps
<1> DEFINE K == P \ Doomed(P)
<1>1. K \in SUBSET IDs
  OBVIOUS
<1>2. CASE K = {}
  BY <1>2, FS_EmptySet, ConstantsAssumption
<1>3. CASE K # {}
  <2> DEFINE m == OldestOf(K)
             U == {j \in P : j >= m}
  <2>1. m \in K /\ \A j \in K : m <= j
    BY <1>1, <1>3, OldestMember
  <2>2. m \in P /\ ~ (Cardinality(U) > MaxSnaps)
    BY <2>1 DEF Doomed
  <2>3. U \in SUBSET P /\ K \in SUBSET U
    <3>1. ASSUME NEW j \in K PROVE j \in U
      <4>1. m <= j /\ j \in Int /\ m \in Int
        BY <2>1, <2>2, <1>1, IDsAreInts
      <4> QED BY <4>1
    <3> QED BY <3>1
  <2> HIDE DEF U, K, m
  <2>4. IsFiniteSet(U) /\ Cardinality(U) \in Nat
    BY <2>3, FS_Subset, FS_CardinalityType
  <2>5. Cardinality(K) <= Cardinality(U) /\ Cardinality(K) \in Nat
    BY <2>3, <2>4, FS_Subset, FS_CardinalityType
  <2> QED BY <2>2, <2>4, <2>5, ConstantsAssumption DEF K
<1> QED BY <1>2, <1>3

\* It visits the oldest ones.
LEMMA DoomedOldest ==
  ASSUME NEW P \in SUBSET IDs, IsFiniteSet(P), NEW i \in Doomed(P), NEW j \in P, j < i
  PROVE  j \in Doomed(P)
<1> DEFINE U(k) == {x \in P : x >= k}
<1>1. U(i) \in SUBSET U(j) /\ U(j) \in SUBSET P
  <2>1. ASSUME NEW x \in P, x >= i PROVE x >= j
    <3>1. x \in Int /\ i \in Int /\ j \in Int
      BY ConstantsAssumption DEF Doomed
    <3> QED BY <2>1, <3>1
  <2> QED BY <2>1
<1>2. Cardinality(U(i)) > MaxSnaps
  BY DEF Doomed
<1> HIDE DEF U
<1>3. IsFiniteSet(U(j)) /\ Cardinality(U(j)) \in Nat
  BY <1>1, FS_Subset, FS_CardinalityType
<1>4. Cardinality(U(i)) <= Cardinality(U(j)) /\ Cardinality(U(i)) \in Nat
  BY <1>1, <1>3, FS_Subset, FS_CardinalityType
<1>5. Cardinality(U(j)) > MaxSnaps
  BY <1>2, <1>3, <1>4, ConstantsAssumption
<1> QED BY <1>5 DEF Doomed, U

\* With a negative maximum it visits all of them.
LEMMA DoomedAll ==
  ASSUME NEW P \in SUBSET IDs, IsFiniteSet(P), ~ (MaxSnaps >= 0)
  PROVE  Doomed(P) = P
<1> SUFFICES ASSUME NEW i \in P PROVE Cardinality({j \in P : j >= i}) > MaxSnaps
  BY DEF Doomed
<1> DEFINE U == {j \in P : j >= i}
<1>1. U \in SUBSET P
  OBVIOUS
<1> HIDE DEF U
<1>2. Cardinality(U) \in Nat
  BY <1>1, FS_Subset, FS_CardinalityType
<1>3. Cardinality(U) > MaxSnaps
  BY <1>2, ConstantsAssumption
<1> QED BY <1>3 DEF U

\* What is left to visit while clean up is at work: the oldest snapshots, so
\* many that MaxSnaps are left.  A negative maximum would take the default too.
Rest ==
  /\ doomed \in SUBSET Listed
  /\ \A i \in doomed : \A j \in Listed : j < i => j \in doomed
  /\ MaxSnaps >= 0 => Cardinality(Listed \ doomed) <= MaxSnaps
  /\ ~ (MaxSnaps >= 0) => default \in doomed

InUseFirst == doomed = {} /\ OldestOf(Listed) = booted.id

Retained == (Committed /\ pc # "clean" /\ "clean" \notin logged) => (Rest \/ InUseFirst)

\* SnapshotsCleanup starts with all of it left to visit.
LEMMA CleanupStarts ==
  ASSUME ProcInv, IsFiniteSet(Listed), SnapshotsCleanup, "clean" \notin logged'
  PROVE  Rest'
<1>1. pc = "clean" /\ doomed' = Doomed(Listed) /\ UNCHANGED <<subvols, default>>
  BY DEF SnapshotsCleanup, disk
<1>2. Listed' = Listed /\ Listed \in SUBSET IDs
  BY <1>1 DEF Listed
<1>3. default \in Listed
  <2>1. default = snapshot /\ snapshot # 0
    BY <1>1 DEF ProcInv, Process, Known, Committed, Open, Closing
  <2> QED BY <2>1 DEF ProcInv, IInv, Typed, DefaultIsWhole, Listed
<1>4. Doomed(Listed) \in SUBSET Listed
  BY DEF Doomed
<1>5. \A i \in Doomed(Listed) : \A j \in Listed : j < i => j \in Doomed(Listed)
  BY <1>2, DoomedOldest
<1>6. MaxSnaps >= 0 => Cardinality(Listed \ Doomed(Listed)) <= MaxSnaps
  BY <1>2, DoomedRest
<1>7. ~ (MaxSnaps >= 0) => Doomed(Listed) = Listed
  BY <1>2, DoomedAll
<1> QED BY <1>1, <1>2, <1>3, <1>4, <1>5, <1>6, <1>7, Zenon DEF Rest

\* Each round takes the oldest one, until it comes to the one in use.
LEMMA CleanupGoesOn ==
  ASSUME ProcInv, Rest, CleanOldest, "clean" \notin logged'
  PROVE  Rest' \/ InUseFirst'
<1> DEFINE id == OldestOf(doomed)
<1>1. Listed \in SUBSET IDs /\ doomed \in SUBSET IDs /\ doomed # {} /\ pc = "delete"
      /\ UNCHANGED <<default, booted>>
  BY DEF Listed, Rest, CleanOldest
<1>2. id \in doomed /\ \A j \in doomed : id <= j
  BY <1>1, OldestMember
<1>3. id \in IDs /\ id \in Listed
  BY <1>1, <1>2 DEF Rest
<1>4. CASE Deletable(id) /\ subvols' = [subvols EXCEPT ![id] = "none"] /\ doomed' = doomed \ {id}
  <2>1. Listed' = Listed \ {id}
    BY <1>3, <1>4 DEF Listed, ProcInv, IInv, Typed
  <2>2. Listed' \ doomed' = Listed \ doomed
    BY <1>2, <1>4, <2>1
  <2>3. id # default
    BY <1>4 DEF Deletable
  <2> HIDE DEF id
  <2>4. doomed' \in SUBSET Listed' /\ \A i \in doomed' : \A j \in Listed' : j < i => j \in doomed'
    BY <1>4, <2>1 DEF Rest
  <2>5. MaxSnaps >= 0 => Cardinality((Listed \ doomed)') <= MaxSnaps
    BY <2>2 DEF Rest
  <2>6. ~ (MaxSnaps >= 0) => default' \in doomed'
    BY <1>1, <1>4, <2>3 DEF Rest
  <2> QED BY <2>4, <2>5, <2>6 DEF Rest
<1>5. CASE doomed' = {} /\ UNCHANGED subvols /\ id = backend.currentID
  <2>1. backend.currentID = booted.id
    BY <1>1 DEF ProcInv, IInv, Probed
  <2>2. \A j \in Listed : id <= j
    <3>1. ASSUME NEW j \in Listed PROVE id <= j
      <4>1. j \in Int /\ id \in Int
        BY <1>1, <1>3, IDsAreInts
      <4>2. j < id => j \in doomed
        BY <1>2 DEF Rest
      <4>3. j \in doomed => id <= j
        BY <1>2
      <4> HIDE DEF id
      <4> QED BY <4>1, <4>2, <4>3
    <3> QED BY <3>1
  <2>3. OldestOf(Listed) \in Listed /\ OldestOf(Listed) <= id
    BY <1>1, <1>3, OldestMember
  <2>4. id <= OldestOf(Listed) /\ id \in Int /\ OldestOf(Listed) \in Int
    BY <1>1, <1>3, <2>2, <2>3, IDsAreInts
  <2> HIDE DEF id
  <2>5. OldestOf(Listed) = id
    BY <2>3, <2>4
  <2>6. Listed' = Listed
    BY <1>5 DEF Listed
  <2> QED BY <1>1, <1>5, <2>1, <2>5, <2>6 DEF InUseFirst
<1>6. \/ Deletable(id) /\ subvols' = [subvols EXCEPT ![id] = "none"] /\ doomed' = doomed \ {id}
      \/ doomed' = {} /\ UNCHANGED subvols /\ id = backend.currentID
  BY DEF CleanOldest
<1> QED BY <1>4, <1>5, <1>6

\* Nothing else that CloseTransaction does then changes the snapshots.
LEMMA AfterCleanup ==
  ASSUME ProcInv, [Next]_vars, ~CleanOldest,
         Committed, pc # "clean", Committed', "clean" \notin logged'
  PROVE  "clean" \notin logged /\ UNCHANGED <<subvols, default, booted, doomed>>
<1> USE DEF Committed
<1>1. CASE Exit \/ Reboot \/ Probe \/ InitBrfsPartition \/ RemountStatePartition
  BY <1>1 DEF Exit, Reboot, ProcessGone, Probe, InitBrfsPartition, RemountStatePartition
<1>2. CASE CreateNewSnapshot \/ MkWorkDir \/ BindMount \/ CloseTransaction \/ MirrorDataStarts \/ MirrorDataEnds
  BY <1>2 DEF CreateNewSnapshot, MkWorkDir, BindMount, CloseTransaction, MirrorDataStarts, MirrorDataEnds
<1>3. CASE CloseTransactionOnError \/ CloseFails \/ CommitSnapshot \/ SnapshotsCleanup
  BY <1>3 DEF CloseTransactionOnError, CloseFails, CommitSnapshot, SnapshotsCleanup
<1>4. CASE AbortDeletes \/ CloseDeletes \/ AbortUmounts
  BY <1>4 DEF AbortDeletes, CloseDeletes, DeleteSnapshot, AbortUmounts, SnapshotsUmount
<1>5. CASE CleanDone
  BY <1>5 DEF CleanDone, disk
<1>6. CASE SetBootloader
  BY <1>6 DEF SetBootloader
<1>7. CASE CloseUmounts
  BY <1>7 DEF CloseUmounts, SnapshotsUmount, disk
<1>8. CASE UNCHANGED vars
  BY <1>8 DEF vars, disk
<1> QED
  BY <1>1, <1>2, <1>3, <1>4, <1>5, <1>6, <1>7, <1>8 DEF Next, SnapshotterStep, ClientStep

\* Clean up is how a transaction goes on after its commit.
LEMMA CleanupComes ==
  ASSUME ProcInv, [Next]_vars, ~Committed \/ pc = "clean", Committed', pc' # "clean"
  PROVE  SnapshotsCleanup
<1> USE DEF Committed
<1>1. CASE Exit \/ Reboot \/ Probe \/ InitBrfsPartition \/ RemountStatePartition
  BY <1>1 DEF Exit, Reboot, ProcessGone, Probe, InitBrfsPartition, RemountStatePartition
<1>2. CASE CreateNewSnapshot \/ MkWorkDir \/ BindMount \/ CloseTransaction \/ MirrorDataStarts \/ MirrorDataEnds
  BY <1>2 DEF CreateNewSnapshot, MkWorkDir, BindMount, CloseTransaction, MirrorDataStarts, MirrorDataEnds
<1>3. CASE CloseTransactionOnError \/ CloseFails \/ CommitSnapshot
  BY <1>3 DEF CloseTransactionOnError, CloseFails, CommitSnapshot
<1>4. CASE AbortDeletes \/ AbortUmounts
  BY <1>4 DEF AbortDeletes, DeleteSnapshot, AbortUmounts, SnapshotsUmount
<1>5. CASE CloseDeletes
  BY <1>5 DEF CloseDeletes, DeleteSnapshot, ProcInv, Process
<1>6. CASE CleanOldest \/ CleanDone \/ SetBootloader
  BY <1>6 DEF CleanOldest, CleanDone, SetBootloader
<1>7. CASE CloseUmounts
  BY <1>7 DEF CloseUmounts, SnapshotsUmount
<1>8. CASE UNCHANGED vars
  BY <1>8 DEF vars
<1> QED
  BY <1>1, <1>2, <1>3, <1>4, <1>5, <1>6, <1>7, <1>8 DEF Next, SnapshotterStep, ClientStep

LEMMA RetainedNext ==
  ASSUME ProcInv, IsFiniteSet(Listed), Retained, [Next]_vars
  PROVE  Retained'
<1> SUFFICES ASSUME Committed', pc' # "clean", "clean" \notin logged' PROVE Rest' \/ InUseFirst'
  BY DEF Retained
<1>1. CASE ~Committed \/ pc = "clean"
  BY <1>1, CleanupComes, CleanupStarts
<1>2. CASE Committed /\ pc # "clean" /\ ~CleanOldest
  <2>1. "clean" \notin logged /\ UNCHANGED <<subvols, default, booted, doomed>>
    BY <1>2, AfterCleanup
  <2>2. Rest \/ InUseFirst
    BY <1>2, <2>1 DEF Retained
  <2>3. Listed' = Listed
    BY <2>1 DEF Listed
  <2> QED BY <2>1, <2>2, <2>3 DEF Rest, InUseFirst
<1>3. CASE Committed /\ pc # "clean" /\ CleanOldest
  <2>1. "clean" \notin logged /\ doomed # {}
    BY <1>3 DEF CleanOldest
  <2>2. Rest
    BY <1>3, <2>1 DEF Retained, InUseFirst
  <2> QED BY <1>3, <2>2, CleanupGoesOn
<1> QED BY <1>1, <1>2, <1>3

LEMMA RetainedInvariance == Spec => [](ProcInv /\ IsFiniteSet(Listed) /\ Retained)
<1>1. Init => IsFiniteSet(Listed) /\ Retained
  BY ListedInit DEF Init, Retained, Committed
<1>2. ProcInv /\ IsFiniteSet(Listed) /\ Retained /\ [Next]_vars => IsFiniteSet(Listed)' /\ Retained'
  <2> SUFFICES ASSUME ProcInv, IsFiniteSet(Listed), Retained, [Next]_vars
               PROVE  IsFiniteSet(Listed)' /\ Retained'
    OBVIOUS
  <2>1. Retained'
    BY RetainedNext
  <2>2. CASE Next
    BY <2>1, <2>2, ListedNext DEF ProcInv
  <2>3. CASE UNCHANGED vars
    <3>1. Listed' = Listed
      BY <2>3 DEF vars, disk, Listed
    <3> QED BY <2>1, <3>1
  <2> QED BY <2>2, <2>3
<1> QED BY <1>1, <1>2, LeftInvariance, PTL DEF Spec

\* SnapshotsCleanup leaves MaxSnaps snapshots, those of interrupted transactions
\* included, unless it came to the one in use first, however many there were.
THEOREM RetentionIsBounded == Spec => []RetentionBound
<1>1. ProcInv /\ Retained => RetentionBound
  <2> SUFFICES ASSUME ProcInv, Retained, pc = "closed", "clean" \notin logged
               PROVE  Cardinality(Listed) <= MaxSnaps \/ OldestOf(Listed) = booted.id
    BY DEF RetentionBound
  <2>1. doomed = {} /\ (Rest \/ InUseFirst)
    BY DEF ProcInv, Process, Retained, Committed
  <2>2. Listed \ doomed = Listed
    BY <2>1
  <2> QED BY <2>1, <2>2 DEF Rest, InUseFirst
<1> QED BY <1>1, RetainedInvariance, PTL

-----------------------------------------------------------------------------
(* The order of the names.                                                 *)

\* The digits of a number, once those of the numbers below are known.
DigitsOf(f, n) == IF n < 10 THEN <<n>> ELSE Append(f[n \div 10], n % 10)

\* f has the digits of the numbers up to m.
UpTo(f, m) == f \in [0..m -> Seq(Nat)] /\ \A n \in 0..m : f[n] = DigitsOf(f, n)

\* A number without its last digit is smaller.
LEMMA Tenth ==
  ASSUME NEW n \in Nat, n >= 10
  PROVE  /\ n \div 10 \in Nat /\ n \div 10 < n /\ n \div 10 >= 1
         /\ n % 10 \in 0..9 /\ n % 10 = n - 10 * (n \div 10)
<1>1. n \div 10 \in Nat
  OBVIOUS
<1>2. n \div 10 >= 1
  OBVIOUS
<1>3. n % 10 \in 0..9
  OBVIOUS
<1>4. n % 10 = n - 10 * (n \div 10)
  OBVIOUS
<1>5. n \div 10 < n
  OBVIOUS
<1> QED BY <1>1, <1>2, <1>3, <1>4, <1>5

\* There is such a function for every bound.
LEMMA UpToExists == \A m \in Nat : \E f : UpTo(f, m)
<1> DEFINE T == {m \in Nat : ~ \E f : UpTo(f, m)}
<1> SUFFICES ASSUME T # {} PROVE FALSE
  OBVIOUS
<1>1. PICK m \in T : \A y \in T : m <= y
  BY LeastNat
<1>2. m \in Nat /\ ~ \E f : UpTo(f, m)
  OBVIOUS
<1>3. CASE m = 0
  <2> DEFINE f == [n \in 0..0 |-> <<0>>]
  <2>1. f \in [0..0 -> Seq(Nat)] /\ \A n \in 0..0 : f[n] = DigitsOf(f, n)
    BY DEF DigitsOf
  <2> QED BY <1>2, <1>3, <2>1 DEF UpTo
<1>4. CASE m # 0
  <2>1. m - 1 \in Nat /\ ~ (m <= m - 1)
    BY <1>2, <1>4
  <2>2. PICK g : UpTo(g, m - 1)
    BY <1>1, <2>1
  <2> HIDE DEF T
  <2>3. DigitsOf(g, m) \in Seq(Nat)
    <3>1. CASE m < 10
      BY <1>2, <3>1 DEF DigitsOf
    <3>2. CASE m >= 10
      <4>1. m \div 10 \in 0..(m - 1) /\ m % 10 \in Nat
        BY <1>2, <3>2, Tenth
      <4>2. g[m \div 10] \in Seq(Nat)
        BY <2>2, <4>1 DEF UpTo
      <4> QED BY <1>2, <3>2, <4>1, <4>2 DEF DigitsOf
    <3> QED BY <1>2, <3>1, <3>2
  <2> DEFINE f == [n \in 0..m |-> IF n = m THEN DigitsOf(g, m) ELSE g[n]]
  <2>4. f \in [0..m -> Seq(Nat)]
    BY <1>2, <2>2, <2>3 DEF UpTo
  <2>5. ASSUME NEW n \in 0..m PROVE f[n] = DigitsOf(f, n)
    <3>1. n >= 10 => n \div 10 \in 0..(m - 1) /\ n \div 10 # m
      BY <1>2, Tenth
    <3>2. n >= 10 => f[n \div 10] = g[n \div 10]
      BY <1>2, <3>1
    <3>3. DigitsOf(f, n) = DigitsOf(g, n)
      BY <1>2, <3>2 DEF DigitsOf
    <3>4. f[n] = DigitsOf(g, n)
      BY <1>2, <2>2 DEF UpTo
    <3> QED BY <3>3, <3>4
  <2> HIDE DEF f
  <2> QED BY <1>2, <2>4, <2>5 DEF UpTo
<1> QED BY <1>3, <1>4

\* Two of them agree where both are defined.
LEMMA UpToUnique ==
  ASSUME NEW a \in Nat, NEW b \in Nat, NEW f, NEW g, UpTo(f, a), UpTo(g, b)
  PROVE  \A n \in Nat : n <= a /\ n <= b => f[n] = g[n]
<1> DEFINE T == {n \in Nat : n <= a /\ n <= b /\ f[n] # g[n]}
<1> SUFFICES ASSUME T # {} PROVE FALSE
  OBVIOUS
<1>1. PICK n \in T : \A y \in T : n <= y
  BY LeastNat
<1>2. n \in Nat /\ n <= a /\ n <= b /\ f[n] # g[n]
  OBVIOUS
<1>3. n >= 10 => f[n \div 10] = g[n \div 10]
  BY <1>1, <1>2, Tenth
<1> HIDE DEF T
<1>4. f[n] = DigitsOf(f, n) /\ g[n] = DigitsOf(g, n)
  BY <1>2 DEF UpTo
<1> QED BY <1>2, <1>3, <1>4 DEF DigitsOf

\* The digits of a number are what their definition says.
LEMMA DigitsDef ==
  /\ Digits \in [Nat -> Seq(Nat)]
  /\ \A n \in Nat : Digits[n] = IF n < 10 THEN <<n>> ELSE Append(Digits[n \div 10], n % 10)
<1> DEFINE h == [m \in Nat |-> CHOOSE f : UpTo(f, m)]
           g == [n \in Nat |-> h[n][n]]
<1>1. \A m \in Nat : UpTo(h[m], m)
  BY UpToExists
<1> HIDE DEF h
<1>2. g \in [Nat -> Seq(Nat)]
  BY <1>1 DEF UpTo
<1>3. ASSUME NEW n \in Nat PROVE g[n] = DigitsOf(g, n)
  <2>1. g[n] = DigitsOf(h[n], n)
    BY <1>1 DEF UpTo
  <2>2. n >= 10 => h[n][n \div 10] = g[n \div 10]
    <3> SUFFICES ASSUME n >= 10 PROVE h[n][n \div 10] = g[n \div 10]
      OBVIOUS
    <3>1. n \div 10 \in Nat /\ n \div 10 <= n
      BY Tenth
    <3>2. h[n][n \div 10] = h[n \div 10][n \div 10]
      BY <1>1, <3>1, UpToUnique
    <3> QED BY <3>1, <3>2
  <2> HIDE DEF g
  <2> QED BY <2>1, <2>2 DEF DigitsOf
<1> DEFINE D(f) == [n \in Nat |-> DigitsOf(f, n)]
<1>4. g = D(g)
  BY <1>2, <1>3
<1> HIDE DEF g
<1>5. Digits = D(Digits)
  BY <1>4 DEF Digits, DigitsOf
<1>6. \A n \in Nat : Digits[n] = DigitsOf(Digits, n)
  BY <1>5
<1>7. \A n \in Nat : Digits[n] \in Seq(Nat)
  <2> DEFINE T == {n \in Nat : Digits[n] \notin Seq(Nat)}
  <2> SUFFICES ASSUME T # {} PROVE FALSE
    OBVIOUS
  <2>1. PICK n \in T : \A y \in T : n <= y
    BY LeastNat
  <2>2. n >= 10 => Digits[n \div 10] \in Seq(Nat) /\ n % 10 \in Nat
    BY <2>1, Tenth
  <2>3. n \in Nat /\ Digits[n] \notin Seq(Nat)
    OBVIOUS
  <2> HIDE DEF T
  <2>4. CASE n < 10
    <3>1. Digits[n] = <<n>>
      BY <1>6, <2>3, <2>4 DEF DigitsOf
    <3> QED BY <2>3, <3>1
  <2>5. CASE n >= 10
    <3>1. ~ (n < 10)
      BY <2>3, <2>5
    <3>a. Digits[n] = Append(Digits[n \div 10], n % 10)
      BY <1>6, <2>3, <3>1, Zenon DEF DigitsOf
    <3>2. Append(Digits[n \div 10], n % 10) \in Seq(Nat)
      BY <2>2, <2>5, AppendProperties
    <3> QED BY <2>3, <3>a, <3>2
  <2> QED BY <2>3, <2>4, <2>5
<1>8. Digits \in [Nat -> Seq(Nat)]
  <2>1. Digits = [n \in Nat |-> Digits[n]]
    BY <1>5
  <2> QED BY <1>7, <2>1
<1> QED BY <1>6, <1>8 DEF DigitsOf

\* A digit more than the number without its last one, which comes at the end.
LEMMA DigitsFacts ==
  ASSUME NEW n \in Nat
  PROVE  /\ Digits[n] \in Seq(Nat) /\ Len(Digits[n]) \in Nat /\ Len(Digits[n]) >= 1
         /\ n < 10 => Len(Digits[n]) = 1 /\ Digits[n][1] = n
         /\ n >= 10 => /\ Len(Digits[n]) = Len(Digits[n \div 10]) + 1
                       /\ \A j \in 1..Len(Digits[n \div 10]) : Digits[n][j] = Digits[n \div 10][j]
                       /\ Digits[n][Len(Digits[n])] = n % 10
<1>1. Digits[n] \in Seq(Nat) /\ Len(Digits[n]) \in Nat
  BY DigitsDef
<1>2. CASE n < 10
  <2>1. Digits[n] = <<n>>
    BY <1>2, DigitsDef
  <2> QED BY <1>1, <1>2, <2>1
<1>3. CASE n >= 10
  <2> DEFINE q == n \div 10
             r == n % 10
  <2>1. q \in Nat /\ r \in Nat
    BY <1>3, Tenth
  <2>2. ~ (n < 10)
    BY <1>3
  <2>3. Digits[n] = Append(Digits[q], r)
    BY <2>2, DigitsDef, Zenon
  <2>4. Digits[q] \in Seq(Nat) /\ Len(Digits[q]) \in Nat
    BY <2>1, DigitsDef
  <2> HIDE DEF q, r
  <2>5. /\ Len(Digits[n]) = Len(Digits[q]) + 1
        /\ \A j \in 1..Len(Digits[q]) : Digits[n][j] = Digits[q][j]
        /\ Digits[n][Len(Digits[n])] = r
    BY <2>1, <2>3, <2>4, AppendProperties
  <2>6. Len(Digits[n]) >= 1
    BY <2>4, <2>5
  <2> QED BY <1>1, <1>3, <2>5, <2>6 DEF q, r
<1> QED BY <1>2, <1>3

\* The order of sequences of numbers behind NameBefore.
Before(x, y) ==
  \E k \in 1..Len(y) :
    /\ k - 1 <= Len(x)
    /\ \A j \in 1..(k - 1) : x[j] = y[j]
    /\ k <= Len(x) => x[k] < y[k]

\* A sequence is not before itself.
LEMMA BeforeIrreflexive ==
  ASSUME NEW x \in Seq(Nat)
  PROVE  ~ Before(x, x)
<1> SUFFICES ASSUME NEW k \in 1..Len(x), x[k] < x[k] PROVE FALSE
  BY DEF Before
<1>1. x[k] \in Nat
  OBVIOUS
<1> QED BY <1>1

\* The order is transitive: the first difference of the two decides.
LEMMA BeforeTransitive ==
  ASSUME NEW x \in Seq(Nat), NEW y \in Seq(Nat), NEW z \in Seq(Nat), Before(x, y), Before(y, z)
  PROVE  Before(x, z)
<1>1. Len(x) \in Nat /\ Len(y) \in Nat /\ Len(z) \in Nat
  OBVIOUS
<1>2. /\ \A i \in 1..Len(x) : x[i] \in Nat
      /\ \A i \in 1..Len(y) : y[i] \in Nat
      /\ \A i \in 1..Len(z) : z[i] \in Nat
  OBVIOUS
<1>3. PICK k \in 1..Len(y) : /\ k - 1 <= Len(x)
                             /\ \A j \in 1..(k - 1) : x[j] = y[j]
                             /\ k <= Len(x) => x[k] < y[k]
  BY DEF Before
<1>4. PICK l \in 1..Len(z) : /\ l - 1 <= Len(y)
                             /\ \A j \in 1..(l - 1) : y[j] = z[j]
                             /\ l <= Len(y) => y[l] < z[l]
  BY DEF Before
<1>5. CASE k < l
  <2>1. k \in 1..Len(z) /\ y[k] = z[k] /\ \A j \in 1..(k - 1) : x[j] = z[j]
    BY <1>1, <1>3, <1>4, <1>5
  <2> QED BY <1>3, <2>1 DEF Before
<1>6. CASE k = l
  <2>1. /\ k \in 1..Len(z)
        /\ \A j \in 1..(k - 1) : x[j] = z[j]
        /\ y[k] < z[k]
    BY <1>1, <1>3, <1>4, <1>6
  <2>2. k <= Len(x) => x[k] < z[k]
    <3> SUFFICES ASSUME k <= Len(x) PROVE x[k] < z[k]
      OBVIOUS
    <3>1. x[k] < y[k] /\ x[k] \in Nat /\ y[k] \in Nat /\ z[k] \in Nat
      BY <1>1, <1>2, <1>3, <2>1
    <3> DEFINE a == x[k]
               b == y[k]
               c == z[k]
    <3>2. a \in Nat /\ b \in Nat /\ c \in Nat /\ a < b /\ b < c
      BY <2>1, <3>1
    <3> HIDE DEF a, b, c
    <3>3. a < c
      BY <3>2
    <3> QED BY <3>3 DEF a, c
  <2> QED BY <1>3, <2>1, <2>2 DEF Before
<1>7. CASE l < k
  <2>1. /\ l \in 1..Len(z) /\ l - 1 <= Len(x)
        /\ x[l] = y[l] /\ y[l] < z[l]
        /\ \A j \in 1..(l - 1) : x[j] = z[j]
    <3>1. l \in 1..Len(z) /\ l - 1 <= Len(x) /\ l \in 1..(k - 1) /\ l <= Len(y)
      BY <1>1, <1>3, <1>4, <1>7, SMTT(30)
    <3>2. x[l] = y[l] /\ y[l] < z[l]
      BY <1>3, <1>4, <3>1
    <3>3. ASSUME NEW j \in 1..(l - 1) PROVE x[j] = z[j]
      <4>1. j \in 1..(k - 1)
        BY <3>1
      <4> QED BY <1>3, <1>4, <4>1
    <3> QED BY <3>1, <3>2, <3>3
  <2> QED BY <2>1 DEF Before
<1> QED BY <1>1, <1>5, <1>6, <1>7

\* Of two sequences one is before the other.
LEMMA BeforeTotal ==
  ASSUME NEW x \in Seq(Nat), NEW y \in Seq(Nat), x # y
  PROVE  Before(x, y) \/ Before(y, x)
<1>1. Len(x) \in Nat /\ Len(y) \in Nat
  OBVIOUS
<1>2. /\ \A i \in 1..Len(x) : x[i] \in Nat
      /\ \A i \in 1..Len(y) : y[i] \in Nat
  OBVIOUS
<1> DEFINE T == {k \in Nat : k >= 1 /\ (k <= Len(x) /\ k <= Len(y) => x[k] # y[k])}
<1>3. T \in SUBSET Nat /\ Len(x) + 1 \in T
  BY <1>1
<1>4. PICK k \in T : \A i \in T : k <= i
  BY <1>3, LeastNat
<1>5. k \in Nat /\ k >= 1 /\ (k <= Len(x) /\ k <= Len(y) => x[k] # y[k])
  OBVIOUS
<1>6. \A j \in 1..(k - 1) : j <= Len(x) /\ j <= Len(y) /\ x[j] = y[j]
  <2> SUFFICES ASSUME NEW j \in 1..(k - 1) PROVE ~ (j \in T)
    OBVIOUS
  <2>1. j \in Nat /\ ~ (k <= j)
    BY <1>5
  <2> QED BY <1>4, <2>1
<1> HIDE DEF T
<1>7. k - 1 <= Len(x) /\ k - 1 <= Len(y)
  BY <1>1, <1>5, <1>6
<1>8. CASE k <= Len(x) /\ k <= Len(y)
  <2>1. x[k] < y[k] \/ y[k] < x[k]
    BY <1>2, <1>5, <1>8
  <2> QED BY <1>1, <1>5, <1>6, <1>7, <1>8, <2>1 DEF Before
<1>9. CASE k > Len(x) /\ k <= Len(y)
  BY <1>1, <1>5, <1>6, <1>7, <1>9 DEF Before
<1>10. CASE k <= Len(x) /\ k > Len(y)
  BY <1>1, <1>5, <1>6, <1>7, <1>10 DEF Before
<1>11. CASE k > Len(x) /\ k > Len(y)
  <2>1. Len(x) = Len(y) /\ \A j \in 1..Len(x) : x[j] = y[j]
    BY <1>1, <1>5, <1>6, <1>7, <1>11
  <2>2. x = y
    BY <2>1, SeqEqual
  <2> QED BY <2>2
<1> QED BY <1>1, <1>5, <1>8, <1>9, <1>10, <1>11

\* At the same number of digits the order of the names is that of the numbers.
LEMMA SameLength ==
  \A b \in Nat : \A a \in Nat :
    (Len(Digits[a]) = Len(Digits[b]) /\ a < b) => Before(Digits[a], Digits[b])
<1> DEFINE T == {b \in Nat : ~ \A a \in Nat :
                   (Len(Digits[a]) = Len(Digits[b]) /\ a < b) => Before(Digits[a], Digits[b])}
<1> SUFFICES ASSUME T # {} PROVE FALSE
  OBVIOUS
<1>1. PICK b \in T : \A y \in T : b <= y
  BY LeastNat
<1>2. PICK a \in Nat : Len(Digits[a]) = Len(Digits[b]) /\ a < b /\ ~ Before(Digits[a], Digits[b])
  OBVIOUS
<1>3. \A c \in Nat : c < b => \A d \in Nat :
        (Len(Digits[d]) = Len(Digits[c]) /\ d < c) => Before(Digits[d], Digits[c])
  BY <1>1
<1>4. b \in Nat
  OBVIOUS
<1> HIDE DEF T
<1>5. CASE b < 10
  <2>1. a < 10
    BY <1>2, <1>4, <1>5
  <2>2. Len(Digits[a]) = 1 /\ Len(Digits[b]) = 1 /\ Digits[a][1] = a /\ Digits[b][1] = b
    BY <1>4, <1>5, <2>1, DigitsFacts
  <2>3. Before(Digits[a], Digits[b])
    BY <1>2, <1>4, <2>2 DEF Before
  <2> QED BY <1>2, <2>3
<1>6. CASE b >= 10
  <2> DEFINE p == a \div 10
             q == b \div 10
             u == a % 10
             v == b % 10
             L == Len(Digits[q])
  <2>0. q \in Nat /\ q < b /\ v \in 0..9 /\ v = b - 10 * q
    BY <1>4, <1>6, Tenth
  <2>1. L \in Nat /\ L >= 1 /\ Len(Digits[b]) = L + 1
        /\ (\A j \in 1..L : Digits[b][j] = Digits[q][j]) /\ Digits[b][L + 1] = v
    BY <1>4, <1>6, <2>0, DigitsFacts
  <2>2. a >= 10
    <3> SUFFICES ASSUME a < 10 PROVE FALSE
      BY <1>2
    <3>1. Len(Digits[a]) = 1
      BY DigitsFacts
    <3> HIDE DEF L
    <3> QED BY <1>2, <2>1, <3>1
  <2>3. p \in Nat /\ u \in 0..9 /\ u = a - 10 * p
    BY <2>2, Tenth
  <2>4. Len(Digits[a]) = Len(Digits[p]) + 1
        /\ (\A j \in 1..Len(Digits[p]) : Digits[a][j] = Digits[p][j])
        /\ Digits[a][Len(Digits[a])] = u /\ Len(Digits[p]) \in Nat
    BY <2>2, <2>3, DigitsFacts
  <2> HIDE DEF p, q, u, v
  <2>5. Len(Digits[p]) = L /\ (\A j \in 1..L : Digits[a][j] = Digits[p][j]) /\ Digits[a][L + 1] = u
    <3> HIDE DEF L
    <3>1. Len(Digits[p]) = L
      BY <1>2, <2>1, <2>4
    <3> QED BY <1>2, <2>1, <2>4, <3>1
  <2>6. p < q \/ (p = q /\ u < v)
    BY <1>2, <1>4, <2>0, <2>3
  <2>7. CASE p < q
    <3>1. Before(Digits[p], Digits[q])
      BY <1>3, <2>0, <2>3, <2>5, <2>7
    <3> HIDE DEF L
    <3>2. PICK k \in 1..L : /\ \A j \in 1..(k - 1) : Digits[p][j] = Digits[q][j]
                            /\ k <= L => Digits[p][k] < Digits[q][k]
      BY <3>1, <2>5 DEF Before, L
    <3>3. /\ k \in 1..Len(Digits[b]) /\ k - 1 <= Len(Digits[a])
          /\ \A j \in 1..(k - 1) : Digits[a][j] = Digits[b][j]
          /\ Digits[a][k] < Digits[b][k]
      BY <1>2, <2>1, <2>5, <3>2
    <3> QED BY <1>2, <3>3 DEF Before
  <2>8. CASE p = q /\ u < v
    <3> HIDE DEF L
    <3>1. /\ L + 1 \in 1..Len(Digits[b]) /\ (L + 1) - 1 <= Len(Digits[a])
          /\ \A j \in 1..((L + 1) - 1) : Digits[a][j] = Digits[b][j]
          /\ Digits[a][L + 1] < Digits[b][L + 1]
      BY <1>2, <2>1, <2>5, <2>8
    <3> QED BY <1>2, <3>1 DEF Before
  <2> QED BY <2>6, <2>7, <2>8
<1> QED BY <1>4, <1>5, <1>6

\* NameBefore is a strict total order of the numbers, and that of numbers with
\* as many digits.
LEMMA NameOrder ==
  /\ \A a \in Nat : ~ NameBefore(a, a)
  /\ \A a, b, c \in Nat : NameBefore(a, b) /\ NameBefore(b, c) => NameBefore(a, c)
  /\ \A a, b \in Nat : a # b => NameBefore(a, b) \/ NameBefore(b, a)
  /\ \A a, b \in Nat : Len(Digits[a]) = Len(Digits[b]) /\ a < b => NameBefore(a, b)
<1>1. \A a, b : NameBefore(a, b) <=> Before(Digits[a], Digits[b])
  BY DEF NameBefore, Before
<1>2. \A a \in Nat : Digits[a] \in Seq(Nat)
  BY DigitsDef
<1>3. ASSUME NEW a \in Nat PROVE ~ Before(Digits[a], Digits[a])
  BY <1>2, BeforeIrreflexive
<1>4. ASSUME NEW a \in Nat, NEW b \in Nat, NEW c \in Nat,
             Before(Digits[a], Digits[b]), Before(Digits[b], Digits[c])
      PROVE  Before(Digits[a], Digits[c])
  BY <1>2, <1>4, BeforeTransitive
<1>5. ASSUME NEW a \in Nat, NEW b \in Nat, a # b
      PROVE  Before(Digits[a], Digits[b]) \/ Before(Digits[b], Digits[a])
  <2>1. Digits[a] # Digits[b]
    <3> SUFFICES ASSUME Digits[a] = Digits[b] PROVE FALSE
      OBVIOUS
    <3>1. a < b \/ b < a
      BY <1>5
    <3>2. Before(Digits[a], Digits[b]) \/ Before(Digits[b], Digits[a])
      BY <3>1, SameLength
    <3> QED BY <1>3, <3>2
  <2> QED BY <1>2, <2>1, BeforeTotal
<1> QED BY <1>1, <1>3, <1>4, <1>5, SameLength

\* Where an element is in the list: behind those with later names.
Rank(S, x) == Cardinality({y \in S : NameBefore(x, y)})

\* The list has every element of the set once, and the newest first among those
\* with as many digits.
LEMMA LatestFirstIs ==
  ASSUME NEW S \in SUBSET Nat, IsFiniteSet(S)
  PROVE  LET list == LatestFirst(S) IN
         /\ list \in Seq(S)
         /\ Len(list) = Cardinality(S)
         /\ ToSet(list) = S
         /\ \A j, k \in 1..Len(list) :
              (j < k /\ Len(Digits[list[j]]) = Len(Digits[list[k]])) => list[j] > list[k]
<1> DEFINE n == Cardinality(S)
           list == LatestFirst(S)
<1>1. n \in Nat
  BY FS_CardinalityType
<1>2. \A x \in S : IsFiniteSet({y \in S : NameBefore(x, y)}) /\ Rank(S, x) \in Nat
  <2> SUFFICES ASSUME NEW x \in S
               PROVE  IsFiniteSet({y \in S : NameBefore(x, y)}) /\ Rank(S, x) \in Nat
    OBVIOUS
  <2> DEFINE U == {y \in S : NameBefore(x, y)}
  <2>1. U \in SUBSET S
    OBVIOUS
  <2> HIDE DEF U
  <2>2. IsFiniteSet(U) /\ Cardinality(U) \in Nat
    BY <2>1, FS_Subset, FS_CardinalityType
  <2> QED BY <2>2 DEF U, Rank
<1>3. ASSUME NEW x \in S, NEW y \in S, NameBefore(x, y)
      PROVE  Rank(S, y) < Rank(S, x)
  <2> DEFINE U == {z \in S : NameBefore(x, z)}
             V == {z \in S : NameBefore(y, z)}
  <2>1. V \in SUBSET U
    BY <1>3, NameOrder
  <2>2. y \in U /\ y \notin V
    BY <1>3, NameOrder
  <2>3. IsFiniteSet(U) /\ Cardinality(U) \in Nat /\ Cardinality(V) \in Nat
    BY <1>2 DEF Rank
  <2> HIDE DEF U, V
  <2>4. Cardinality(V) <= Cardinality(U) /\ (Cardinality(U) = Cardinality(V) => U = V)
    BY <2>1, <2>3, FS_Subset
  <2>5. Cardinality(V) < Cardinality(U)
    BY <2>2, <2>3, <2>4
  <2> QED BY <2>5 DEF U, V, Rank
<1>4. ASSUME NEW x \in S, NEW y \in S, x # y PROVE Rank(S, x) # Rank(S, y)
  <2>1. NameBefore(x, y) \/ NameBefore(y, x)
    BY <1>4, NameOrder
  <2>2. Rank(S, x) < Rank(S, y) \/ Rank(S, y) < Rank(S, x)
    BY <1>3, <2>1
  <2>3. Rank(S, x) \in Nat /\ Rank(S, y) \in Nat
    BY <1>2
  <2> QED BY <2>2, <2>3
<1>5. \A x \in S : Rank(S, x) \in 0..(n - 1)
  <2> SUFFICES ASSUME NEW x \in S PROVE Rank(S, x) \in 0..(n - 1)
    OBVIOUS
  <2> DEFINE U == {z \in S : NameBefore(x, z)}
  <2>1. U \in SUBSET S /\ x \notin U
    BY NameOrder
  <2> HIDE DEF U
  <2>2. Cardinality(U) <= n /\ (n = Cardinality(U) => S = U)
    BY <2>1, FS_Subset
  <2>3. Cardinality(U) \in Nat
    BY <1>2 DEF Rank, U
  <2>4. Cardinality(U) \in 0..(n - 1)
    <3> HIDE DEF n
    <3> QED BY <1>1, <2>1, <2>2, <2>3
  <2> QED BY <2>4 DEF U, Rank
<1> DEFINE f == [x \in S |-> Rank(S, x)]
<1>6. f \in Injection(S, 0..(n - 1))
  BY <1>4, <1>5 DEF Injection, IsInjective
<1>7. IsFiniteSet(0..(n - 1)) /\ Cardinality(0..(n - 1)) = n
  <2> HIDE DEF n
  <2>1. 0 \in Int /\ n - 1 \in Int
    BY <1>1
  <2>2. IsFiniteSet(0..(n - 1)) /\ Cardinality(0..(n - 1)) = IF 0 > n - 1 THEN 0 ELSE (n - 1) - 0 + 1
    BY <2>1, FS_Interval
  <2> QED BY <1>1, <2>2
<1>8. f \in Surjection(S, 0..(n - 1))
  <2> HIDE DEF f
  <2> QED BY <1>6, <1>7, FS_Injection
<1>9. \A k \in 1..n : \E x \in S : Rank(S, x) = k - 1
  <2> SUFFICES ASSUME NEW k \in 1..n PROVE \E x \in S : Rank(S, x) = k - 1
    OBVIOUS
  <2>1. k - 1 \in 0..(n - 1)
    BY <1>1
  <2> QED BY <1>8, <2>1 DEF Surjection
<1>10. list = [k \in 1..n |-> CHOOSE x \in S : Rank(S, x) = k - 1]
  BY DEF LatestFirst, Rank
<1> HIDE DEF n, list, f
<1>11. \A k \in 1..n : list[k] \in S /\ Rank(S, list[k]) = k - 1
  BY <1>9, <1>10
<1>12. list \in [1..n -> S]
  BY <1>10, <1>11
<1>13. list \in Seq(S) /\ Len(list) = n /\ DOMAIN list = 1..n
  BY <1>1, <1>12
<1>14. ToSet(list) = S
  <2>1. ASSUME NEW x \in S PROVE \E k \in 1..n : list[k] = x
    <3>1. Rank(S, x) + 1 \in 1..n /\ (Rank(S, x) + 1) - 1 = Rank(S, x)
      BY <1>1, <1>2, <1>5
    <3>2. list[Rank(S, x) + 1] \in S /\ Rank(S, list[Rank(S, x) + 1]) = Rank(S, x)
      BY <1>11, <3>1
    <3>3. list[Rank(S, x) + 1] = x
      BY <1>4, <3>2
    <3> QED BY <3>1, <3>3
  <2> QED BY <1>11, <1>13, <2>1 DEF ToSet
<1>15. ASSUME NEW j \in 1..n, NEW k \in 1..n, j < k, Len(Digits[list[j]]) = Len(Digits[list[k]])
       PROVE  list[j] > list[k]
  <2> DEFINE x == list[j]
             y == list[k]
  <2>1. x \in S /\ y \in S /\ Rank(S, x) = j - 1 /\ Rank(S, y) = k - 1
    BY <1>11
  <2>2. Len(Digits[x]) = Len(Digits[y])
    BY <1>15
  <2> HIDE DEF x, y
  <2>3. ~ (Rank(S, y) < Rank(S, x)) /\ Rank(S, x) # Rank(S, y)
    BY <1>1, <1>15, <2>1
  <2>4. ~ NameBefore(x, y) /\ x # y
    BY <1>3, <2>1, <2>3
  <2>5. ~ (x < y)
    BY <2>1, <2>2, <2>4, NameOrder
  <2>6. x > y
    BY <2>1, <2>4, <2>5
  <2> QED BY <2>6 DEF x, y
<1> QED BY <1>13, <1>14, <1>15 DEF n, list

-----------------------------------------------------------------------------
(* The boot menu and the old active snapshot.                              *)

EnvDomain == DOMAIN bootEnv = {"passives", "fallback", "active"}

\* The active snapshot the running system is on is complete.
BaseWhole == (booted.id # 0 /\ booted.id = backend.activeID) => subvols[booted.id] = "whole"

\* Until there is a default subvolume there is no other snapshot than the first.
FirstOnly ==
  /\ default = 0 => Listed \in SUBSET {1}
  /\ (snapshot # 0 /\ activeSnapshotID = 0) => snapshot = 1 /\ Listed \in SUBSET {1}
  /\ pc \in {"initpartition", "remount", "ready"} => activeSnapshotID = default

\* The transaction has made another snapshot the default than the one in use.
NewDefault == Committed => default # booted.id

Passives == Listed \ {default}

\* What setBootloader has written.
MenuWritten ==
  (Committed /\ pc \in {"closeumount", "closed"} /\ "env" \notin logged) =>
    /\ bootEnv.passives = PassiveList(Passives)
    /\ bootEnv.fallback = Cardinality(Passives) + 1
    /\ bootEnv.active = default

LEMMA MenuInit == Init => EnvDomain /\ BaseWhole /\ FirstOnly /\ NewDefault /\ MenuWritten
<1> SUFFICES ASSUME Init PROVE EnvDomain /\ BaseWhole /\ FirstOnly /\ NewDefault /\ MenuWritten
  OBVIOUS
<1>1. EnvDomain
  BY DEF Init, EnvDomain
<1>2. BaseWhole
  BY DEF Init, BaseWhole, NoBackend
<1>3. FirstOnly
  BY ZeroIsNoID DEF Init, FirstOnly, Listed
<1>4. NewDefault /\ MenuWritten
  BY DEF Init, NewDefault, MenuWritten, Committed
<1> QED BY <1>1, <1>2, <1>3, <1>4

\* Only setBootloader writes the variables of the boot menu.
LEMMA EnvSteps == ASSUME [Next]_vars PROVE UNCHANGED bootEnv \/ SetBootloader
<1>1. CASE Exit \/ Reboot \/ Probe \/ InitBrfsPartition \/ RemountStatePartition
  BY <1>1 DEF Exit, Reboot, Probe, InitBrfsPartition, RemountStatePartition, disk
<1>2. CASE CreateNewSnapshot \/ MkWorkDir \/ BindMount \/ CloseTransaction \/ MirrorDataStarts \/ MirrorDataEnds
  BY <1>2 DEF CreateNewSnapshot, MkWorkDir, BindMount, CloseTransaction, MirrorDataStarts, MirrorDataEnds, disk
<1>3. CASE CloseTransactionOnError \/ CloseFails \/ CommitSnapshot \/ SnapshotsCleanup \/ CleanOldest \/ CleanDone
  BY <1>3 DEF CloseTransactionOnError, CloseFails, CommitSnapshot, SnapshotsCleanup, CleanOldest, CleanDone, disk
<1>4. CASE AbortDeletes \/ CloseDeletes \/ AbortUmounts \/ CloseUmounts
  BY <1>4 DEF AbortDeletes, CloseDeletes, DeleteSnapshot, AbortUmounts, CloseUmounts, SnapshotsUmount, disk
<1>5. CASE UNCHANGED vars
  BY <1>5 DEF vars, disk
<1> QED
  BY <1>1, <1>2, <1>3, <1>4, <1>5 DEF Next, SnapshotterStep, ClientStep

LEMMA EnvDomainNext == ASSUME EnvDomain, [Next]_vars PROVE EnvDomain'
<1>1. CASE SetBootloader
  BY <1>1 DEF SetBootloader, EnvDomain
<1>2. CASE UNCHANGED bootEnv
  BY <1>2 DEF EnvDomain
<1> QED BY <1>1, <1>2, EnvSteps

\* The backend learns of the active snapshot in Probe, and forgets it at the end.
LEMMA BackendSteps ==
  ASSUME Next
  PROVE  \/ UNCHANGED <<backend, booted>>
         \/ backend'.activeID = 0
         \/ backend'.activeID = default /\ UNCHANGED <<subvols, booted>>
<1>1. CASE Exit \/ Reboot
  BY <1>1 DEF Exit, Reboot, ProcessGone, NoBackend
<1>2. CASE Probe
  BY <1>2 DEF Probe, disk
<1>3. CASE InitBrfsPartition \/ RemountStatePartition
  BY <1>3 DEF InitBrfsPartition, RemountStatePartition, object
<1>4. CASE CreateNewSnapshot \/ MkWorkDir \/ BindMount \/ CloseTransaction \/ MirrorDataStarts \/ MirrorDataEnds
  BY <1>4 DEF CreateNewSnapshot, MkWorkDir, BindMount, CloseTransaction, MirrorDataStarts, MirrorDataEnds, object
<1>5. CASE CloseTransactionOnError \/ CloseFails \/ CommitSnapshot \/ SnapshotsCleanup \/ CleanOldest \/ CleanDone
  BY <1>5 DEF CloseTransactionOnError, CloseFails, CommitSnapshot, SnapshotsCleanup, CleanOldest, CleanDone, object
<1>6. CASE AbortDeletes \/ CloseDeletes \/ AbortUmounts \/ CloseUmounts \/ SetBootloader
  BY <1>6 DEF AbortDeletes, CloseDeletes, DeleteSnapshot, AbortUmounts, CloseUmounts, SnapshotsUmount,
              SetBootloader, object
<1> QED
  BY <1>1, <1>2, <1>3, <1>4, <1>5, <1>6 DEF Next, SnapshotterStep, ClientStep

LEMMA BaseWholeNext == ASSUME IInv, BaseWhole, Next PROVE BaseWhole'
<1> SUFFICES ASSUME booted'.id # 0, booted'.id = backend'.activeID PROVE subvols'[booted'.id] = "whole"
  BY DEF BaseWhole
<1>1. CASE UNCHANGED <<backend, booted>>
  <2>1. subvols[booted.id] = "whole"
    BY <1>1 DEF BaseWhole
  <2>2. CASE subvols' = subvols
    BY <1>1, <2>1, <2>2
  <2>3. CASE subvols' # subvols
    <3>1. PICK i : \E v \in Contents : i # booted.id /\ subvols' = [subvols EXCEPT ![i] = v]
      BY <2>3, OneSubvolume
    <3>2. booted.id \in IDs
      BY <1>1 DEF IInv, RunningBootable
    <3> QED BY <1>1, <2>1, <3>1, <3>2 DEF IInv, Typed
  <2> QED BY <2>2, <2>3
<1>2. CASE backend'.activeID = 0
  BY <1>2
<1>3. CASE backend'.activeID = default /\ UNCHANGED <<subvols, booted>>
  BY <1>3 DEF IInv, DefaultIsWhole
<1> QED BY <1>1, <1>2, <1>3, BackendSteps

\* The commit makes the transaction's own snapshot the default.
LEMMA NewDefaultNext == ASSUME ProcInv, NewDefault, [Next]_vars PROVE NewDefault'
<1> USE DEF NewDefault, Committed
<1>1. CASE Exit \/ Reboot \/ Probe \/ InitBrfsPartition \/ RemountStatePartition
  BY <1>1 DEF Exit, Reboot, ProcessGone, Probe, InitBrfsPartition, RemountStatePartition
<1>2. CASE CreateNewSnapshot \/ MkWorkDir \/ BindMount \/ CloseTransaction \/ MirrorDataStarts \/ MirrorDataEnds
  BY <1>2 DEF CreateNewSnapshot, MkWorkDir, BindMount, CloseTransaction, MirrorDataStarts, MirrorDataEnds
<1>3. CASE CloseTransactionOnError \/ CloseFails
  BY <1>3 DEF CloseTransactionOnError, CloseFails
<1>4. CASE CommitSnapshot
  BY <1>4 DEF CommitSnapshot, ProcInv, IInv, OwnSnapshot
<1>5. CASE SnapshotsCleanup \/ CleanOldest \/ CleanDone
  BY <1>5 DEF SnapshotsCleanup, CleanOldest, CleanDone, disk
<1>6. CASE AbortDeletes \/ AbortUmounts
  BY <1>6 DEF AbortDeletes, DeleteSnapshot, AbortUmounts, SnapshotsUmount
<1>7. CASE CloseDeletes
  BY <1>7 DEF CloseDeletes, DeleteSnapshot, ProcInv, Process
<1>8. CASE SetBootloader
  BY <1>8 DEF SetBootloader
<1>9. CASE CloseUmounts
  BY <1>9 DEF CloseUmounts, SnapshotsUmount, disk
<1>10. CASE UNCHANGED vars
  BY <1>10 DEF vars, disk
<1> QED
  BY <1>1, <1>2, <1>3, <1>4, <1>5, <1>6, <1>7, <1>8, <1>9, <1>10 DEF Next, SnapshotterStep, ClientStep

\* Only a transaction adds a snapshot, its own.
LEMMA ListedSteps ==
  ASSUME IInv, Next, ~CreateNewSnapshot
  PROVE  Listed' \in SUBSET (Listed \cup {snapshot})
<1> USE DEF Listed
<1>1. CASE Exit \/ Reboot \/ Probe \/ InitBrfsPartition \/ RemountStatePartition
  BY <1>1 DEF Exit, Reboot, Probe, InitBrfsPartition, RemountStatePartition, disk
<1>2. CASE BindMount \/ CloseTransactionOnError \/ CloseFails \/ CommitSnapshot \/ SnapshotsCleanup \/ CleanDone
  BY <1>2 DEF BindMount, CloseTransactionOnError, CloseFails, CommitSnapshot, SnapshotsCleanup, CleanDone, disk
<1>3. CASE MkWorkDir \/ CloseTransaction \/ MirrorDataStarts \/ MirrorDataEnds
  BY <1>3 DEF MkWorkDir, CloseTransaction, MirrorDataStarts, MirrorDataEnds, IInv, Typed
<1>4. CASE CleanOldest
  <2>1. subvols' = subvols \/ \E id : subvols' = [subvols EXCEPT ![id] = "none"]
    BY <1>4 DEF CleanOldest
  <2> QED BY <2>1 DEF IInv, Typed
<1>5. CASE AbortDeletes \/ CloseDeletes
  <2>1. subvols' = subvols \/ subvols' = [subvols EXCEPT ![snapshot] = "none"]
    BY <1>5 DEF AbortDeletes, CloseDeletes, DeleteSnapshot
  <2> QED BY <2>1 DEF IInv, Typed
<1>6. CASE AbortUmounts \/ CloseUmounts \/ SetBootloader
  BY <1>6 DEF AbortUmounts, CloseUmounts, SnapshotsUmount, SetBootloader, disk
<1> QED
  BY <1>1, <1>2, <1>3, <1>4, <1>5, <1>6 DEF Next, SnapshotterStep, ClientStep

\* What a step does to the default and to what the process knows.
LEMMA KnownSteps ==
  ASSUME ProcInv, Next, ~CreateNewSnapshot
  PROVE  /\ default' = default \/ (default' = snapshot /\ snapshot # 0)
         /\ snapshot' # 0 => snapshot' = snapshot /\ (activeSnapshotID' = 0 => activeSnapshotID = 0)
<1> USE DEF ProcInv, Process
<1>1. CASE Exit \/ Reboot
  BY <1>1 DEF Exit, Reboot, ProcessGone, disk
<1>2. CASE Probe
  BY <1>2 DEF Probe, disk
<1>3. CASE InitBrfsPartition \/ RemountStatePartition \/ CloseTransactionOnError \/ CloseFails
           \/ SnapshotsCleanup \/ CleanOldest \/ CleanDone
  BY <1>3 DEF InitBrfsPartition, RemountStatePartition, CloseTransactionOnError, CloseFails,
              SnapshotsCleanup, CleanOldest, CleanDone, disk, object
<1>4. CASE MkWorkDir \/ BindMount \/ CloseTransaction \/ MirrorDataStarts \/ MirrorDataEnds
  BY <1>4 DEF MkWorkDir, BindMount, CloseTransaction, MirrorDataStarts, MirrorDataEnds, disk, object
<1>5. CASE CommitSnapshot
  BY <1>5 DEF CommitSnapshot, object, Open, Closing
<1>6. CASE AbortUmounts \/ CloseUmounts
  BY <1>6 DEF AbortUmounts, CloseUmounts, SnapshotsUmount, disk, object
<1>7. CASE AbortDeletes \/ CloseDeletes \/ SetBootloader
  <2>1. GetSnapshotsWorks \/ GetSnapshotsFails
    BY <1>7 DEF AbortDeletes, CloseDeletes, DeleteSnapshot, SetBootloader
  <2>2. activeSnapshotID' # 0 <=> activeSnapshotID # 0
    BY <2>1, QueryKnows DEF IInv
  <2>3. UNCHANGED <<default, snapshot>>
    BY <1>7 DEF AbortDeletes, CloseDeletes, DeleteSnapshot, SetBootloader
  <2> QED BY <2>2, <2>3
<1> QED
  BY <1>1, <1>2, <1>3, <1>4, <1>5, <1>6, <1>7 DEF Next, SnapshotterStep, ClientStep

\* The way to a transaction does not change the default.
LEMMA ReadySteps ==
  ASSUME ProcInv, FirstOnly, Next, pc' \in {"initpartition", "remount", "ready"}
  PROVE  activeSnapshotID' = default'
<1> USE DEF FirstOnly
<1>1. CASE Exit \/ Reboot
  BY <1>1 DEF Exit, Reboot, ProcessGone
<1>2. CASE Probe
  BY <1>2 DEF Probe, disk
<1>3. CASE InitBrfsPartition \/ RemountStatePartition
  BY <1>3 DEF InitBrfsPartition, RemountStatePartition, disk, object
<1>4. CASE CreateNewSnapshot \/ MkWorkDir \/ BindMount \/ CloseTransaction \/ MirrorDataStarts \/ MirrorDataEnds
  BY <1>4 DEF CreateNewSnapshot, MkWorkDir, BindMount, CloseTransaction, MirrorDataStarts, MirrorDataEnds
<1>5. CASE CloseTransactionOnError \/ CloseFails \/ CommitSnapshot \/ SnapshotsCleanup \/ CleanOldest \/ CleanDone
  BY <1>5 DEF CloseTransactionOnError, CloseFails, CommitSnapshot, SnapshotsCleanup, CleanOldest, CleanDone
<1>6. CASE AbortDeletes \/ CloseDeletes \/ AbortUmounts \/ CloseUmounts \/ SetBootloader
  BY <1>6 DEF AbortDeletes, CloseDeletes, DeleteSnapshot, AbortUmounts, CloseUmounts, SnapshotsUmount,
              SetBootloader
<1> QED
  BY <1>1, <1>2, <1>3, <1>4, <1>5, <1>6 DEF Next, SnapshotterStep, ClientStep

LEMMA FirstOnlyNext == ASSUME ProcInv, ProcInv', FirstOnly, Next PROVE FirstOnly'
<1>1. default = 0 => activeSnapshotID = 0
  BY DEF ProcInv, Known
<1>2. pc' \in {"initpartition", "remount", "ready"} => activeSnapshotID' = default'
  BY ReadySteps
<1>3. CASE CreateNewSnapshot
  <2>1. /\ pc = "ready" /\ UNCHANGED <<default, activeSnapshotID>> /\ snapshot = 0
        /\ \/ UNCHANGED <<subvols, snapshot>>
           \/ /\ snapshot' = ComputeNewID
              /\ \E v : subvols' = [subvols EXCEPT ![ComputeNewID] = v]
    BY <1>3 DEF CreateNewSnapshot, ProcInv, Process
  <2>2. activeSnapshotID = default
    BY <2>1 DEF FirstOnly
  <2>3. activeSnapshotID = 0 => ComputeNewID = 1
    BY DEF ComputeNewID, ProcInv, Known
  <2>4. activeSnapshotID = 0 => Listed' \in SUBSET {1} /\ snapshot' \in {0, 1}
    BY <2>1, <2>2, <2>3 DEF FirstOnly, Listed, ProcInv, IInv, Typed
  <2> QED BY <1>2, <2>1, <2>2, <2>4 DEF FirstOnly
<1>4. CASE ~CreateNewSnapshot
  <2>1. Listed' \in SUBSET (Listed \cup {snapshot})
    BY <1>4, ListedSteps DEF ProcInv
  <2>2. /\ default' = default \/ (default' = snapshot /\ snapshot # 0)
        /\ snapshot' # 0 => snapshot' = snapshot /\ (activeSnapshotID' = 0 => activeSnapshotID = 0)
    BY <1>4, KnownSteps
  <2>3. 0 \notin Listed'
    BY ZeroIsNoID DEF Listed
  <2>4. default' = 0 => Listed' \in SUBSET {1}
    BY <1>1, <2>1, <2>2, <2>3 DEF FirstOnly
  <2>5. (snapshot' # 0 /\ activeSnapshotID' = 0) => snapshot' = 1 /\ Listed' \in SUBSET {1}
    BY <2>1, <2>2 DEF FirstOnly
  <2> QED BY <1>2, <2>4, <2>5 DEF FirstOnly
<1> QED BY <1>3, <1>4

\* The variables setBootloader writes when nothing fails.
LEMMA MenuIsWritten ==
  ASSUME ProcInv, EnvDomain, FirstOnly, SetBootloader, "env" \notin logged'
  PROVE  /\ bootEnv'.passives = PassiveList(Passives)
         /\ bootEnv'.fallback = Cardinality(Passives) + 1
         /\ bootEnv'.active = default
         /\ UNCHANGED <<subvols, default>>
<1> DEFINE queried == IF activeSnapshotID > 0 THEN Listed \ {default} ELSE {}
<1>1. default = snapshot /\ snapshot # 0 /\ snapshot \in IDs /\ activeSnapshotID \in IDs \cup {0}
  BY DEF SetBootloader, ProcInv, IInv, Typed, Process, Known, Committed, Open, Closing
<1>2. queried = Passives
  <2>1. CASE activeSnapshotID = 0
    <3>1. snapshot = 1 /\ Listed \in SUBSET {1}
      BY <1>1, <2>1 DEF FirstOnly
    <3>2. Passives = {}
      BY <1>1, <3>1 DEF Passives
    <3> QED BY <2>1, <3>2
  <2>2. CASE activeSnapshotID # 0
    <3>1. activeSnapshotID > 0
      BY <1>1, <2>2, ConstantsAssumption
    <3> QED BY <3>1 DEF Passives
  <2> QED BY <2>1, <2>2
<1> DEFINE new == [passives |-> PassiveList(queried), fallback |-> Cardinality(queried) + 1,
                   active |-> snapshot]
<1>3. bootEnv' = [v \in DOMAIN bootEnv |-> new[v]] /\ UNCHANGED <<subvols, default>>
  BY DEF SetBootloader
<1>4. /\ bootEnv'["passives"] = new.passives /\ bootEnv'["fallback"] = new.fallback
      /\ bootEnv'["active"] = new.active
  <2> HIDE DEF new
  <2> QED BY <1>3 DEF EnvDomain
<1>5. /\ new.passives = PassiveList(queried) /\ new.fallback = Cardinality(queried) + 1
      /\ new.active = snapshot
  <2> HIDE DEF queried
  <2> QED OBVIOUS
<1> HIDE DEF new, queried
<1> QED BY <1>1, <1>2, <1>3, <1>4, <1>5

\* What setBootloader has written is on the disk until the transaction ends.
LEMMA MenuSteps ==
  ASSUME ProcInv, [Next]_vars, Committed', pc' \in {"closeumount", "closed"}, "env" \notin logged'
  PROVE  \/ SetBootloader
         \/ /\ Committed /\ pc \in {"closeumount", "closed"} /\ "env" \notin logged
            /\ UNCHANGED <<bootEnv, subvols, default>>
<1> USE DEF Committed
<1>1. CASE Exit \/ Reboot \/ Probe \/ InitBrfsPartition \/ RemountStatePartition
  BY <1>1 DEF Exit, Reboot, ProcessGone, Probe, InitBrfsPartition, RemountStatePartition
<1>2. CASE CreateNewSnapshot \/ MkWorkDir \/ BindMount \/ CloseTransaction \/ MirrorDataStarts \/ MirrorDataEnds
  BY <1>2 DEF CreateNewSnapshot, MkWorkDir, BindMount, CloseTransaction, MirrorDataStarts, MirrorDataEnds
<1>3. CASE CloseTransactionOnError \/ CloseFails \/ CommitSnapshot \/ SnapshotsCleanup \/ CleanOldest \/ CleanDone
  BY <1>3 DEF CloseTransactionOnError, CloseFails, CommitSnapshot, SnapshotsCleanup, CleanOldest, CleanDone
<1>4. CASE AbortDeletes \/ AbortUmounts
  BY <1>4 DEF AbortDeletes, DeleteSnapshot, AbortUmounts, SnapshotsUmount
<1>5. CASE CloseDeletes
  BY <1>5 DEF CloseDeletes, DeleteSnapshot, ProcInv, Process
<1>6. CASE CloseUmounts
  BY <1>6 DEF CloseUmounts, SnapshotsUmount, disk
<1>7. CASE UNCHANGED vars
  BY <1>7 DEF vars, disk
<1> QED
  BY <1>1, <1>2, <1>3, <1>4, <1>5, <1>6, <1>7 DEF Next, SnapshotterStep, ClientStep

LEMMA MenuNext ==
  ASSUME ProcInv, EnvDomain, FirstOnly, MenuWritten, [Next]_vars
  PROVE  MenuWritten'
<1> SUFFICES ASSUME Committed', pc' \in {"closeumount", "closed"}, "env" \notin logged'
             PROVE  (/\ bootEnv.passives = PassiveList(Passives)
                     /\ bootEnv.fallback = Cardinality(Passives) + 1
                     /\ bootEnv.active = default)'
  BY DEF MenuWritten
<1>1. CASE SetBootloader
  <2>1. UNCHANGED <<subvols, default>>
    BY <1>1, MenuIsWritten
  <2>2. UNCHANGED Passives
    BY <2>1 DEF Passives, Listed
  <2> QED BY <1>1, <2>1, <2>2, MenuIsWritten
<1>2. CASE /\ Committed /\ pc \in {"closeumount", "closed"} /\ "env" \notin logged
           /\ UNCHANGED <<bootEnv, subvols, default>>
  <2>1. UNCHANGED Passives
    BY <1>2 DEF Passives, Listed
  <2> QED BY <1>2, <2>1 DEF MenuWritten
<1> QED BY <1>1, <1>2, MenuSteps

MenuInv == EnvDomain /\ BaseWhole /\ FirstOnly /\ NewDefault /\ MenuWritten

LEMMA MenuInvariance == Spec => [](ProcInv /\ IsFiniteSet(Listed) /\ MenuInv)
<1>1. Init => MenuInv
  BY MenuInit DEF MenuInv
<1>2. ProcInv /\ ProcInv' /\ MenuInv /\ [Next]_vars => MenuInv'
  <2> SUFFICES ASSUME ProcInv, ProcInv', MenuInv, [Next]_vars PROVE MenuInv'
    OBVIOUS
  <2>1. EnvDomain' /\ NewDefault' /\ MenuWritten'
    BY EnvDomainNext, NewDefaultNext, MenuNext DEF MenuInv
  <2>2. CASE Next
    BY <2>1, <2>2, BaseWholeNext, FirstOnlyNext DEF MenuInv, ProcInv
  <2>3. CASE UNCHANGED vars
    <3>1. BaseWhole'
      BY <2>3 DEF MenuInv, BaseWhole, vars, disk, object
    <3>2. FirstOnly'
      BY <2>3 DEF MenuInv, FirstOnly, Listed, vars, disk, object
    <3> QED BY <2>1, <3>1, <3>2 DEF MenuInv
  <2> QED BY <2>2, <2>3
<1> QED BY <1>1, <1>2, RetainedInvariance, PTL DEF Spec

\* The list of the passive snapshots.
LEMMA PassiveListIs ==
  ASSUME IsFiniteSet(Listed)
  PROVE  LET list == PassiveList(Passives) IN
         /\ Len(list) = Cardinality(Passives)
         /\ ToSet(list) = Passives
         /\ \A j, k \in 1..Len(list) :
              (j < k /\ Len(Digits[list[j]]) = Len(Digits[list[k]])) => list[j] > list[k]
<1>1. Passives \in SUBSET Listed
  BY DEF Passives
<1>2. Passives \in SUBSET Nat /\ IsFiniteSet(Passives)
  BY <1>1, FS_Subset, ConstantsAssumption DEF Listed
<1> QED
  BY <1>2, LatestFirstIs DEF PassiveList

\* A transaction closed without an error of setBootloader leaves a boot menu
\* with every snapshot but the default one, once, the newest first among IDs with
\* as many digits, and a fallback list that ends at recovery.
THEOREM BootMenuIsDisk == Spec => []BootMenuMatchesDisk
<1>1. IsFiniteSet(Listed) /\ MenuInv => BootMenuMatchesDisk
  <2> SUFFICES ASSUME IsFiniteSet(Listed), MenuInv, pc = "closed", "env" \notin logged
               PROVE  LET list == bootEnv.passives IN
                      /\ ToSet(list) = Passives
                      /\ bootEnv.fallback = Len(list) + 1
                      /\ bootEnv.active = default
                      /\ \A j, k \in 1..Len(list) :
                           (j < k /\ Len(Digits[list[j]]) = Len(Digits[list[k]])) => list[j] > list[k]
    BY DEF BootMenuMatchesDisk, Passives
  <2>1. /\ bootEnv.passives = PassiveList(Passives)
        /\ bootEnv.fallback = Cardinality(Passives) + 1
        /\ bootEnv.active = default
    BY DEF MenuInv, MenuWritten, Committed
  <2> QED BY <2>1, PassiveListIs
<1> QED BY <1>1, MenuInvariance, PTL

\* A transaction run from the active system and closed makes its snapshot the
\* default and leaves that system as a complete passive one the boot menu lists.
THEOREM OldActiveStaysPassive == Spec => []OldActiveIsPassive
<1>1. ProcInv /\ IsFiniteSet(Listed) /\ MenuInv => OldActiveIsPassive
  <2> SUFFICES ASSUME ProcInv, IsFiniteSet(Listed), MenuInv, pc = "closed", booted.id # 0,
                      booted.id = backend.activeID
               PROVE  /\ default = snapshot
                      /\ subvols[booted.id] = "whole"
                      /\ "env" \notin logged => booted.id \in ToSet(bootEnv.passives)
    BY DEF OldActiveIsPassive
  <2>1. default = snapshot /\ default # booted.id
    BY DEF ProcInv, Known, MenuInv, NewDefault, Committed
  <2>2. subvols[booted.id] = "whole" /\ booted.id \in IDs
    BY DEF MenuInv, BaseWhole, ProcInv, IInv, RunningBootable
  <2>3. booted.id \in Passives
    BY <2>1, <2>2 DEF Passives, Listed
  <2>4. "env" \notin logged => bootEnv.passives = PassiveList(Passives)
    BY DEF MenuInv, MenuWritten, Committed
  <2>5. ToSet(PassiveList(Passives)) = Passives
    BY PassiveListIs
  <2> QED BY <2>1, <2>2, <2>3, <2>4, <2>5
<1> QED BY <1>1, MenuInvariance, PTL

=============================================================================

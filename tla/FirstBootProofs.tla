-------------------------- MODULE FirstBootProofs --------------------------
(***************************************************************************)
(* Proofs about the disk builder and the machines its images boot, for any *)
(* set of specs, sizes and builds: what ChrootedCallback puts back, that   *)
(* the clean up of a build never deletes files of the host, that a build   *)
(* without an error has made the disk of its spec, that the stages of the  *)
(* boots keep what is on the disk, and that without a fault they and the   *)
(* installer give it the layout of the configuration.                      *)
(***************************************************************************)
EXTENDS FirstBoot, SequenceTheorems, WellFoundedInduction, TLAPS

-----------------------------------------------------------------------------
(***************************************************************************)
(* The chroot hook                                                         *)
(*                                                                         *)
(* Neither property is inductive.  The strengthening says what is mounted  *)
(* below the tree at each step of a call: the list the code keeps, and     *)
(* nothing once Close is over, as long as no umount has failed.            *)
(***************************************************************************)
MountNames == {"dev", "pts", "proc", "sys"}

\* The steps between the first mount and the end of Close.
InBracket == {"prepare", "callback", "leave", "close"}

ChrootTyped ==
  /\ activeMounts \in Seq(MountNames)
  /\ failures \in Seq(MountNames)
  /\ root \in {"host", "tree"}
  /\ busy \in BOOLEAN
  /\ mounted \in BOOLEAN
  /\ hostLost \in BOOLEAN

\* A call is only under way during the chroot hook.
InHook == chpc # "idle" => bpc = "chroot"

\* The list of the code is what is mounted.
ListIsMounts ==
  ~busy => /\ chpc \in InBracket => bound = activeMounts
           /\ chpc \notin InBracket => bound = <<>>
           /\ chpc \in InBracket \cup {"start"} => failures = <<>>
           /\ chpc = "start" => activeMounts = <<>>

\* Close has reported what it could not unmount.
CloseReported == (chpc \in {"chdir", "returned"} /\ cherr = "nil") => activeMounts = <<>>

IInv ==
  /\ ChrootTyped
  /\ InHook
  /\ ListIsMounts
  /\ CloseReported
  /\ ChrootClean
  /\ HostKept

\* The variables IInv is about.
observed == <<chVars, bpc, mounted, hostLost>>

\* The state before the first build.
LEMMA IInvInit == Init => IInv
<1> SUFFICES ASSUME BuildInit PROVE IInv
  BY DEF Init
<1>1. /\ chpc = "idle" /\ activeMounts = <<>> /\ failures = <<>> /\ bound = <<>>
      /\ root = "host" /\ busy = FALSE /\ mounted = FALSE /\ hostLost = FALSE
  BY Zenon DEF BuildInit, ChrootInit
<1>2. ChrootTyped
  <2>1. <<>> \in Seq(MountNames)
    OBVIOUS
  <2> QED
    BY <1>1, <2>1, Zenon DEF ChrootTyped
<1>3. InHook /\ CloseReported /\ ChrootClean /\ HostKept
  BY <1>1 DEF InHook, CloseReported, ChrootClean, HostKept
<1>4. ListIsMounts
  BY <1>1 DEF ListIsMounts, InBracket
<1> QED
  BY <1>2, <1>3, <1>4 DEF IInv

\* A step that changes none of those variables.
LEMMA IInvStutter == IInv /\ UNCHANGED observed => IInv'
<1> SUFFICES ASSUME IInv, UNCHANGED observed PROVE IInv'
  OBVIOUS
<1> USE DEF observed, chVars, IInv
<1>1. ChrootTyped'
  BY DEF ChrootTyped
<1>2. InHook' /\ CloseReported' /\ HostKept'
  BY DEF InHook, CloseReported, HostKept
<1>3. ListIsMounts'
  BY DEF ListIsMounts, InBracket
<1>4. ChrootClean'
  BY DEF ChrootClean
<1> QED
  BY <1>1, <1>2, <1>3, <1>4

\* What Close does to its list.
LEMMA RemoveLast ==
  ASSUME NEW S, NEW s \in Seq(S), s # <<>>
  PROVE  RemoveAt(s, Len(s)) \in Seq(S)
<1>1. Len(s) \in Nat /\ Len(s) > 0
  OBVIOUS
<1>2. SubSeq(s, 1, Len(s) - 1) \in Seq(S)
  BY <1>1
<1>3. SubSeq(s, Len(s) + 1, Len(s)) \in Seq(S)
  BY <1>1
<1> QED
  BY <1>2, <1>3 DEF RemoveAt

\* As long as the list is what is mounted, its last mount is the last one at its
\* place and nothing is mounted inside it: only a cause outside can keep it.
LEMMA LastCanGo ==
  ASSUME bound \in Seq(MountNames), bound # <<>>, root = "host"
  PROVE  /\ LastAt(bound[Len(bound)]) = Len(bound)
         /\ CanUnmount(bound[Len(bound)])
<1> DEFINE last == bound[Len(bound)]
<1>1. Len(bound) \in DOMAIN bound /\ \A i \in DOMAIN bound : i \in Nat /\ i <= Len(bound)
  OBVIOUS
<1>2. Len(bound) \in MountsAt(last) /\ MountsAt(last) \subseteq DOMAIN bound
  BY <1>1 DEF MountsAt
<1>3. \A j \in MountsAt(last) : j <= Len(bound)
  BY <1>1, <1>2
<1>4. LastAt(last) \in MountsAt(last) /\ \A j \in MountsAt(last) : j <= LastAt(last)
  BY <1>2, <1>3 DEF LastAt
<1>5. LastAt(last) = Len(bound)
  BY <1>1, <1>2, <1>4
<1>6. CanUnmount(last)
  BY <1>1, <1>2, <1>5 DEF CanUnmount
<1> QED
  BY <1>5, <1>6

\* The steps of a call keep the invariant.
LEMMA ChrootStep == IInv /\ ChrootNext /\ UNCHANGED <<bpc, mounted, hostLost>> => IInv'
<1> SUFFICES ASSUME IInv, ChrootNext, UNCHANGED <<bpc, mounted, hostLost>> PROVE IInv'
  OBVIOUS
<1> USE DEF IInv, InHook, ListIsMounts, CloseReported, ChrootClean, HostKept, InBracket, Error
<1>1. CASE RunCallbackStarts
  <2>1. ChrootTyped'
    BY <1>1 DEF RunCallbackStarts, ChrootTyped
  <2>2. chpc = "start" /\ UNCHANGED <<activeMounts, failures, bound, busy>>
    BY <1>1 DEF RunCallbackStarts
  <2>3. chpc' = "prepare" \/ (chpc' = "chdir" /\ cherr' = "error")
    BY <1>1 DEF RunCallbackStarts
  <2>4. ~busy => activeMounts = <<>>
    BY <2>2
  <2> QED
    BY <2>1, <2>2, <2>3, <2>4
<1>2. CASE PrepareMount
  <2>1. DefaultMounts[Len(activeMounts) + 1] \in MountNames
    BY <1>2 DEF PrepareMount, DefaultMounts, MountNames, ChrootTyped
  <2>2. ChrootTyped'
    <3> HIDE DEF IInv, InHook, ListIsMounts, CloseReported, ChrootClean, HostKept, InBracket
    <3>1. ChrootTyped
      BY DEF IInv
    <3>2. \/ activeMounts' = activeMounts
          \/ activeMounts' = Append(activeMounts, DefaultMounts[Len(activeMounts) + 1])
      BY <1>2 DEF PrepareMount
    <3>3. activeMounts' \in Seq(MountNames)
      <4>1. activeMounts \in Seq(MountNames)
        BY <3>1 DEF ChrootTyped
      <4> HIDE DEF MountNames
      <4> QED
        BY <2>1, <3>2, <4>1
    <3>4. UNCHANGED <<failures, root, busy, mounted, hostLost>>
      BY <1>2 DEF PrepareMount
    <3> QED
      BY <3>1, <3>3, <3>4 DEF ChrootTyped
  <2>3. chpc = "prepare" /\ chpc' \in {"prepare", "close"} /\ UNCHANGED <<failures, busy>>
    BY <1>2 DEF PrepareMount, PrepareFails
  <2>4. bound = activeMounts => bound' = activeMounts'
    BY <1>2 DEF PrepareMount
  <2>5. QED
    BY <2>2, <2>3, <2>4
<1>3. CASE EnterChroot
  BY <1>3 DEF EnterChroot, ChrootTyped
<1>4. CASE Callback
  BY <1>4 DEF Callback, ChrootTyped
<1>5. CASE LeaveChroot
  BY <1>5 DEF LeaveChroot, ChrootTyped
<1>6. CASE CloseUnmount
  <2> DEFINE curr == activeMounts[NextUnmount]
  <2>0. activeMounts \in Seq(MountNames) /\ activeMounts # <<>> /\ NextUnmount = Len(activeMounts)
    BY <1>6 DEF CloseUnmount, NextUnmount, ChrootTyped
  <2>1. curr \in MountNames /\ RemoveAt(activeMounts, NextUnmount) \in Seq(MountNames)
    BY <2>0, RemoveLast
  <2>2. ASSUME ~busy
        PROVE  /\ bound = activeMounts
               /\ root = "host" => LastAt(curr) = Len(bound) /\ CanUnmount(curr)
    BY <1>6, <2>0, <2>2, LastCanGo DEF CloseUnmount
  <2>3. CASE /\ CanUnmount(curr)
             /\ bound' = RemoveAt(bound, LastAt(curr))
             /\ UNCHANGED <<failures, busy>>
    <3>1. root = "host"
      BY <2>3 DEF CanUnmount
    <3>2. ~busy => bound' = activeMounts'
      BY <1>6, <2>0, <2>2, <2>3, <3>1 DEF CloseUnmount
    <3>3. ChrootTyped'
      BY <1>6, <2>1, <2>3 DEF CloseUnmount, ChrootTyped
    <3> QED
      BY <1>6, <2>3, <3>2, <3>3 DEF CloseUnmount
  <2>4. CASE /\ failures' = Append(failures, curr)
             /\ busy' = (busy \/ CanUnmount(curr) \/ root = "tree")
             /\ UNCHANGED bound
    <3>1. root = "host" \/ root = "tree"
      BY DEF ChrootTyped
    <3>2. busy'
      BY <2>2, <2>4, <3>1
    <3>3. busy' \in BOOLEAN
      BY <2>4, Zenon
    <3>4. ChrootTyped'
      BY <1>6, <2>1, <2>4, <3>3 DEF CloseUnmount, ChrootTyped
    <3> QED
      BY <1>6, <3>2, <3>4 DEF CloseUnmount
  <2> QED
    BY <1>6, <2>3, <2>4 DEF CloseUnmount
<1>7. CASE CloseEnds
  BY <1>7 DEF CloseEnds, CloseResult, ChrootTyped
<1>8. CASE RestoreDir
  BY <1>8 DEF RestoreDir, ChrootTyped
<1> QED
  BY <1>1, <1>2, <1>3, <1>4, <1>5, <1>6, <1>7, <1>8 DEF ChrootNext

\* The steps of a build keep the invariant.  All but the call itself happen while
\* no call is under way.
LEMMA BuildStep == IInv /\ BuildNext => IInv'
<1> SUFFICES ASSUME IInv, BuildNext PROVE IInv'
  OBVIOUS
<1> USE DEF host, work, others, chVars
<1>a. \A step : Done(step) \/ Fail(step) \/ FailMounted(step) => bpc = step
  BY DEF Done, Fail, FailMounted
\* A step outside the call that leaves the mounts alone.
<1>b. ASSUME chpc = "idle", UNCHANGED <<chVars, mounted, hostLost>>
      PROVE  IInv'
  <2>1. InHook'
    BY <1>b DEF InHook
  <2>2. ChrootTyped' /\ HostKept'
    BY <1>b DEF IInv, ChrootTyped, HostKept
  <2>3. ListIsMounts' /\ CloseReported' /\ ChrootClean'
    BY <1>b DEF IInv, ListIsMounts, CloseReported, ChrootClean, InBracket
  <2> QED
    BY <2>1, <2>2, <2>3 DEF IInv
<1>c. bpc # "chroot" => chpc = "idle"
  BY DEF IInv, InHook
<1>1. ASSUME NEW s \in DiskSpecs, BuildDiskRun(s)
      PROVE  IInv'
  <2>1. chpc = "idle" /\ root' = "host" /\ UNCHANGED <<chpc, activeMounts, failures, cherr, bound, busy, mounted, hostLost>>
    BY <1>1, <1>c DEF BuildDiskRun
  <2>2. ChrootTyped' /\ HostKept' /\ InHook'
    BY <2>1 DEF IInv, ChrootTyped, HostKept, InHook
  <2>3. ListIsMounts' /\ CloseReported' /\ ChrootClean'
    BY <2>1 DEF IInv, ListIsMounts, CloseReported, ChrootClean, InBracket
  <2> QED
    BY <2>2, <2>3 DEF IInv
<1>2. ASSUME NEW step \in {"mkdir", "hook", "posthook"}, PlainStep(step)
      PROVE  IInv'
  BY <1>2, <1>a, <1>b, <1>c DEF PlainStep
<1>3. CASE PreparePartitionsRoot
  BY <1>3, <1>a, <1>b, <1>c DEF PreparePartitionsRoot
<1>4. ASSUME NEW step \in DOMAIN Writes, Write(step)
      PROVE  IInv'
  <2>1. step # "chroot"
    BY <1>4 DEF Writes
  <2> QED
    BY <1>4, <2>1, <1>a, <1>b, <1>c DEF Write
<1>5. CASE ChrootHook
  <2>1. /\ chpc = "idle" /\ chpc' = "start" /\ bpc = "chroot" /\ activeMounts' = <<>> /\ failures' = <<>>
        /\ UNCHANGED <<root, bound, busy, bpc, mounted, hostLost>>
    BY <1>5 DEF ChrootHook, ChrootedCallback
  <2>2. ChrootTyped' /\ HostKept' /\ InHook'
    BY <2>1 DEF IInv, ChrootTyped, HostKept, InHook
  <2>3. ListIsMounts' /\ CloseReported' /\ ChrootClean'
    BY <2>1 DEF IInv, ListIsMounts, CloseReported, ChrootClean, InBracket
  <2> QED
    BY <2>2, <2>3 DEF IInv
<1>6. CASE ChrootNext /\ UNCHANGED <<spec, bpc, builds, berr, work, source, host, out>>
  BY <1>6, ChrootStep
<1>7. CASE ChrootHookReturns
  <2>1. /\ chpc = "returned" /\ chpc' = "idle"
        /\ UNCHANGED <<activeMounts, failures, root, bound, busy, mounted, hostLost>>
    BY <1>7 DEF ChrootHookReturns
  <2>2. ChrootTyped' /\ HostKept' /\ InHook'
    BY <2>1 DEF IInv, ChrootTyped, HostKept, InHook
  <2>3. ListIsMounts' /\ CloseReported' /\ ChrootClean'
    BY <2>1 DEF IInv, ListIsMounts, CloseReported, ChrootClean, InBracket
  <2> QED
    BY <2>2, <2>3 DEF IInv
<1>8. ASSUME NEW step \in {"link1", "link2"}, CreateHookSymlink(step)
      PROVE  IInv'
  BY <1>8, <1>a, <1>b, <1>c DEF CreateHookSymlink
<1>9. CASE BuildAfterDiskHook
  BY <1>9, <1>a, <1>b, <1>c DEF BuildAfterDiskHook
<1>10. CASE CreateStateImage
  <2>1. chpc = "idle" /\ UNCHANGED <<chVars, hostLost>>
    BY <1>10, <1>a, <1>c DEF CreateStateImage
  <2>2. mounted' \in BOOLEAN
    BY <1>10, Zenon DEF CreateStateImage, IInv, ChrootTyped
  <2>3. ChrootTyped' /\ HostKept' /\ InHook'
    BY <2>1, <2>2 DEF IInv, ChrootTyped, HostKept, InHook
  <2>4. ListIsMounts' /\ CloseReported' /\ ChrootClean'
    BY <2>1 DEF IInv, ListIsMounts, CloseReported, ChrootClean, InBracket
  <2> QED
    BY <2>3, <2>4 DEF IInv
<1>11. CASE SnapshotTransaction
  BY <1>11, <1>a, <1>b, <1>c DEF SnapshotTransaction
<1>12. CASE StateYaml
  BY <1>12, <1>a, <1>b, <1>c DEF StateYaml
<1>13. CASE UnmountStateImage
  <2>1. chpc = "idle" /\ UNCHANGED <<chpc, activeMounts, failures, cherr, root, cwd, bound, hostLost>>
    BY <1>13, <1>c DEF UnmountStateImage
  <2>2. mounted' \in BOOLEAN
    BY <1>13, Zenon DEF UnmountStateImage, IInv, ChrootTyped
  <2>3. busy' \in BOOLEAN /\ (busy => busy')
    BY <1>13, Zenon DEF UnmountStateImage
  <2>4. ChrootTyped' /\ HostKept' /\ InHook'
    BY <2>1, <2>2, <2>3 DEF IInv, ChrootTyped, HostKept, InHook
  <2>5. ListIsMounts' /\ CloseReported' /\ ChrootClean'
    BY <2>1, <2>3 DEF IInv, ListIsMounts, CloseReported, ChrootClean, InBracket
  <2> QED
    BY <2>4, <2>5 DEF IInv
<1>14. CASE RecoveryYaml
  BY <1>14, <1>a, <1>b, <1>c DEF RecoveryYaml
<1>15. ASSUME NEW step \in DOMAIN ImageOf, CreatePartitionImage(step)
       PROVE  IInv'
  <2>1. step # "chroot"
    BY <1>15 DEF ImageOf
  <2> QED
    BY <1>15, <2>1, <1>a, <1>b, <1>c DEF CreatePartitionImage
<1>16. CASE AddStateImage
  BY <1>16, <1>a, <1>b, <1>c DEF AddStateImage
<1>17. CASE RemoveOld
  BY <1>17, <1>a, <1>b, <1>c DEF RemoveOld
<1>18. CASE CreateDiskImage
  BY <1>18, <1>a, <1>b, <1>c DEF CreateDiskImage
<1>19. CASE CreateDiskPartitionTable
  BY <1>19, <1>a, <1>b, <1>c DEF CreateDiskPartitionTable
<1>20. CASE Convert
  BY <1>20, <1>a, <1>b, <1>c DEF Convert
<1>21. CASE Cleanup
  <2>1. chpc = "idle" /\ UNCHANGED <<chVars, mounted>>
    BY <1>21, <1>c DEF Cleanup
  <2>2. hostLost' \in BOOLEAN
    BY <1>21, Zenon DEF Cleanup
  <2>3. hostLost' => hostLost \/ bound # <<>>
    BY <1>21, Zenon DEF Cleanup
  <2>4. bound # <<>> => busy
    BY <2>1 DEF IInv, ListIsMounts, InBracket
  <2>5. ChrootTyped' /\ HostKept' /\ InHook'
    BY <2>1, <2>2, <2>3, <2>4 DEF IInv, ChrootTyped, HostKept, InHook
  <2>6. ListIsMounts' /\ CloseReported' /\ ChrootClean'
    BY <2>1 DEF IInv, ListIsMounts, CloseReported, ChrootClean, InBracket
  <2> QED
    BY <2>5, <2>6 DEF IInv
<1> QED
  BY <1>1, <1>2, <1>3, <1>4, <1>5, <1>6, <1>7, <1>8, <1>9, <1>10, <1>11, <1>12, <1>13, <1>14,
     <1>15, <1>16, <1>17, <1>18, <1>19, <1>20, <1>21 DEF BuildNext

\* Every step keeps the invariant: the machine has nothing to do with it.
LEMMA IInvNext == IInv /\ [Next]_vars => IInv'
<1> SUFFICES ASSUME IInv, [Next]_vars PROVE IInv'
  OBVIOUS
<1>1. CASE BuildNext
  BY <1>1, BuildStep
<1>2. ASSUME NEW sectors \in DiskSizes, Flash(sectors)
      PROVE  IInv'
  <2>1. /\ chpc = "idle" /\ failures' = <<>> /\ hostLost' = FALSE
        /\ UNCHANGED <<chpc, activeMounts, root, cwd, bound, busy, mounted>>
    BY <1>2 DEF Flash, BuildDone, IInv, InHook
  <2>2. hostLost' \in BOOLEAN
    BY <2>1, Zenon
  <2>3. ChrootTyped' /\ HostKept' /\ InHook'
    BY <2>1, <2>2 DEF IInv, ChrootTyped, HostKept, InHook
  <2>4. ListIsMounts' /\ CloseReported' /\ ChrootClean'
    BY <2>1 DEF IInv, ListIsMounts, CloseReported, ChrootClean, InBracket
  <2> QED
    BY <2>3, <2>4 DEF IInv
<1>3. CASE UNCHANGED buildVars
  <2>1. UNCHANGED observed
    BY <1>3 DEF buildVars, observed
  <2> QED
    BY <2>1, IInvStutter
<1>4. ASSUME NEW sectors \in DiskSizes, NEW efi \in BOOLEAN, NewPartitionTable(sectors, efi)
      PROVE  IInv'
  BY <1>4, <1>3 DEF NewPartitionTable, builder
<1>5. CASE CreatePartition \/ UserWrite \/ PowerCut
  BY <1>5, <1>3 DEF CreatePartition, UserWrite, PowerCut, builder
<1>6. CASE MachineNext
  BY <1>6, <1>3 DEF MachineNext, Boot, Layout, Deploy, PowerOff, builder
<1>7. CASE Stopped \/ UNCHANGED vars
  BY <1>7, <1>3 DEF Stopped, vars
<1> QED
  BY <1>1, <1>2, <1>4, <1>5, <1>6, <1>7 DEF Next

\* A call of ChrootedCallback that reports success has put back root, directory
\* and mounts, whatever its deferred functions met with.
THEOREM ChrootPutsBack == Spec => []ChrootClean
<1>1. IInv => ChrootClean
  BY DEF IInv
<1> QED
  BY <1>1, IInvInit, IInvNext, PTL DEF Spec

\* The RemoveAll at the end of a build never reaches the host through mounts the
\* hook has left, unless an umount failed for reasons of its own.
THEOREM HostNeverDeleted == Spec => []HostKept
<1>1. IInv => HostKept
  BY DEF IInv
<1> QED
  BY <1>1, IInvInit, IInvNext, PTL DEF Spec

-----------------------------------------------------------------------------
(***************************************************************************)
(* The disk a build makes                                                  *)
(*                                                                         *)
(* ImageComplete speaks of the end of a build; BuildInv of every step of it. *)
(* A step is Passed when the build is behind it and did not skip it, and   *)
(* Progress says what the passed steps have left in the roots, the images  *)
(* and the file, as long as there is no error and no umount has failed.    *)
(***************************************************************************)

\* The names of the steps of a build.
StepNames == {Steps[i] : i \in DOMAIN Steps}

\* How far a build is, and which of its steps it has behind it.
At == IF bpc \in StepNames THEN Position(bpc) ELSE 32
Passed(step) == Position(step) < At /\ step \notin Skipped(spec)

\* The partitions of the configuration.
NameAt == <<"boot", "oem", "recovery", "state", "persistent">>
Count(s) == IF s.expandable THEN 3 ELSE 5
RootNames(s) == {NameAt[i] : i \in 1..Count(s)}
Grown(size) == IF size = 0 THEN MinPartSize ELSE size
\* The images and the file a build of a spec makes.
SizeOf(s, name) ==
  IF PartSize[name] = 0 \/ (name = "recovery" /\ s.expandable) THEN TreeSize[name] + ImgOverhead ELSE PartSize[name]
RecoverySize == TreeSize["recovery"] + ImgOverhead
WantImage(s, i) == [name |-> NameAt[i], size |-> SizeOf(s, NameAt[i]), holds |-> Expected(s, NameAt[i])]
WantImages(s, k) == [i \in 1..k |-> WantImage(s, i)]

ExtraOf(s) == IF s.size > 0 THEN s.size - MinDiskSize ELSE 1
RawOf(s)   == 1 + Total(Sizes(WantImages(s, Count(s)))) + ExtraOf(s)

LaidOf(s) ==
  LET parts    == Built(s)
      sizes    == [i \in DOMAIN parts |-> IF parts[i].name = "recovery" /\ s.expandable THEN 0 ELSE MiBToSectors(parts[i].size)]
      start(i) == AlignedStart + Totals(sizes)[i - 1]
      size(i)  == IF sizes[i] = 0 THEN LastUsable(MiBToSectors(RawOf(s))) - start(i) + 1 ELSE sizes[i]
  IN [i \in DOMAIN parts |-> [name |-> parts[i].name, start |-> start(i), size |-> size(i)]]

FileOf(s, build, whole, parts, sectors) ==
  [build |-> build, whole |-> whole, parts |-> parts, images |-> WantImages(s, Count(s)), sectors |-> sectors]

\* What the steps so far have put in each root.
From(step, thing) == IF Passed(step) THEN {thing} ELSE {}
YamlFrom(step) == From(step, "state.yaml") \cup From(step, "recovery source")
                    \cup (IF spec.expandable THEN {} ELSE From(step, "snapshot entry"))
BootRoot == From("grubconfig", "grub.cfg") \cup From("grublabels", "labels") \cup From("efi", "efi")
              \cup From("rebrand", "entry") \cup From("transaction", "snapshots")
OemRoot      == From("cloudinit", "cloud-init") \cup From("firstentry", "next_entry") \cup From("expandstage", "stages")
RecoveryRoot == From("recovery", "system") \cup YamlFrom("recoveryyaml")
StateRoot    == From("transaction", "snapshot") \cup YamlFrom("stateyaml")

RootsNow ==
  Passed("roots") =>
    /\ roots = [p \in RootNames(spec) |-> roots[p]]
    /\ roots["boot"] = BootRoot
    /\ ~Passed("oemimage") => roots["oem"] = OemRoot
    /\ ~Passed("recoveryimage") => roots["recovery"] = RecoveryRoot
    /\ ~spec.expandable => roots["state"] = StateRoot /\ roots["persistent"] = {}

Made == IF Passed("persistentimage") THEN 5
        ELSE IF Passed("stateadd") THEN 4
        ELSE IF Passed("recoveryimage") THEN 3
        ELSE IF Passed("oemimage") THEN 2
        ELSE IF Passed("efiimage") THEN 1 ELSE 0
ImagesNow == images = WantImages(spec, Made)

Room(s) == s.size > 0 => s.size > MinDiskSize

FileNow ==
  /\ Passed("assemble") => Room(spec)
  /\ Passed("assemble") /\ ~Passed("table") => out["raw"] = FileOf(spec, builds, FALSE, <<>>, MiBToSectors(RawOf(spec)))
  /\ Passed("table") /\ ~Passed("convert") => out["raw"] = FileOf(spec, builds, TRUE, LaidOf(spec), MiBToSectors(RawOf(spec)))
  /\ Passed("convert") =>
       \E sectors \in Nat : /\ sectors >= MiBToSectors(RawOf(spec)) - 1
                            /\ spec.type # "gce" => sectors <= MiBToSectors(RawOf(spec))
                            /\ out[spec.type] = FileOf(spec, builds, TRUE, LaidOf(spec), sectors)

Progress ==
  /\ RootsNow
  /\ snapshot <=> Passed("transaction")
  /\ source = "spec"
  /\ ImagesNow
  /\ FileNow

BuildInv ==
  /\ builds \in Nat
  /\ bpc \in (StepNames \ Skipped(spec)) \cup {"idle", "left"}
  /\ bpc \in StepNames => builds > 0
  /\ builds > 0 => spec \in DiskSpecs /\ Sanitized(spec) /\ bpc # "left"
  /\ mounted => busy \/ bpc \in {"transaction", "stateyaml", "unmount"}
  /\ out = [t \in Types |-> out[t]]
  /\ (berr = "nil" /\ ~busy /\ builds > 0) => Progress

-----------------------------------------------------------------------------
(***************************************************************************)
(* Sums, orders and sizes                                                  *)
(*                                                                         *)
(* The provers have no induction over data: a recursive function is shown  *)
(* to be what it is by its least counterexample (LeastNat).                *)
(***************************************************************************)

\* A nonempty set of natural numbers has a least element.
LEMMA LeastNat ==
  ASSUME NEW T \in SUBSET Nat, T # {}
  PROVE  \E m \in T : \A y \in T : m <= y
<1>1. PICK m \in T : \A y \in T : ~ (<<y, m>> \in OpToRel(<, Nat))
  BY NatLessThanWellFounded, WFMin
<1>2. ASSUME NEW y \in T PROVE m <= y
  <2>1. y < m => <<y, m>> \in OpToRel(<, Nat)
    BY DEF OpToRel
  <2>2. ~ (y < m)
    BY <1>1, <2>1, Zenon
  <2> QED BY <2>2
<1> QED BY <1>2

\* Sums of the first numbers, up to the n-th.
Summing(s, f, n) == f = [i \in 0..n |-> IF i = 0 THEN 0 ELSE f[i - 1] + s[i]]

\* There is such a function.
LEMMA SummingExists ==
  ASSUME NEW s \in Seq(Nat)
  PROVE  \A n \in 0..Len(s) : \E f \in [0..n -> Nat] : Summing(s, f, n)
<1> DEFINE T == {n \in 0..Len(s) : ~ \E f \in [0..n -> Nat] : Summing(s, f, n)}
<1> SUFFICES ASSUME T # {} PROVE FALSE
  OBVIOUS
<1>0. T \in SUBSET Nat /\ \A n \in 0..Len(s) : n \in Nat
  OBVIOUS
<1>1. PICK n \in T : \A y \in T : n <= y
  <2> HIDE DEF T
  <2> QED BY <1>0, LeastNat
<1>2. n \in 0..Len(s) /\ ~ \E f \in [0..n -> Nat] : Summing(s, f, n)
  OBVIOUS
<1>3. CASE n = 0
  <2> DEFINE f == [i \in 0..0 |-> 0]
  <2>1. f \in [0..n -> Nat] /\ Summing(s, f, n)
    BY <1>3 DEF Summing
  <2> QED BY <1>2, <2>1
<1>4. CASE n # 0
  <2>1. n - 1 \in 0..Len(s) /\ ~ (n <= n - 1)
    BY <1>2, <1>4
  <2>2. PICK g \in [0..(n - 1) -> Nat] : Summing(s, g, n - 1)
    BY <1>1, <2>1
  <2> HIDE DEF T
  <2> DEFINE f == [i \in 0..n |-> IF i = n THEN g[n - 1] + s[n] ELSE g[i]]
  <2>3. f \in [0..n -> Nat]
    BY <1>2, <1>4
  <2>4. ASSUME NEW i \in 0..n PROVE f[i] = IF i = 0 THEN 0 ELSE f[i - 1] + s[i]
    <3>1. CASE i = n
      BY <1>2, <1>4, <3>1
    <3>2. CASE i # n
      <4>1. i \in 0..(n - 1) /\ (i # 0 => i - 1 \in 0..(n - 1))
        BY <1>2, <3>2
      <4>2. g[i] = IF i = 0 THEN 0 ELSE g[i - 1] + s[i]
        BY <2>2, <4>1 DEF Summing
      <4> QED BY <1>2, <3>2, <4>1, <4>2
    <3> QED BY <3>1, <3>2
  <2> HIDE DEF f
  <2>5. Summing(s, f, n)
    BY <2>3, <2>4 DEF Summing
  <2> QED BY <1>2, <2>3, <2>5
<1> QED BY <1>3, <1>4

\* What Totals is defined by.
LEMMA TotalsDef ==
  ASSUME NEW s \in Seq(Nat)
  PROVE  /\ Totals(s)[0] = 0
         /\ \A i \in 1..Len(s) : Totals(s)[i] = Totals(s)[i - 1] + s[i]
         /\ \A i \in 0..Len(s) : Totals(s)[i] \in Nat
<1> DEFINE n == Len(s)
           t == Totals(s)
<1>1. \E f : Summing(s, f, n)
  BY SummingExists
<1>2. Summing(s, t, n)
  BY <1>1, Zenon DEF Totals, Summing
<1> HIDE DEF t
<1>3. \A i \in 0..n : t[i] = IF i = 0 THEN 0 ELSE t[i - 1] + s[i]
  BY <1>2 DEF Summing
<1>4. \A i \in 0..n : t[i] \in Nat
  <2> DEFINE T == {i \in 0..n : t[i] \notin Nat}
  <2> SUFFICES ASSUME T # {} PROVE FALSE
    OBVIOUS
  <2>1. T \in SUBSET Nat
    OBVIOUS
  <2>2. PICK i \in T : \A y \in T : i <= y
    <3> HIDE DEF T
    <3> QED BY <2>1, LeastNat
  <2>3. CASE i = 0
    BY <1>3, <2>3
  <2>4. CASE i # 0
    <3>1. i - 1 \in 0..n /\ ~ (i <= i - 1) /\ s[i] \in Nat
      BY <2>4
    <3>2. t[i - 1] \in Nat
      BY <2>2, <3>1
    <3> QED BY <1>3, <2>4, <3>1, <3>2
  <2> QED BY <2>3, <2>4
<1>5. t[0] = 0 /\ \A i \in 1..n : t[i] = t[i - 1] + s[i]
  BY <1>3
<1> QED BY <1>4, <1>5 DEF t

\* The sums of a longer part are larger.
LEMMA TotalsGrow ==
  ASSUME NEW s \in Seq(Nat), NEW i \in 0..Len(s)
  PROVE  \A j \in i..Len(s) : Totals(s)[i] <= Totals(s)[j]
<1> DEFINE t == Totals(s)
           T == {j \in i..Len(s) : ~(t[i] <= t[j])}
<1>1. /\ \A j \in 1..Len(s) : t[j] = t[j - 1] + s[j]
      /\ \A j \in 0..Len(s) : t[j] \in Nat
  BY TotalsDef
<1> HIDE DEF t
<1> SUFFICES ASSUME T # {} PROVE FALSE
  BY DEF t
<1>2. T \in SUBSET Nat
  OBVIOUS
<1>3. PICK j \in T : \A y \in T : j <= y
  <2> HIDE DEF T
  <2> QED BY <1>2, LeastNat
<1>4. CASE j = i
  BY <1>1, <1>4
<1>5. CASE j # i
  <2>1. j - 1 \in i..Len(s) /\ ~(j <= j - 1) /\ j \in 1..Len(s) /\ s[j] \in Nat
    BY <1>5
  <2>2. t[i] <= t[j - 1]
    BY <1>3, <2>1
  <2> HIDE DEF T
  <2>3. t[j] = t[j - 1] + s[j] /\ t[j - 1] \in Nat /\ t[i] \in Nat
    BY <1>1, <2>1
  <2>4. t[i] <= t[j]
    BY <2>1, <2>2, <2>3
  <2> QED BY <2>4 DEF T
<1> QED BY <1>4, <1>5

\* The loop of PartitionsByInstallOrder over a list of which the first n are not extra.
InstallLoop(all, n, f) ==
  f = [i \in 0..Len(all) |->
        IF i = 0 THEN [partitions |-> <<>>, last |-> <<>>]
        ELSE IF ~(all[i].size = 0 /\ (all[i].name = "persistent" \/ i > n))
             THEN [partitions |-> Append(f[i - 1].partitions, all[i]), last |-> f[i - 1].last]
        ELSE [partitions |-> f[i - 1].partitions,
              last |-> IF f[i - 1].last = <<>> THEN <<all[i]>> ELSE f[i - 1].last]]

\* The loop has one result, whatever function computes it.
LEMMA InstallLoopUnique ==
  ASSUME NEW all, Len(all) \in Nat, NEW n, NEW f, NEW g, InstallLoop(all, n, f), InstallLoop(all, n, g)
  PROVE  f = g
<1> DEFINE T == {i \in 0..Len(all) : f[i] # g[i]}
<1>0. T \in SUBSET Nat
  OBVIOUS
<1>1. T = {}
  <2> SUFFICES ASSUME T # {} PROVE FALSE
    OBVIOUS
  <2>1. PICK i \in T : \A y \in T : i <= y
    <3> HIDE DEF T
    <3> QED BY <1>0, LeastNat
  <2>2. CASE i = 0
    <3>1. f[0] = [partitions |-> <<>>, last |-> <<>>]
      BY DEF InstallLoop
    <3>2. g[0] = [partitions |-> <<>>, last |-> <<>>]
      BY DEF InstallLoop
    <3> QED BY <2>2, <3>1, <3>2
  <2>3. CASE i # 0
    <3>1. i - 1 \in 0..Len(all) /\ ~(i <= i - 1)
      BY <2>3
    <3>2. f[i - 1] = g[i - 1]
      BY <2>1, <3>1
    <3>3. i \in 0..Len(all)
      OBVIOUS
    <3>4. f[i] = g[i]
      <4> HIDE DEF T
      <4> DEFINE F == IF ~(all[i].size = 0 /\ (all[i].name = "persistent" \/ i > n))
                      THEN [partitions |-> Append(f[i - 1].partitions, all[i]), last |-> f[i - 1].last]
                      ELSE [partitions |-> f[i - 1].partitions,
                            last |-> IF f[i - 1].last = <<>> THEN <<all[i]>> ELSE f[i - 1].last]
                 G == IF ~(all[i].size = 0 /\ (all[i].name = "persistent" \/ i > n))
                      THEN [partitions |-> Append(g[i - 1].partitions, all[i]), last |-> g[i - 1].last]
                      ELSE [partitions |-> g[i - 1].partitions,
                            last |-> IF g[i - 1].last = <<>> THEN <<all[i]>> ELSE g[i - 1].last]
      <4>1. f[i] = F
        BY <2>3, <3>3 DEF InstallLoop
      <4>2. g[i] = G
        BY <2>3, <3>3 DEF InstallLoop
      <4>3. F = G
        BY <3>2
      <4> QED BY <4>1, <4>2, <4>3
    <3> QED BY <3>4
  <2> QED BY <2>2, <2>3
<1>2. f = [i \in 0..Len(all) |-> f[i]] /\ g = [i \in 0..Len(all) |-> g[i]]
  BY DEF InstallLoop
<1> QED BY <1>1, <1>2

\* What a function of that loop says about the result.
LEMMA InstallOrderIs ==
  ASSUME NEW parts, NEW extra, NEW f, Len(parts \o extra) \in Nat, InstallLoop(parts \o extra, Len(parts), f)
  PROVE  PartitionsByInstallOrder(parts, extra) =
           f[Len(parts \o extra)].partitions \o f[Len(parts \o extra)].last
<1> DEFINE all == parts \o extra
           h == CHOOSE k : InstallLoop(all, Len(parts), k)
<1>1. InstallLoop(all, Len(parts), h)
  BY Zenon
<1>2. PartitionsByInstallOrder(parts, extra) = h[Len(all)].partitions \o h[Len(all)].last
  BY Zenon DEF PartitionsByInstallOrder, InstallLoop
<1>3. h = f
  <2> HIDE DEF h
  <2> QED BY <1>1, InstallLoopUnique
<1> HIDE DEF h
<1> QED BY <1>2, <1>3

\* A list in which only the last may grow is in order.
LEMMA InOrder ==
  ASSUME NEW Item, NEW parts \in Seq(Item), \A x \in Item : x.size \in Nat,
         \A i \in 1..(Len(parts) - 1) : parts[i].size > 0
  PROVE  PartitionsByInstallOrder(parts, <<>>) = parts
<1> DEFINE n == Len(parts)
           grow(i) == parts[i].size = 0 /\ parts[i].name = "persistent"
           f == [i \in 0..n |-> IF i # 0 /\ grow(i)
                                THEN [partitions |-> SubSeq(parts, 1, i - 1), last |-> <<parts[i]>>]
                                ELSE [partitions |-> SubSeq(parts, 1, i), last |-> <<>>]]
<1>0. n \in Nat /\ \A i \in 1..n : parts[i] \in Item
  OBVIOUS
<1>1. parts \o <<>> = parts
  BY ConcatEmptySeq
<1>2. \A i \in 1..n : grow(i) => i = n
  BY <1>0
<1>3. \A i \in 1..n : SubSeq(parts, 1, i) = Append(SubSeq(parts, 1, i - 1), parts[i])
  BY <1>0
<1>4. SubSeq(parts, 1, 0) = <<>> /\ SubSeq(parts, 1, n) = parts
  BY <1>0
<1>5. InstallLoop(parts, n, f)
  <2> SUFFICES ASSUME NEW i \in 0..n
               PROVE  f[i] = IF i = 0 THEN [partitions |-> <<>>, last |-> <<>>]
                             ELSE IF ~(parts[i].size = 0 /\ (parts[i].name = "persistent" \/ i > n))
                                  THEN [partitions |-> Append(f[i - 1].partitions, parts[i]), last |-> f[i - 1].last]
                             ELSE [partitions |-> f[i - 1].partitions,
                                   last |-> IF f[i - 1].last = <<>> THEN <<parts[i]>> ELSE f[i - 1].last]
    BY Zenon DEF InstallLoop
  <2>1. CASE i = 0
    BY <1>0, <1>4, <2>1
  <2>2. CASE i # 0
    <3>1. i \in 1..n /\ i - 1 \in 0..n /\ ~(i > n)
      BY <1>0, <2>2
    <3>2. ~(i - 1 # 0 /\ grow(i - 1))
      BY <1>0, <1>2, <3>1
    <3>3. f[i - 1] = [partitions |-> SubSeq(parts, 1, i - 1), last |-> <<>>]
      BY <3>1, <3>2
    <3>4. f[i] = IF grow(i) THEN [partitions |-> SubSeq(parts, 1, i - 1), last |-> <<parts[i]>>]
                 ELSE [partitions |-> SubSeq(parts, 1, i), last |-> <<>>]
      BY <2>2
    <3>5. SubSeq(parts, 1, i) = Append(SubSeq(parts, 1, i - 1), parts[i])
      BY <1>3, <3>1
    <3> HIDE DEF f
    <3>6. CASE grow(i)
      <4>1. f[i] = [partitions |-> SubSeq(parts, 1, i - 1), last |-> <<parts[i]>>]
        BY <3>4, <3>6
      <4>2. f[i - 1].partitions = SubSeq(parts, 1, i - 1) /\ f[i - 1].last = <<>>
        BY <3>3
      <4> QED BY <2>2, <3>6, <4>1, <4>2, Zenon
    <3>7. CASE ~grow(i)
      <4>1. f[i] = [partitions |-> Append(SubSeq(parts, 1, i - 1), parts[i]), last |-> <<>>]
        BY <3>4, <3>5, <3>7
      <4>2. f[i - 1].partitions = SubSeq(parts, 1, i - 1) /\ f[i - 1].last = <<>>
        BY <3>3
      <4> QED BY <2>2, <3>1, <3>7, <4>1, <4>2, Zenon
    <3> QED BY <3>6, <3>7
  <2> QED BY <2>1, <2>2
<1>6. PartitionsByInstallOrder(parts, <<>>) = f[n].partitions \o f[n].last
  <2> HIDE DEF f
  <2>1. InstallLoop(parts \o <<>>, Len(parts), f) /\ Len(parts \o <<>>) = n
    BY <1>1, <1>5
  <2> QED BY <1>0, <2>1, InstallOrderIs, ZenonT(30)
<1>7. CASE n # 0 /\ grow(n)
  <2>1. f[n] = [partitions |-> SubSeq(parts, 1, n - 1), last |-> <<parts[n]>>]
    BY <1>0, <1>7
  <2>2. SubSeq(parts, 1, n - 1) \in Seq(Item) /\ parts[n] \in Item
    BY <1>0, <1>7
  <2>3. SubSeq(parts, 1, n - 1) \o <<parts[n]>> = Append(SubSeq(parts, 1, n - 1), parts[n])
    BY <2>2
  <2>4. n \in 1..n
    BY <1>0, <1>7
  <2> HIDE DEF f
  <2>5. f[n].partitions = SubSeq(parts, 1, n - 1) /\ f[n].last = <<parts[n]>>
    BY <2>1
  <2>6. parts = Append(SubSeq(parts, 1, n - 1), parts[n])
    BY <1>3, <1>4, <2>4
  <2> QED BY <1>6, <2>3, <2>5, <2>6, Zenon
<1>8. CASE ~(n # 0 /\ grow(n))
  <2>1. f[n] = [partitions |-> SubSeq(parts, 1, n), last |-> <<>>]
    BY <1>0, <1>8
  <2> HIDE DEF f
  <2> QED BY <1>1, <1>4, <1>6, <2>1
<1> QED BY <1>7, <1>8

\* Sizes in MiB and in sectors.
LEMMA MiBNat == \A a \in Nat : MiBToSectors(a) \in Nat
  BY PartitionerAssumption DEF MiBToSectors

\* Sizes in sectors add up as the sizes in MiB do ...
LEMMA MiBSum == \A a, b \in Nat : MiBToSectors(a + b) = MiBToSectors(a) + MiBToSectors(b)
<1> SUFFICES ASSUME NEW a \in Nat, NEW b \in Nat
             PROVE  (a + b) * SectorsPerMiB = a * SectorsPerMiB + b * SectorsPerMiB
  BY DEF MiBToSectors
<1>1. SectorsPerMiB \in Nat
  BY PartitionerAssumption
<1> QED BY <1>1

\* ... one MiB has room for the backup of the table ...
LEMMA MiBOne == /\ MiBToSectors(0) = 0
                /\ MiBToSectors(1) = SectorsPerMiB
                /\ SectorsPerMiB \in Nat /\ GptSectors \in Nat /\ 1 <= GptSectors /\ GptSectors < SectorsPerMiB
  BY PartitionerAssumption DEF MiBToSectors

\* ... a larger size takes no fewer sectors ...
LEMMA MiBUp == \A a, b \in Nat : a <= b => MiBToSectors(a) <= MiBToSectors(b)
<1> SUFFICES ASSUME NEW a \in Nat, NEW b \in Nat, a <= b PROVE MiBToSectors(a) <= MiBToSectors(b)
  OBVIOUS
<1>1. b = a + (b - a) /\ b - a \in Nat
  OBVIOUS
<1>2. MiBToSectors(b) = MiBToSectors(a) + MiBToSectors(b - a)
  BY <1>1, MiBSum
<1> QED BY <1>1, <1>2, MiBNat

\* ... and no size takes none.
LEMMA MiBPos == \A a \in Nat : a > 0 => MiBToSectors(a) >= SectorsPerMiB
<1> SUFFICES ASSUME NEW a \in Nat, a > 0 PROVE MiBToSectors(1) <= MiBToSectors(a)
  BY MiBOne, MiBNat
<1> QED BY MiBUp

\* Whole numbers of MiB are not changed by the rounding of the converters.
LEMMA AzureKeeps ==
  ASSUME NEW a \in Nat
  PROVE  AzureSectors(MiBToSectors(a)) = MiBToSectors(a) - 1
<1> DEFINE c == SectorsPerMiB
           x == a * c + c - 1
           q == x \div c
<1>0. c \in Nat /\ c > 0
  BY PartitionerAssumption
<1>1. a * c \in Nat
  BY <1>0
<1>2. q = a
  <2>1. x \in Int /\ x >= a * c /\ x < a * c + c
    BY <1>0, <1>1
  <2>2. a * c + c = (a + 1) * c
    BY <1>0
  <2>3. q \in Int /\ q * c <= x /\ x < (q + 1) * c
    BY <1>0, <2>1
  <2>4. q * c < (a + 1) * c /\ a * c < (q + 1) * c
    BY <1>0, <1>1, <2>1, <2>2, <2>3
  <2>5. q < a + 1 /\ a < q + 1
    BY <1>0, <2>3, <2>4
  <2> QED BY <2>3, <2>5
<1>3. AzureSectors(a * c) = q * c - 1
  BY DEF AzureSectors
<1> QED BY <1>2, <1>3 DEF MiBToSectors

\* Raw2Gce never makes the file smaller.
LEMMA GceGrows ==
  ASSUME NEW a \in Nat
  PROVE  GceSectors(MiBToSectors(a)) \in Nat /\ GceSectors(MiBToSectors(a)) >= MiBToSectors(a)
<1> DEFINE c == SectorsPerMiB
           d == MiBPerGB
           q == a \div d
<1>0. c \in Nat /\ c > 0 /\ d \in Nat /\ d > 0
  BY PartitionerAssumption, BuildAssumption
<1>1. (a * c) \div c = a
  <2> DEFINE p == (a * c) \div c
  <2>1. a * c \in Nat
    BY <1>0
  <2>2. p \in Int /\ p * c <= a * c /\ a * c < (p + 1) * c
    BY <1>0, <2>1
  <2>3. p <= a /\ a < p + 1
    BY <1>0, <2>2
  <2> QED BY <2>2, <2>3
<1>2. q \in Nat /\ a < (q + 1) * d
  BY <1>0
<1>3. (q + 1) * d \in Nat
  BY <1>0, <1>2
<1>4. GceSectors(a * c) = MiBToSectors((q + 1) * d)
  BY <1>1 DEF GceSectors
<1>5. MiBToSectors(a) = a * c
  BY DEF MiBToSectors
<1>6. MiBToSectors(a) <= MiBToSectors((q + 1) * d) /\ MiBToSectors((q + 1) * d) \in Nat
  <2> DEFINE z == (q + 1) * d
  <2>1. z \in Nat /\ a <= z
    BY <1>2, <1>3
  <2> HIDE DEF z
  <2> QED BY <2>1, MiBUp, MiBNat DEF z
<1> QED BY <1>4, <1>5, <1>6

\* The sums of five numbers and of three.
LEMMA TotalsFive ==
  ASSUME NEW s \in Seq(Nat), Len(s) = 5
  PROVE  /\ Totals(s)[0] = 0
         /\ Totals(s)[1] = s[1]
         /\ Totals(s)[2] = s[1] + s[2]
         /\ Totals(s)[3] = s[1] + s[2] + s[3]
         /\ Totals(s)[4] = s[1] + s[2] + s[3] + s[4]
         /\ Total(s) = s[1] + s[2] + s[3] + s[4] + s[5]
<1> DEFINE t == Totals(s)
<1>0. t[0] = 0 /\ \A i \in 1..5 : t[i] = t[i - 1] + s[i]
  BY TotalsDef
<1>1. s[1] \in Nat /\ s[2] \in Nat /\ s[3] \in Nat /\ s[4] \in Nat /\ s[5] \in Nat
  <2>1. \A i \in 1..5 : s[i] \in Nat
    BY ElementOfSeq
  <2> QED BY <2>1
<1>2. Total(s) = t[5]
  BY DEF Total
<1> HIDE DEF t
<1>3. t[1] = t[0] + s[1] /\ t[2] = t[1] + s[2] /\ t[3] = t[2] + s[3] /\ t[4] = t[3] + s[4] /\ t[5] = t[4] + s[5]
  BY <1>0
<1> QED BY <1>0, <1>1, <1>2, <1>3 DEF t

\* The same sums for three partitions.
LEMMA TotalsThree ==
  ASSUME NEW s \in Seq(Nat), Len(s) = 3
  PROVE  /\ Totals(s)[0] = 0
         /\ Totals(s)[1] = s[1]
         /\ Totals(s)[2] = s[1] + s[2]
         /\ Total(s) = s[1] + s[2] + s[3]
<1> DEFINE t == Totals(s)
<1>0. t[0] = 0 /\ \A i \in 1..3 : t[i] = t[i - 1] + s[i]
  BY TotalsDef
<1>1. s[1] \in Nat /\ s[2] \in Nat /\ s[3] \in Nat
  <2>1. \A i \in 1..3 : s[i] \in Nat
    BY ElementOfSeq
  <2> QED BY <2>1
<1>2. Total(s) = t[3]
  BY DEF Total
<1> HIDE DEF t
<1>3. t[1] = t[0] + s[1] /\ t[2] = t[1] + s[2] /\ t[3] = t[2] + s[3]
  BY <1>0
<1> QED BY <1>0, <1>1, <1>2, <1>3 DEF t

\* The five partitions of the configuration.
LEMMA AllPartsAre ==
  /\ AllParts \in Seq([name : PartNames, size : Nat])
  /\ Len(AllParts) = 5
  /\ \A i \in 1..5 : AllParts[i] = [name |-> NameAt[i], size |-> PartSize[NameAt[i]]]
  BY BuildAssumption DEF AllParts, Configured, PartNames, NameAt

\* What the assumptions say of their sizes.
LEMMA PartSizes ==
  /\ PartSize["boot"] \in Nat /\ PartSize["oem"] \in Nat /\ PartSize["recovery"] \in Nat
  /\ PartSize["state"] \in Nat /\ PartSize["persistent"] \in Nat
  /\ PartSize["boot"] > 0 /\ PartSize["oem"] > 0 /\ PartSize["recovery"] > 0 /\ PartSize["state"] > 0
  /\ RecoverySize \in Nat /\ RecoverySize > 0
  /\ TreeSize["persistent"] + ImgOverhead \in Nat /\ TreeSize["persistent"] + ImgOverhead >= MinPartSize
  /\ MinPartSize \in Nat /\ MinPartSize > 0
  BY BuildAssumption DEF PartNames, RecoverySize

\* The partitions that are built, in the order of the configuration.
LEMMA BuiltIs ==
  ASSUME NEW s
  PROVE  /\ s.expandable => Built(s) = SubSeq(AllParts, 1, 3)
         /\ ~s.expandable => Built(s) = AllParts
         /\ PartitionsByInstallOrder(AllParts, <<>>) = AllParts
<1> DEFINE Item == [name : PartNames, size : Nat]
           three == SubSeq(AllParts, 1, 3)
<1>0. \A x \in Item : x.size \in Nat
  OBVIOUS
<1>1. \A i \in 1..4 : AllParts[i].size > 0
  BY AllPartsAre, PartSizes DEF NameAt
<1>2. PartitionsByInstallOrder(AllParts, <<>>) = AllParts
  <2> HIDE DEF Item
  <2>1. AllParts \in Seq(Item) /\ \A i \in 1..(Len(AllParts) - 1) : AllParts[i].size > 0
    BY <1>1, AllPartsAre DEF Item
  <2> QED BY <1>0, <2>1, InOrder
<1>3. three \in Seq(Item) /\ Len(three) = 3 /\ \A i \in 1..3 : three[i] = AllParts[i]
  <2>1. AllParts \in Seq(Item) /\ Len(AllParts) = 5
    BY AllPartsAre
  <2> HIDE DEF Item
  <2> QED BY <2>1
<1>4. PartitionsByInstallOrder(three, <<>>) = three
  <2> HIDE DEF Item, three
  <2>1. \A i \in 1..(Len(three) - 1) : three[i].size > 0
    BY <1>1, <1>3
  <2> QED BY <1>0, <1>3, <2>1, InOrder
<1> QED BY <1>2, <1>4 DEF Built

\* MinDiskSize as a sum.
LEMMA MinDiskSizeIs ==
  /\ MinDiskSize = 2 + PartSize["boot"] + PartSize["oem"] + PartSize["recovery"] + PartSize["state"] + Grown(PartSize["persistent"])
  /\ MinDiskSize \in Nat
<1> DEFINE s == [i \in DOMAIN AllParts |-> IF AllParts[i].size = 0 THEN MinPartSize ELSE AllParts[i].size]
<1>0. DOMAIN AllParts = 1..5
  BY AllPartsAre
<1>1. MinDiskSize = 2 + Total(s)
  BY BuiltIs DEF MinDiskSize
<1>2. ASSUME NEW i \in 1..5 PROVE s[i] = IF PartSize[NameAt[i]] = 0 THEN MinPartSize ELSE PartSize[NameAt[i]]
  <2>1. AllParts[i].size = PartSize[NameAt[i]]
    BY AllPartsAre
  <2> QED BY <1>0, <2>1
<1>3. s = [i \in 1..5 |-> s[i]]
  BY <1>0
<1> HIDE DEF s
<1>4. /\ s[1] = PartSize["boot"] /\ s[2] = PartSize["oem"] /\ s[3] = PartSize["recovery"] /\ s[4] = PartSize["state"]
      /\ s[5] = Grown(PartSize["persistent"])
  BY <1>2, PartSizes DEF NameAt, Grown
<1>5. Grown(PartSize["persistent"]) \in Nat
  BY PartSizes, BuildAssumption DEF Grown
<1>6. s \in Seq(Nat) /\ Len(s) = 5
  BY <1>3, <1>4, <1>5, PartSizes
<1>7. Total(s) = s[1] + s[2] + s[3] + s[4] + s[5]
  BY <1>6, TotalsFive
<1> QED BY <1>1, <1>4, <1>5, <1>7, PartSizes

-----------------------------------------------------------------------------
(***************************************************************************)
(* The steps of a build                                                    *)
(***************************************************************************)

\* The steps of a build are all different, so each has one position.
LEMMA StepsAre ==
  /\ DOMAIN Steps = 1..31
  /\ \A i, j \in 1..31 : Steps[i] = Steps[j] => i = j
  /\ \A i \in 1..31 : Steps[i] \in StepNames
  /\ Steps[31] = "cleanup"
<1>1. DOMAIN Steps = 1..31 /\ Steps[31] = "cleanup"
  BY DEF Steps
<1>2. \A i, j \in 1..31 : Steps[i] = Steps[j] => i = j
  BY DEF Steps
<1> QED BY <1>1, <1>2 DEF StepNames

\* Position inverts Steps ...
LEMMA PositionAt == \A i \in 1..31 : Position(Steps[i]) = i
  BY StepsAre DEF Position

\* ... on all the names of steps.
LEMMA PositionIn == \A step \in StepNames : Position(step) \in 1..31 /\ Steps[Position(step)] = step
  BY StepsAre, PositionAt DEF StepNames

\* The positions the proofs refer to.
LEMMA PositionIs ==
  /\ Position("mkdir") = 1 /\ Position("hook") = 2 /\ Position("roots") = 3 /\ Position("cloudinit") = 4
  /\ Position("grubconfig") = 5 /\ Position("firstentry") = 6 /\ Position("grublabels") = 7 /\ Position("efi") = 8
  /\ Position("rebrand") = 9 /\ Position("chroot") = 10 /\ Position("link1") = 11 /\ Position("link2") = 12
  /\ Position("afterhook") = 13 /\ Position("recovery") = 14 /\ Position("expandstage") = 15
  /\ Position("stateimage") = 16 /\ Position("transaction") = 17 /\ Position("stateyaml") = 18
  /\ Position("unmount") = 19 /\ Position("recoveryyaml") = 20 /\ Position("efiimage") = 21
  /\ Position("oemimage") = 22 /\ Position("recoveryimage") = 23 /\ Position("stateadd") = 24
  /\ Position("persistentimage") = 25 /\ Position("removeold") = 26 /\ Position("assemble") = 27
  /\ Position("table") = 28 /\ Position("posthook") = 29 /\ Position("convert") = 30 /\ Position("cleanup") = 31
<1>1. /\ Steps[1] = "mkdir" /\ Steps[2] = "hook" /\ Steps[3] = "roots" /\ Steps[4] = "cloudinit"
      /\ Steps[5] = "grubconfig" /\ Steps[6] = "firstentry" /\ Steps[7] = "grublabels" /\ Steps[8] = "efi"
      /\ Steps[9] = "rebrand" /\ Steps[10] = "chroot" /\ Steps[11] = "link1" /\ Steps[12] = "link2"
      /\ Steps[13] = "afterhook" /\ Steps[14] = "recovery" /\ Steps[15] = "expandstage"
      /\ Steps[16] = "stateimage" /\ Steps[17] = "transaction" /\ Steps[18] = "stateyaml"
      /\ Steps[19] = "unmount" /\ Steps[20] = "recoveryyaml" /\ Steps[21] = "efiimage"
      /\ Steps[22] = "oemimage" /\ Steps[23] = "recoveryimage" /\ Steps[24] = "stateadd"
      /\ Steps[25] = "persistentimage" /\ Steps[26] = "removeold" /\ Steps[27] = "assemble"
      /\ Steps[28] = "table" /\ Steps[29] = "posthook" /\ Steps[30] = "convert" /\ Steps[31] = "cleanup"
  BY DEF Steps
<1> QED BY <1>1, PositionAt

\* The names of the steps.
LEMMA StepNamesAre ==
  StepNames = { "mkdir", "hook", "roots", "cloudinit", "grubconfig", "firstentry", "grublabels", "efi",
     "rebrand", "chroot", "link1", "link2", "afterhook", "recovery", "expandstage",
     "stateimage", "transaction", "stateyaml", "unmount", "recoveryyaml", "efiimage",
     "oemimage", "recoveryimage", "stateadd", "persistentimage",
     "removeold", "assemble", "table", "posthook", "convert", "cleanup" }
  BY StepsAre DEF StepNames, Steps

\* The next step of a build: all between are skipped.
LEMMA AfterIs ==
  ASSUME NEW step \in StepNames, step # "cleanup"
  PROVE  /\ After(step) \in StepNames \ Skipped(spec)
         /\ Position(step) < Position(After(step))
         /\ \A s \in StepNames : Position(step) < Position(s) /\ Position(s) < Position(After(step)) => s \in Skipped(spec)
<1> DEFINE later == {i \in DOMAIN Steps : i > Position(step) /\ Steps[i] \notin Skipped(spec)}
           n == CHOOSE i \in later : \A j \in later : i <= j
<1>1. later \in SUBSET Nat /\ later \subseteq 1..31
  BY StepsAre
<1>2. 31 \in later
  <2>1. Position(step) \in 1..31 /\ Position(step) # 31
    BY PositionIn, StepsAre
  <2>2. "cleanup" \notin Skipped(spec)
    BY DEF Skipped
  <2> QED BY <2>1, <2>2, StepsAre
<1>3. \E m \in later : \A y \in later : m <= y
  <2> HIDE DEF later
  <2> QED BY <1>1, <1>2, LeastNat
<1>4. n \in later /\ \A j \in later : n <= j
  BY <1>3
<1>5. After(step) = Steps[n]
  BY Zenon DEF After
<1>6. n \in 1..31 /\ n > Position(step) /\ Steps[n] \notin Skipped(spec)
  BY <1>1, <1>4
<1>7. ASSUME NEW s \in StepNames, Position(step) < Position(s), Position(s) < n
      PROVE  s \in Skipped(spec)
  <2>1. Position(s) \in 1..31 /\ Steps[Position(s)] = s
    BY PositionIn
  <2>2. s \notin Skipped(spec) => Position(s) \in later
    BY <1>7, <2>1, StepsAre
  <2> HIDE DEF later, n
  <2>3. n \in Nat /\ Position(s) \in Nat
    BY <1>6, <2>1
  <2> QED BY <1>4, <1>7, <2>2, <2>3
<1> HIDE DEF n
<1>8. Position(After(step)) = n /\ After(step) \in StepNames
  BY <1>5, <1>6, PositionAt, StepsAre
<1> QED BY <1>5, <1>6, <1>7, <1>8

\* A step that is done is the last one passed.
LEMMA StepDone ==
  ASSUME NEW step \in StepNames, step # "cleanup", step \notin Skipped(spec), bpc = step, bpc' = After(step), spec' = spec
  PROVE  /\ bpc' \in StepNames \ Skipped(spec)
         /\ \A s \in StepNames : Passed(s)' <=> (Passed(s) \/ s = step)
<1>1. /\ bpc' \in StepNames \ Skipped(spec)
      /\ Position(step) < Position(bpc')
      /\ \A s \in StepNames : Position(step) < Position(s) /\ Position(s) < Position(bpc') => s \in Skipped(spec)
  BY AfterIs
<1>2. At = Position(step) /\ At' = Position(bpc')
  BY <1>1 DEF At
<1>3. \A s \in StepNames : Position(s) \in Nat /\ (Position(s) = Position(step) => s = step)
  BY PositionIn
<1>4. ASSUME NEW s \in StepNames
      PROVE  (Position(s) < Position(bpc') /\ s \notin Skipped(spec)) <=> ((Position(s) < Position(step) /\ s \notin Skipped(spec)) \/ s = step)
  BY <1>1, <1>3
<1> QED BY <1>1, <1>2, <1>4 DEF Passed

-----------------------------------------------------------------------------
(***************************************************************************)
(* The file a spec asks for is one that fits                               *)
(***************************************************************************)

\* What the partitions must hold.
LEMMA ExpectedIs ==
  ASSUME NEW s
  PROVE  LET yaml == {"state.yaml", "recovery source"} \cup (IF s.expandable THEN {} ELSE {"snapshot entry"})
         IN /\ Expected(s, "boot") = {"grub.cfg", "labels", "efi", "entry"} \cup (IF s.expandable THEN {} ELSE {"snapshots"})
            /\ Expected(s, "oem") = {"cloud-init"} \cup (IF s.expandable THEN {"next_entry", "stages"} ELSE {})
            /\ Expected(s, "recovery") = {"system"} \cup yaml
            /\ Expected(s, "state") = {"snapshot"} \cup yaml
            /\ Expected(s, "persistent") = {}
  BY DEF Expected

\* The fields of a spec.
LEMMA SpecFields == \A s \in DiskSpecs : s.size \in Nat /\ s.type \in Types /\ s.expandable \in BOOLEAN
  BY BuildAssumption

\* There is always room behind the last image.
LEMMA ExtraPositive == \A s \in DiskSpecs : Room(s) => ExtraOf(s) \in Nat /\ ExtraOf(s) > 0
  BY SpecFields, MinDiskSizeIs DEF Room, ExtraOf

\* Five sizes in sectors.
LEMMA MiBSum5 ==
  ASSUME NEW a \in Nat, NEW b \in Nat, NEW c \in Nat, NEW d \in Nat
  PROVE  MiBToSectors(1 + (a + b + c) + d)
           = MiBToSectors(1) + MiBToSectors(a) + MiBToSectors(b) + MiBToSectors(c) + MiBToSectors(d)
<1>1. MiBToSectors(1 + (a + b + c) + d) = MiBToSectors(1 + (a + b + c)) + MiBToSectors(d)
  BY MiBSum
<1>2. MiBToSectors(1 + (a + b + c)) = MiBToSectors(1) + MiBToSectors(a + b + c)
  BY MiBSum
<1>3. MiBToSectors(a + b + c) = MiBToSectors(a + b) + MiBToSectors(c)
  BY MiBSum
<1>4. MiBToSectors(a + b) = MiBToSectors(a) + MiBToSectors(b)
  BY MiBSum
<1>5. /\ MiBToSectors(1) \in Nat /\ MiBToSectors(a) \in Nat /\ MiBToSectors(b) \in Nat
      /\ MiBToSectors(c) \in Nat /\ MiBToSectors(d) \in Nat
  BY MiBNat
<1> QED BY <1>1, <1>2, <1>3, <1>4, <1>5

\* The images and the table of an expandable disk.
LEMMA ExpandableLaid ==
  ASSUME NEW s \in DiskSpecs, s.expandable, Room(s)
  PROVE  LET M(n) == MiBToSectors(n)
             b == PartSize["boot"]
             o == PartSize["oem"]
             t == RecoverySize
             z == Sizes(WantImages(s, 3))
         IN /\ RawOf(s) \in Nat
            /\ M(RawOf(s)) = M(1) + M(b) + M(o) + M(t) + M(ExtraOf(s))
            /\ z \in Seq(Nat) /\ Len(z) = 3 /\ z[1] = b /\ z[2] = o /\ z[3] = t
            /\ DOMAIN LaidOf(s) = 1..3
            /\ LaidOf(s)[1] = [name |-> "boot", start |-> M(1), size |-> M(b)]
            /\ LaidOf(s)[2] = [name |-> "oem", start |-> M(1) + M(b), size |-> M(o)]
            /\ LaidOf(s)[3] = [name |-> "recovery", start |-> M(1) + M(b) + M(o), size |-> M(t) + M(ExtraOf(s)) - GptSectors]
<1> DEFINE b == PartSize["boot"]
           o == PartSize["oem"]
           t == RecoverySize
           x == ExtraOf(s)
           z == Sizes(WantImages(s, 3))
           y == [i \in DOMAIN Built(s) |-> IF Built(s)[i].name = "recovery" /\ s.expandable THEN 0 ELSE MiBToSectors(Built(s)[i].size)]
<1>0. b \in Nat /\ b > 0 /\ o \in Nat /\ o > 0 /\ t \in Nat /\ x \in Nat /\ x > 0
  BY PartSizes, ExtraPositive
<1>1. z \in Seq(Nat) /\ Len(z) = 3 /\ z[1] = b /\ z[2] = o /\ z[3] = t
  <2>1. z = [i \in 1..3 |-> SizeOf(s, NameAt[i])]
    BY DEF Sizes, WantImages, WantImage
  <2>2. SizeOf(s, NameAt[1]) = b /\ SizeOf(s, NameAt[2]) = o /\ SizeOf(s, NameAt[3]) = t
    BY PartSizes DEF SizeOf, NameAt, RecoverySize
  <2> HIDE DEF z
  <2> QED BY <1>0, <2>1, <2>2
<1> HIDE DEF z
<1>2. Total(z) = b + o + t
  BY <1>0, <1>1, TotalsThree
<1>3. RawOf(s) = 1 + (b + o + t) + x
  BY <1>2 DEF RawOf, Count, z
<1>4. MiBToSectors(RawOf(s)) = MiBToSectors(1) + MiBToSectors(b) + MiBToSectors(o) + MiBToSectors(t) + MiBToSectors(x)
  <2> HIDE DEF b, o, t, x
  <2> QED BY <1>0, <1>3, MiBSum5
<1>5. /\ Built(s) = SubSeq(AllParts, 1, 3)
      /\ DOMAIN Built(s) = 1..3
      /\ \A i \in 1..3 : Built(s)[i] = [name |-> NameAt[i], size |-> PartSize[NameAt[i]]]
  <2>1. Built(s) = SubSeq(AllParts, 1, 3)
    BY BuiltIs
  <2> DEFINE Item == [name : PartNames, size : Nat]
  <2>2. AllParts \in Seq(Item) /\ Len(AllParts) = 5
    BY AllPartsAre
  <2> HIDE DEF Item
  <2>3. DOMAIN SubSeq(AllParts, 1, 3) = 1..3 /\ \A i \in 1..3 : SubSeq(AllParts, 1, 3)[i] = AllParts[i]
    BY <2>2
  <2> QED BY <2>1, <2>3, AllPartsAre
<1>6. y \in Seq(Nat) /\ Len(y) = 3 /\ y[1] = MiBToSectors(b) /\ y[2] = MiBToSectors(o) /\ y[3] = 0
  <2>1. y[1] = MiBToSectors(b) /\ y[2] = MiBToSectors(o) /\ y[3] = 0
    BY <1>5 DEF NameAt
  <2>2. y = [i \in 1..3 |-> y[i]]
    BY <1>5
  <2> HIDE DEF y
  <2> QED BY <1>0, <2>1, <2>2, MiBNat
<1> HIDE DEF y
<1>7. Totals(y)[0] = 0 /\ Totals(y)[1] = y[1] /\ Totals(y)[2] = y[1] + y[2]
  BY <1>6, TotalsThree
<1>a. /\ MiBToSectors(1) \in Nat /\ MiBToSectors(b) \in Nat /\ MiBToSectors(o) \in Nat /\ MiBToSectors(t) \in Nat
      /\ MiBToSectors(x) \in Nat /\ MiBToSectors(b) > 0 /\ MiBToSectors(o) > 0 /\ GptSectors \in Nat
  <2> HIDE DEF b, o, t, x
  <2>1. MiBToSectors(b) >= SectorsPerMiB /\ MiBToSectors(o) >= SectorsPerMiB
    BY <1>0, MiBPos
  <2>2. SectorsPerMiB \in Nat /\ SectorsPerMiB > 0 /\ GptSectors \in Nat
    BY MiBOne
  <2> QED BY <1>0, <2>1, <2>2, MiBNat
<1> HIDE DEF b, o, t, x
<1>8. y[1] # 0 /\ y[2] # 0 /\ y[3] = 0 /\ y[1] \in Nat /\ y[2] \in Nat
  BY <1>6, <1>a
<1> DEFINE start(i) == AlignedStart + Totals(y)[i - 1]
           size(i) == IF y[i] = 0 THEN LastUsable(MiBToSectors(RawOf(s))) - start(i) + 1 ELSE y[i]
<1>9. LaidOf(s) = [i \in DOMAIN Built(s) |-> [name |-> Built(s)[i].name, start |-> start(i), size |-> size(i)]]
  BY Zenon DEF LaidOf, y
<1>10. start(1) = MiBToSectors(1) /\ start(2) = MiBToSectors(1) + MiBToSectors(b) /\ start(3) = MiBToSectors(1) + MiBToSectors(b) + MiBToSectors(o)
  <2>1. start(1) = MiBToSectors(1) + 0 /\ start(2) = MiBToSectors(1) + y[1] /\ start(3) = MiBToSectors(1) + (y[1] + y[2])
    BY <1>7 DEF AlignedStart
  <2> HIDE DEF start
  <2> QED BY <1>6, <1>a, <2>1
<1>11. size(1) = MiBToSectors(b) /\ size(2) = MiBToSectors(o) /\ size(3) = MiBToSectors(t) + MiBToSectors(x) - GptSectors
  <2>1. size(1) = y[1] /\ size(2) = y[2] /\ size(3) = LastUsable(MiBToSectors(RawOf(s))) - start(3) + 1
    BY <1>8
  <2> HIDE DEF start, size
  <2> QED BY <1>4, <1>6, <1>10, <1>a, <2>1, SMTT(30) DEF LastUsable
<1> HIDE DEF start, size
<1>12. /\ LaidOf(s)[1] = [name |-> "boot", start |-> start(1), size |-> size(1)]
       /\ LaidOf(s)[2] = [name |-> "oem", start |-> start(2), size |-> size(2)]
       /\ LaidOf(s)[3] = [name |-> "recovery", start |-> start(3), size |-> size(3)]
       /\ DOMAIN LaidOf(s) = 1..3
  BY <1>5, <1>9 DEF NameAt
<1>13. RawOf(s) \in Nat
  BY <1>0, <1>3
<1> QED BY <1>1, <1>4, <1>10, <1>11, <1>12, <1>13 DEF z, b, o, t, x

\* Seven sizes in sectors.
LEMMA MiBSum7 ==
  ASSUME NEW a \in Nat, NEW b \in Nat, NEW c \in Nat, NEW d \in Nat, NEW e \in Nat, NEW f \in Nat
  PROVE  MiBToSectors(1 + (a + b + c + d + e) + f)
           = MiBToSectors(1) + MiBToSectors(a) + MiBToSectors(b) + MiBToSectors(c) + MiBToSectors(d) + MiBToSectors(e)
               + MiBToSectors(f)
<1>1. MiBToSectors(1 + (a + b + c + d + e) + f) = MiBToSectors(1 + (a + b + c + d + e)) + MiBToSectors(f)
  BY MiBSum
<1>2. MiBToSectors(1 + (a + b + c + d + e)) = MiBToSectors(1) + MiBToSectors(a + b + c + d + e)
  BY MiBSum
<1>3. MiBToSectors(a + b + c + d + e) = MiBToSectors(a + b + c + d) + MiBToSectors(e)
  BY MiBSum
<1>4. MiBToSectors(a + b + c + d) = MiBToSectors(a + b + c) + MiBToSectors(d)
  BY MiBSum
<1>5. MiBToSectors(a + b + c) = MiBToSectors(a + b) + MiBToSectors(c)
  BY MiBSum
<1>6. MiBToSectors(a + b) = MiBToSectors(a) + MiBToSectors(b)
  BY MiBSum
<1>7. /\ MiBToSectors(1) \in Nat /\ MiBToSectors(a) \in Nat /\ MiBToSectors(b) \in Nat
      /\ MiBToSectors(c) \in Nat /\ MiBToSectors(d) \in Nat /\ MiBToSectors(e) \in Nat /\ MiBToSectors(f) \in Nat
  BY MiBNat
<1> QED BY <1>1, <1>2, <1>3, <1>4, <1>5, <1>6, <1>7

\* The images and the table of a disk with all partitions.
LEMMA WholeLaid ==
  ASSUME NEW s \in DiskSpecs, ~s.expandable, Room(s)
  PROVE  LET M(n) == MiBToSectors(n)
             b == PartSize["boot"]
             o == PartSize["oem"]
             r == PartSize["recovery"]
             a == PartSize["state"]
             q == SizeOf(s, "persistent")
             z == Sizes(WantImages(s, 5))
         IN /\ q \in Nat /\ q > 0
            /\ RawOf(s) \in Nat
            /\ M(RawOf(s)) = M(1) + M(b) + M(o) + M(r) + M(a) + M(q) + M(ExtraOf(s))
            /\ z \in Seq(Nat) /\ Len(z) = 5 /\ z[1] = b /\ z[2] = o /\ z[3] = r /\ z[4] = a /\ z[5] = q
            /\ DOMAIN LaidOf(s) = 1..5
            /\ LaidOf(s)[1] = [name |-> "boot", start |-> M(1), size |-> M(b)]
            /\ LaidOf(s)[2] = [name |-> "oem", start |-> M(1) + M(b), size |-> M(o)]
            /\ LaidOf(s)[3] = [name |-> "recovery", start |-> M(1) + M(b) + M(o), size |-> M(r)]
            /\ LaidOf(s)[4] = [name |-> "state", start |-> M(1) + M(b) + M(o) + M(r), size |-> M(a)]
            /\ LaidOf(s)[5] = [name |-> "persistent", start |-> M(1) + M(b) + M(o) + M(r) + M(a),
                               size |-> IF PartSize["persistent"] = 0 THEN M(q) + M(ExtraOf(s)) - GptSectors ELSE M(q)]
<1> DEFINE b == PartSize["boot"]
           o == PartSize["oem"]
           r == PartSize["recovery"]
           a == PartSize["state"]
           p == PartSize["persistent"]
           q == SizeOf(s, "persistent")
           x == ExtraOf(s)
           z == Sizes(WantImages(s, 5))
           y == [i \in DOMAIN Built(s) |-> IF Built(s)[i].name = "recovery" /\ s.expandable THEN 0 ELSE MiBToSectors(Built(s)[i].size)]
<1>0. /\ b \in Nat /\ b > 0 /\ o \in Nat /\ o > 0 /\ r \in Nat /\ r > 0 /\ a \in Nat /\ a > 0 /\ p \in Nat
      /\ x \in Nat /\ x > 0
  BY PartSizes, ExtraPositive
<1>b. q \in Nat /\ q > 0 /\ (p # 0 => q = p)
  BY PartSizes DEF SizeOf
<1>1. z \in Seq(Nat) /\ Len(z) = 5 /\ z[1] = b /\ z[2] = o /\ z[3] = r /\ z[4] = a /\ z[5] = q
  <2>1. z = [i \in 1..5 |-> SizeOf(s, NameAt[i])]
    BY DEF Sizes, WantImages, WantImage
  <2>2. /\ SizeOf(s, NameAt[1]) = b /\ SizeOf(s, NameAt[2]) = o /\ SizeOf(s, NameAt[3]) = r
        /\ SizeOf(s, NameAt[4]) = a
    BY PartSizes DEF SizeOf, NameAt
  <2>3. SizeOf(s, NameAt[5]) = q
    BY DEF NameAt
  <2> HIDE DEF z, q
  <2>4. \A i \in 1..5 : SizeOf(s, NameAt[i]) \in Nat
    BY <1>0, <1>b, <2>2, <2>3
  <2> QED BY <2>1, <2>2, <2>3, <2>4
<1> HIDE DEF z
<1>2. Total(z) = b + o + r + a + q
  BY <1>1, TotalsFive
<1>3. RawOf(s) = 1 + (b + o + r + a + q) + x
  BY <1>2 DEF RawOf, Count, z
<1>4. MiBToSectors(RawOf(s)) = MiBToSectors(1) + MiBToSectors(b) + MiBToSectors(o) + MiBToSectors(r) + MiBToSectors(a)
                                 + MiBToSectors(q) + MiBToSectors(x)
  <2> HIDE DEF b, o, r, a, q, x
  <2>1. b \in Nat /\ o \in Nat /\ r \in Nat /\ a \in Nat /\ q \in Nat /\ x \in Nat
    BY <1>0, <1>b
  <2>2. MiBToSectors(1 + (b + o + r + a + q) + x)
          = MiBToSectors(1) + MiBToSectors(b) + MiBToSectors(o) + MiBToSectors(r) + MiBToSectors(a) + MiBToSectors(q)
              + MiBToSectors(x)
    BY <2>1, MiBSum7, SMTT(60)
  <2> QED BY <1>3, <2>2
<1>5. /\ DOMAIN Built(s) = 1..5
      /\ \A i \in 1..5 : Built(s)[i] = [name |-> NameAt[i], size |-> PartSize[NameAt[i]]]
  BY BuiltIs, AllPartsAre, SMTT(30)
<1>6. /\ y \in Seq(Nat) /\ Len(y) = 5 /\ y[1] = MiBToSectors(b) /\ y[2] = MiBToSectors(o)
      /\ y[3] = MiBToSectors(r) /\ y[4] = MiBToSectors(a) /\ y[5] = MiBToSectors(p)
  <2>1. y = [i \in 1..5 |-> MiBToSectors(PartSize[NameAt[i]])]
    BY <1>5
  <2>2. \A i \in 1..5 : MiBToSectors(PartSize[NameAt[i]]) \in Nat
    BY <1>0, MiBNat DEF NameAt
  <2> HIDE DEF y
  <2>3. y \in Seq(Nat) /\ Len(y) = 5
    BY <2>1, <2>2
  <2> QED BY <2>1, <2>3 DEF NameAt
<1> HIDE DEF y
<1>7. /\ Totals(y)[0] = 0 /\ Totals(y)[1] = y[1] /\ Totals(y)[2] = y[1] + y[2] /\ Totals(y)[3] = y[1] + y[2] + y[3]
      /\ Totals(y)[4] = y[1] + y[2] + y[3] + y[4]
  BY <1>6, TotalsFive
<1>a. /\ MiBToSectors(1) \in Nat /\ MiBToSectors(b) \in Nat /\ MiBToSectors(o) \in Nat /\ MiBToSectors(r) \in Nat
      /\ MiBToSectors(a) \in Nat /\ MiBToSectors(p) \in Nat /\ MiBToSectors(q) \in Nat
      /\ MiBToSectors(x) \in Nat /\ MiBToSectors(b) > 0 /\ MiBToSectors(o) > 0 /\ MiBToSectors(r) > 0 /\ MiBToSectors(a) > 0
      /\ p > 0 => MiBToSectors(p) > 0
      /\ MiBToSectors(0) = 0
      /\ GptSectors \in Nat
  <2> HIDE DEF b, o, r, a, p, q, x
  <2>1. /\ MiBToSectors(b) >= SectorsPerMiB /\ MiBToSectors(o) >= SectorsPerMiB
        /\ MiBToSectors(r) >= SectorsPerMiB /\ MiBToSectors(a) >= SectorsPerMiB
        /\ p > 0 => MiBToSectors(p) >= SectorsPerMiB
    BY <1>0, MiBPos
  <2>2. SectorsPerMiB \in Nat /\ SectorsPerMiB > 0 /\ GptSectors \in Nat /\ MiBToSectors(0) = 0
    BY MiBOne
  <2>3. /\ MiBToSectors(1) \in Nat /\ MiBToSectors(b) \in Nat /\ MiBToSectors(o) \in Nat /\ MiBToSectors(r) \in Nat
        /\ MiBToSectors(a) \in Nat /\ MiBToSectors(p) \in Nat /\ MiBToSectors(q) \in Nat /\ MiBToSectors(x) \in Nat
    BY <1>0, <1>b, MiBNat
  <2> QED BY <2>1, <2>2, <2>3
<1> HIDE DEF b, o, r, a, p, q, x
<1> DEFINE m1 == MiBToSectors(1)
           mb == MiBToSectors(b)
           mo == MiBToSectors(o)
           mr == MiBToSectors(r)
           ma == MiBToSectors(a)
           mq == MiBToSectors(q)
           mx == MiBToSectors(x)
<1>c. /\ m1 \in Nat /\ mb \in Nat /\ mo \in Nat /\ mr \in Nat /\ ma \in Nat /\ mq \in Nat /\ mx \in Nat
      /\ y[1] = mb /\ y[2] = mo /\ y[3] = mr /\ y[4] = ma /\ MiBToSectors(RawOf(s)) = m1 + mb + mo + mr + ma + mq + mx
      /\ GptSectors \in Nat
  BY <1>4, <1>6, <1>a
<1> DEFINE start(i) == AlignedStart + Totals(y)[i - 1]
           size(i) == IF y[i] = 0 THEN LastUsable(MiBToSectors(RawOf(s))) - start(i) + 1 ELSE y[i]
<1>9. LaidOf(s) = [i \in DOMAIN Built(s) |-> [name |-> Built(s)[i].name, start |-> start(i), size |-> size(i)]]
  BY Zenon DEF LaidOf, y
<1>10. /\ start(1) = MiBToSectors(1)
       /\ start(2) = MiBToSectors(1) + MiBToSectors(b)
       /\ start(3) = MiBToSectors(1) + MiBToSectors(b) + MiBToSectors(o)
       /\ start(4) = MiBToSectors(1) + MiBToSectors(b) + MiBToSectors(o) + MiBToSectors(r)
       /\ start(5) = MiBToSectors(1) + MiBToSectors(b) + MiBToSectors(o) + MiBToSectors(r) + MiBToSectors(a)
  <2>1. /\ start(1) = MiBToSectors(1) + 0 /\ start(2) = MiBToSectors(1) + y[1] /\ start(3) = MiBToSectors(1) + (y[1] + y[2])
        /\ start(4) = MiBToSectors(1) + (y[1] + y[2] + y[3]) /\ start(5) = MiBToSectors(1) + (y[1] + y[2] + y[3] + y[4])
    BY <1>7 DEF AlignedStart
  <2> HIDE DEF start
  <2>2. start(1) = m1 /\ start(2) = m1 + mb /\ start(3) = m1 + mb + mo /\ start(4) = m1 + mb + mo + mr
    <3> HIDE DEF m1, mb, mo, mr, ma
    <3> QED BY <1>c, <2>1 DEF m1
  <2>3. start(5) = m1 + mb + mo + mr + ma
    <3> HIDE DEF m1, mb, mo, mr, ma
    <3> QED BY <1>c, <2>1 DEF m1
  <2> QED BY <2>2, <2>3
<1>11. /\ size(1) = MiBToSectors(b) /\ size(2) = MiBToSectors(o) /\ size(3) = MiBToSectors(r) /\ size(4) = MiBToSectors(a)
       /\ size(5) = IF p = 0 THEN MiBToSectors(q) + MiBToSectors(x) - GptSectors ELSE MiBToSectors(q)
  <2>1. size(1) = y[1] /\ size(2) = y[2] /\ size(3) = y[3] /\ size(4) = y[4]
    BY <1>6, <1>a
  <2>2. CASE p = 0
    <3>1. size(5) = LastUsable(MiBToSectors(RawOf(s))) - start(5) + 1
      BY <1>6, <1>a, <2>2
    <3> HIDE DEF start, size
    <3>2. start(5) = m1 + mb + mo + mr + ma
      BY <1>10
    <3>3. size(5) = mq + mx - GptSectors
      <4> HIDE DEF m1, mb, mo, mr, ma, mq, mx
      <4> QED BY <1>c, <3>1, <3>2 DEF LastUsable
    <3> QED BY <1>6, <2>1, <2>2, <3>3
  <2>3. CASE p # 0
    <3>1. size(5) = y[5]
      BY <1>0, <1>6, <1>a, <2>3
    <3> HIDE DEF start, size
    <3> QED BY <1>6, <1>b, <2>1, <2>3, <3>1 DEF LastUsable
  <2> QED BY <2>2, <2>3
<1> HIDE DEF start, size
<1>12. /\ LaidOf(s)[1] = [name |-> "boot", start |-> start(1), size |-> size(1)]
       /\ LaidOf(s)[2] = [name |-> "oem", start |-> start(2), size |-> size(2)]
       /\ LaidOf(s)[3] = [name |-> "recovery", start |-> start(3), size |-> size(3)]
       /\ LaidOf(s)[4] = [name |-> "state", start |-> start(4), size |-> size(4)]
       /\ LaidOf(s)[5] = [name |-> "persistent", start |-> start(5), size |-> size(5)]
       /\ DOMAIN LaidOf(s) = 1..5
  BY <1>5, <1>9 DEF NameAt
<1>13. RawOf(s) \in Nat
  BY <1>0, <1>b, <1>3
<1> QED BY <1>1, <1>b, <1>4, <1>10, <1>11, <1>12, <1>13 DEF z, b, o, r, a, p, q, x

\* As many partitions are laid out as images are made.
LEMMA LaidLen ==
  ASSUME NEW s, NEW n \in Nat, DOMAIN LaidOf(s) = 1..n
  PROVE  Len(LaidOf(s)) = n
<1> DEFINE g == LaidOf(s)
<1>1. g = [i \in DOMAIN g |-> g[i]]
  BY Zenon DEF LaidOf
<1> HIDE DEF g
<1>2. g = [i \in 1..n |-> g[i]]
  BY <1>1 DEF g
<1>3. Len([i \in 1..n |-> g[i]]) = n
  OBVIOUS
<1> QED BY <1>2, <1>3 DEF g

\* The images a build is to make.
LEMMA WantImagesAre ==
  ASSUME NEW s, NEW n \in Nat
  PROVE  /\ DOMAIN WantImages(s, n) = 1..n
         /\ Len(WantImages(s, n)) = n
         /\ \A i \in 1..n : /\ WantImages(s, n)[i] = WantImage(s, i)
                            /\ WantImages(s, n)[i].name = NameAt[i]
                            /\ WantImages(s, n)[i].size = Sizes(WantImages(s, n))[i]
                            /\ WantImages(s, n)[i].holds = Expected(s, NameAt[i])
<1>1. WantImages(s, n) = [i \in 1..n |-> WantImage(s, i)]
  BY DEF WantImages
<1>2. DOMAIN WantImages(s, n) = 1..n /\ \A i \in 1..n : WantImages(s, n)[i] = WantImage(s, i)
  BY <1>1
<1>3. Len(WantImages(s, n)) = n
  BY <1>1
<1>4. \A i \in 1..n : Sizes(WantImages(s, n))[i] = WantImages(s, n)[i].size
  BY <1>2 DEF Sizes
<1>5. \A i \in 1..n : WantImages(s, n)[i].name = NameAt[i] /\ WantImages(s, n)[i].holds = Expected(s, NameAt[i])
  BY <1>2 DEF WantImage
<1> QED BY <1>2, <1>3, <1>4, <1>5

\* The sums of the sizes, in sectors.
LEMMA MiBPrefix ==
  ASSUME NEW a \in Nat, NEW b \in Nat, NEW c \in Nat, NEW d \in Nat
  PROVE  /\ MiBToSectors(1 + 0) = MiBToSectors(1)
         /\ MiBToSectors(1 + a) = MiBToSectors(1) + MiBToSectors(a)
         /\ MiBToSectors(1 + (a + b)) = MiBToSectors(1) + (MiBToSectors(a) + MiBToSectors(b))
         /\ MiBToSectors(1 + (a + b + c)) = MiBToSectors(1) + (MiBToSectors(a) + MiBToSectors(b) + MiBToSectors(c))
         /\ MiBToSectors(1 + (a + b + c + d))
              = MiBToSectors(1) + (MiBToSectors(a) + MiBToSectors(b) + MiBToSectors(c) + MiBToSectors(d))
<1>0. a + b \in Nat /\ a + b + c \in Nat /\ a + b + c + d \in Nat /\ 1 + 0 = 1
  OBVIOUS
<1>1. MiBToSectors(a + b) = MiBToSectors(a) + MiBToSectors(b)
  BY MiBSum
<1>2. MiBToSectors(a + b + c) = MiBToSectors(a + b) + MiBToSectors(c)
  BY <1>0, MiBSum
<1>3. MiBToSectors(a + b + c + d) = MiBToSectors(a + b + c) + MiBToSectors(d)
  BY <1>0, MiBSum
<1>4. MiBToSectors(1 + (a + b + c + d)) = MiBToSectors(1) + MiBToSectors(a + b + c + d)
  BY <1>0, MiBSum
<1>5. MiBToSectors(1 + (a + b + c)) = MiBToSectors(1) + MiBToSectors(a + b + c)
  BY <1>0, MiBSum
<1>6. MiBToSectors(1 + (a + b)) = MiBToSectors(1) + MiBToSectors(a + b)
  BY <1>0, MiBSum
<1>7. MiBToSectors(1 + a) = MiBToSectors(1) + MiBToSectors(a)
  BY MiBSum
<1> QED BY <1>0, <1>1, <1>2, <1>3, <1>4, <1>5, <1>6, <1>7

\* A file of that table and those images is assembled, even if it has lost its
\* last sector.
LEMMA FileAssembled ==
  ASSUME NEW s \in DiskSpecs, Room(s), NEW build, NEW sectors \in Nat, sectors >= MiBToSectors(RawOf(s)) - 1
  PROVE  Assembled(FileOf(s, build, TRUE, LaidOf(s), sectors))
<1> DEFINE n == Count(s)
           w == WantImages(s, n)
           g == LaidOf(s)
           z == Sizes(w)
<1>0. n \in Nat /\ (s.expandable => n = 3) /\ (~s.expandable => n = 5)
  BY DEF Count
<1> SUFFICES /\ Len(g) = Len(w)
             /\ \A i \in DOMAIN g :
                  /\ g[i].name = w[i].name
                  /\ g[i].start = MiBToSectors(1 + Totals(z)[i - 1])
                  /\ MiBToSectors(w[i].size) <= g[i].size
                  /\ g[i].start + g[i].size - 1 < sectors
  BY DEF Assembled, FileOf, End
<1>x. ExtraOf(s) \in Nat /\ MiBToSectors(ExtraOf(s)) \in Nat /\ MiBToSectors(ExtraOf(s)) >= SectorsPerMiB
  BY ExtraPositive, MiBPos, MiBNat
<1>g. SectorsPerMiB \in Nat /\ GptSectors \in Nat /\ 1 <= GptSectors /\ GptSectors < SectorsPerMiB
  BY MiBOne
<1>w. \A i \in 1..n : w[i].name = NameAt[i] /\ w[i].size = z[i]
  BY <1>0, WantImagesAre
<1>l. Len(w) = n
  BY <1>0, WantImagesAre
<1>1. CASE s.expandable
  <2> DEFINE b == PartSize["boot"]
             o == PartSize["oem"]
             t == RecoverySize
             x == ExtraOf(s)
  <2>0. n = 3 /\ b \in Nat /\ o \in Nat /\ t \in Nat
    BY <1>0, <1>1, PartSizes
  <2>1. /\ MiBToSectors(RawOf(s)) = MiBToSectors(1) + MiBToSectors(b) + MiBToSectors(o) + MiBToSectors(t) + MiBToSectors(x)
        /\ z \in Seq(Nat) /\ Len(z) = 3 /\ z[1] = b /\ z[2] = o /\ z[3] = t
        /\ DOMAIN g = 1..3
        /\ g[1] = [name |-> "boot", start |-> MiBToSectors(1), size |-> MiBToSectors(b)]
        /\ g[2] = [name |-> "oem", start |-> MiBToSectors(1) + MiBToSectors(b), size |-> MiBToSectors(o)]
        /\ g[3] = [name |-> "recovery", start |-> MiBToSectors(1) + MiBToSectors(b) + MiBToSectors(o),
                   size |-> MiBToSectors(t) + MiBToSectors(x) - GptSectors]
    BY <1>1, <2>0, ExpandableLaid
  <2>2. Len(g) = 3
    BY <2>1, LaidLen
  <2> HIDE DEF b, o, t, x, z, w, g
  <2>3. Totals(z)[0] = 0 /\ Totals(z)[1] = b /\ Totals(z)[2] = b + o
    BY <2>1, TotalsThree
  <2>4. /\ MiBToSectors(1) \in Nat /\ MiBToSectors(b) \in Nat /\ MiBToSectors(o) \in Nat /\ MiBToSectors(t) \in Nat
        /\ MiBToSectors(x) \in Nat /\ MiBToSectors(x) >= SectorsPerMiB /\ MiBToSectors(1) = SectorsPerMiB
    BY <1>x, <2>0, MiBNat, MiBOne DEF x
  <2>5. /\ MiBToSectors(1 + Totals(z)[0]) = MiBToSectors(1)
        /\ MiBToSectors(1 + Totals(z)[1]) = MiBToSectors(1) + MiBToSectors(b)
        /\ MiBToSectors(1 + Totals(z)[2]) = MiBToSectors(1) + (MiBToSectors(b) + MiBToSectors(o))
    <3>1. /\ MiBToSectors(1 + 0) = MiBToSectors(1)
          /\ MiBToSectors(1 + b) = MiBToSectors(1) + MiBToSectors(b)
          /\ MiBToSectors(1 + (b + o)) = MiBToSectors(1) + (MiBToSectors(b) + MiBToSectors(o))
      BY <2>0, MiBPrefix
    <3> QED BY <2>3, <3>1
  <2> DEFINE m1 == MiBToSectors(1)
             mb == MiBToSectors(b)
             mo == MiBToSectors(o)
             mt == MiBToSectors(t)
             mx == MiBToSectors(x)
  <2>6. /\ w[1].name = "boot" /\ w[2].name = "oem" /\ w[3].name = "recovery"
        /\ w[1].size = b /\ w[2].size = o /\ w[3].size = t
    BY <1>w, <2>0, <2>1 DEF NameAt
  <2>7. /\ g[1].name = "boot" /\ g[1].start = m1 /\ g[1].size = mb
        /\ g[2].name = "oem" /\ g[2].start = m1 + mb /\ g[2].size = mo
        /\ g[3].name = "recovery" /\ g[3].start = m1 + mb + mo /\ g[3].size = mt + mx - GptSectors
    BY <2>1
  <2>8. /\ m1 \in Nat /\ mb \in Nat /\ mo \in Nat /\ mt \in Nat /\ mx \in Nat /\ mx >= SectorsPerMiB /\ m1 = SectorsPerMiB
        /\ sectors >= m1 + mb + mo + mt + mx - 1
    BY <2>1, <2>4
  <2>9. /\ MiBToSectors(w[1].size) = mb /\ MiBToSectors(w[2].size) = mo /\ MiBToSectors(w[3].size) = mt
    BY <2>6
  <2> HIDE DEF m1, mb, mo, mt, mx
  <2>10. \A i \in {1, 2, 3} : g[i].name = w[i].name
    BY <2>6, <2>7
  <2>11. g[1].start = m1 + 0 /\ g[2].start = m1 + mb /\ g[3].start = m1 + (mb + mo)
    BY <2>7, <2>8
  <2>12. mb <= g[1].size /\ mo <= g[2].size /\ mt <= g[3].size
    BY <1>g, <2>7, <2>8
  <2>13. g[1].start + g[1].size - 1 < sectors /\ g[2].start + g[2].size - 1 < sectors /\ g[3].start + g[3].size - 1 < sectors
    BY <1>g, <2>7, <2>8
  <2>14. \A i \in {1, 2, 3} : g[i].start = MiBToSectors(1 + Totals(z)[i - 1])
    BY <2>5, <2>11, <2>8 DEF m1, mb, mo
  <2>15. \A i \in {1, 2, 3} : MiBToSectors(w[i].size) <= g[i].size /\ g[i].start + g[i].size - 1 < sectors
    BY <2>9, <2>12, <2>13
  <2>16. DOMAIN g = {1, 2, 3}
    BY <2>1
  <2>17. Len(g) = Len(w)
    BY <1>l, <2>0, <2>2
  <2> QED BY <2>10, <2>14, <2>15, <2>16, <2>17
<1>2. CASE ~s.expandable
  <2> DEFINE b == PartSize["boot"]
             o == PartSize["oem"]
             r == PartSize["recovery"]
             a == PartSize["state"]
             q == SizeOf(s, "persistent")
             x == ExtraOf(s)
  <2>0. n = 5 /\ b \in Nat /\ o \in Nat /\ r \in Nat /\ a \in Nat
    BY <1>0, <1>2, PartSizes
  <2>1. /\ q \in Nat
        /\ MiBToSectors(RawOf(s)) = MiBToSectors(1) + MiBToSectors(b) + MiBToSectors(o) + MiBToSectors(r) + MiBToSectors(a)
                                      + MiBToSectors(q) + MiBToSectors(x)
        /\ z \in Seq(Nat) /\ Len(z) = 5 /\ z[1] = b /\ z[2] = o /\ z[3] = r /\ z[4] = a /\ z[5] = q
        /\ DOMAIN g = 1..5
        /\ g[1] = [name |-> "boot", start |-> MiBToSectors(1), size |-> MiBToSectors(b)]
        /\ g[2] = [name |-> "oem", start |-> MiBToSectors(1) + MiBToSectors(b), size |-> MiBToSectors(o)]
        /\ g[3] = [name |-> "recovery", start |-> MiBToSectors(1) + MiBToSectors(b) + MiBToSectors(o), size |-> MiBToSectors(r)]
        /\ g[4] = [name |-> "state", start |-> MiBToSectors(1) + MiBToSectors(b) + MiBToSectors(o) + MiBToSectors(r),
                   size |-> MiBToSectors(a)]
        /\ g[5] = [name |-> "persistent",
                   start |-> MiBToSectors(1) + MiBToSectors(b) + MiBToSectors(o) + MiBToSectors(r) + MiBToSectors(a),
                   size |-> IF PartSize["persistent"] = 0 THEN MiBToSectors(q) + MiBToSectors(x) - GptSectors ELSE MiBToSectors(q)]
    BY <1>2, <2>0, WholeLaid
  <2>2. Len(g) = 5
    BY <2>1, LaidLen
  <2> HIDE DEF b, o, r, a, q, x, z, w, g
  <2>3. Totals(z)[0] = 0 /\ Totals(z)[1] = b /\ Totals(z)[2] = b + o /\ Totals(z)[3] = b + o + r /\ Totals(z)[4] = b + o + r + a
    BY <2>1, TotalsFive
  <2> DEFINE m1 == MiBToSectors(1)
             mb == MiBToSectors(b)
             mo == MiBToSectors(o)
             mr == MiBToSectors(r)
             ma == MiBToSectors(a)
             mq == MiBToSectors(q)
             mx == MiBToSectors(x)
  <2>4. /\ m1 \in Nat /\ mb \in Nat /\ mo \in Nat /\ mr \in Nat /\ ma \in Nat /\ mq \in Nat
        /\ mx \in Nat /\ mx >= SectorsPerMiB /\ m1 = SectorsPerMiB
    BY <1>x, <2>0, <2>1, MiBNat, MiBOne DEF x
  <2>5. /\ MiBToSectors(1 + Totals(z)[0]) = m1
        /\ MiBToSectors(1 + Totals(z)[1]) = m1 + mb
        /\ MiBToSectors(1 + Totals(z)[2]) = m1 + (mb + mo)
        /\ MiBToSectors(1 + Totals(z)[3]) = m1 + (mb + mo + mr)
        /\ MiBToSectors(1 + Totals(z)[4]) = m1 + (mb + mo + mr + ma)
    <3>1. /\ MiBToSectors(1 + 0) = m1
          /\ MiBToSectors(1 + b) = m1 + mb
          /\ MiBToSectors(1 + (b + o)) = m1 + (mb + mo)
          /\ MiBToSectors(1 + (b + o + r)) = m1 + (mb + mo + mr)
          /\ MiBToSectors(1 + (b + o + r + a)) = m1 + (mb + mo + mr + ma)
      <4>1. b \in Nat /\ o \in Nat /\ r \in Nat /\ a \in Nat
        BY <2>0
      <4>2. MiBToSectors(1 + (b + o + r + a)) = m1 + (mb + mo + mr + ma)
        BY <4>1, MiBPrefix
      <4>3. MiBToSectors(1 + (b + o + r)) = m1 + (mb + mo + mr)
        BY <4>1, MiBPrefix
      <4>4. /\ MiBToSectors(1 + 0) = m1 /\ MiBToSectors(1 + b) = m1 + mb
            /\ MiBToSectors(1 + (b + o)) = m1 + (mb + mo)
        BY <4>1, MiBPrefix, ZenonT(30)
      <4> QED BY <4>2, <4>3, <4>4
    <3> QED BY <2>3, <3>1
  <2>6. /\ w[1].name = "boot" /\ w[2].name = "oem" /\ w[3].name = "recovery" /\ w[4].name = "state" /\ w[5].name = "persistent"
        /\ w[1].size = b /\ w[2].size = o /\ w[3].size = r /\ w[4].size = a /\ w[5].size = q
    BY <1>w, <2>0, <2>1 DEF NameAt
  <2>7. /\ g[1].name = "boot" /\ g[1].start = m1 /\ g[1].size = mb
        /\ g[2].name = "oem" /\ g[2].start = m1 + mb /\ g[2].size = mo
        /\ g[3].name = "recovery" /\ g[3].start = m1 + mb + mo /\ g[3].size = mr
        /\ g[4].name = "state" /\ g[4].start = m1 + mb + mo + mr /\ g[4].size = ma
        /\ g[5].name = "persistent" /\ g[5].start = m1 + mb + mo + mr + ma
        /\ g[5].size = mq + mx - GptSectors \/ g[5].size = mq
    BY <2>1
  <2>8. sectors >= m1 + mb + mo + mr + ma + mq + mx - 1
    <3>1. MiBToSectors(RawOf(s)) = m1 + mb + mo + mr + ma + mq + mx
      BY <2>1
    <3> HIDE DEF m1, mb, mo, mr, ma, mq, mx
    <3> HIDE DEF x
    <3> QED BY <2>4, <3>1
  <2>9. /\ MiBToSectors(w[1].size) = mb /\ MiBToSectors(w[2].size) = mo /\ MiBToSectors(w[3].size) = mr
        /\ MiBToSectors(w[4].size) = ma /\ MiBToSectors(w[5].size) = mq
    BY <2>6
  <2> HIDE DEF m1, mb, mo, mr, ma, mq, mx
  <2>10. \A i \in {1, 2, 3, 4, 5} : g[i].name = w[i].name
    BY <2>6, <2>7
  <2>11. /\ g[1].start = m1 /\ g[2].start = m1 + mb /\ g[3].start = m1 + (mb + mo) /\ g[4].start = m1 + (mb + mo + mr)
         /\ g[5].start = m1 + (mb + mo + mr + ma)
    BY <2>4, <2>7
  <2>12. mb <= g[1].size /\ mo <= g[2].size /\ mr <= g[3].size /\ ma <= g[4].size /\ mq <= g[5].size
    BY <1>g, <2>4, <2>7
  <2>13. /\ g[1].start + g[1].size - 1 < sectors /\ g[2].start + g[2].size - 1 < sectors
         /\ g[3].start + g[3].size - 1 < sectors /\ g[4].start + g[4].size - 1 < sectors
    BY <1>g, <2>4, <2>7, <2>8
  <2>18. g[5].start + g[5].size - 1 < sectors
    BY <1>g, <2>4, <2>7, <2>8
  <2>14. \A i \in {1, 2, 3, 4, 5} : g[i].start = MiBToSectors(1 + Totals(z)[i - 1])
    BY <2>5, <2>11
  <2>15. \A i \in {1, 2, 3, 4, 5} : MiBToSectors(w[i].size) <= g[i].size /\ g[i].start + g[i].size - 1 < sectors
    BY <2>9, <2>12, <2>13, <2>18
  <2>16. DOMAIN g = {1, 2, 3, 4, 5}
    BY <2>1
  <2>17. Len(g) = Len(w)
    BY <1>l, <2>0, <2>2
  <2> QED BY <2>10, <2>14, <2>15, <2>16, <2>17
<1> QED BY <1>1, <1>2

-----------------------------------------------------------------------------
(***************************************************************************)
(* Every step keeps BuildInv                                               *)
(***************************************************************************)

\* What the step at hand changes: it is passed now.
Advances(step) ==
  /\ step \in StepNames /\ ~Passed(step) /\ spec' = spec
  /\ \A s \in StepNames : Passed(s)' <=> (Passed(s) \/ s = step)

\* What the step at hand puts down is there now, the rest is as before.
LEMMA FromSame ==
  ASSUME NEW step, Advances(step), NEW s \in StepNames, NEW thing
  PROVE  /\ s # step => From(s, thing)' = From(s, thing)
         /\ From(step, thing) = {} /\ From(step, thing)' = {thing}
  BY DEF Advances, From

\* The steps that put something in a root.
RootSteps == {"roots", "grubconfig", "grublabels", "efi", "rebrand", "transaction", "cloudinit", "firstentry",
              "expandstage", "recovery", "recoveryyaml", "stateyaml"}

\* The other steps leave all roots as they should be.
LEMMA ContentsSame ==
  ASSUME NEW step, Advances(step), step \notin RootSteps
  PROVE  /\ BootRoot' = BootRoot /\ OemRoot' = OemRoot
         /\ RecoveryRoot' = RecoveryRoot /\ StateRoot' = StateRoot
         /\ Passed("roots")' <=> Passed("roots")
<1>1. RootSteps \subseteq StepNames
  BY StepNamesAre DEF RootSteps
<1>2. \A s \in RootSteps : s # step /\ s \in StepNames
  BY <1>1
<1>3. spec' = spec
  BY DEF Advances
<1>4. /\ From("grubconfig", "grub.cfg")' = From("grubconfig", "grub.cfg")
      /\ From("grublabels", "labels")' = From("grublabels", "labels")
      /\ From("efi", "efi")' = From("efi", "efi")
      /\ From("rebrand", "entry")' = From("rebrand", "entry")
      /\ From("transaction", "snapshots")' = From("transaction", "snapshots")
      /\ From("cloudinit", "cloud-init")' = From("cloudinit", "cloud-init")
      /\ From("firstentry", "next_entry")' = From("firstentry", "next_entry")
      /\ From("expandstage", "stages")' = From("expandstage", "stages")
      /\ From("recovery", "system")' = From("recovery", "system")
      /\ From("transaction", "snapshot")' = From("transaction", "snapshot")
  BY <1>2, FromSame DEF RootSteps
<1>5. YamlFrom("recoveryyaml")' = YamlFrom("recoveryyaml") /\ YamlFrom("stateyaml")' = YamlFrom("stateyaml")
  <2>1. ASSUME NEW s \in RootSteps
        PROVE  /\ From(s, "state.yaml")' = From(s, "state.yaml")
               /\ From(s, "recovery source")' = From(s, "recovery source")
               /\ From(s, "snapshot entry")' = From(s, "snapshot entry")
    <3>1. s \in StepNames /\ s # step
      BY <1>2
    <3>2. \A thing : From(s, thing)' = From(s, thing)
      BY <3>1, FromSame
    <3> QED BY <3>2
  <2> QED BY <1>3, <2>1 DEF YamlFrom, RootSteps
<1>6. Passed("roots")' <=> Passed("roots")
  BY <1>2 DEF Advances, RootSteps
<1> QED BY <1>4, <1>5, <1>6 DEF BootRoot, OemRoot, RecoveryRoot, StateRoot

\* ... so what is in them stays right,
LEMMA RootsSame ==
  ASSUME NEW step, Advances(step), step \notin RootSteps, UNCHANGED roots, RootsNow
  PROVE  RootsNow'
<1>1. (Passed("oemimage") => Passed("oemimage")') /\ (Passed("recoveryimage") => Passed("recoveryimage")')
  BY StepNamesAre DEF Advances
<1>2. spec' = spec
  BY DEF Advances
<1> QED BY <1>1, <1>2, ContentsSame DEF RootsNow

\* The steps that add an image.
ImageStepNames == {"efiimage", "oemimage", "recoveryimage", "stateadd", "persistentimage"}

\* ... the images stay right after steps that add none,
LEMMA ImagesSame ==
  ASSUME NEW step, Advances(step), step \notin ImageStepNames, UNCHANGED images, ImagesNow
  PROVE  ImagesNow'
<1>1. \A s \in ImageStepNames : s \in StepNames /\ s # step
  BY StepNamesAre DEF ImageStepNames
<1>2. \A s \in ImageStepNames : Passed(s)' <=> Passed(s)
  BY <1>1 DEF Advances
<1>3. Made' = Made
  BY <1>2 DEF Made, ImageStepNames
<1> QED BY <1>3 DEF ImagesNow, Advances

\* ... and the file after steps that do not write it,
LEMMA FileSame ==
  ASSUME NEW step, Advances(step), step \notin {"assemble", "table", "convert"}, UNCHANGED <<out, builds>>, FileNow
  PROVE  FileNow'
<1>1. /\ Passed("assemble")' <=> Passed("assemble")
      /\ Passed("table")' <=> Passed("table")
      /\ Passed("convert")' <=> Passed("convert")
  BY StepNamesAre DEF Advances
<1>2. spec' = spec
  BY DEF Advances
<1> QED BY <1>1, <1>2 DEF FileNow

\* ... and the snapshot after all but the transaction.
LEMMA SnapshotSame ==
  ASSUME NEW step, Advances(step), step # "transaction", UNCHANGED snapshot, snapshot <=> Passed("transaction")
  PROVE  (snapshot <=> Passed("transaction"))'
<1>1. Passed("transaction")' <=> Passed("transaction")
  BY StepNamesAre DEF Advances
<1> QED BY <1>1

\* Steps that leave all of it alone.
LEMMA ProgressSame ==
  ASSUME NEW step, Advances(step), step \notin RootSteps, step \notin ImageStepNames,
         step \notin {"assemble", "table", "convert"},
         UNCHANGED <<roots, images, snapshot, source, out, builds>>, Progress
  PROVE  Progress'
<1>1. step # "transaction"
  BY DEF RootSteps
<1>2. RootsNow'
  BY RootsSame DEF Progress
<1>3. ImagesNow'
  BY ImagesSame DEF Progress
<1>4. FileNow'
  BY FileSame DEF Progress
<1>5. (snapshot <=> Passed("transaction"))'
  BY <1>1, SnapshotSame DEF Progress
<1>6. (source = "spec")'
  BY DEF Progress
<1> QED BY <1>2, <1>3, <1>4, <1>5, <1>6 DEF Progress

\* A step that is done goes on.
LEMMA DoneAdvances ==
  ASSUME BuildInv, NEW step \in StepNames, step # "cleanup", Done(step), spec' = spec
  PROVE  /\ Advances(step) /\ bpc = step /\ berr' = berr
         /\ bpc' \in StepNames \ Skipped(spec)
         /\ step \notin Skipped(spec)
         /\ At = Position(step)
<1>1. bpc = step /\ bpc' = After(step) /\ berr' = berr
  BY DEF Done
<1>2. step \notin {"idle", "left"}
  BY StepNamesAre
<1>3. step \notin Skipped(spec)
  BY <1>1, <1>2 DEF BuildInv
<1>4. bpc' \in StepNames \ Skipped(spec) /\ \A s \in StepNames : Passed(s)' <=> (Passed(s) \/ s = step)
  BY <1>1, <1>3, StepDone
<1>5. At = Position(step) /\ Position(step) \in Nat
  BY <1>1, PositionIn DEF At
<1>6. ~Passed(step)
  BY <1>5 DEF Passed
<1> QED BY <1>1, <1>3, <1>4, <1>5, <1>6 DEF Advances

\* The parts of BuildInv that do not depend on what has been built.
Frame ==
  /\ builds \in Nat
  /\ bpc \in (StepNames \ Skipped(spec)) \cup {"idle", "left"}
  /\ bpc \in StepNames => builds > 0
  /\ builds > 0 => spec \in DiskSpecs /\ Sanitized(spec) /\ bpc # "left"
  /\ mounted => busy \/ bpc \in {"transaction", "stateyaml", "unmount"}
  /\ out = [t \in Types |-> out[t]]

\* The invariant is that part and what a build without an error has reached.
LEMMA BuildInvParts == BuildInv <=> Frame /\ ((berr = "nil" /\ ~busy /\ builds > 0) => Progress)
  BY DEF BuildInv, Frame

\* A build goes on after a step, or to its end after an error.
LEMMA FrameKept ==
  ASSUME Frame, NEW step \in StepNames, bpc = step, step \notin {"transaction", "stateyaml", "unmount"},
         bpc' \in StepNames \ Skipped(spec), UNCHANGED <<spec, builds, mounted, busy>>,
         out' = [t \in Types |-> out'[t]]
  PROVE  Frame'
<1>1. builds > 0
  BY DEF Frame
<1>2. "left" \notin StepNames
  BY StepNamesAre
<1> QED BY <1>1, <1>2 DEF Frame

\* A step that fails leaves an error behind, which ends the build.
LEMMA FailKeeps ==
  ASSUME BuildInv, NEW step \in StepNames, Fail(step), step \notin {"transaction", "stateyaml", "unmount"},
         UNCHANGED <<spec, builds, mounted, busy>>, out' = [t \in Types |-> out'[t]]
  PROVE  BuildInv'
<1>1. bpc = step /\ bpc' = "cleanup" /\ berr' = "error"
  BY DEF Fail
<1>2. "cleanup" \in StepNames \ Skipped(spec)
  BY StepNamesAre DEF Skipped
<1>3. Frame'
  BY <1>1, <1>2, BuildInvParts, FrameKept
<1> QED BY <1>1, <1>3 DEF BuildInv, Frame

\* A step that is done keeps the invariant if it makes its part of the progress.
LEMMA DoneKeeps ==
  ASSUME BuildInv, NEW step \in StepNames, step # "cleanup", Done(step), step \notin {"transaction", "stateyaml", "unmount"},
         UNCHANGED <<spec, builds, mounted, busy>>, out' = [t \in Types |-> out'[t]],
         (/\ Advances(step) /\ Progress /\ At = Position(step) /\ step \notin Skipped(spec)
          /\ ~busy /\ builds > 0) => Progress'
  PROVE  BuildInv'
<1>1. /\ Advances(step) /\ bpc = step /\ berr' = berr
      /\ bpc' \in StepNames \ Skipped(spec)
      /\ step \notin Skipped(spec)
      /\ At = Position(step)
  BY DoneAdvances
<1>2. Frame'
  BY <1>1, BuildInvParts, FrameKept
<1>3. (berr = "nil" /\ ~busy /\ builds > 0) => Progress
  BY BuildInvParts
<1> QED BY <1>1, <1>2, <1>3 DEF BuildInv, Frame

\* The step at hand and the steps that are not at hand.
LEMMA FromStep ==
  ASSUME NEW step, Advances(step), NEW s \in StepNames, NEW thing
  PROVE  /\ From(s, thing)' = IF s = step THEN {thing} ELSE From(s, thing)
         /\ s = step => From(s, thing) = {}
  BY FromSame

\* The steps that write to the boot partition.
BootSteps == {"grubconfig", "grublabels", "efi", "rebrand", "transaction"}
OemSteps  == {"cloudinit", "firstentry", "expandstage"}

\* What a step adds to each root.
LEMMA BootGrows ==
  ASSUME NEW step, Advances(step)
  PROVE  /\ step = "grubconfig" => BootRoot' = BootRoot \cup {"grub.cfg"}
         /\ step = "grublabels" => BootRoot' = BootRoot \cup {"labels"}
         /\ step = "efi" => BootRoot' = BootRoot \cup {"efi"}
         /\ step = "rebrand" => BootRoot' = BootRoot \cup {"entry"}
         /\ step = "transaction" => BootRoot' = BootRoot \cup {"snapshots"}
         /\ step \notin BootSteps => BootRoot' = BootRoot
<1>1. BootSteps \subseteq StepNames
  BY StepNamesAre DEF BootSteps
<1> DEFINE a == From("grubconfig", "grub.cfg")
           b == From("grublabels", "labels")
           c == From("efi", "efi")
           d == From("rebrand", "entry")
           e == From("transaction", "snapshots")
<1>2. /\ a' = IF step = "grubconfig" THEN {"grub.cfg"} ELSE a
      /\ step = "grubconfig" => a = {}
      /\ b' = IF step = "grublabels" THEN {"labels"} ELSE b
      /\ step = "grublabels" => b = {}
      /\ c' = IF step = "efi" THEN {"efi"} ELSE c
      /\ step = "efi" => c = {}
      /\ d' = IF step = "rebrand" THEN {"entry"} ELSE d
      /\ step = "rebrand" => d = {}
      /\ e' = IF step = "transaction" THEN {"snapshots"} ELSE e
      /\ step = "transaction" => e = {}
  BY <1>1, FromStep DEF BootSteps
<1>3. BootRoot = a \cup b \cup c \cup d \cup e /\ BootRoot' = a' \cup b' \cup c' \cup d' \cup e'
  BY DEF BootRoot
<1> HIDE DEF a, b, c, d, e
<1> QED BY <1>2, <1>3 DEF BootSteps

\* What the steps of the OEM partition add.
LEMMA OemGrows ==
  ASSUME NEW step, Advances(step)
  PROVE  /\ step = "cloudinit" => OemRoot' = OemRoot \cup {"cloud-init"}
         /\ step = "firstentry" => OemRoot' = OemRoot \cup {"next_entry"}
         /\ step = "expandstage" => OemRoot' = OemRoot \cup {"stages"}
         /\ step \notin OemSteps => OemRoot' = OemRoot
<1>1. OemSteps \subseteq StepNames
  BY StepNamesAre DEF OemSteps
<1> DEFINE a == From("cloudinit", "cloud-init")
           b == From("firstentry", "next_entry")
           c == From("expandstage", "stages")
<1>2. /\ a' = IF step = "cloudinit" THEN {"cloud-init"} ELSE a
      /\ step = "cloudinit" => a = {}
      /\ b' = IF step = "firstentry" THEN {"next_entry"} ELSE b
      /\ step = "firstentry" => b = {}
      /\ c' = IF step = "expandstage" THEN {"stages"} ELSE c
      /\ step = "expandstage" => c = {}
  BY <1>1, FromStep DEF OemSteps
<1>3. OemRoot = a \cup b \cup c /\ OemRoot' = a' \cup b' \cup c'
  BY DEF OemRoot
<1> HIDE DEF a, b, c
<1> QED BY <1>2, <1>3 DEF OemSteps

\* What state.yaml tells of a finished build.
YamlOfSpec == {"state.yaml", "recovery source"} \cup (IF spec.expandable THEN {} ELSE {"snapshot entry"})

\* What a step that writes state.yaml adds ...
LEMMA YamlGrows ==
  ASSUME NEW step, Advances(step), NEW s \in StepNames
  PROVE  YamlFrom(s)' = IF s = step THEN YamlOfSpec ELSE YamlFrom(s)
<1> DEFINE a == From(s, "state.yaml")
           b == From(s, "recovery source")
           c == From(s, "snapshot entry")
<1>1. /\ a' = IF s = step THEN {"state.yaml"} ELSE a
      /\ b' = IF s = step THEN {"recovery source"} ELSE b
      /\ c' = IF s = step THEN {"snapshot entry"} ELSE c
  <2>1. \A thing : From(s, thing)' = IF s = step THEN {thing} ELSE From(s, thing)
    BY FromStep
  <2> QED BY <2>1
<1>2. spec' = spec
  BY DEF Advances
<1>3. /\ YamlFrom(s) = a \cup b \cup (IF spec.expandable THEN {} ELSE c)
      /\ YamlFrom(s)' = a' \cup b' \cup (IF spec'.expandable THEN {} ELSE c')
  BY DEF YamlFrom
<1> HIDE DEF a, b, c
<1> QED BY <1>1, <1>2, <1>3 DEF YamlOfSpec

\* ... where there was nothing of it before.
LEMMA YamlNone ==
  ASSUME NEW s, ~Passed(s)
  PROVE  YamlFrom(s) = {}
  BY DEF YamlFrom, From

\* What the steps of the recovery partition add.
LEMMA RecoveryGrows ==
  ASSUME NEW step, Advances(step)
  PROVE  /\ step = "recovery" => RecoveryRoot' = RecoveryRoot \cup {"system"}
         /\ step = "recoveryyaml" => RecoveryRoot' = RecoveryRoot \cup YamlOfSpec
         /\ step \notin {"recovery", "recoveryyaml"} => RecoveryRoot' = RecoveryRoot
<1> DEFINE a == From("recovery", "system")
           y == YamlFrom("recoveryyaml")
<1>1. "recovery" \in StepNames /\ "recoveryyaml" \in StepNames
  BY StepNamesAre
<1>2. /\ a' = IF step = "recovery" THEN {"system"} ELSE a
      /\ step = "recovery" => a = {}
  BY <1>1, FromStep
<1>3. y' = IF step = "recoveryyaml" THEN YamlOfSpec ELSE y
  BY <1>1, YamlGrows
<1>4. step = "recoveryyaml" => y = {}
  BY YamlNone DEF Advances
<1>5. RecoveryRoot = a \cup y /\ RecoveryRoot' = a' \cup y'
  BY DEF RecoveryRoot
<1> HIDE DEF a, y
<1> QED BY <1>2, <1>3, <1>4, <1>5

\* What the steps of the state partition add.
LEMMA StateGrows ==
  ASSUME NEW step, Advances(step)
  PROVE  /\ step = "transaction" => StateRoot' = StateRoot \cup {"snapshot"}
         /\ step = "stateyaml" => StateRoot' = StateRoot \cup YamlOfSpec
         /\ step \notin {"transaction", "stateyaml"} => StateRoot' = StateRoot
<1> DEFINE a == From("transaction", "snapshot")
           y == YamlFrom("stateyaml")
<1>1. "transaction" \in StepNames /\ "stateyaml" \in StepNames
  BY StepNamesAre
<1>2. /\ a' = IF step = "transaction" THEN {"snapshot"} ELSE a
      /\ step = "transaction" => a = {}
  BY <1>1, FromStep
<1>3. y' = IF step = "stateyaml" THEN YamlOfSpec ELSE y
  BY <1>1, YamlGrows
<1>4. step = "stateyaml" => y = {}
  BY YamlNone DEF Advances
<1>5. StateRoot = a \cup y /\ StateRoot' = a' \cup y'
  BY DEF StateRoot
<1> HIDE DEF a, y
<1> QED BY <1>2, <1>3, <1>4, <1>5

\* The directories.
LEMMA RootNamesAre ==
  ASSUME NEW s
  PROVE  /\ s.expandable => RootNames(s) = {"boot", "oem", "recovery"}
         /\ ~s.expandable => RootNames(s) = {"boot", "oem", "recovery", "state", "persistent"}
         /\ {"boot", "oem", "recovery"} \subseteq RootNames(s)
<1>1. CASE s.expandable
  <2>1. RootNames(s) = {NameAt[i] : i \in 1..3}
    BY <1>1 DEF RootNames, Count
  <2> QED BY <1>1, <2>1 DEF NameAt
<1>2. CASE ~s.expandable
  <2>1. RootNames(s) = {NameAt[i] : i \in 1..5}
    BY <1>2 DEF RootNames, Count
  <2> QED BY <1>2, <2>1 DEF NameAt
<1> QED BY <1>1, <1>2

\* A root is made for each partition that is built.
LEMMA BuiltNames ==
  ASSUME NEW s
  PROVE  {Built(s)[i].name : i \in DOMAIN Built(s)} = RootNames(s)
<1> DEFINE Item == [name : PartNames, size : Nat]
<1>0. AllParts \in Seq(Item) /\ Len(AllParts) = 5
  BY AllPartsAre
<1>1. Count(s) \in {3, 5}
  BY DEF Count
<1>2. DOMAIN Built(s) = 1..Count(s) /\ \A i \in 1..Count(s) : Built(s)[i] = AllParts[i]
  <2> HIDE DEF Item
  <2>1. CASE s.expandable
    BY <1>0, <2>1, BuiltIs DEF Count
  <2>2. CASE ~s.expandable
    BY <1>0, <2>2, BuiltIs DEF Count
  <2> QED BY <2>1, <2>2
<1>3. \A i \in 1..Count(s) : i \in 1..5
  BY <1>1
<1>4. \A i \in 1..Count(s) : Built(s)[i].name = NameAt[i]
  BY <1>2, <1>3, AllPartsAre
<1> QED BY <1>2, <1>4 DEF RootNames

\* A step that only writes to roots.
LEMMA PutKeeps ==
  ASSUME NEW step \in RootSteps, Advances(step), Progress, RootsNow', UNCHANGED <<images, source, out, builds>>,
         (snapshot <=> Passed("transaction"))'
  PROVE  Progress'
<1>1. step \notin ImageStepNames /\ step \notin {"assemble", "table", "convert"}
  BY DEF RootSteps, ImageStepNames
<1>2. ImagesNow'
  BY <1>1, ImagesSame DEF Progress
<1>3. FileNow'
  BY <1>1, FileSame DEF Progress
<1> QED BY <1>2, <1>3 DEF Progress

\* What is passed when a build is at a step.
LEMMA PassedAt ==
  ASSUME NEW step \in StepNames, At = Position(step), NEW s \in StepNames
  PROVE  Passed(s) <=> Position(s) < Position(step) /\ s \notin Skipped(spec)
  BY DEF Passed

\* Steps no spec skips.
LEMMA NeverSkipped ==
  {"roots", "cloudinit", "grubconfig", "grublabels", "efi", "rebrand", "recovery", "recoveryyaml", "efiimage", "oemimage", "recoveryimage",
   "removeold", "assemble", "table", "posthook", "convert"} \cap Skipped(spec) = {}
  BY DEF Skipped

\* Writes to the roots: cloud config, boot loader, recovery system.
LEMMA WriteKeeps ==
  ASSUME NEW step \in DOMAIN Writes, Advances(step), Progress, At = Position(step),
         Put(Writes[step][1], {Writes[step][2]}), UNCHANGED <<images, snapshot, source, out, builds>>
  PROVE  Progress'
<1>1. DOMAIN Writes = {"cloudinit", "grubconfig", "firstentry", "grublabels", "efi", "rebrand", "recovery", "expandstage"}
  BY DEF Writes
<1>2. step \in StepNames /\ step \in RootSteps /\ step # "transaction" /\ step # "roots"
  BY <1>1, StepNamesAre DEF RootSteps
<1>3. Position(step) > 3 /\ Position(step) < 16
  BY <1>1, PositionIs
<1>4. Passed("roots") /\ ~Passed("oemimage") /\ ~Passed("recoveryimage")
  BY <1>2, <1>3, PassedAt, StepNamesAre, PositionIs, NeverSkipped
<1>5. RootsNow
  BY DEF Progress
<1>6. /\ roots = [p \in RootNames(spec) |-> roots[p]]
      /\ roots["boot"] = BootRoot
      /\ roots["oem"] = OemRoot
      /\ roots["recovery"] = RecoveryRoot
      /\ ~spec.expandable => roots["state"] = StateRoot /\ roots["persistent"] = {}
  BY <1>4, <1>5 DEF RootsNow
<1>7. spec' = spec
  BY DEF Advances
<1>8. StateRoot' = StateRoot
  BY <1>1, StateGrows
<1> DEFINE where == Writes[step][1]
           what  == Writes[step][2]
<1>9. /\ where \in {"boot", "oem", "recovery"}
      /\ BootRoot' = IF where = "boot" THEN BootRoot \cup {what} ELSE BootRoot
      /\ OemRoot' = IF where = "oem" THEN OemRoot \cup {what} ELSE OemRoot
      /\ RecoveryRoot' = IF where = "recovery" THEN RecoveryRoot \cup {what} ELSE RecoveryRoot
  <2> USE DEF BootSteps, OemSteps, Writes
  <2>1. CASE step \in {"cloudinit", "firstentry", "expandstage"}
    BY <2>1, BootGrows, OemGrows, RecoveryGrows
  <2>2. CASE step \in {"grubconfig", "grublabels", "efi", "rebrand"}
    BY <2>2, BootGrows, OemGrows, RecoveryGrows
  <2>3. CASE step = "recovery"
    BY <2>3, BootGrows, OemGrows, RecoveryGrows
  <2> QED BY <1>1, <2>1, <2>2, <2>3
<1>10. roots' = [roots EXCEPT ![where] = roots[where] \cup {what}]
  BY DEF Put
<1> HIDE DEF where, what
<1>11. where \in RootNames(spec) /\ {"boot", "oem", "recovery"} \subseteq RootNames(spec)
  BY <1>9, RootNamesAre
<1>12. roots' = [p \in RootNames(spec) |-> roots'[p]]
  BY <1>6, <1>10
<1>13. \A p \in RootNames(spec) : roots'[p] = IF p = where THEN roots[p] \cup {what} ELSE roots[p]
  BY <1>6, <1>10
<1>14. roots'["boot"] = BootRoot' /\ roots'["oem"] = OemRoot' /\ roots'["recovery"] = RecoveryRoot'
  BY <1>6, <1>9, <1>11, <1>13
<1>15. ~spec.expandable => roots'["state"] = StateRoot' /\ roots'["persistent"] = {}
  <2>1. ~spec.expandable => "state" \in RootNames(spec) /\ "persistent" \in RootNames(spec)
    BY RootNamesAre
  <2> QED BY <1>6, <1>8, <1>9, <1>13, <2>1
<1>16. RootsNow'
  BY <1>7, <1>12, <1>14, <1>15 DEF RootsNow
<1>17. (snapshot <=> Passed("transaction"))'
  BY <1>2, SnapshotSame DEF Progress
<1> QED BY <1>2, <1>16, <1>17, PutKeeps

\* The roots are made.
LEMMA RootsMade ==
  ASSUME Advances("roots"), Progress, At = Position("roots"),
         roots' = [p \in {Built(spec)[i].name : i \in DOMAIN Built(spec)} |-> {}],
         UNCHANGED <<images, snapshot, source, out, builds>>
  PROVE  Progress'
<1>1. "roots" \in StepNames /\ "roots" \in RootSteps
  BY StepNamesAre DEF RootSteps
<1>2. \A s \in RootSteps \ {"roots"} : s \in StepNames /\ ~Passed(s)
  <2>1. \A s \in RootSteps : s \in StepNames
    BY StepNamesAre DEF RootSteps
  <2>2. \A s \in RootSteps \ {"roots"} : ~(Position(s) < 3)
    BY PositionIs DEF RootSteps
  <2> QED BY <1>1, <2>1, <2>2, PassedAt, PositionIs
<1>3. \A s \in RootSteps \ {"roots"} : ~Passed(s)'
  BY <1>2 DEF Advances
<1>4. BootRoot' = {} /\ OemRoot' = {} /\ RecoveryRoot' = {} /\ StateRoot' = {}
  <2>1. \A s \in RootSteps \ {"roots"} : \A t : From(s, t)' = {}
    BY <1>3 DEF From
  <2>2. BootRoot' = {} /\ OemRoot' = {}
    BY <2>1 DEF BootRoot, OemRoot, RootSteps
  <2>3. YamlFrom("recoveryyaml")' = {} /\ YamlFrom("stateyaml")' = {}
    <3>1. ~Passed("recoveryyaml")' /\ ~Passed("stateyaml")'
      BY <1>3 DEF RootSteps
    <3> QED BY <3>1 DEF YamlFrom, From
  <2> QED BY <2>1, <2>2, <2>3 DEF RecoveryRoot, StateRoot, RootSteps
<1>5. spec' = spec
  BY DEF Advances
<1>6. roots' = [p \in RootNames(spec) |-> {}]
  BY BuiltNames
<1>7. {"boot", "oem", "recovery"} \subseteq RootNames(spec) /\ (~spec.expandable => {"state", "persistent"} \subseteq RootNames(spec))
  BY RootNamesAre
<1>8. RootsNow'
  BY <1>4, <1>5, <1>6, <1>7 DEF RootsNow
<1>9. (snapshot <=> Passed("transaction"))'
  BY SnapshotSame DEF Progress
<1> QED BY <1>1, <1>8, <1>9, PutKeeps

\* The snapshot in the state image.
LEMMA TransactionMade ==
  ASSUME Advances("transaction"), Progress, At = Position("transaction"), "transaction" \notin Skipped(spec), snapshot' = TRUE,
         roots' = [roots EXCEPT !["boot"] = @ \cup {"snapshots"}, !["state"] = @ \cup {"snapshot"}],
         UNCHANGED <<images, source, out, builds>>
  PROVE  Progress'
<1>1. "transaction" \in StepNames /\ "transaction" \in RootSteps
  BY StepNamesAre DEF RootSteps
<1>2. ~spec.expandable
  BY DEF Skipped
<1>3. Passed("roots") /\ ~Passed("oemimage") /\ ~Passed("recoveryimage")
  BY <1>1, PassedAt, StepNamesAre, PositionIs, NeverSkipped
<1>4. /\ roots = [p \in RootNames(spec) |-> roots[p]]
      /\ roots["boot"] = BootRoot
      /\ roots["oem"] = OemRoot
      /\ roots["recovery"] = RecoveryRoot
      /\ roots["state"] = StateRoot /\ roots["persistent"] = {}
  BY <1>2, <1>3 DEF RootsNow, Progress
<1>5. RootNames(spec) = {"boot", "oem", "recovery", "state", "persistent"}
  BY <1>2, RootNamesAre
<1>6. /\ BootRoot' = BootRoot \cup {"snapshots"} /\ OemRoot' = OemRoot /\ RecoveryRoot' = RecoveryRoot
      /\ StateRoot' = StateRoot \cup {"snapshot"}
  BY BootGrows, OemGrows, RecoveryGrows, StateGrows DEF OemSteps
<1>7. roots' = [p \in RootNames(spec) |-> roots'[p]]
  BY <1>4
<1>8. /\ roots'["boot"] = BootRoot \cup {"snapshots"} /\ roots'["oem"] = OemRoot /\ roots'["recovery"] = RecoveryRoot
      /\ roots'["state"] = StateRoot \cup {"snapshot"} /\ roots'["persistent"] = {}
  BY <1>4, <1>5
<1>9. spec' = spec
  BY DEF Advances
<1>10. RootsNow'
  BY <1>6, <1>7, <1>8, <1>9 DEF RootsNow
<1>11. Passed("transaction")'
  BY <1>1 DEF Advances
<1> QED BY <1>1, <1>10, <1>11, PutKeeps

\* Both copies of state.yaml.
LEMMA YamlIs ==
  ASSUME Progress, NEW step \in {"stateyaml", "recoveryyaml"}, At = Position(step), step \notin Skipped(spec)
  PROVE  Yaml = YamlOfSpec
<1>1. step \in StepNames /\ "transaction" \in StepNames /\ Position("transaction") < Position(step)
  BY StepNamesAre, PositionIs
<1>2. "transaction" \in Skipped(spec) <=> spec.expandable
  BY DEF Skipped
<1>3. snapshot <=> ~spec.expandable
  BY <1>1, <1>2, PassedAt DEF Progress
<1>4. source = "spec"
  BY DEF Progress
<1> QED BY <1>3, <1>4 DEF Yaml, YamlOfSpec

\* The two steps that write state.yaml.
LEMMA YamlKeeps ==
  ASSUME NEW step \in {"stateyaml", "recoveryyaml"}, Advances(step), Progress, At = Position(step), step \notin Skipped(spec),
         Put(IF step = "stateyaml" THEN "state" ELSE "recovery", Yaml), UNCHANGED <<images, snapshot, source, out, builds>>
  PROVE  Progress'
<1>1. step \in StepNames /\ step \in RootSteps
  BY StepNamesAre DEF RootSteps
<1>2. step = "stateyaml" => ~spec.expandable
  BY DEF Skipped
<1>3. Passed("roots") /\ ~Passed("oemimage") /\ ~Passed("recoveryimage")
  BY <1>1, PassedAt, StepNamesAre, PositionIs, NeverSkipped
<1>4. /\ roots = [p \in RootNames(spec) |-> roots[p]]
      /\ roots["boot"] = BootRoot
      /\ roots["oem"] = OemRoot
      /\ roots["recovery"] = RecoveryRoot
      /\ ~spec.expandable => roots["state"] = StateRoot /\ roots["persistent"] = {}
  BY <1>3 DEF RootsNow, Progress
<1> DEFINE where == IF step = "stateyaml" THEN "state" ELSE "recovery"
<1>5. /\ BootRoot' = BootRoot /\ OemRoot' = OemRoot
      /\ RecoveryRoot' = IF where = "recovery" THEN RecoveryRoot \cup YamlOfSpec ELSE RecoveryRoot
      /\ StateRoot' = IF where = "state" THEN StateRoot \cup YamlOfSpec ELSE StateRoot
  BY BootGrows, OemGrows, RecoveryGrows, StateGrows DEF OemSteps, BootSteps
<1>6. where \in RootNames(spec) /\ {"boot", "oem", "recovery"} \subseteq RootNames(spec)
      /\ (~spec.expandable => {"state", "persistent"} \subseteq RootNames(spec))
  BY <1>2, RootNamesAre
<1>7. roots' = [roots EXCEPT ![where] = roots[where] \cup YamlOfSpec]
  BY YamlIs DEF Put
<1>8. where \in {"state", "recovery"}
  OBVIOUS
<1> HIDE DEF where
<1>9. /\ roots' = [p \in RootNames(spec) |-> roots'[p]]
      /\ \A p \in RootNames(spec) : roots'[p] = IF p = where THEN roots[p] \cup YamlOfSpec ELSE roots[p]
  BY <1>4, <1>7
<1>10. roots'["boot"] = BootRoot' /\ roots'["oem"] = OemRoot' /\ roots'["recovery"] = RecoveryRoot'
  BY <1>4, <1>5, <1>6, <1>8, <1>9
<1>11. ~spec.expandable => roots'["state"] = StateRoot' /\ roots'["persistent"] = {}
  BY <1>4, <1>5, <1>6, <1>8, <1>9
<1>12. spec' = spec
  BY DEF Advances
<1>13. RootsNow'
  BY <1>9, <1>10, <1>11, <1>12 DEF RootsNow
<1>14. (snapshot <=> Passed("transaction"))'
  BY SnapshotSame DEF Progress
<1> QED BY <1>1, <1>13, <1>14, PutKeeps

\* At the images all steps that write to a root are passed.
LEMMA RootsExpected ==
  ASSUME Progress, NEW step \in ImageStepNames, At = Position(step)
  PROVE  /\ Passed("roots")
         /\ BootRoot = Expected(spec, "boot") /\ OemRoot = Expected(spec, "oem")
         /\ RecoveryRoot = Expected(spec, "recovery")
         /\ ~spec.expandable => StateRoot = Expected(spec, "state")
         /\ Expected(spec, "persistent") = {}
<1>0. step \in StepNames /\ Position(step) > 20
  BY StepNamesAre, PositionIs DEF ImageStepNames
<1>1. \A s \in RootSteps : s \in StepNames /\ Position(s) <= 20
  BY StepNamesAre, PositionIs DEF RootSteps
<1>2. \A s \in RootSteps : Passed(s) <=> s \notin Skipped(spec)
  <2> SUFFICES ASSUME NEW s \in RootSteps PROVE Passed(s) <=> s \notin Skipped(spec)
    OBVIOUS
  <2>1. Position(s) \in Nat /\ Position(step) \in Nat
    BY <1>0, <1>1, PositionIn
  <2> QED BY <1>0, <1>1, <2>1, PassedAt
<1>3. \A s \in RootSteps : \A t : From(s, t) = IF s \in Skipped(spec) THEN {} ELSE {t}
  BY <1>2 DEF From
<1>4. /\ \A s \in {"transaction", "stateyaml"} : s \in Skipped(spec) <=> spec.expandable
      /\ \A s \in {"firstentry", "expandstage"} : s \in Skipped(spec) <=> ~spec.expandable
      /\ \A s \in RootSteps \ {"transaction", "stateyaml", "firstentry", "expandstage"} : s \notin Skipped(spec)
  BY DEF Skipped, RootSteps
<1>5. BootRoot = Expected(spec, "boot")
  <2>1. BootRoot = {"grub.cfg"} \cup {"labels"} \cup {"efi"} \cup {"entry"} \cup (IF spec.expandable THEN {} ELSE {"snapshots"})
    BY <1>3, <1>4 DEF BootRoot, RootSteps
  <2> QED BY <2>1, ExpectedIs
<1>6. OemRoot = Expected(spec, "oem")
  <2>1. OemRoot = {"cloud-init"} \cup (IF spec.expandable THEN {"next_entry"} ELSE {}) \cup (IF spec.expandable THEN {"stages"} ELSE {})
    BY <1>3, <1>4 DEF OemRoot, RootSteps
  <2> QED BY <2>1, ExpectedIs
<1>7. YamlFrom("recoveryyaml") = {"state.yaml", "recovery source"} \cup (IF spec.expandable THEN {} ELSE {"snapshot entry"})
  <2>1. Passed("recoveryyaml")
    BY <1>2, <1>4 DEF RootSteps
  <2> QED BY <2>1 DEF YamlFrom, From
<1>8. RecoveryRoot = Expected(spec, "recovery")
  <2>1. From("recovery", "system") = {"system"}
    BY <1>3, <1>4 DEF RootSteps
  <2> QED BY <1>7, <2>1, ExpectedIs DEF RecoveryRoot
<1>9. ASSUME ~spec.expandable PROVE StateRoot = Expected(spec, "state")
  <2>1. YamlFrom("stateyaml") = {"state.yaml", "recovery source", "snapshot entry"}
    <3>1. Passed("stateyaml")
      BY <1>2, <1>4, <1>9 DEF RootSteps
    <3> QED BY <1>9, <3>1 DEF YamlFrom, From
  <2>2. From("transaction", "snapshot") = {"snapshot"}
    BY <1>3, <1>4, <1>9 DEF RootSteps
  <2> QED BY <1>9, <2>1, <2>2, ExpectedIs DEF StateRoot
<1>10. Passed("roots")
  BY <1>2, <1>4 DEF RootSteps
<1> QED BY <1>5, <1>6, <1>8, <1>9, <1>10, ExpectedIs

\* The place of the image each step adds.
ImageNumber == [efiimage |-> 1, oemimage |-> 2, recoveryimage |-> 3, stateadd |-> 4, persistentimage |-> 5]

\* The step at hand adds the next image.
LEMMA MadeAt ==
  ASSUME NEW step \in ImageStepNames, Advances(step), At = Position(step), step \notin Skipped(spec)
  PROVE  Made = ImageNumber[step] - 1 /\ Made' = ImageNumber[step]
<1>1. ImageStepNames \subseteq StepNames
  BY StepNamesAre DEF ImageStepNames
<1>2. \A s \in ImageStepNames : Passed(s) <=> Position(s) < Position(step) /\ s \notin Skipped(spec)
  BY <1>1, PassedAt
<1>3. \A s \in ImageStepNames : Passed(s)' <=> Passed(s) \/ s = step
  BY <1>1 DEF Advances
<1>4. step \in {"stateadd", "persistentimage"} => "stateadd" \notin Skipped(spec) /\ "persistentimage" \notin Skipped(spec)
  BY DEF Skipped
<1>5. {"efiimage", "oemimage", "recoveryimage"} \cap Skipped(spec) = {}
  BY DEF Skipped
<1>6. \A s \in ImageStepNames : (Passed(s) <=> ImageNumber[s] < ImageNumber[step]) /\ (Passed(s)' <=> ImageNumber[s] <= ImageNumber[step])
  BY <1>2, <1>3, <1>4, <1>5, PositionIs DEF ImageStepNames, ImageNumber
<1>7. step \in {"efiimage", "oemimage", "recoveryimage", "stateadd", "persistentimage"}
  BY DEF ImageStepNames
<1> QED BY <1>6, <1>7 DEF Made, ImageStepNames, ImageNumber

\* The list of images with one more.
LEMMA ImageAdded ==
  ASSUME NEW step \in ImageStepNames, Advances(step), At = Position(step), step \notin Skipped(spec), ImagesNow,
         images' = Append(images, WantImage(spec, ImageNumber[step]))
  PROVE  ImagesNow'
<1> DEFINE k == ImageNumber[step]
<1>1. k \in 1..5
  BY DEF ImageNumber, ImageStepNames
<1>2. images = WantImages(spec, k - 1)
  BY MadeAt DEF ImagesNow
<1> HIDE DEF k
<1>3. k - 1 \in Nat /\ k \in Nat
  BY <1>1
<1>4. Append(WantImages(spec, k - 1), WantImage(spec, k)) = WantImages(spec, k)
  <2> DEFINE W(i) == WantImage(spec, i)
  <2>1. WantImages(spec, k - 1) = [i \in 1..(k - 1) |-> W(i)] /\ WantImages(spec, k) = [i \in 1..k |-> W(i)]
    BY DEF WantImages
  <2>2. Append([i \in 1..(k - 1) |-> W(i)], W(k)) = [i \in 1..k |-> W(i)]
    <3> HIDE DEF W
    <3>1. Len([i \in 1..(k - 1) |-> W(i)]) = k - 1
      BY <1>3
    <3>2. (k - 1) + 1 = k
      BY <1>3
    <3>3. Append([i \in 1..(k - 1) |-> W(i)], W(k)) = [i \in 1..k |-> IF i = k THEN W(k) ELSE [j \in 1..(k - 1) |-> W(j)][i]]
      BY <1>3, <3>1, <3>2
    <3> QED BY <1>3, <3>3
  <2> QED BY <2>1, <2>2
<1>5. Made' = k
  BY MadeAt DEF k
<1>6. images' = WantImages(spec, k) /\ spec' = spec
  BY <1>2, <1>4 DEF k, Advances
<1> QED BY <1>5, <1>6 DEF ImagesNow

\* The size of an image is the one of the plan.
LEMMA ImageSizeIs == \A name : ImageSize(name) = SizeOf(spec, name)
  BY DEF ImageSize, SizeOf

\* The image of a directory.
LEMMA ImageKeeps ==
  ASSUME NEW step \in DOMAIN ImageOf, Advances(step), Progress, At = Position(step), step \notin Skipped(spec),
         images' = Append(images, Image(ImageOf[step], roots[ImageOf[step]])),
         roots' = IF ImageOf[step] = "boot" THEN roots ELSE [roots EXCEPT ![ImageOf[step]] = {}],
         UNCHANGED <<snapshot, source, out, builds>>
  PROVE  Progress'
<1> DEFINE name == ImageOf[step]
<1>0. DOMAIN ImageOf = {"efiimage", "oemimage", "recoveryimage", "persistentimage"}
  BY DEF ImageOf
<1>1. /\ step \in ImageStepNames /\ step \in StepNames /\ step \notin RootSteps /\ step \notin {"assemble", "table", "convert"}
      /\ name = NameAt[ImageNumber[step]]
      /\ name \in {"boot", "oem", "recovery", "persistent"}
  BY <1>0, StepNamesAre DEF ImageStepNames, RootSteps, ImageOf, NameAt, ImageNumber
<1>2. /\ step = "oemimage" <=> name = "oem"
      /\ step = "recoveryimage" <=> name = "recovery"
      /\ step = "persistentimage" <=> name = "persistent"
      /\ step = "efiimage" <=> name = "boot"
  BY <1>0 DEF ImageOf
<1>3. /\ step = "oemimage" => ~Passed("oemimage")
      /\ step = "recoveryimage" => ~Passed("recoveryimage")
      /\ step = "persistentimage" => ~spec.expandable
  BY DEF Advances, Skipped
<1>4. Passed("roots") /\ RootsNow
  BY <1>1, RootsExpected DEF Progress
<1>5. roots[name] = Expected(spec, name)
  <2>1. CASE name = "boot"
    BY <1>1, <1>4, <2>1, RootsExpected DEF RootsNow
  <2>2. CASE name = "oem"
    BY <1>1, <1>2, <1>3, <1>4, <2>2, RootsExpected DEF RootsNow
  <2>3. CASE name = "recovery"
    BY <1>1, <1>2, <1>3, <1>4, <2>3, RootsExpected DEF RootsNow
  <2>4. CASE name = "persistent"
    BY <1>1, <1>2, <1>3, <1>4, <2>4, RootsExpected DEF RootsNow
  <2> QED BY <1>1, <2>1, <2>2, <2>3, <2>4
<1>6. Image(name, roots[name]) = WantImage(spec, ImageNumber[step])
  BY <1>1, <1>5, ImageSizeIs DEF Image, WantImage
<1>7. ImagesNow'
  <2>1. images' = Append(images, WantImage(spec, ImageNumber[step]))
    BY <1>6
  <2> QED BY <1>1, <2>1, ImageAdded DEF Progress
<1>8. RootsNow'
  <2>1. /\ BootRoot' = BootRoot /\ OemRoot' = OemRoot /\ RecoveryRoot' = RecoveryRoot /\ StateRoot' = StateRoot
        /\ Passed("roots")' <=> Passed("roots")
    BY <1>1, ContentsSame
  <2>2. /\ Passed("oemimage")' <=> Passed("oemimage") \/ name = "oem"
        /\ Passed("recoveryimage")' <=> Passed("recoveryimage") \/ name = "recovery"
    BY <1>2, StepNamesAre DEF Advances
  <2>3. spec' = spec
    BY DEF Advances
  <2>4. {"boot", "oem", "recovery"} \subseteq RootNames(spec) /\ (~spec.expandable => {"state", "persistent"} \subseteq RootNames(spec))
    BY RootNamesAre
  <2> HIDE DEF name
  <2>5. roots' = IF name = "boot" THEN roots ELSE [roots EXCEPT ![name] = {}]
    BY DEF name
  <2>6. /\ roots' = [p \in RootNames(spec) |-> roots'[p]]
        /\ \A p \in RootNames(spec) : roots'[p] = IF p = name /\ name # "boot" THEN {} ELSE roots[p]
    BY <1>4, <2>5 DEF RootsNow
  <2>7. roots'["boot"] = BootRoot'
    BY <1>4, <2>1, <2>4, <2>6 DEF RootsNow
  <2>8. ~Passed("oemimage")' => roots'["oem"] = OemRoot'
    BY <1>4, <2>1, <2>2, <2>4, <2>6 DEF RootsNow
  <2>9. ~Passed("recoveryimage")' => roots'["recovery"] = RecoveryRoot'
    BY <1>4, <2>1, <2>2, <2>4, <2>6 DEF RootsNow
  <2>10. ~spec.expandable => roots'["state"] = StateRoot' /\ roots'["persistent"] = {}
    BY <1>1, <1>4, <2>1, <2>4, <2>6 DEF RootsNow
  <2> QED BY <2>3, <2>6, <2>7, <2>8, <2>9, <2>10 DEF RootsNow
<1>9. FileNow'
  BY <1>1, FileSame DEF Progress
<1>10. (snapshot <=> Passed("transaction"))'
  BY <1>1, SnapshotSame DEF Progress, RootSteps
<1> QED BY <1>7, <1>8, <1>9, <1>10 DEF Progress

\* The state image, which was made before.
LEMMA StateAdded ==
  ASSUME Advances("stateadd"), Progress, At = Position("stateadd"), "stateadd" \notin Skipped(spec),
         images' = Append(images, Image("state", roots["state"])),
         UNCHANGED <<roots, snapshot, source, out, builds>>
  PROVE  Progress'
<1>1. /\ "stateadd" \in ImageStepNames /\ "stateadd" \notin RootSteps
      /\ "state" = NameAt[ImageNumber["stateadd"]]
  BY DEF ImageStepNames, RootSteps, NameAt, ImageNumber
<1>2. ~spec.expandable
  BY DEF Skipped
<1>3. roots["state"] = Expected(spec, "state")
  BY <1>1, <1>2, RootsExpected DEF Progress, RootsNow
<1>4. Image("state", roots["state"]) = WantImage(spec, ImageNumber["stateadd"])
  BY <1>1, <1>3, ImageSizeIs DEF Image, WantImage
<1>5. ImagesNow'
  <2>1. images' = Append(images, WantImage(spec, ImageNumber["stateadd"]))
    BY <1>4
  <2> QED BY <1>1, <2>1, ImageAdded DEF Progress
<1>6. RootsNow'
  BY <1>1, RootsSame DEF Progress
<1>7. FileNow'
  BY FileSame DEF Progress
<1>8. (snapshot <=> Passed("transaction"))'
  BY SnapshotSame DEF Progress
<1> QED BY <1>5, <1>6, <1>7, <1>8 DEF Progress

\* The steps of the file leave the rest alone.
LEMMA FileStepKeeps ==
  ASSUME NEW step \in {"removeold", "assemble", "table", "convert"}, Advances(step), Progress,
         UNCHANGED <<roots, images, snapshot, source>>, FileNow'
  PROVE  Progress'
<1>1. step \notin RootSteps /\ step \notin ImageStepNames /\ step # "transaction"
  BY DEF RootSteps, ImageStepNames
<1>2. RootsNow'
  BY <1>1, RootsSame DEF Progress
<1>3. ImagesNow'
  BY <1>1, ImagesSame DEF Progress
<1>4. (snapshot <=> Passed("transaction"))'
  BY <1>1, SnapshotSame DEF Progress
<1> QED BY <1>2, <1>3, <1>4 DEF Progress

\* What is passed at and after the steps of the file.
LEMMA FilePassed ==
  ASSUME NEW step \in {"removeold", "assemble", "table", "convert"}, Advances(step), At = Position(step)
  PROVE  /\ Passed("assemble") <=> step \in {"table", "convert"}
         /\ Passed("table") <=> step = "convert"
         /\ ~Passed("convert")
         /\ Passed("assemble")' <=> step # "removeold"
         /\ Passed("table")' <=> step \in {"table", "convert"}
         /\ Passed("convert")' <=> step = "convert"
<1>1. step \in StepNames /\ "assemble" \in StepNames /\ "table" \in StepNames /\ "convert" \in StepNames
  BY StepNamesAre
<1>2. "assemble" \notin Skipped(spec) /\ "table" \notin Skipped(spec) /\ "convert" \notin Skipped(spec)
  BY DEF Skipped
<1>3. /\ Passed("assemble") <=> step \in {"table", "convert"}
      /\ Passed("table") <=> step = "convert"
      /\ ~Passed("convert")
  BY <1>1, <1>2, PassedAt, PositionIs
<1> QED BY <1>1, <1>3 DEF Advances

\* All images are made by then.
LEMMA ImagesMade ==
  ASSUME NEW step \in {"removeold", "assemble", "table", "convert"}, At = Position(step), ImagesNow
  PROVE  images = WantImages(spec, Count(spec))
<1>1. step \in StepNames /\ ImageStepNames \subseteq StepNames
  BY StepNamesAre DEF ImageStepNames
<1>2. \A s \in ImageStepNames : Position(s) < Position(step)
  BY PositionIs DEF ImageStepNames
<1>3. \A s \in ImageStepNames : Passed(s) <=> s \notin Skipped(spec)
  BY <1>1, <1>2, PassedAt
<1>4. /\ "persistentimage" \in Skipped(spec) <=> spec.expandable
      /\ "stateadd" \in Skipped(spec) <=> spec.expandable
      /\ "recoveryimage" \notin Skipped(spec)
  BY DEF Skipped
<1>5. Made = Count(spec)
  BY <1>3, <1>4 DEF Made, Count, ImageStepNames
<1> QED BY <1>5 DEF ImagesNow

\* The file of an earlier build is removed before a new one is written.
LEMMA OldRemoved ==
  ASSUME Advances("removeold"), Progress, At = Position("removeold"), UNCHANGED <<roots, images, snapshot, source, builds>>
  PROVE  Progress'
<1>1. ~Passed("assemble")' /\ ~Passed("table")' /\ ~Passed("convert")'
  BY FilePassed
<1>2. FileNow'
  BY <1>1 DEF FileNow
<1> QED BY <1>2, FileStepKeeps

\* Changes to the record of a file.
RecordOf(b, w, ps, im, n) == [build |-> b, whole |-> w, parts |-> ps, images |-> im, sectors |-> n]

\* A record with fields replaced: the images and the size,
LEMMA RecordBuild ==
  ASSUME NEW f, NEW a, NEW w, NEW ps, NEW im, NEW n, NEW b, f = RecordOf(a, w, ps, im, n)
  PROVE  [f EXCEPT !.build = b] = RecordOf(b, w, ps, im, n)
<1>1. f = [build |-> a, whole |-> w, parts |-> ps, images |-> im, sectors |-> n]
  BY DEF RecordOf
<1>2. [f EXCEPT !.build = b] = [build |-> b, whole |-> w, parts |-> ps, images |-> im, sectors |-> n]
  BY <1>1
<1> QED BY <1>2 DEF RecordOf

\* the size alone,
LEMMA RecordSectors ==
  ASSUME NEW f, NEW a, NEW w, NEW ps, NEW im, NEW n, NEW k, f = RecordOf(a, w, ps, im, n)
  PROVE  [f EXCEPT !.sectors = k] = RecordOf(a, w, ps, im, k)
<1>1. f = [build |-> a, whole |-> w, parts |-> ps, images |-> im, sectors |-> n]
  BY DEF RecordOf
<1>2. [f EXCEPT !.sectors = k] = [build |-> a, whole |-> w, parts |-> ps, images |-> im, sectors |-> k]
  BY <1>1
<1> QED BY <1>2 DEF RecordOf

\* and the size of a record of a file.
LEMMA RecordSize ==
  ASSUME NEW f, NEW a, NEW w, NEW ps, NEW im, NEW n, f = RecordOf(a, w, ps, im, n)
  PROVE  f.sectors = n
  BY DEF RecordOf

\* An image file without a table.
LEMMA NewFile ==
  ASSUME NEW b, NEW im, NEW n
  PROVE  [PartOf(b) EXCEPT !.images = im, !.sectors = n] = RecordOf(b, FALSE, <<>>, im, n)
<1> DEFINE no == FALSE
           f == NoFile
           g == PartOf(b)
<1>1. f = RecordOf(0, no, <<>>, <<>>, 0)
  BY Zenon DEF NoFile, RecordOf
<1>2. g = [f EXCEPT !.build = b]
  BY DEF PartOf
<1> HIDE DEF no, f, g
<1>3. g = RecordOf(b, no, <<>>, <<>>, 0)
  BY <1>1, <1>2, RecordBuild
<1> DEFINE h == [g EXCEPT !.images = im]
<1>4. [g EXCEPT !.images = im, !.sectors = n] = RecordOf(b, no, <<>>, im, n)
  <2>1. g = [build |-> b, whole |-> no, parts |-> <<>>, images |-> <<>>, sectors |-> 0]
    BY <1>3 DEF RecordOf
  <2>2. h = [build |-> b, whole |-> no, parts |-> <<>>, images |-> im, sectors |-> 0]
    BY <2>1
  <2>3. [g EXCEPT !.images = im, !.sectors = n] = [h EXCEPT !.sectors = n]
    BY <2>1
  <2> HIDE DEF h
  <2>4. [h EXCEPT !.sectors = n] = [build |-> b, whole |-> no, parts |-> <<>>, images |-> im, sectors |-> n]
    BY <2>2
  <2> QED BY <2>3, <2>4 DEF RecordOf
<1> QED BY <1>4 DEF no, g

\* The size of the file is the one of the plan.
LEMMA RawSizeIs == images = WantImages(spec, Count(spec)) => RawSize = RawOf(spec)
  BY DEF RawSize, RawOf, ExtraSize, ExtraOf

\* The file is put together of all images of the plan.
LEMMA FileWritten ==
  ASSUME Frame, Advances("assemble"), Progress, At = Position("assemble"), UNCHANGED <<roots, images, snapshot, source, builds>>,
         spec.size > 0 => spec.size > MinDiskSize,
         out' = [out EXCEPT !["raw"] = [PartOf(builds) EXCEPT !.images = images, !.sectors = MiBToSectors(RawSize)]]
  PROVE  Progress'
<1>1. Passed("assemble")' /\ ~Passed("table")' /\ ~Passed("convert")'
  BY FilePassed
<1>2. images = WantImages(spec, Count(spec))
  BY ImagesMade DEF Progress
<1>3. [PartOf(builds) EXCEPT !.images = images, !.sectors = MiBToSectors(RawSize)] =
        FileOf(spec, builds, FALSE, <<>>, MiBToSectors(RawOf(spec)))
  <2>1. RawSize = RawOf(spec)
    BY <1>2, RawSizeIs
  <2>2. [PartOf(builds) EXCEPT !.images = images, !.sectors = MiBToSectors(RawSize)] =
          RecordOf(builds, FALSE, <<>>, images, MiBToSectors(RawSize))
    BY NewFile, Zenon
  <2> QED BY <1>2, <2>1, <2>2, Zenon DEF FileOf, RecordOf
<1>4. out'["raw"] = FileOf(spec, builds, FALSE, <<>>, MiBToSectors(RawOf(spec)))
  <2>1. "raw" \in Types /\ out = [t \in Types |-> out[t]]
    BY DEF Types, Frame
  <2> HIDE DEF Types
  <2> QED BY <1>3, <2>1
<1>5. Room(spec) /\ spec' = spec
  BY DEF Room, Advances
<1>6. FileNow'
  BY <1>1, <1>4, <1>5 DEF FileNow
<1> QED BY <1>6, FileStepKeeps

\* The table is what the images need.
LEMMA TableIs ==
  ASSUME out["raw"].sectors = MiBToSectors(RawOf(spec))
  PROVE  DiskPartitions = LaidOf(spec)
  BY Zenon DEF DiskPartitions, LaidOf, TableSize

\* The partition table of the plan is written to it.
LEMMA TableWritten ==
  ASSUME Frame, Advances("table"), Progress, At = Position("table"), UNCHANGED <<roots, images, snapshot, source, builds>>,
         out' = [out EXCEPT !["raw"].parts = DiskPartitions, !["raw"].whole = TRUE]
  PROVE  Progress'
<1>1. /\ Passed("assemble")' /\ Passed("table")' /\ ~Passed("convert")'
      /\ Passed("assemble") /\ ~Passed("table")
  BY FilePassed
<1> DEFINE n == MiBToSectors(RawOf(spec))
           f == out["raw"]
<1>2. f = FileOf(spec, builds, FALSE, <<>>, n) /\ Room(spec)
  BY <1>1 DEF Progress, FileNow
<1>3. f.sectors = n
  BY <1>2 DEF FileOf
<1>4. DiskPartitions = LaidOf(spec)
  BY <1>3, TableIs
<1>5. "raw" \in Types /\ out = [t \in Types |-> out[t]]
  BY DEF Types, Frame
<1>6. out'["raw"] = [f EXCEPT !.parts = LaidOf(spec), !.whole = TRUE]
  BY <1>4, <1>5
<1> HIDE DEF f, n
<1>7. [f EXCEPT !.parts = LaidOf(spec), !.whole = TRUE] = FileOf(spec, builds, TRUE, LaidOf(spec), n)
  <2>1. f = RecordOf(builds, FALSE, <<>>, WantImages(spec, Count(spec)), n)
    BY <1>2, Zenon DEF FileOf, RecordOf
  <2>2. [f EXCEPT !.parts = LaidOf(spec), !.whole = TRUE] = RecordOf(builds, TRUE, LaidOf(spec), WantImages(spec, Count(spec)), n)
    <3> DEFINE no == FALSE
               yes == TRUE
    <3>1. f = RecordOf(builds, no, <<>>, WantImages(spec, Count(spec)), n)
      BY <2>1
    <3> HIDE DEF no, yes
    <3>2. [f EXCEPT !.parts = LaidOf(spec), !.whole = yes] = RecordOf(builds, yes, LaidOf(spec), WantImages(spec, Count(spec)), n)
      <4> DEFINE im == WantImages(spec, Count(spec))
                 h == [f EXCEPT !.parts = LaidOf(spec)]
      <4>1. f = [build |-> builds, whole |-> no, parts |-> <<>>, images |-> im, sectors |-> n]
        BY <3>1 DEF RecordOf
      <4> HIDE DEF im
      <4>2. h = [build |-> builds, whole |-> no, parts |-> LaidOf(spec), images |-> im, sectors |-> n]
        BY <4>1
      <4>3. [f EXCEPT !.parts = LaidOf(spec), !.whole = yes] = [h EXCEPT !.whole = yes]
        BY <4>1
      <4> HIDE DEF h
      <4>4. [h EXCEPT !.whole = yes] = [build |-> builds, whole |-> yes, parts |-> LaidOf(spec), images |-> im, sectors |-> n]
        BY <4>2
      <4> QED BY <4>3, <4>4 DEF RecordOf, im
    <3> QED BY <3>2 DEF yes
  <2> QED BY <2>2, Zenon DEF FileOf, RecordOf
<1>8. spec' = spec
  BY DEF Advances
<1>9. FileNow'
  BY <1>1, <1>2, <1>6, <1>7, <1>8 DEF FileNow, n
<1> QED BY <1>9, FileStepKeeps

\* The size of the file is a natural number, and not 0.
LEMMA RawNat ==
  ASSUME NEW s \in DiskSpecs, Room(s)
  PROVE  RawOf(s) \in Nat /\ RawOf(s) > 0
<1>1. RawOf(s) \in Nat
  <2>1. CASE s.expandable
    BY <2>1, ExpandableLaid
  <2>2. CASE ~s.expandable
    BY <2>2, WholeLaid
  <2> QED BY <2>1, <2>2
<1>2. RawOf(s) # 0
  <2> SUFFICES MiBToSectors(RawOf(s)) # 0
    BY MiBOne
  <2>0. MiBToSectors(1) \in Nat /\ MiBToSectors(1) > 0 /\ MiBToSectors(ExtraOf(s)) \in Nat
    BY MiBOne, MiBNat, ExtraPositive
  <2>3. /\ MiBToSectors(PartSize["boot"]) \in Nat /\ MiBToSectors(PartSize["oem"]) \in Nat /\ MiBToSectors(RecoverySize) \in Nat
        /\ MiBToSectors(PartSize["recovery"]) \in Nat /\ MiBToSectors(PartSize["state"]) \in Nat
    BY MiBNat, PartSizes
  <2>1. CASE s.expandable
    <3>1. MiBToSectors(RawOf(s)) = MiBToSectors(1) + MiBToSectors(PartSize["boot"]) + MiBToSectors(PartSize["oem"])
                                     + MiBToSectors(RecoverySize) + MiBToSectors(ExtraOf(s))
      BY <2>1, ExpandableLaid
    <3> QED BY <2>0, <2>3, <3>1
  <2>2. CASE ~s.expandable
    <3>1. SizeOf(s, "persistent") \in Nat
      BY <2>2, WholeLaid
    <3>2. MiBToSectors(SizeOf(s, "persistent")) \in Nat
      BY <3>1, MiBNat
    <3>3. MiBToSectors(RawOf(s)) = MiBToSectors(1) + MiBToSectors(PartSize["boot"]) + MiBToSectors(PartSize["oem"])
                                     + MiBToSectors(PartSize["recovery"]) + MiBToSectors(PartSize["state"])
                                     + MiBToSectors(SizeOf(s, "persistent")) + MiBToSectors(ExtraOf(s))
      BY <2>2, WholeLaid
    <3> QED BY <2>0, <2>3, <3>2, <3>3
  <2> QED BY <2>1, <2>2
<1> QED BY <1>1, <1>2

\* A conversion loses at most the last sector.
LEMMA ConvertedIs ==
  ASSUME NEW s \in DiskSpecs, Room(s), NEW b, NEW ps, NEW type
  PROVE  \E sectors \in Nat :
           /\ sectors >= MiBToSectors(RawOf(s)) - 1
           /\ type # "gce" => sectors <= MiBToSectors(RawOf(s))
           /\ Converted(type, FileOf(s, b, TRUE, ps, MiBToSectors(RawOf(s)))) = FileOf(s, b, TRUE, ps, sectors)
<1> DEFINE n == MiBToSectors(RawOf(s))
           f == FileOf(s, b, TRUE, ps, n)
           k == IF type = "gce" THEN GceSectors(n) ELSE AzureSectors(n)
<1>0. RawOf(s) \in Nat /\ RawOf(s) > 0
  BY RawNat
<1>1. n \in Nat /\ n > 0
  <2>1. MiBToSectors(RawOf(s)) >= SectorsPerMiB /\ MiBToSectors(RawOf(s)) \in Nat
    BY <1>0, MiBPos, MiBNat
  <2> QED BY <2>1, MiBOne
<1>2. GceSectors(n) \in Nat /\ GceSectors(n) >= n /\ AzureSectors(n) = n - 1
  BY <1>0, GceGrows, AzureKeeps
<1> HIDE DEF n
<1>3. k \in Nat /\ k >= n - 1 /\ (type # "gce" => k <= n)
  BY <1>1, <1>2
<1> DEFINE w == WantImages(s, Count(s))
<1>4. \A m : FileOf(s, b, TRUE, ps, m) = RecordOf(b, TRUE, ps, w, m)
  BY Zenon DEF FileOf, RecordOf
<1>5. Converted(type, f) = [f EXCEPT !.sectors = k]
  <2>1. f.sectors = n
    BY <1>4, RecordSize, Zenon
  <2> HIDE DEF f
  <2> QED BY <2>1 DEF Converted
<1> HIDE DEF k, w
<1>6. [f EXCEPT !.sectors = k] = FileOf(s, b, TRUE, ps, k)
  <2> DEFINE yes == TRUE
  <2>1. f = RecordOf(b, yes, ps, w, n)
    BY <1>4
  <2> HIDE DEF yes, f
  <2>2. [f EXCEPT !.sectors = k] = RecordOf(b, yes, ps, w, k)
    BY <2>1, RecordSectors
  <2> QED BY <1>4, <2>2, Zenon DEF yes
<1> HIDE DEF f
<1> QED BY <1>3, <1>5, <1>6 DEF f, n

\* The converted file has the same contents and no fewer sectors, but for one.
LEMMA FileConverted ==
  ASSUME Frame, builds > 0, Advances("convert"), Progress, At = Position("convert"), UNCHANGED <<roots, images, snapshot, source, builds>>,
         \/ spec.type = "raw" /\ UNCHANGED out
         \/ /\ spec.type # "raw"
            /\ out' = [out EXCEPT ![spec.type] = Converted(spec.type, out["raw"]), !["raw"] = NoFile]
  PROVE  Progress'
<1>1. /\ Passed("assemble")' /\ Passed("table")' /\ Passed("convert")'
      /\ Passed("assemble") /\ Passed("table") /\ ~Passed("convert")
  BY FilePassed
<1> DEFINE n == MiBToSectors(RawOf(spec))
<1>2. out["raw"] = FileOf(spec, builds, TRUE, LaidOf(spec), n) /\ Room(spec)
  BY <1>1 DEF Progress, FileNow
<1>3. spec \in DiskSpecs /\ spec' = spec
  BY DEF Frame, Advances
<1>4. \E sectors \in Nat : sectors >= n - 1 /\ (spec.type # "gce" => sectors <= n) /\ out'[spec.type] = FileOf(spec, builds, TRUE, LaidOf(spec), sectors)
  <2>1. CASE spec.type = "raw" /\ UNCHANGED out
    <3>1. n \in Nat
      BY <1>2, <1>3, RawNat, MiBNat
    <3> HIDE DEF n
    <3>2. n >= n - 1 /\ n <= n
      BY <3>1
    <3>3. out'[spec.type] = out["raw"]
      BY <2>1
    <3>4. out'[spec.type] = FileOf(spec, builds, TRUE, LaidOf(spec), n)
      BY <1>2, <3>3, Zenon
    <3> QED BY <3>1, <3>2, <3>4, Zenon
  <2>2. CASE /\ spec.type # "raw"
             /\ out' = [out EXCEPT ![spec.type] = Converted(spec.type, out["raw"]), !["raw"] = NoFile]
    <3>1. spec.type \in Types /\ out = [t \in Types |-> out[t]]
      BY <1>3, SpecFields DEF Frame
    <3>2. out'[spec.type] = Converted(spec.type, out["raw"])
      BY <2>2, <3>1
    <3>3. \E sectors \in Nat :
            /\ sectors >= n - 1
            /\ spec.type # "gce" => sectors <= n
            /\ Converted(spec.type, FileOf(spec, builds, TRUE, LaidOf(spec), n)) = FileOf(spec, builds, TRUE, LaidOf(spec), sectors)
      <4>1. spec \in DiskSpecs /\ Room(spec)
        BY <1>2, <1>3
      <4> QED BY <4>1, ConvertedIs
    <3> HIDE DEF n
    <3> QED BY <1>2, <3>2, <3>3, Zenon
  <2> QED BY <2>1, <2>2
<1>5. FileNow'
  BY <1>1, <1>2, <1>3, <1>4 DEF FileNow
<1> QED BY <1>5, FileStepKeeps

\* The variables the invariant of a build is about.
buildObserved == <<spec, bpc, builds, berr, roots, images, snapshot, source, mounted, out>>

\* Steps that change none of the variables of the build.
LEMMA BuildInvSame ==
  ASSUME BuildInv, UNCHANGED buildObserved, busy => busy'
  PROVE  BuildInv'
<1> USE DEF buildObserved
<1>1. Frame'
  BY BuildInvParts DEF Frame
<1>2. At' = At
  BY DEF At
<1>3. \A s : Passed(s)' <=> Passed(s)
  BY <1>2 DEF Passed
<1>4. \A s, t : From(s, t)' = From(s, t)
  BY <1>3 DEF From
<1>5. BootRoot' = BootRoot /\ OemRoot' = OemRoot
  BY <1>4 DEF BootRoot, OemRoot
<1>6. \A s : YamlFrom(s)' = YamlFrom(s)
  BY <1>4 DEF YamlFrom
<1>7. RecoveryRoot' = RecoveryRoot /\ StateRoot' = StateRoot
  BY <1>4, <1>6 DEF RecoveryRoot, StateRoot
<1>8. RootsNow => RootsNow'
  BY <1>3, <1>5, <1>7 DEF RootsNow
<1>9. Made' = Made
  BY <1>3 DEF Made
<1>10. ImagesNow => ImagesNow'
  BY <1>9 DEF ImagesNow
<1>11. FileNow => FileNow'
  BY <1>3 DEF FileNow
<1>12. Progress => Progress'
  BY <1>3, <1>8, <1>10, <1>11 DEF Progress
<1> QED BY <1>1, <1>12, BuildInvParts DEF BuildInv, Frame

\* A failed umount is not forgotten.
LEMMA BusyStays == ChrootNext => (busy => busy')
<1> SUFFICES ASSUME ChrootNext, busy PROVE busy'
  OBVIOUS
<1>1. CASE CloseUnmount
  BY <1>1 DEF CloseUnmount
<1>2. CASE ~CloseUnmount
  BY <1>2 DEF ChrootNext, RunCallbackStarts, PrepareMount, EnterChroot, Callback, LeaveChroot, CloseEnds, RestoreDir
<1> QED BY <1>1, <1>2

\* A build starts.
LEMMA RunStarts ==
  ASSUME BuildInv, NEW s \in DiskSpecs, BuildDiskRun(s)
  PROVE  BuildInv'
<1>1. /\ bpc = "idle" /\ bpc' = "mkdir" /\ spec' = s /\ builds' = builds + 1 /\ Sanitized(s)
      /\ roots' = <<>> /\ images' = <<>> /\ snapshot' = FALSE /\ source' = "spec" /\ UNCHANGED <<mounted, busy, out>>
  BY DEF BuildDiskRun
<1>2. "mkdir" \in StepNames /\ \A x : "mkdir" \notin Skipped(x)
  BY StepNamesAre DEF Skipped
<1>3. Frame'
  BY <1>1, <1>2 DEF Frame, BuildInv
<1>4. At' = 1
  BY <1>1, <1>2, PositionIs DEF At
<1>5. \A x \in StepNames : ~Passed(x)'
  BY <1>4, PositionIn DEF Passed
<1>6. /\ ~Passed("roots")' /\ ~Passed("transaction")' /\ ~Passed("assemble")' /\ ~Passed("table")' /\ ~Passed("convert")'
      /\ ~Passed("efiimage")' /\ ~Passed("oemimage")' /\ ~Passed("recoveryimage")' /\ ~Passed("stateadd")' /\ ~Passed("persistentimage")'
  BY <1>5, StepNamesAre
<1>7. ImagesNow'
  <2>1. Made' = 0
    BY <1>6 DEF Made
  <2>2. WantImages(s, 0) = <<>>
    BY DEF WantImages
  <2> QED BY <1>1, <2>1, <2>2 DEF ImagesNow
<1>8. RootsNow' /\ FileNow'
  BY <1>6 DEF RootsNow, FileNow
<1>9. Progress'
  BY <1>1, <1>6, <1>7, <1>8 DEF Progress
<1> QED BY <1>3, <1>9, BuildInvParts DEF BuildInv, Frame

\* The step that follows directly.
LEMMA NextStep ==
  ASSUME BuildInv, NEW step \in StepNames, step # "cleanup", bpc = step, bpc' = After(step), spec' = spec,
         NEW next \in StepNames, Position(next) = Position(step) + 1, next \notin Skipped(spec)
  PROVE  bpc' = next
<1>1. /\ After(step) \in StepNames
      /\ Position(step) < Position(After(step))
      /\ \A s \in StepNames : Position(step) < Position(s) /\ Position(s) < Position(After(step)) => s \in Skipped(spec)
  BY AfterIs
<1>2. Position(step) \in Nat /\ Position(next) \in Nat /\ Position(After(step)) \in Nat
  BY <1>1, PositionIn
<1>3. Position(After(step)) = Position(next)
  BY <1>1, <1>2
<1> QED BY <1>1, <1>3, PositionIn

\* The state image is made and mounted.
LEMMA StateImageKeeps ==
  ASSUME BuildInv, CreateStateImage
  PROVE  BuildInv'
<1> USE DEF others, host, chVars
<1>0. "stateimage" \in StepNames /\ "transaction" \in StepNames /\ "stateimage" # "cleanup"
  BY StepNamesAre
<1>1. UNCHANGED <<spec, builds, busy, roots, images, snapshot, source, out>>
  BY DEF CreateStateImage
<1>2. CASE Fail("stateimage") /\ UNCHANGED mounted
  <2>1. out' = [t \in Types |-> out'[t]]
    BY <1>1 DEF BuildInv
  <2> QED BY <1>0, <1>1, <1>2, <2>1, FailKeeps
<1>3. CASE Done("stateimage") /\ mounted' = TRUE
  <2>1. /\ Advances("stateimage") /\ bpc = "stateimage" /\ berr' = berr
        /\ bpc' \in StepNames \ Skipped(spec) /\ "stateimage" \notin Skipped(spec)
    BY <1>0, <1>1, <1>3, DoneAdvances
  <2>2. "transaction" \notin Skipped(spec)
    BY <2>1 DEF Skipped
  <2>3. bpc' = "transaction"
    <3>1. Position("transaction") = Position("stateimage") + 1
      BY PositionIs
    <3> QED BY <1>0, <1>1, <1>3, <2>2, <3>1, NextStep DEF Done
  <2>4. Frame'
    BY <1>0, <1>1, <1>3, <2>1, <2>3, StepNamesAre DEF Frame, BuildInv
  <2>5. Progress => Progress'
    <3>1. /\ "stateimage" \notin RootSteps /\ "stateimage" \notin ImageStepNames
          /\ "stateimage" \notin {"assemble", "table", "convert"}
      BY DEF RootSteps, ImageStepNames
    <3> QED BY <1>1, <2>1, <3>1, ProgressSame
  <2> QED BY <1>1, <2>1, <2>4, <2>5, BuildInvParts DEF BuildInv, Frame
<1> QED BY <1>2, <1>3 DEF CreateStateImage

\* The steps with the state image mounted: done, or on to the umount.
LEMMA MountedStepKeeps ==
  ASSUME BuildInv, NEW step \in {"transaction", "stateyaml"}, Done(step) \/ FailMounted(step),
         UNCHANGED <<spec, builds, mounted, busy, out>>,
         (/\ Done(step) /\ Advances(step) /\ Progress /\ At = Position(step) /\ step \notin Skipped(spec)) => Progress'
  PROVE  BuildInv'
<1>0. step \in StepNames /\ "unmount" \in StepNames /\ "stateyaml" \in StepNames /\ step # "cleanup" /\ step \notin {"idle", "left"}
  BY StepNamesAre
<1>1. bpc = step
  BY DEF Done, FailMounted
<1>2. step \notin Skipped(spec) /\ builds > 0
  BY <1>0, <1>1 DEF BuildInv
<1>3. "unmount" \notin Skipped(spec) /\ "stateyaml" \notin Skipped(spec)
  BY <1>2 DEF Skipped
<1>4. CASE FailMounted(step)
  <2>1. bpc' = "unmount" /\ berr' = "error"
    BY <1>4 DEF FailMounted
  <2>2. Frame'
    BY <1>0, <1>2, <1>3, <2>1, StepNamesAre DEF Frame, BuildInv
  <2> QED BY <2>1, <2>2 DEF BuildInv, Frame
<1>5. CASE Done(step)
  <2>1. /\ Advances(step) /\ berr' = berr /\ bpc' \in StepNames \ Skipped(spec) /\ At = Position(step)
    BY <1>0, <1>5, DoneAdvances
  <2>2. bpc' \in {"stateyaml", "unmount"}
    <3>1. CASE step = "transaction"
      <4>1. Position("stateyaml") = Position(step) + 1
        BY <3>1, PositionIs
      <4>2. bpc' = "stateyaml"
        BY <1>0, <1>3, <1>5, <4>1, NextStep DEF Done
      <4> QED BY <4>2
    <3>2. CASE step = "stateyaml"
      <4>1. Position("unmount") = Position(step) + 1
        BY <3>2, PositionIs
      <4>2. bpc' = "unmount"
        BY <1>0, <1>3, <1>5, <4>1, NextStep DEF Done
      <4> QED BY <4>2
    <3> QED BY <3>1, <3>2
  <2>3. Frame'
    BY <1>0, <1>2, <2>1, <2>2, StepNamesAre DEF Frame, BuildInv
  <2> QED BY <1>2, <1>5, <2>1, <2>3, BuildInvParts DEF BuildInv, Frame
<1> QED BY <1>4, <1>5

\* The state image is unmounted; when it is not, busy says so.
LEMMA UnmountKeeps ==
  ASSUME BuildInv, UnmountStateImage
  PROVE  BuildInv'
<1> USE DEF host
<1>0. "unmount" \in StepNames /\ "cleanup" \in StepNames /\ "unmount" # "cleanup" /\ \A x : "cleanup" \notin Skipped(x)
  BY StepNamesAre DEF Skipped
<1>1. /\ bpc = "unmount" /\ bpc' = (IF berr = "nil" THEN After("unmount") ELSE "cleanup")
      /\ UNCHANGED <<spec, builds, berr, roots, images, snapshot, source, out>>
      /\ busy' = (busy \/ mounted')
  BY DEF UnmountStateImage
<1>2. (busy => busy') /\ (mounted' => busy')
  BY <1>1
<1>3. builds > 0 /\ "unmount" \notin Skipped(spec)
  BY <1>0, <1>1, StepNamesAre DEF BuildInv
<1>4. CASE berr = "nil"
  <2>1. Done("unmount")
    BY <1>1, <1>4 DEF Done
  <2>2. Advances("unmount") /\ bpc' \in StepNames \ Skipped(spec)
    BY <1>0, <1>1, <2>1, DoneAdvances
  <2>3. Frame'
    BY <1>0, <1>1, <1>2, <1>3, <2>2, StepNamesAre DEF Frame, BuildInv
  <2>4. Progress => Progress'
    <3>1. /\ "unmount" \notin RootSteps /\ "unmount" \notin ImageStepNames
          /\ "unmount" \notin {"assemble", "table", "convert"}
      BY DEF RootSteps, ImageStepNames
    <3> QED BY <1>1, <2>2, <3>1, ProgressSame
  <2> QED BY <1>1, <1>2, <1>3, <1>4, <2>3, <2>4, BuildInvParts DEF BuildInv, Frame
<1>5. CASE berr # "nil"
  <2>1. Frame'
    BY <1>0, <1>1, <1>2, <1>3, <1>5, StepNamesAre DEF Frame, BuildInv
  <2> QED BY <1>1, <1>5, <2>1 DEF BuildInv, Frame
<1> QED BY <1>4, <1>5

\* The end of a build.
LEMMA CleanupKeeps ==
  ASSUME BuildInv, Cleanup
  PROVE  BuildInv'
<1> USE DEF others, work, chVars
<1>0. "cleanup" \in StepNames /\ "idle" \notin StepNames
  BY StepNamesAre
<1>1. /\ bpc = "cleanup" /\ bpc' = "idle" /\ berr' \in {berr, "error"}
      /\ UNCHANGED <<spec, builds, busy, roots, images, snapshot, mounted, source, out>>
  BY DEF Cleanup
<1>2. At = 31 /\ At' = 32
  BY <1>0, <1>1, PositionIs DEF At
<1>3. \A s \in StepNames \ {"cleanup"} : Passed(s)' <=> Passed(s)
  <2>1. \A s \in StepNames \ {"cleanup"} : Position(s) \in Nat /\ Position(s) < 31
    <3>1. \A s \in StepNames : Position(s) \in 1..31 /\ Steps[Position(s)] = s
      BY PositionIn
    <3> QED BY <3>1, StepsAre
  <2> QED BY <1>1, <1>2, <2>1 DEF Passed
<1>4. Frame'
  BY <1>0, <1>1 DEF Frame, BuildInv
<1>5. Progress => Progress'
  <2> USE <1>1
  <2>1. \A s \in RootSteps \cup ImageStepNames \cup {"assemble", "table", "convert"} : Passed(s)' <=> Passed(s)
    BY <1>3, StepNamesAre DEF RootSteps, ImageStepNames
  <2>2. \A s \in RootSteps : \A t : From(s, t)' = From(s, t)
    BY <2>1 DEF From
  <2>3. BootRoot' = BootRoot /\ OemRoot' = OemRoot
    BY <2>2 DEF BootRoot, OemRoot, RootSteps
  <2>4. \A s \in RootSteps : YamlFrom(s)' = YamlFrom(s)
    BY <2>2 DEF YamlFrom
  <2>5. RecoveryRoot' = RecoveryRoot /\ StateRoot' = StateRoot
    BY <2>2, <2>4 DEF RecoveryRoot, StateRoot, RootSteps
  <2>6. /\ Passed("roots")' <=> Passed("roots")
        /\ Passed("transaction")' <=> Passed("transaction")
        /\ Passed("oemimage")' <=> Passed("oemimage")
        /\ Passed("recoveryimage")' <=> Passed("recoveryimage")
    BY <2>1 DEF RootSteps, ImageStepNames
  <2>7. RootsNow => RootsNow'
    BY <2>3, <2>5, <2>6 DEF RootsNow
  <2>8. Made' = Made
    BY <2>1 DEF Made, ImageStepNames
  <2>9. ImagesNow => ImagesNow'
    BY <2>8 DEF ImagesNow
  <2>10. Passed("assemble")' <=> Passed("assemble")
    BY <2>1
  <2>11. (Passed("table")' <=> Passed("table")) /\ (Passed("convert")' <=> Passed("convert"))
    BY <2>1
  <2>12. FileNow => FileNow'
    BY <2>10, <2>11 DEF FileNow
  <2> QED BY <2>6, <2>7, <2>9, <2>12 DEF Progress
<1>6. (berr' = "nil" /\ ~busy' /\ builds' > 0) => berr = "nil" /\ ~busy /\ builds > 0
  BY <1>1
<1> QED BY <1>4, <1>5, <1>6, BuildInvParts DEF BuildInv, Frame

-----------------------------------------------------------------------------
(***************************************************************************)
(* Builds are complete                                                     *)
(***************************************************************************)

\* A step that only its own lemma says anything about.
LEMMA BuildInvNext ==
  ASSUME BuildInv, BuildNext
  PROVE  BuildInv'
<1> USE DEF host, work, others, chVars
<1>o. out = [t \in Types |-> out[t]]
  BY DEF BuildInv
\* Steps that put nothing anywhere.
<1>p. ASSUME NEW step \in {"mkdir", "hook", "posthook", "chroot", "link1", "link2", "afterhook"},
             Done(step) \/ Fail(step), UNCHANGED <<spec, builds, busy, roots, images, snapshot, mounted, source, out>>
      PROVE  BuildInv'
  <2>1. /\ step \in StepNames /\ step # "cleanup" /\ step \notin {"transaction", "stateyaml", "unmount"}
        /\ step \notin RootSteps /\ step \notin ImageStepNames /\ step \notin {"assemble", "table", "convert"}
    BY StepNamesAre DEF RootSteps, ImageStepNames
  <2>2. out' = [t \in Types |-> out'[t]]
    BY <1>o, <1>p
  <2>3. CASE Fail(step)
    BY <1>p, <2>1, <2>2, <2>3, FailKeeps
  <2>4. CASE Done(step)
    <3>1. Advances(step) /\ Progress => Progress'
      BY <1>p, <2>1, ProgressSame
    <3> QED BY <1>p, <2>1, <2>2, <2>4, <3>1, DoneKeeps
  <2> QED BY <1>p, <2>3, <2>4
<1>1. ASSUME NEW s \in DiskSpecs, BuildDiskRun(s)
      PROVE  BuildInv'
  BY <1>1, RunStarts
<1>2. ASSUME NEW step \in {"mkdir", "hook", "posthook"}, PlainStep(step)
      PROVE  BuildInv'
  BY <1>2, <1>p DEF PlainStep
<1>3. CASE PreparePartitionsRoot
  <2>0. "roots" \in StepNames
    BY StepNamesAre
  <2>1. UNCHANGED <<spec, builds, busy, images, snapshot, mounted, source, out>> /\ out' = [t \in Types |-> out'[t]]
    BY <1>3, <1>o DEF PreparePartitionsRoot
  <2>2. CASE Fail("roots")
    BY <2>0, <2>1, <2>2, FailKeeps
  <2>3. CASE Done("roots") /\ roots' = [p \in {Built(spec)[i].name : i \in DOMAIN Built(spec)} |-> {}]
    BY <2>0, <2>1, <2>3, RootsMade, DoneKeeps
  <2> QED BY <1>3, <2>2, <2>3 DEF PreparePartitionsRoot
<1>4. ASSUME NEW step \in DOMAIN Writes, Write(step)
      PROVE  BuildInv'
  <2>0. step \in StepNames /\ step # "cleanup" /\ step \notin {"transaction", "stateyaml", "unmount"}
    BY StepNamesAre DEF Writes
  <2>1. UNCHANGED <<spec, builds, busy, images, snapshot, mounted, out>> /\ out' = [t \in Types |-> out'[t]]
    BY <1>4, <1>o DEF Write
  <2>2. CASE Fail(step)
    BY <2>0, <2>1, <2>2, FailKeeps
  <2>3. CASE Done(step) /\ Put(Writes[step][1], {Writes[step][2]}) /\ UNCHANGED source
    <3>1. Advances(step) /\ Progress /\ At = Position(step) => Progress'
      BY <2>1, <2>3, WriteKeeps
    <3> QED BY <2>0, <2>1, <2>3, <3>1, DoneKeeps
  <2> QED BY <1>4, <2>2, <2>3 DEF Write
<1>5. CASE ChrootHook
  <2>1. UNCHANGED buildObserved /\ UNCHANGED busy
    BY <1>5 DEF ChrootHook, ChrootedCallback, buildObserved
  <2> QED BY <2>1, BuildInvSame
<1>6. CASE ChrootNext /\ UNCHANGED <<spec, bpc, builds, berr, work, source, host, out>>
  <2>1. UNCHANGED buildObserved
    BY <1>6 DEF buildObserved
  <2> QED BY <1>6, <2>1, BusyStays, BuildInvSame
<1>7. CASE ChrootHookReturns
  BY <1>7, <1>p DEF ChrootHookReturns
<1>8. ASSUME NEW step \in {"link1", "link2"}, CreateHookSymlink(step)
      PROVE  BuildInv'
  BY <1>8, <1>p DEF CreateHookSymlink
<1>9. CASE BuildAfterDiskHook
  BY <1>9, <1>p DEF BuildAfterDiskHook
<1>10. CASE CreateStateImage
  BY <1>10, StateImageKeeps
<1>11. CASE SnapshotTransaction
  <2>1. UNCHANGED <<spec, builds, mounted, busy, images, source, out>>
    BY <1>11 DEF SnapshotTransaction
  <2>2. Done("transaction") \/ FailMounted("transaction")
    BY <1>11 DEF SnapshotTransaction
  <2>3. (/\ Done("transaction") /\ Advances("transaction") /\ Progress /\ At = Position("transaction")
         /\ "transaction" \notin Skipped(spec)) => Progress'
    <3> SUFFICES ASSUME Done("transaction"), Advances("transaction"), Progress, At = Position("transaction"),
                        "transaction" \notin Skipped(spec)
                 PROVE  Progress'
      OBVIOUS
    <3>0. ~FailMounted("transaction")
      <4>1. "transaction" \in StepNames /\ "transaction" # "cleanup"
        BY StepNamesAre
      <4>2. Position("transaction") < Position(bpc')
        BY <4>1, AfterIs DEF Done
      <4>3. bpc' = "stateyaml"
        <5>1. Position("stateyaml") = Position("transaction") + 1 /\ "stateyaml" \in StepNames /\ "stateyaml" \notin Skipped(spec)
          BY PositionIs, StepNamesAre DEF Skipped
        <5> QED BY <2>1, <4>1, <5>1, NextStep DEF Done
      <4> QED BY <4>3 DEF FailMounted
    <3>1. /\ snapshot' = TRUE
          /\ roots' = [roots EXCEPT !["boot"] = @ \cup {"snapshots"}, !["state"] = @ \cup {"snapshot"}]
      BY <1>11, <3>0 DEF SnapshotTransaction
    <3> QED BY <2>1, <3>1, TransactionMade
  <2> QED BY <2>1, <2>2, <2>3, MountedStepKeeps
<1>12. CASE StateYaml
  <2>1. UNCHANGED <<spec, builds, mounted, busy, images, snapshot, source, out>>
    BY <1>12 DEF StateYaml
  <2>2. Done("stateyaml") \/ FailMounted("stateyaml")
    BY <1>12 DEF StateYaml
  <2>3. CASE Done("stateyaml") /\ Put("state", Yaml)
    <3>1. Advances("stateyaml") /\ Progress /\ At = Position("stateyaml") /\ "stateyaml" \notin Skipped(spec) => Progress'
      BY <2>1, <2>3, YamlKeeps
    <3> QED BY <2>1, <2>2, <3>1, MountedStepKeeps
  <2>4. CASE FailMounted("stateyaml") /\ ~Done("stateyaml")
    BY <2>1, <2>4, MountedStepKeeps
  <2>5. Done("stateyaml") => ~FailMounted("stateyaml") \/ UNCHANGED berr
    BY DEF Done
  <2>6. CASE FailMounted("stateyaml") /\ Done("stateyaml") /\ UNCHANGED roots
    <3>1. berr = "error" /\ berr' = "error" /\ bpc = "stateyaml" /\ bpc' = "unmount"
      BY <2>6 DEF Done, FailMounted
    <3>2. "stateyaml" \in StepNames /\ "unmount" \in StepNames /\ "stateyaml" \notin {"idle", "left"}
      BY StepNamesAre
    <3>3. "stateyaml" \notin Skipped(spec) /\ builds > 0
      BY <3>1, <3>2 DEF BuildInv
    <3>4. "unmount" \notin Skipped(spec)
      BY <3>3 DEF Skipped
    <3> QED BY <2>1, <3>1, <3>2, <3>3, <3>4, StepNamesAre DEF BuildInv
  <2> QED BY <1>12, <2>3, <2>4, <2>6 DEF StateYaml
<1>13. CASE UnmountStateImage
  BY <1>13, UnmountKeeps
<1>14. CASE RecoveryYaml
  <2>0. "recoveryyaml" \in StepNames
    BY StepNamesAre
  <2>1. UNCHANGED <<spec, builds, busy, images, snapshot, mounted, source, out>> /\ out' = [t \in Types |-> out'[t]]
    BY <1>14, <1>o DEF RecoveryYaml
  <2>2. CASE Fail("recoveryyaml")
    BY <2>0, <2>1, <2>2, FailKeeps
  <2>3. CASE Done("recoveryyaml") /\ Put("recovery", Yaml)
    <3>1. Advances("recoveryyaml") /\ Progress /\ At = Position("recoveryyaml") /\ "recoveryyaml" \notin Skipped(spec) => Progress'
      BY <2>1, <2>3, YamlKeeps
    <3> QED BY <2>0, <2>1, <2>3, <3>1, DoneKeeps
  <2> QED BY <1>14, <2>2, <2>3 DEF RecoveryYaml
<1>15. ASSUME NEW step \in DOMAIN ImageOf, CreatePartitionImage(step)
       PROVE  BuildInv'
  <2>0. step \in StepNames /\ step # "cleanup" /\ step \notin {"transaction", "stateyaml", "unmount"}
    BY StepNamesAre DEF ImageOf
  <2>1. UNCHANGED <<spec, builds, busy, snapshot, mounted, source, out>> /\ out' = [t \in Types |-> out'[t]]
    BY <1>15, <1>o DEF CreatePartitionImage
  <2>2. CASE Fail(step)
    BY <2>0, <2>1, <2>2, FailKeeps
  <2>3. CASE /\ Done(step)
             /\ images' = Append(images, Image(ImageOf[step], roots[ImageOf[step]]))
             /\ roots' = IF ImageOf[step] = "boot" THEN roots ELSE [roots EXCEPT ![ImageOf[step]] = {}]
    <3>1. Advances(step) /\ Progress /\ At = Position(step) /\ step \notin Skipped(spec) => Progress'
      BY <2>1, <2>3, ImageKeeps
    <3> QED BY <2>0, <2>1, <2>3, <3>1, DoneKeeps
  <2> QED BY <1>15, <2>2, <2>3 DEF CreatePartitionImage
<1>16. CASE AddStateImage
  <2>0. "stateadd" \in StepNames
    BY StepNamesAre
  <2>1. UNCHANGED <<spec, builds, busy, roots, snapshot, mounted, source, out>> /\ out' = [t \in Types |-> out'[t]] /\ Done("stateadd")
    BY <1>16, <1>o DEF AddStateImage
  <2>2. ~busy => ~mounted
    BY <2>1 DEF BuildInv, Done
  <2>3. ~busy => images' = Append(images, Image("state", roots["state"]))
    BY <1>16, <2>2 DEF AddStateImage
  <2>4. Advances("stateadd") /\ Progress /\ At = Position("stateadd") /\ "stateadd" \notin Skipped(spec) /\ ~busy => Progress'
    BY <2>1, <2>3, StateAdded
  <2> QED BY <2>0, <2>1, <2>4, DoneKeeps
<1>17. CASE RemoveOld
  <2>0. "removeold" \in StepNames
    BY StepNamesAre
  <2>1. UNCHANGED <<spec, builds, busy, roots, images, snapshot, mounted, source>>
    BY <1>17 DEF RemoveOld
  <2>2. CASE Fail("removeold") /\ UNCHANGED out
    BY <1>o, <2>0, <2>1, <2>2, FailKeeps
  <2>3. CASE Done("removeold") /\ out' = [out EXCEPT !["raw"] = NoFile]
    <3>1. out' = [t \in Types |-> out'[t]]
      BY <1>o, <2>3
    <3> QED BY <2>0, <2>1, <2>3, <3>1, OldRemoved, DoneKeeps
  <2> QED BY <1>17, <2>2, <2>3 DEF RemoveOld
<1>18. CASE CreateDiskImage
  <2>0. "assemble" \in StepNames
    BY StepNamesAre
  <2>1. UNCHANGED <<spec, builds, busy, roots, images, snapshot, mounted, source>>
    BY <1>18 DEF CreateDiskImage
  <2>2. CASE Fail("assemble") /\ out' \in {out, [out EXCEPT !["raw"] = PartOf(builds)]}
    <3>1. out' = [t \in Types |-> out'[t]]
      BY <1>o, <2>2
    <3> QED BY <2>0, <2>1, <2>2, <3>1, FailKeeps
  <2>3. CASE /\ spec.size > 0 => spec.size > MinDiskSize
             /\ Done("assemble")
             /\ out' = [out EXCEPT !["raw"] = [PartOf(builds) EXCEPT !.images = images, !.sectors = MiBToSectors(RawSize)]]
    <3>1. out' = [t \in Types |-> out'[t]]
      <4> DEFINE file == [PartOf(builds) EXCEPT !.images = images, !.sectors = MiBToSectors(RawSize)]
      <4>1. out' = [out EXCEPT !["raw"] = file]
        BY <2>3
      <4> HIDE DEF file
      <4> QED BY <1>o, <4>1
    <3>2. Advances("assemble") /\ Progress /\ At = Position("assemble") => Progress'
      BY <2>1, <2>3, BuildInvParts, FileWritten
    <3> QED BY <2>0, <2>1, <2>3, <3>1, <3>2, DoneKeeps
  <2> QED BY <1>18, <2>2, <2>3 DEF CreateDiskImage
<1>19. CASE CreateDiskPartitionTable
  <2>0. "table" \in StepNames
    BY StepNamesAre
  <2>1. UNCHANGED <<spec, builds, busy, roots, images, snapshot, mounted, source>>
    BY <1>19 DEF CreateDiskPartitionTable
  <2>2. CASE Fail("table") /\ out' \in {out, [out EXCEPT !["raw"].parts = DiskPartitions]}
    <3>1. out' = [t \in Types |-> out'[t]]
      BY <1>o, <2>2
    <3> QED BY <2>0, <2>1, <2>2, <3>1, FailKeeps
  <2>3. CASE Done("table") /\ out' = [out EXCEPT !["raw"].parts = DiskPartitions, !["raw"].whole = TRUE]
    <3>1. out' = [t \in Types |-> out'[t]]
      BY <1>o, <2>3
    <3>2. Advances("table") /\ Progress /\ At = Position("table") => Progress'
      BY <2>1, <2>3, BuildInvParts, TableWritten
    <3> QED BY <2>0, <2>1, <2>3, <3>1, <3>2, DoneKeeps
  <2> QED BY <1>19, <2>2, <2>3 DEF CreateDiskPartitionTable
<1>20. CASE Convert
  <2>0. "convert" \in StepNames
    BY StepNamesAre
  <2>1. UNCHANGED <<spec, builds, busy, roots, images, snapshot, mounted, source>>
    BY <1>20 DEF Convert
  <2>2. CASE Fail("convert") /\ out' \in {out, [out EXCEPT ![spec.type] = PartOf(builds)]}
    <3>1. out' = [t \in Types |-> out'[t]]
      BY <1>o, <2>2
    <3> QED BY <2>0, <2>1, <2>2, <3>1, FailKeeps
  <2>3. CASE /\ Done("convert")
             /\ \/ spec.type = "raw" /\ UNCHANGED out
                \/ /\ spec.type # "raw"
                   /\ out' = [out EXCEPT ![spec.type] = Converted(spec.type, out["raw"]), !["raw"] = NoFile]
    <3>1. out' = [t \in Types |-> out'[t]]
      BY <1>o, <2>3
    <3>2. Advances("convert") /\ Progress /\ At = Position("convert") /\ builds > 0 => Progress'
      BY <2>1, <2>3, BuildInvParts, FileConverted
    <3> QED BY <2>0, <2>1, <2>3, <3>1, <3>2, DoneKeeps
  <2> QED BY <1>20, <2>2, <2>3 DEF Convert
<1>21. CASE Cleanup
  BY <1>21, CleanupKeeps
<1> QED
  BY <1>1, <1>2, <1>3, <1>4, <1>5, <1>6, <1>7, <1>8, <1>9, <1>10, <1>11, <1>12, <1>13, <1>14,
     <1>15, <1>16, <1>17, <1>18, <1>19, <1>20, <1>21 DEF BuildNext

\* Before the first build there is nothing to say.
LEMMA BuildInvInit == Init => BuildInv
<1> SUFFICES ASSUME BuildInit PROVE BuildInv
  BY DEF Init
<1>1. bpc = "idle" /\ builds = 0 /\ mounted = FALSE /\ out = [t \in Types |-> NoFile]
  BY DEF BuildInit
<1>2. "idle" \notin StepNames
  BY StepNamesAre
<1>3. out = [t \in Types |-> out[t]]
  BY <1>1
<1> QED BY <1>1, <1>2, <1>3 DEF BuildInv

\* The steps after the builds leave it alone; a new build starts from nothing.
LEMMA BuildInvAll == BuildInv /\ [Next]_vars => BuildInv'
<1> SUFFICES ASSUME BuildInv, [Next]_vars PROVE BuildInv'
  OBVIOUS
<1>1. CASE BuildNext
  BY <1>1, BuildInvNext
<1>2. ASSUME NEW sectors \in DiskSizes, Flash(sectors)
      PROVE  BuildInv'
  <2>1. /\ bpc = "idle" /\ bpc' = "left" /\ builds' = 0 /\ out' = [t \in Types |-> NoFile]
        /\ UNCHANGED <<spec, busy, mounted>>
    BY <1>2 DEF Flash, BuildDone
  <2>2. "left" \notin StepNames
    BY StepNamesAre
  <2>3. out' = [t \in Types |-> out'[t]]
    BY <2>1
  <2> QED BY <2>1, <2>2, <2>3 DEF BuildInv
<1>3. CASE UNCHANGED buildVars
  <2>1. UNCHANGED buildObserved /\ UNCHANGED busy
    BY <1>3 DEF buildVars, buildObserved, chVars
  <2> QED BY <2>1, BuildInvSame
<1>4. ASSUME NEW sectors \in DiskSizes, NEW efi \in BOOLEAN, NewPartitionTable(sectors, efi)
      PROVE  BuildInv'
  BY <1>4, <1>3 DEF NewPartitionTable, builder
<1>5. CASE CreatePartition \/ UserWrite \/ PowerCut
  BY <1>5, <1>3 DEF CreatePartition, UserWrite, PowerCut, builder
<1>6. CASE MachineNext
  BY <1>6, <1>3 DEF MachineNext, Boot, Layout, Deploy, PowerOff, builder
<1>7. CASE Stopped \/ UNCHANGED vars
  BY <1>7, <1>3 DEF Stopped, vars
<1> QED
  BY <1>1, <1>2, <1>4, <1>5, <1>6, <1>7 DEF Next

\* The file of a finished build.
LEMMA FinishedFile ==
  ASSUME BuildInv, bpc = "idle", builds > 0, berr = "nil", ~busy
  PROVE  /\ spec \in DiskSpecs /\ Room(spec)
         /\ \E sectors \in Nat : /\ sectors >= MiBToSectors(RawOf(spec)) - 1
                                 /\ spec.type # "gce" => sectors <= MiBToSectors(RawOf(spec))
                                 /\ out[spec.type] = FileOf(spec, builds, TRUE, LaidOf(spec), sectors)
<1>1. Progress /\ spec \in DiskSpecs
  BY DEF BuildInv
<1>2. At = 32
  BY StepNamesAre DEF At
<1>3. Passed("assemble") /\ Passed("convert")
  BY <1>2, PositionIs DEF Passed, Skipped
<1> QED BY <1>1, <1>3 DEF Progress, FileNow

\* A disk with all partitions has what its spec asks for, but for 1 MiB, and what was
\* not counted of the persistent image.
LEMMA RequestedSize ==
  ASSUME NEW s \in DiskSpecs, Room(s), ~s.expandable
  PROVE  /\ RawOf(s) >= s.size - 1
         /\ s.size > 0 => RawOf(s) = s.size - 1 + (SizeOf(s, "persistent") - Grown(PartSize["persistent"]))
<1> DEFINE b == PartSize["boot"]
           o == PartSize["oem"]
           r == PartSize["recovery"]
           a == PartSize["state"]
           p == Grown(PartSize["persistent"])
           q == SizeOf(s, "persistent")
           x == ExtraOf(s)
           z == Sizes(WantImages(s, 5))
<1>1. /\ b \in Nat /\ o \in Nat /\ r \in Nat /\ a \in Nat /\ p \in Nat /\ q \in Nat /\ x \in Nat /\ s.size \in Nat
      /\ q >= p
  BY PartSizes, ExtraPositive, SpecFields DEF Grown, SizeOf
<1>2. MinDiskSize = 2 + b + o + r + a + p
  BY MinDiskSizeIs
<1>3. x = IF s.size > 0 THEN s.size - MinDiskSize ELSE 1
  BY DEF ExtraOf
<1>4. z \in Seq(Nat) /\ Len(z) = 5 /\ z[1] = b /\ z[2] = o /\ z[3] = r /\ z[4] = a /\ z[5] = q
  BY WholeLaid
<1>5. RawOf(s) = 1 + Total(z) + x
  BY DEF RawOf, Count
<1> HIDE DEF b, o, r, a, p, q, x, z
<1>6. Total(z) = b + o + r + a + q
  BY <1>4, TotalsFive
<1>7. RawOf(s) >= s.size - 1 /\ (s.size > 0 => RawOf(s) = s.size - 1 + (q - p))
  BY <1>1, <1>2, <1>3, <1>5, <1>6
<1> QED BY <1>7 DEF p, q

\* A build that returns nil has made the disk of its spec.
THEOREM BuiltImageComplete == Spec => []ImageComplete
<1>1. BuildInv => ImageComplete
  <2> SUFFICES ASSUME BuildInv, bpc = "idle", builds > 0, berr = "nil", ~busy
               PROVE  LET file == out[spec.type]
                      IN /\ file.build = builds
                         /\ file.whole
                         /\ Assembled(file)
                         /\ (spec.size > 0 /\ ~spec.expandable) =>
                              /\ file.sectors + 1 >= MiBToSectors(spec.size - 1)
                              /\ spec.type # "gce" => file.sectors <= MiBToSectors(spec.size - 1 + Uncounted)
                         /\ \A i \in DOMAIN file.images : file.images[i].holds = Expected(spec, file.images[i].name)
    BY DEF ImageComplete, BuildDone
  <2>1. spec \in DiskSpecs /\ Room(spec)
    BY FinishedFile
  <2>2. PICK sectors \in Nat : /\ sectors >= MiBToSectors(RawOf(spec)) - 1
                               /\ spec.type # "gce" => sectors <= MiBToSectors(RawOf(spec))
                               /\ out[spec.type] = FileOf(spec, builds, TRUE, LaidOf(spec), sectors)
    BY FinishedFile, Zenon
  <2> DEFINE file == FileOf(spec, builds, TRUE, LaidOf(spec), sectors)
             w == WantImages(spec, Count(spec))
  <2>3. Assembled(file)
    BY <2>1, <2>2, FileAssembled
  <2>4. file.build = builds /\ file.whole /\ file.images = w /\ file.sectors = sectors
    BY DEF FileOf
  <2>7. (spec.size > 0 /\ ~spec.expandable) =>
          /\ sectors + 1 >= MiBToSectors(spec.size - 1)
          /\ spec.type # "gce" => sectors <= MiBToSectors(spec.size - 1 + Uncounted)
    <3> SUFFICES ASSUME ~spec.expandable, spec.size > 0
                 PROVE  /\ sectors + 1 >= MiBToSectors(spec.size - 1)
                        /\ spec.type # "gce" => sectors <= MiBToSectors(spec.size - 1 + Uncounted)
      OBVIOUS
    <3>1. /\ RawOf(spec) \in Nat /\ spec.size \in Nat /\ MiBToSectors(RawOf(spec)) \in Nat
          /\ RawOf(spec) >= spec.size - 1
      BY <2>1, RawNat, RequestedSize, SpecFields, MiBNat
    <3>2. MiBToSectors(spec.size - 1) <= MiBToSectors(RawOf(spec)) /\ MiBToSectors(spec.size - 1) \in Nat
      <4>1. spec.size - 1 \in Nat
        BY <3>1
      <4> QED BY <3>1, <4>1, MiBUp, MiBNat
    <3>3. RawOf(spec) = spec.size - 1 + Uncounted
      <4>1. RawOf(spec) = spec.size - 1 + (SizeOf(spec, "persistent") - Grown(PartSize["persistent"]))
        BY <2>1, RequestedSize
      <4>2. SizeOf(spec, "persistent") - Grown(PartSize["persistent"]) = Uncounted
        BY PartSizes DEF SizeOf, Grown, Uncounted, ImageSize
      <4> QED BY <4>1, <4>2
    <3> QED BY <2>2, <3>1, <3>2, <3>3
  <2>5. \A i \in DOMAIN w : w[i].holds = Expected(spec, w[i].name)
    <3>1. Count(spec) \in Nat
      BY DEF Count
    <3> QED BY <3>1, WantImagesAre
  <2> HIDE DEF file, w
  <2>6. out[spec.type] = file
    BY <2>2 DEF file
  <2> QED BY <2>3, <2>4, <2>5, <2>6, <2>7
<1> QED
  BY <1>1, BuildInvInit, BuildInvAll, PTL DEF Spec

-----------------------------------------------------------------------------
(***************************************************************************)
(* The data on the disk of a machine                                       *)
(*                                                                         *)
(* DataKept is not inductive: that a new partition is not formatted over an *)
(* old one needs the numbers of the partitions, that a partition comes back *)
(* with its file system needs the sizes and what the request at hand holds, *)
(* and a reset that fails is one whose system nobody counts on.            *)
(* DiskInv says all of that; the image it starts from is the one of BuildInv. *)
(***************************************************************************)

\* The stages of a machine that an image was written to.
Flashed == stage \notin {"none", "install", "installed", "failed"}

\* A partition of a table.
DiskPart == [num : Nat, name : PartNames, start : Nat, size : Nat, fsS : Nat,
             data : {"none", "recovery", "system", "user"}]

\* The numbers of the partitions are their places, and file systems are inside
\* of them.
TableInv ==
  /\ table \in Seq(DiskPart)
  /\ \A i \in 1..Len(table) : table[i].num = i /\ table[i].fsS <= table[i].size

\* The fields of a request.
RequestFields(r) ==
  r = [op |-> r.op, name |-> r.name, size |-> r.size, fs |-> r.fs, num |-> r.num, start |-> r.start, part |-> r.part]

\* A request is under way in a stage only.  What it is about to make has the
\* next number, what it is about to bring back has room for its file system, and
\* what it is about to format holds nothing.
RequestInv ==
  /\ total \in Nat /\ gpt \in Nat
  /\ ppc \in {"idle", "reload", "rm", "mkpart", "device", "format", "ok", "error"}
  /\ ppc # "idle" => stage \in DOMAIN NextStage
  /\ ppc \in {"reload", "rm", "mkpart", "device", "format"} =>
       /\ req.op = "add" => req.name \in {"state", "persistent"} /\ req.size \in Nat /\ req.part = <<>>
       /\ req.op = "expand" => req.size = PartSize["recovery"]
       /\ req.op \in {"add", "expand"}
       /\ RequestFields(req)
  /\ ppc = "rm" => /\ req.op = "expand" /\ table # <<>> /\ req.start \in Nat
                   /\ req.part = <<table[Len(table)]>>
                   /\ table[Len(table)].size <= MiBToSectors(req.size)
  /\ ppc = "mkpart" => /\ req.start \in Nat
                       /\ req.op = "add" => req.num = Len(table) + 1
                       /\ req.op = "expand" => /\ req.part = <<req.part[1]>> /\ req.part[1] \in DiskPart
                                               /\ req.part[1].fsS <= MiBToSectors(req.size)
  /\ ppc \in {"device", "format"} /\ req.op = "add" =>
       table # <<>> /\ req.num = Len(table) /\ table[Len(table)].data = "none"

\* On the disk, or taken off it by the request at hand to come back at once.
Kept(name, data) ==
  \/ Bootable(name, data)
  \/ ppc = "mkpart" /\ req.op = "expand" /\ req.part[1].name = name /\ req.part[1].data = data

\* What is to be found on the disk, whichever entry a boot has taken.
KeptInv ==
  /\ Kept("recovery", "recovery")
  /\ deployed => Kept("state", "system")
  /\ wrote => Kept("persistent", "user")

\* All that is kept on a disk.
DiskInv ==
  /\ stage = "none" => ppc = "idle" /\ ~wrote
  /\ Flashed => TableInv /\ RequestInv /\ (~torn => KeptInv)

\* The names SequencesExt gives to the ends of a list.
LEMMA TableEnds ==
  ASSUME TableInv, table # <<>>
  PROVE  /\ Len(table) \in Nat /\ Len(table) > 0
         /\ Last(table) = table[Len(table)] /\ table[Len(table)] \in DiskPart
         /\ Front(table) = SubSeq(table, 1, Len(table) - 1)
  BY DEF TableInv, Last, Front

\* The fields of a partition.
LEMMA DiskPartFields ==
  ASSUME NEW p \in DiskPart
  PROVE  /\ p.num \in Nat /\ p.name \in PartNames /\ p.start \in Nat /\ p.size \in Nat /\ p.fsS \in Nat
         /\ p.data \in {"none", "recovery", "system", "user"}
  BY DEF DiskPart

\* parted takes the number behind the last partition.
LEMMA LowestFreeIs ==
  ASSUME Len(table) \in Nat, DOMAIN table = 1..Len(table), \A i \in 1..Len(table) : table[i].num = i
  PROVE  LowestFree = Len(table) + 1
<1>1. Len(table) \in Nat /\ DOMAIN table = 1..Len(table) /\ \A i \in 1..Len(table) : table[i].num = i
  OBVIOUS
<1>2. {p.num : p \in ToSet(table)} = 1..Len(table)
  <2>1. ToSet(table) = {table[i] : i \in DOMAIN table}
    BY DEF ToSet
  <2>2. \A n \in {p.num : p \in ToSet(table)} : n \in 1..Len(table)
    BY <1>1, <2>1
  <2>3. \A n \in 1..Len(table) : n \in {p.num : p \in ToSet(table)}
    <3> TAKE n \in 1..Len(table)
    <3>1. table[n] \in ToSet(table) /\ table[n].num = n
      BY <1>1, <2>1
    <3> QED BY <3>1
  <2> QED BY <2>2, <2>3
<1> DEFINE good(n) == n \notin 1..Len(table) /\ \A m \in 1..(n - 1) : m \in 1..Len(table)
<1>3. LowestFree = CHOOSE n \in 1..(Len(table) + 1) : good(n)
  BY <1>2 DEF LowestFree
<1>4. good(Len(table) + 1) /\ Len(table) + 1 \in 1..(Len(table) + 1)
  BY <1>1
<1>5. \A n \in 1..(Len(table) + 1) : good(n) => n = Len(table) + 1
  BY <1>1
<1> HIDE DEF good
<1>6. \E n \in 1..(Len(table) + 1) : good(n)
  BY <1>4
<1>7. LowestFree \in 1..(Len(table) + 1) /\ good(LowestFree)
  BY <1>3, <1>6, Zenon
<1> QED BY <1>5, <1>7

\* All data stays on the disk, or in the request.
KeepsAll ==
  \A name : \A data \in {"recovery", "system", "user"} : Kept(name, data) => Kept(name, data)'

\* A partition that keeps its name and data is found as before.
LEMMA BootableKept ==
  ASSUME NEW name, NEW data, table' \in Seq(DiskPart), Len(table') >= Len(table), TableInv,
         \A i \in 1..Len(table) : table'[i].name = table[i].name /\ table'[i].data = table[i].data
  PROVE  Bootable(name, data) => Bootable(name, data)'
<1> SUFFICES ASSUME Bootable(name, data) PROVE Bootable(name, data)'
  OBVIOUS
<1>1. PICK i \in DOMAIN table : table[i].name = name /\ table[i].data = data
  BY DEF Bootable, Named
<1>2. i \in 1..Len(table) /\ i \in DOMAIN table'
  BY <1>1 DEF TableInv
<1> QED BY <1>1, <1>2 DEF Bootable, Named

\* A request that only moves on.
LEMMA KeptUnlessMkpart ==
  ASSUME TableInv, UNCHANGED table, ppc # "mkpart"
  PROVE  KeepsAll
<1> SUFFICES ASSUME NEW name, NEW data, Kept(name, data) PROVE Kept(name, data)'
  BY DEF KeepsAll
<1>1. Bootable(name, data)
  BY DEF Kept
<1>2. Bootable(name, data)'
  BY <1>1, BootableKept DEF TableInv
<1> QED BY <1>2 DEF Kept

-----------------------------------------------------------------------------
(***************************************************************************)
(* Requests to the partitioner                                             *)
(***************************************************************************)

\* Fields of a request that are filled in, two or three of them.
LEMMA RequestEdit ==
  ASSUME RequestFields(req), NEW n, NEW s, req' = [req EXCEPT !.num = n, !.start = s]
  PROVE  /\ RequestFields(req') /\ req'.op = req.op /\ req'.name = req.name /\ req'.size = req.size
         /\ req'.part = req.part /\ req'.num = n /\ req'.start = s /\ req'.fs = req.fs
<1> DEFINE F(o, na, si, fs, nu, st, pa) ==
             [op |-> o, name |-> na, size |-> si, fs |-> fs, num |-> nu, start |-> st, part |-> pa]
<1>0. \A o, na, si, fs, nu, st, pa : RequestFields(F(o, na, si, fs, nu, st, pa))
  BY DEF RequestFields
<1>1. PICK o, na, si, fs, nu, st, pa : req = F(o, na, si, fs, nu, st, pa)
  BY Zenon DEF RequestFields
<1>2. [req EXCEPT !.num = n] = F(o, na, si, fs, n, st, pa)
  BY <1>1
<1>3. [F(o, na, si, fs, n, st, pa) EXCEPT !.start = s] = F(o, na, si, fs, n, s, pa)
  OBVIOUS
<1>5. req' = F(o, na, si, fs, n, s, pa)
  <2>1. [req EXCEPT !.num = n, !.start = s] = [[req EXCEPT !.num = n] EXCEPT !.start = s]
    BY Zenon
  <2> QED BY <1>2, <1>3, <2>1, Zenon
<1>7. /\ req.op = o /\ req.name = na /\ req.size = si /\ req.part = pa /\ req.fs = fs
  BY <1>1
<1> QED BY <1>0, <1>5, <1>7

\* ... or three.
LEMMA RequestEditPart ==
  ASSUME RequestFields(req), NEW n, NEW s, NEW p, req' = [req EXCEPT !.num = n, !.start = s, !.part = p]
  PROVE  /\ RequestFields(req') /\ req'.op = req.op /\ req'.name = req.name /\ req'.size = req.size
         /\ req'.part = p /\ req'.num = n /\ req'.start = s /\ req'.fs = req.fs
<1> DEFINE F(o, na, si, fs, nu, st, pa) ==
             [op |-> o, name |-> na, size |-> si, fs |-> fs, num |-> nu, start |-> st, part |-> pa]
<1>0. \A o, na, si, fs, nu, st, pa : RequestFields(F(o, na, si, fs, nu, st, pa))
  BY DEF RequestFields
<1>1. PICK o, na, si, fs, nu, st, pa : req = F(o, na, si, fs, nu, st, pa)
  BY Zenon DEF RequestFields
<1>2. [req EXCEPT !.num = n] = F(o, na, si, fs, n, st, pa)
  BY <1>1
<1>3. [F(o, na, si, fs, n, st, pa) EXCEPT !.start = s] = F(o, na, si, fs, n, s, pa)
  OBVIOUS
<1>4. [F(o, na, si, fs, n, s, pa) EXCEPT !.part = p] = F(o, na, si, fs, n, s, p)
  OBVIOUS
<1>5. req' = F(o, na, si, fs, n, s, p)
  <2>1. [req EXCEPT !.num = n, !.start = s, !.part = p]
          = [[[req EXCEPT !.num = n] EXCEPT !.start = s] EXCEPT !.part = p]
    BY Zenon
  <2> QED BY <1>2, <1>3, <1>4, <2>1, Zenon
<1>7. /\ req.op = o /\ req.name = na /\ req.size = si /\ req.part = pa /\ req.fs = fs
  BY <1>1
<1> QED BY <1>0, <1>5, <1>7

\* Reload and the checks of a request.
LEMMA ReloadKeeps ==
  ASSUME Flashed, TableInv, RequestInv, Reload, UNCHANGED machine
  PROVE  TableInv' /\ RequestInv' /\ KeepsAll /\ (torn => torn')
<1>1. ppc = "reload" /\ UNCHANGED <<table, total>> /\ UNCHANGED stage
  BY DEF Reload, machine
<1>2. TableInv'
  BY <1>1 DEF TableInv
<1>3. KeepsAll
  BY <1>1, KeptUnlessMkpart
<1>4. torn => torn'
  BY DEF Reload
<1>5. /\ stage' \in DOMAIN NextStage /\ total' \in Nat /\ gpt' \in Nat
  BY <1>1 DEF RequestInv, Reload
<1>6. /\ RequestFields(req) /\ req.op \in {"add", "expand"}
      /\ req.op = "add" => req.name \in {"state", "persistent"} /\ req.size \in Nat /\ req.part = <<>>
      /\ req.op = "expand" => req.size = PartSize["recovery"]
  BY <1>1 DEF RequestInv
<1>7. CASE /\ req.op = "add"
           /\ req' = [req EXCEPT !.num = NextNumber, !.start = NextStart]
           /\ ppc' = "mkpart"
  <2>1. /\ RequestFields(req') /\ req'.op = "add" /\ req'.name = req.name /\ req'.size = req.size
        /\ req'.part = req.part /\ req'.num = NextNumber /\ req'.start = NextStart
    BY <1>6, <1>7, RequestEdit, Zenon
  <2>2. NextNumber = Len(table) + 1 /\ NextStart \in Nat
    <3>1. CASE table = <<>>
      BY <3>1, MiBNat DEF NextNumber, NextStart, AlignedStart
    <3>2. CASE table # <<>>
      BY <3>2, TableEnds, DiskPartFields DEF NextNumber, NextStart, TableInv
    <3> QED BY <3>1, <3>2
  <2>3. RequestInv'
    BY <1>1, <1>5, <1>6, <1>7, <2>1, <2>2 DEF RequestInv
  <2> QED BY <1>2, <1>3, <1>4, <2>3
<1>8. CASE /\ req.op = "expand" /\ CanExpand(req.size)
           /\ req' = [req EXCEPT !.num = Last(table).num, !.start = Last(table).start, !.part = <<Last(table)>>]
           /\ ppc' = "rm"
  <2>1. /\ RequestFields(req') /\ req'.op = "expand" /\ req'.size = req.size
        /\ req'.part = <<Last(table)>> /\ req'.start = Last(table).start
    BY <1>6, <1>8, RequestEditPart, ZenonT(30)
  <2>2. table # <<>> /\ MiBToSectors(req.size) >= Last(table).size
    <3>1. PartSize["recovery"] > 0
      BY PartSizes
    <3> QED BY <1>6, <1>8, <3>1 DEF CanExpand
  <2>3. Last(table) = table[Len(table)] /\ Last(table).start \in Nat /\ Last(table).size \in Nat
    BY <2>2, TableEnds, DiskPartFields
  <2>4. MiBToSectors(req.size) \in Nat
    BY <1>6, <1>8, PartSizes, MiBNat
  <2>5. RequestInv'
    BY <1>1, <1>5, <1>6, <1>8, <2>1, <2>2, <2>3, <2>4 DEF RequestInv
  <2> QED BY <1>2, <1>3, <1>4, <2>5
<1>9. CASE ppc' = "error"
  <2>1. RequestInv'
    BY <1>1, <1>5, <1>9 DEF RequestInv
  <2> QED BY <1>2, <1>3, <1>4, <2>1
<1> QED BY <1>7, <1>8, <1>9 DEF Reload, Fault

\* A list without its last element.
LEMMA WithoutLast ==
  ASSUME NEW S, NEW s \in Seq(S), Len(s) > 0
  PROVE  /\ SubSeq(s, 1, Len(s) - 1) \in Seq(S)
         /\ Len(SubSeq(s, 1, Len(s) - 1)) = Len(s) - 1
         /\ \A i \in 1..(Len(s) - 1) : SubSeq(s, 1, Len(s) - 1)[i] = s[i]
<1>1. Len(s) \in Nat /\ Len(s) - 1 \in Nat
  OBVIOUS
<1>2. \A i \in 1..(Len(s) - 1) : s[i] \in S
  BY <1>1, ElementOfSeq
<1> DEFINE n == Len(s) - 1
<1>3. n \in Int /\ 1 \in Int /\ \A i \in 1..n : s[i] \in S
  BY <1>1, <1>2
<1> HIDE DEF n
<1> DEFINE f == SubSeq(s, 1, n)
<1>4. /\ f \in Seq(S) /\ Len(f) = (IF 1 <= n THEN n - 1 + 1 ELSE 0)
      /\ \A i \in 1..(n - 1 + 1) : f[i] = s[1 + i - 1]
  BY <1>3, SubSeqProperties
<1> HIDE DEF f
<1>5. n \in Nat
  BY <1>1 DEF n
<1>6. Len(f) = n
  BY <1>4, <1>5
<1>7. \A i \in 1..n : f[i] = s[i]
  <2> TAKE i \in 1..n
  <2>1. i \in 1..(n - 1 + 1) /\ 1 + i - 1 = i
    BY <1>5
  <2> QED BY <1>4, <2>1
<1> QED BY <1>4, <1>6, <1>7 DEF f, n

\* parted takes the partition off, and the request holds what was in it.
LEMMA RmKeeps ==
  ASSUME Flashed, TableInv, RequestInv, Rm, UNCHANGED machine
  PROVE  TableInv' /\ RequestInv' /\ KeepsAll /\ (torn => torn')
<1>1. ppc = "rm" /\ UNCHANGED <<total, gpt, req, torn>> /\ UNCHANGED stage
  BY DEF Rm, machine
<1>2. /\ table # <<>> /\ req.op = "expand" /\ req.part = <<table[Len(table)]>>
      /\ req.start \in Nat /\ table[Len(table)].size <= MiBToSectors(req.size)
      /\ stage \in DOMAIN NextStage /\ total \in Nat /\ gpt \in Nat
      /\ req.size = PartSize["recovery"] /\ RequestFields(req)
  BY <1>1 DEF RequestInv
<1>3. /\ Len(table) \in Nat /\ Len(table) > 0 /\ Front(table) = SubSeq(table, 1, Len(table) - 1)
      /\ table[Len(table)] \in DiskPart
  BY <1>2, TableEnds
<1>4. CASE table' = Front(table) /\ ppc' = "mkpart"
  <2>0. table \in Seq(DiskPart) /\ \A i \in 1..Len(table) : table[i].num = i /\ table[i].fsS <= table[i].size
    BY DEF TableInv
  <2>1. /\ table' \in Seq(DiskPart) /\ Len(table') = Len(table) - 1
        /\ \A i \in 1..Len(table') : table'[i] = table[i]
    <3>1. table' = SubSeq(table, 1, Len(table) - 1)
      BY <1>3, <1>4
    <3> QED BY <1>3, <2>0, <3>1, WithoutLast
  <2>2. TableInv'
    BY <1>3, <2>0, <2>1 DEF TableInv
  <2>3. table[Len(table)].fsS <= MiBToSectors(req.size)
    <3>1. table[Len(table)].fsS <= table[Len(table)].size
      BY <1>3, <2>0
    <3>2. table[Len(table)].fsS \in Nat /\ table[Len(table)].size \in Nat
      BY <1>3, DiskPartFields
    <3>3. MiBToSectors(req.size) \in Nat
      BY <1>2, PartSizes, MiBNat
    <3> QED BY <1>2, <3>1, <3>2, <3>3
  <2>4. req.part = <<req.part[1]>> /\ req.part[1] \in DiskPart /\ req.part[1] = table[Len(table)]
    BY <1>2, <1>3
  <2>5. RequestInv'
    BY <1>1, <1>2, <1>4, <2>3, <2>4 DEF RequestInv
  <2>6. KeepsAll
    <3> SUFFICES ASSUME NEW name, NEW data, Kept(name, data) PROVE Kept(name, data)'
      BY DEF KeepsAll
    <3>1. Bootable(name, data)
      BY <1>1 DEF Kept
    <3>2. PICK i \in 1..Len(table) : table[i].name = name /\ table[i].data = data
      BY <2>0, <3>1 DEF Bootable, Named
    <3>3. CASE i = Len(table)
      BY <1>1, <1>2, <1>4, <2>4, <3>2, <3>3 DEF Kept
    <3>4. CASE i # Len(table)
      <4>1. i \in 1..Len(table') /\ i \in DOMAIN table' /\ table'[i] = table[i]
        BY <1>3, <2>1, <3>4
      <4>2. Bootable(name, data)'
        BY <3>2, <4>1 DEF Bootable, Named
      <4> QED BY <4>2 DEF Kept
    <3> QED BY <3>3, <3>4
  <2> QED BY <1>1, <2>2, <2>5, <2>6
<1>5. CASE UNCHANGED table /\ ppc' = "error"
  <2>1. TableInv'
    BY <1>5 DEF TableInv
  <2>2. RequestInv'
    BY <1>1, <1>2, <1>5 DEF RequestInv
  <2> QED BY <1>1, <1>5, <2>1, <2>2, KeptUnlessMkpart
<1> QED BY <1>4, <1>5 DEF Rm, Fault

\* A new partition at the end of the table keeps the others.
LEMMA AppendKeeps ==
  ASSUME TableInv, NEW p \in DiskPart, p.num = Len(table) + 1, p.fsS <= p.size, table' = Append(table, p)
  PROVE  /\ TableInv' /\ Len(table') = Len(table) + 1 /\ table'[Len(table')] = p
         /\ \A name, data : Bootable(name, data) => Bootable(name, data)'
         /\ \A name, data : p.name = name /\ p.data = data => Bootable(name, data)'
<1>0. table \in Seq(DiskPart) /\ Len(table) \in Nat /\ \A i \in 1..Len(table) : table[i].num = i /\ table[i].fsS <= table[i].size
  BY DEF TableInv
<1>1. /\ table' \in Seq(DiskPart) /\ Len(table') = Len(table) + 1 /\ table'[Len(table) + 1] = p
      /\ \A i \in 1..Len(table) : table'[i] = table[i]
  <2> HIDE DEF DiskPart
  <2> QED BY <1>0, AppendProperties
<1>2. \A i \in 1..Len(table') : table'[i].num = i /\ table'[i].fsS <= table'[i].size
  <2> TAKE i \in 1..Len(table')
  <2>1. i \in 1..Len(table) \/ i = Len(table) + 1
    BY <1>0, <1>1
  <2> QED BY <1>0, <1>1, <2>1
<1>3. TableInv'
  BY <1>1, <1>2 DEF TableInv
<1>4. Len(table') >= Len(table)
  BY <1>0, <1>1
<1>5. \A name, data : Bootable(name, data) => Bootable(name, data)'
  BY <1>1, <1>4, BootableKept
<1>6. \A name, data : p.name = name /\ p.data = data => Bootable(name, data)'
  <2>1. Len(table') \in DOMAIN table'
    BY <1>0, <1>1
  <2> QED BY <1>1, <2>1 DEF Bootable, Named
<1> QED BY <1>1, <1>3, <1>5, <1>6

\* parted makes the partition: a new one, or the one it has taken off, which
\* is not smaller now.
LEMMA MkpartKeeps ==
  ASSUME Flashed, TableInv, RequestInv, Mkpart, UNCHANGED machine
  PROVE  TableInv' /\ RequestInv' /\ (~torn' => KeepsAll) /\ (torn => torn')
<1>1. ppc = "mkpart" /\ UNCHANGED <<total, gpt, req>> /\ UNCHANGED stage
  BY DEF Mkpart, machine
<1>2. /\ req.op \in {"add", "expand"} /\ req.start \in Nat /\ stage \in DOMAIN NextStage
      /\ total \in Nat /\ gpt \in Nat /\ RequestFields(req)
      /\ req.op = "add" => /\ req.name \in {"state", "persistent"} /\ req.size \in Nat /\ req.part = <<>>
                           /\ req.num = Len(table) + 1
      /\ req.op = "expand" => /\ req.size = PartSize["recovery"] /\ req.part = <<req.part[1]>>
                              /\ req.part[1] \in DiskPart /\ req.part[1].fsS <= MiBToSectors(req.size)
  BY <1>1 DEF RequestInv
<1>3. Len(table) \in Nat
  BY DEF TableInv
<1>f. LowestFree = Len(table) + 1
  BY LowestFreeIs DEF TableInv
<1>4. CASE Fitting /\ table' = Append(table, NewPart) /\ ppc' = "device" /\ UNCHANGED torn
  <2>1. NewSize \in Nat
    <3>1. NewSize > 0
      BY <1>4 DEF Fitting
    <3>2. CASE req.size = 0
      BY <1>2, <3>1, <3>2, PartitionerAssumption DEF NewSize, LastUsable
    <3>3. CASE req.size # 0
      <4>1. req.size \in Nat
        BY <1>2, PartSizes
      <4> QED BY <3>3, <4>1, MiBNat DEF NewSize
    <3> QED BY <3>2, <3>3
  <2>2. CASE req.op = "add"
    <3>1. NewPart = Part(Len(table) + 1, req.name, req.start, NewSize, 0, "none")
      BY <1>2, <1>f, <2>2 DEF NewPart
    <3>2. /\ NewPart \in DiskPart /\ NewPart.num = Len(table) + 1 /\ NewPart.fsS <= NewPart.size /\ NewPart.data = "none"
      <4> HIDE DEF NewPart, NewSize
      <4>1. req.name \in PartNames /\ Len(table) + 1 \in Nat
        BY <1>2, <1>3, <2>2 DEF PartNames
      <4>2. /\ NewPart.num = Len(table) + 1 /\ NewPart.fsS = 0 /\ NewPart.size = NewSize /\ NewPart.data = "none"
        BY <3>1 DEF Part
      <4>3. NewPart \in DiskPart
        BY <1>2, <2>1, <3>1, <4>1 DEF Part, DiskPart
      <4> QED BY <2>1, <4>2, <4>3
    <3>3. /\ TableInv' /\ Len(table') = Len(table) + 1 /\ table'[Len(table')] = NewPart
          /\ \A name, data : Bootable(name, data) => Bootable(name, data)'
      BY <1>4, <3>2, AppendKeeps
    <3>4. table' # <<>>
      BY <1>3, <3>3
    <3>5. RequestInv'
      BY <1>1, <1>2, <1>4, <2>2, <3>2, <3>3, <3>4 DEF RequestInv
    <3>6. KeepsAll
      BY <2>2, <3>3 DEF KeepsAll, Kept
    <3> QED BY <1>4, <3>3, <3>5, <3>6
  <2>3. CASE req.op = "expand"
    <3> DEFINE old == req.part[1]
    <3>1. old \in DiskPart /\ old.fsS <= NewSize /\ req.part # <<>>
      <4>1. req.size # 0
        BY <1>2, <2>3, PartSizes
      <4>2. NewSize = MiBToSectors(req.size)
        BY <4>1 DEF NewSize
      <4> QED BY <1>2, <2>3, <4>2
    <3>2. NewPart = Part(Len(table) + 1, old.name, req.start, NewSize, old.fsS, old.data)
      BY <1>f, <3>1 DEF NewPart
    <3> HIDE DEF old
    <3>3. /\ NewPart \in DiskPart /\ NewPart.num = Len(table) + 1 /\ NewPart.fsS <= NewPart.size
          /\ NewPart.name = old.name /\ NewPart.data = old.data
      <4> HIDE DEF NewPart, NewSize
      <4>1. /\ NewPart.num = Len(table) + 1 /\ NewPart.fsS = old.fsS /\ NewPart.size = NewSize /\ NewPart.data = old.data
            /\ NewPart.name = old.name
        BY <3>2 DEF Part
      <4>2. /\ Len(table) + 1 \in Nat /\ old.name \in PartNames /\ old.fsS \in Nat
            /\ old.data \in {"none", "recovery", "system", "user"}
        BY <1>3, <3>1, DiskPartFields
      <4>3. NewPart \in DiskPart
        BY <1>2, <2>1, <3>2, <4>2 DEF Part, DiskPart
      <4> QED BY <3>1, <4>1, <4>3
    <3>4. /\ TableInv'
          /\ \A name, data : Bootable(name, data) => Bootable(name, data)'
          /\ \A name, data : NewPart.name = name /\ NewPart.data = data => Bootable(name, data)'
      BY <1>4, <3>3, AppendKeeps
    <3>5. RequestInv'
      BY <1>1, <1>2, <1>4, <2>3 DEF RequestInv
    <3>6. KeepsAll
      BY <3>3, <3>4 DEF KeepsAll, Kept, old
    <3> QED BY <1>4, <3>4, <3>5, <3>6
  <2> QED BY <1>2, <2>2, <2>3
<1>5. CASE UNCHANGED table /\ ppc' = "error" /\ (torn => torn') /\ (req.op = "expand" => torn')
  <2>1. TableInv'
    BY <1>5 DEF TableInv
  <2>2. RequestInv'
    BY <1>1, <1>2, <1>5 DEF RequestInv
  <2>3. ~torn' => KeepsAll
    <3> SUFFICES ASSUME req.op # "expand", NEW name, NEW data, Kept(name, data) PROVE Kept(name, data)'
      BY <1>5 DEF KeepsAll
    <3>1. Bootable(name, data)
      BY DEF Kept
    <3>2. Bootable(name, data)'
      BY <1>5, <3>1, BootableKept DEF TableInv
    <3> QED BY <3>2 DEF Kept
  <2> QED BY <1>5, <2>1, <2>2, <2>3
<1> QED BY <1>4, <1>5 DEF Mkpart, Fault

\* The device of the partition is found or not.
LEMMA DeviceKeeps ==
  ASSUME Flashed, TableInv, RequestInv, FindPartitionDevice, UNCHANGED machine
  PROVE  TableInv' /\ RequestInv' /\ KeepsAll /\ (torn => torn')
<1>0. ppc' \in {"format", "error"} /\ (torn => torn')
  <2>1. CASE ppc' = (IF Numbered # {} THEN "format" ELSE "error") /\ UNCHANGED torn
    BY <2>1
  <2>2. CASE ppc' = "error" /\ torn' = (torn \/ req.op = "add")
    BY <2>2
  <2> QED BY <2>1, <2>2 DEF FindPartitionDevice, Fault
<1>1. ppc = "device" /\ UNCHANGED <<table, total, gpt, req>> /\ UNCHANGED stage /\ ppc' \in {"format", "error"} /\ (torn => torn')
  BY <1>0 DEF FindPartitionDevice, machine
<1>2. TableInv'
  BY <1>1 DEF TableInv
<1>3. RequestInv'
  BY <1>1 DEF RequestInv
<1> QED BY <1>1, <1>2, <1>3, KeptUnlessMkpart

\* File systems are made or grown: the names and the data of a table stay.
Reformatted ==
  /\ table' = [i \in DOMAIN table |-> table'[i]]
  /\ \A i \in DOMAIN table :
       /\ table'[i] \in DiskPart /\ table'[i].num = table[i].num /\ table'[i].fsS <= table'[i].size
       /\ table'[i].name = table[i].name /\ table'[i].data = table[i].data

\* ... so what is on the disk stays.
LEMMA ReformatKeeps ==
  ASSUME Flashed, TableInv, RequestInv, Reformatted, ppc = "format", ppc' \in {"ok", "error"}, UNCHANGED machine,
         UNCHANGED <<total, gpt>>
  PROVE  TableInv' /\ RequestInv' /\ KeepsAll
<1>1. /\ table \in Seq(DiskPart) /\ DOMAIN table = 1..Len(table) /\ Len(table) \in Nat
      /\ \A i \in 1..Len(table) : table[i].num = i
  BY DEF TableInv
<1>2. table' \in Seq(DiskPart) /\ Len(table') = Len(table)
  <2>1. DOMAIN table' = 1..Len(table) /\ \A i \in 1..Len(table) : table'[i] \in DiskPart
    BY <1>1 DEF Reformatted
  <2>2. table' = [i \in 1..Len(table) |-> table'[i]]
    BY <1>1 DEF Reformatted
  <2> DEFINE t == table'
  <2>3. t = [i \in 1..Len(table) |-> t[i]] /\ \A i \in 1..Len(table) : t[i] \in DiskPart
    BY <2>1, <2>2
  <2> HIDE DEF t
  <2>4. t \in Seq(DiskPart) /\ Len(t) = Len(table)
    BY <1>1, <2>3
  <2> QED BY <2>4 DEF t
<1>3. TableInv'
  BY <1>1, <1>2 DEF TableInv, Reformatted
<1>4. RequestInv'
  BY DEF RequestInv, machine
<1>5. KeepsAll
  <2> SUFFICES ASSUME NEW name, NEW data, Kept(name, data) PROVE Kept(name, data)'
    BY DEF KeepsAll
  <2>1. Bootable(name, data)
    BY DEF Kept
  <2>2. Len(table') >= Len(table) /\ \A i \in 1..Len(table) : table'[i].name = table[i].name /\ table'[i].data = table[i].data
    BY <1>1, <1>2 DEF Reformatted
  <2>3. Bootable(name, data)'
    BY <1>2, <2>1, <2>2, BootableKept
  <2> QED BY <2>3 DEF Kept
<1> QED BY <1>3, <1>4, <1>5

\* A partition is the record of its fields.
LEMMA DiskPartIs ==
  ASSUME NEW p \in DiskPart
  PROVE  p = Part(p.num, p.name, p.start, p.size, p.fsS, p.data)
  BY DEF DiskPart, Part

\* mkfs on the last partition, which holds nothing.
LEMMA MkfsKeeps ==
  ASSUME Flashed, TableInv, RequestInv, MkfsCall, UNCHANGED machine
  PROVE  TableInv' /\ RequestInv' /\ KeepsAll /\ (torn => torn')
<1>1. ppc = "format" /\ req.op = "add" /\ UNCHANGED <<total, gpt, req>> /\ UNCHANGED stage
  BY DEF MkfsCall, machine
<1>2. req.num = Len(table) /\ table[Len(table)].data = "none"
  BY <1>1 DEF RequestInv
<1>3. /\ table \in Seq(DiskPart) /\ DOMAIN table = 1..Len(table) /\ Len(table) \in Nat
      /\ \A i \in 1..Len(table) : table[i].num = i /\ table[i].fsS <= table[i].size /\ table[i] \in DiskPart
  BY DEF TableInv
<1> DEFINE made(i) == [table[i] EXCEPT !.fsS = table[i].size, !.data = "none"]
<1>4. CASE /\ table' = [i \in DOMAIN table |-> IF i \in Numbered /\ req.fs THEN made(i) ELSE table[i]]
           /\ ppc' = "ok" /\ UNCHANGED torn
  <2>1. ASSUME NEW i \in DOMAIN table
        PROVE  /\ made(i) \in DiskPart /\ made(i).num = table[i].num /\ made(i).fsS <= made(i).size
               /\ made(i).name = table[i].name /\ made(i).data = "none"
    <3> DEFINE p == table[i]
               x == p.num
               na == p.name
               st == p.start
               si == p.size
               da == p.data
               fs == p.fsS
    <3>1. p \in DiskPart
      BY <1>3, <2>1
    <3>2. p = Part(x, na, st, si, fs, da) /\ si \in Nat /\ x \in Nat /\ na \in PartNames /\ st \in Nat
      BY <3>1, DiskPartIs, DiskPartFields
    <3>3. made(i) = [[p EXCEPT !.fsS = si] EXCEPT !.data = "none"]
      BY Zenon
    <3> HIDE DEF made, p, x, na, st, si, da, fs
    <3>4. [Part(x, na, st, si, fs, da) EXCEPT !.fsS = si] = Part(x, na, st, si, si, da)
      BY DEF Part
    <3>5. [Part(x, na, st, si, si, da) EXCEPT !.data = "none"] = Part(x, na, st, si, si, "none")
      BY DEF Part
    <3>6. made(i) = Part(x, na, st, si, si, "none")
      BY <3>2, <3>3, <3>4, <3>5, Zenon
    <3>7. /\ made(i) \in DiskPart /\ made(i).num = x /\ made(i).fsS = si /\ made(i).size = si
          /\ made(i).name = na /\ made(i).data = "none"
      BY <3>2, <3>6 DEF Part, DiskPart
    <3>8. made(i).fsS <= made(i).size
      BY <3>2, <3>7
    <3> QED BY <3>7, <3>8 DEF x, na, p
  <2> HIDE DEF made
  <2>2. \A i \in DOMAIN table : i \in Numbered => table[i].data = "none"
    BY <1>2, <1>3 DEF Numbered
  <2>3. table' = [i \in DOMAIN table |-> table'[i]]
    BY <1>4
  <2>4. ASSUME NEW i \in DOMAIN table
        PROVE  /\ table'[i] \in DiskPart /\ table'[i].num = table[i].num /\ table'[i].fsS <= table'[i].size
               /\ table'[i].name = table[i].name /\ table'[i].data = table[i].data
    <3>1. CASE i \in Numbered /\ req.fs
      <4>1. table'[i] = made(i)
        BY <1>4, <3>1, <2>4
      <4> QED BY <2>1, <2>2, <3>1, <4>1
    <3>2. CASE ~(i \in Numbered /\ req.fs)
      <4>1. table'[i] = table[i]
        BY <1>4, <3>2, <2>4
      <4> QED BY <1>3, <4>1
    <3> QED BY <3>1, <3>2
  <2>5. Reformatted
    BY <2>3, <2>4, Zenon DEF Reformatted
  <2> QED BY <1>1, <1>4, <2>5, ReformatKeeps
<1>5. CASE ppc' = "error" /\ torn' = TRUE /\ UNCHANGED table
  <2>1. TableInv' /\ RequestInv'
    BY <1>1, <1>5 DEF TableInv, RequestInv
  <2> QED BY <1>1, <1>5, <2>1, KeptUnlessMkpart
<1>6. \/ /\ table' = [i \in DOMAIN table |-> IF i \in Numbered /\ req.fs THEN made(i) ELSE table[i]]
         /\ ppc' = "ok" /\ UNCHANGED torn
      \/ ppc' = "error" /\ torn' = TRUE /\ UNCHANGED table
  BY Zenon DEF MkfsCall, Fault
<1> QED BY <1>4, <1>5, <1>6

\* The file system of the partition that is back grows.
LEMMA GrowKeeps ==
  ASSUME Flashed, TableInv, RequestInv, ExpandFilesystem, UNCHANGED machine
  PROVE  TableInv' /\ RequestInv' /\ KeepsAll /\ (torn => torn')
<1>1. ppc = "format" /\ UNCHANGED <<total, gpt, req, torn>> /\ UNCHANGED stage
  BY DEF ExpandFilesystem, machine
<1>3. /\ table \in Seq(DiskPart) /\ DOMAIN table = 1..Len(table) /\ Len(table) \in Nat
      /\ \A i \in 1..Len(table) : table[i].num = i /\ table[i].fsS <= table[i].size /\ table[i] \in DiskPart
  BY DEF TableInv
<1> DEFINE grown(i) == [table[i] EXCEPT !.fsS = table[i].size]
<1>4. CASE /\ table' = [i \in DOMAIN table |-> IF i \in Numbered /\ table[i].fsS > 0 THEN grown(i) ELSE table[i]]
           /\ ppc' \in {"ok", "error"}
  <2>1. ASSUME NEW i \in DOMAIN table
        PROVE  /\ grown(i) \in DiskPart /\ grown(i).num = table[i].num /\ grown(i).fsS <= grown(i).size
               /\ grown(i).name = table[i].name /\ grown(i).data = table[i].data
    <3> DEFINE p == table[i]
               x == p.num
               na == p.name
               st == p.start
               si == p.size
               da == p.data
               fs == p.fsS
    <3>1. p \in DiskPart
      BY <1>3, <2>1
    <3>2. /\ p = Part(x, na, st, si, fs, da) /\ si \in Nat /\ x \in Nat /\ na \in PartNames /\ st \in Nat
          /\ da \in {"none", "recovery", "system", "user"}
      BY <3>1, DiskPartIs, DiskPartFields
    <3>3. grown(i) = [p EXCEPT !.fsS = si]
      BY Zenon
    <3> HIDE DEF grown, p, x, na, st, si, da, fs
    <3>4. [Part(x, na, st, si, fs, da) EXCEPT !.fsS = si] = Part(x, na, st, si, si, da)
      BY DEF Part
    <3>6. grown(i) = Part(x, na, st, si, si, da)
      BY <3>2, <3>3, <3>4, Zenon
    <3>7. /\ grown(i) \in DiskPart /\ grown(i).num = x /\ grown(i).fsS = si /\ grown(i).size = si
          /\ grown(i).name = na /\ grown(i).data = da
      BY <3>2, <3>6 DEF Part, DiskPart
    <3>8. grown(i).fsS <= grown(i).size
      BY <3>2, <3>7
    <3> QED BY <3>7, <3>8 DEF x, na, da, p
  <2> HIDE DEF grown
  <2>3. table' = [i \in DOMAIN table |-> table'[i]]
    BY <1>4
  <2>4. ASSUME NEW i \in DOMAIN table
        PROVE  /\ table'[i] \in DiskPart /\ table'[i].num = table[i].num /\ table'[i].fsS <= table'[i].size
               /\ table'[i].name = table[i].name /\ table'[i].data = table[i].data
    <3>1. CASE i \in Numbered /\ table[i].fsS > 0
      <4>1. table'[i] = grown(i)
        BY <1>4, <3>1, <2>4
      <4> QED BY <2>1, <3>1, <4>1
    <3>2. CASE ~(i \in Numbered /\ table[i].fsS > 0)
      <4>1. table'[i] = table[i]
        BY <1>4, <3>2, <2>4
      <4> QED BY <1>3, <4>1
    <3> QED BY <3>1, <3>2
  <2>5. Reformatted
    BY <2>3, <2>4, Zenon DEF Reformatted
  <2> QED BY <1>1, <1>4, <2>5, ReformatKeeps
<1>5. CASE ppc' = "error" /\ UNCHANGED table
  <2>1. TableInv' /\ RequestInv'
    BY <1>1, <1>5 DEF TableInv, RequestInv
  <2> QED BY <1>1, <1>5, <2>1, KeptUnlessMkpart
<1>6. \/ /\ table' = [i \in DOMAIN table |-> IF i \in Numbered /\ table[i].fsS > 0 THEN grown(i) ELSE table[i]]
         /\ ppc' \in {"ok", "error"}
      \/ ppc' = "error" /\ UNCHANGED table
  BY Zenon DEF ExpandFilesystem, Fault
<1> QED BY <1>4, <1>5, <1>6

\* The steps of a request keep the data on the disk.
LEMMA PartitionerKeeps ==
  ASSUME DiskInv, PartitionerNext, UNCHANGED machine
  PROVE  DiskInv'
<1>1. stage' = stage /\ deployed' = deployed /\ wrote' = wrote /\ entry' = entry /\ mode' = mode
  BY DEF machine
<1>2. stage # "none"
  BY DEF DiskInv, PartitionerNext, Reload, Rm, Mkpart, FindPartitionDevice, MkfsCall, ExpandFilesystem
<1>3. CASE ~Flashed
  BY <1>1, <1>2, <1>3 DEF DiskInv, Flashed
<1>4. CASE Flashed
  <2>1. TableInv /\ RequestInv /\ (~torn => KeptInv)
    BY <1>4 DEF DiskInv
  <2>2. TableInv' /\ RequestInv' /\ (~torn' => KeepsAll) /\ (torn => torn')
    BY <1>4, <2>1, ReloadKeeps, RmKeeps, MkpartKeeps, DeviceKeeps, MkfsKeeps, GrowKeeps DEF PartitionerNext
  <2>3. ~torn' => KeptInv'
    <3> SUFFICES ASSUME KeptInv, KeepsAll PROVE KeptInv'
      BY <2>1, <2>2
    <3>2. /\ Kept("recovery", "recovery")'
          /\ deployed => Kept("state", "system")'
          /\ wrote => Kept("persistent", "user")'
      BY DEF KeptInv, KeepsAll
    <3> QED BY <1>1, <3>2 DEF KeptInv
  <2> QED BY <1>1, <1>2, <2>2, <2>3 DEF DiskInv
<1> QED BY <1>3, <1>4

-----------------------------------------------------------------------------
(***************************************************************************)
(* Boots and stages                                                        *)
(***************************************************************************)

\* The stages and what comes after them.
LEMMA NextStages ==
  /\ DOMAIN NextStage = {"expand", "state", "persistent"}
  /\ \A s \in DOMAIN NextStage : NextStage[s] \in {"state", "persistent", "deploy"}
<1>1. NextStage = [s \in {"expand", "state", "persistent"} |->
                     IF s = "expand" THEN "state" ELSE IF s = "state" THEN "persistent" ELSE "deploy"]
  BY DEF NextStage
<1> QED BY <1>1

\* A step of the machine that leaves the disk alone and goes to a stage that has
\* no request under way.
LEMMA DiskAlone ==
  ASSUME Flashed, TableInv, RequestInv, UNCHANGED <<table, total, gpt>>, ppc' = "idle", ppc # "mkpart" \/ torn'
  PROVE  TableInv' /\ RequestInv' /\ (~torn' => KeepsAll)
<1>1. TableInv' /\ RequestInv'
  BY DEF TableInv, RequestInv
<1> QED BY <1>1, KeptUnlessMkpart

\* A boot leaves the disk alone, whichever entry it takes.
LEMMA BootKeeps ==
  ASSUME DiskInv, Boot
  PROVE  DiskInv'
<1>1. stage = "off" /\ UNCHANGED <<partVars, deployed, wrote>> /\ entry' = "none" /\ Flashed
  BY DEF Boot, Flashed
<1>2. TableInv /\ RequestInv /\ (~torn => KeptInv)
  BY <1>1 DEF DiskInv
<1>3. stage' \in {"dead", "expand", "running"}
  BY Zenon DEF Boot
<1>4. ppc = "idle" /\ ppc' = "idle" /\ UNCHANGED <<table, total, gpt, torn>>
  BY <1>1, <1>2, NextStages DEF RequestInv, partVars
<1>5. TableInv' /\ RequestInv' /\ (~torn' => KeepsAll)
  BY <1>1, <1>2, <1>4, DiskAlone
<1>7. ~torn' => KeptInv'
  <2> SUFFICES ASSUME ~torn, KeptInv, KeepsAll PROVE KeptInv'
    BY <1>2, <1>4, <1>5
  <2>1. /\ Kept("recovery", "recovery")'
        /\ deployed => Kept("state", "system")'
        /\ wrote => Kept("persistent", "user")'
    BY DEF KeptInv, KeepsAll
  <2> QED BY <1>1, <2>1 DEF KeptInv
<1> QED BY <1>3, <1>5, <1>7 DEF DiskInv

\* A stage starts a request, or the next one begins.
LEMMA LayoutKeeps ==
  ASSUME DiskInv, Layout
  PROVE  DiskInv'
<1>1. stage \in DOMAIN NextStage /\ UNCHANGED <<table, total, gpt, torn, mode, entry, deployed, wrote>> /\ Flashed
  BY NextStages DEF Layout, Flashed
<1>2. TableInv /\ RequestInv /\ (~torn => KeptInv)
  BY <1>1 DEF DiskInv
<1>3. CASE ppc = "idle" /\ ppc' = "reload" /\ UNCHANGED stage /\ req' \in {ExpandRequest(PartSize["recovery"]), AddRequest(stage, PartSize[stage], TRUE)}
             /\ (req' = AddRequest(stage, PartSize[stage], TRUE) => stage # "expand")
  <2>1. TableInv' /\ KeepsAll
    BY <1>1, <1>2, <1>3, KeptUnlessMkpart DEF TableInv
  <2>2. RequestInv'
    <3>1. CASE req' = ExpandRequest(PartSize["recovery"])
      <4>1. /\ RequestFields(req') /\ req'.op = "expand" /\ req'.size = PartSize["recovery"]
        BY <3>1 DEF ExpandRequest, RequestFields
      <4> QED BY <1>1, <1>2, <1>3, <4>1 DEF RequestInv
    <3>2. CASE req' = AddRequest(stage, PartSize[stage], TRUE) /\ stage # "expand"
      <4>1. /\ RequestFields(req') /\ req'.op = "add" /\ req'.size = PartSize[stage] /\ req'.name = stage /\ req'.part = <<>>
        BY <3>2 DEF AddRequest, RequestFields
      <4>2. stage \in {"state", "persistent"} /\ PartSize[stage] \in Nat
        BY <1>1, <3>2, NextStages, PartSizes
      <4> QED BY <1>1, <1>2, <1>3, <4>1, <4>2 DEF RequestInv
    <3> QED BY <1>3, <3>1, <3>2
  <2>3. ~torn' => KeptInv'
    <3> SUFFICES ASSUME ~torn, KeptInv, KeepsAll PROVE KeptInv'
      BY <1>1, <1>2, <2>1
    <3>1. /\ Kept("recovery", "recovery")'
          /\ deployed => Kept("state", "system")'
          /\ wrote => Kept("persistent", "user")'
      BY DEF KeptInv, KeepsAll
    <3> QED BY <1>1, <1>3, <3>1 DEF KeptInv
  <2> QED BY <1>1, <1>3, <2>1, <2>2, <2>3, NextStages DEF DiskInv
<1>4. CASE ppc \in {"idle", "ok", "error"} /\ ppc' = "idle" /\ stage' = NextStage[stage]
  <2>1. TableInv' /\ RequestInv' /\ (~torn' => KeepsAll)
    BY <1>1, <1>2, <1>4, DiskAlone
  <2>2. stage' \in {"state", "persistent", "deploy"}
    BY <1>1, <1>4, NextStages
  <2>3. ~torn' => KeptInv'
    <3> SUFFICES ASSUME ~torn, KeptInv, KeepsAll PROVE KeptInv'
      BY <1>1, <1>2, <2>1
    <3>1. /\ Kept("recovery", "recovery")'
          /\ deployed => Kept("state", "system")'
          /\ wrote => Kept("persistent", "user")'
      BY DEF KeptInv, KeepsAll
    <3> QED BY <1>1, <3>1 DEF KeptInv
  <2> QED BY <2>1, <2>2, <2>3 DEF DiskInv
<1>5. \/ /\ ppc = "idle" /\ ppc' = "reload" /\ UNCHANGED stage
         /\ req' \in {ExpandRequest(PartSize["recovery"]), AddRequest(stage, PartSize[stage], TRUE)}
         /\ (req' = AddRequest(stage, PartSize[stage], TRUE) => stage # "expand")
      \/ ppc \in {"idle", "ok", "error"} /\ ppc' = "idle" /\ stage' = NextStage[stage]
  <2>0. ExpandRequest(PartSize["recovery"]) # AddRequest(stage, PartSize[stage], TRUE)
    BY DEF ExpandRequest, AddRequest
  <2>1. CASE ppc = "idle" /\ stage = "expand" /\ Request(ExpandRequest(PartSize["recovery"])) /\ UNCHANGED stage
    BY <2>0, <2>1 DEF Request
  <2>2. CASE ppc = "idle" /\ stage # "expand" /\ Request(AddRequest(stage, PartSize[stage], TRUE)) /\ UNCHANGED stage
    BY <2>2 DEF Request
  <2>3. CASE ppc = "idle" /\ stage' = NextStage[stage] /\ UNCHANGED <<ppc, req>>
    BY <2>3
  <2>4. CASE Idle("ok") /\ stage' = NextStage[stage]
    BY <2>4 DEF Idle
  <2>5. CASE Idle("error") /\ stage' = AfterError
    BY <2>5 DEF Idle, AfterError
  <2> QED BY <2>1, <2>2, <2>3, <2>4, <2>5 DEF Layout
<1> QED BY <1>3, <1>4, <1>5

\* GetByName finds a partition of that name.
LEMMA ByName ==
  ASSUME TableInv, NEW name, Named(name) # {}
  PROVE  GetByName(name) \in DOMAIN table /\ table[GetByName(name)].name = name
<1>1. Named(name) \in SUBSET Nat /\ \A i \in Named(name) : i <= Len(table) /\ i \in DOMAIN table /\ table[i].name = name
  BY DEF Named, TableInv
<1>2. Len(table) \in Nat
  BY DEF TableInv
<1> DEFINE T == {n \in Nat : Len(table) - n \in Named(name)}
<1>3. T \in SUBSET Nat /\ T # {}
  <2>1. PICK i \in Named(name) : TRUE
    OBVIOUS
  <2>2. Len(table) - i \in Nat /\ Len(table) - (Len(table) - i) = i
    BY <1>1, <1>2, <2>1
  <2> QED BY <2>1, <2>2
<1>4. PICK n \in T : \A m \in T : n <= m
  <2> HIDE DEF T
  <2> QED BY <1>3, LeastNat
<1> DEFINE k == Len(table) - n
<1>5. k \in Named(name) /\ \A j \in Named(name) : j <= k
  <2>1. k \in Named(name)
    BY <1>4
  <2>2. ASSUME NEW j \in Named(name) PROVE j <= k
    <3>1. Len(table) - j \in Nat /\ Len(table) - (Len(table) - j) = j /\ j \in Nat
      BY <1>1, <1>2, <2>2
    <3>2. Len(table) - j \in T
      BY <3>1, <2>2
    <3>3. n <= Len(table) - j /\ n \in Nat
      BY <1>4, <3>2
    <3> QED BY <1>2, <3>1, <3>3
  <2> QED BY <2>1, <2>2
<1> HIDE DEF k
<1>6. GetByName(name) \in Named(name)
  <2>1. \E i \in Named(name) : \A j \in Named(name) : j <= i
    BY <1>5
  <2> QED BY <2>1, Zenon DEF GetByName
<1> QED BY <1>1, <1>6

\* Something is written to a partition.
LEMMA DataWritten ==
  ASSUME TableInv, NEW k \in DOMAIN table, NEW d \in {"none", "recovery", "system", "user"},
         table' = [table EXCEPT ![k].data = d]
  PROVE  /\ TableInv' /\ k \in DOMAIN table'
         /\ table'[k].data = d /\ Len(table') = Len(table)
         /\ \A i \in 1..Len(table) : /\ table'[i].name = table[i].name /\ table'[i].size = table[i].size
                                     /\ table'[i].fsS = table[i].fsS /\ table'[i].start = table[i].start
                                     /\ i # k => table'[i] = table[i]
<1>1. /\ table \in Seq(DiskPart) /\ DOMAIN table = 1..Len(table) /\ Len(table) \in Nat
      /\ \A i \in 1..Len(table) : table[i].num = i /\ table[i].fsS <= table[i].size /\ table[i] \in DiskPart
  BY DEF TableInv
<1> DEFINE q == [table[k] EXCEPT !.data = d]
           p == table[k]
           x == p.num
           na == p.name
           st == p.start
           si == p.size
           da == p.data
           fs == p.fsS
<1>2. table' = [table EXCEPT ![k] = q]
  BY Zenon
<1>3. p \in DiskPart
  BY <1>1
<1>4. /\ p = Part(x, na, st, si, fs, da) /\ si \in Nat /\ x \in Nat /\ na \in PartNames /\ st \in Nat /\ fs \in Nat
  BY <1>3, DiskPartIs, DiskPartFields
<1>5. q = [p EXCEPT !.data = d]
  BY Zenon
<1> HIDE DEF q, p, x, na, st, si, da, fs
<1>6. [Part(x, na, st, si, fs, da) EXCEPT !.data = d] = Part(x, na, st, si, fs, d)
  BY DEF Part
<1>7. q = Part(x, na, st, si, fs, d)
  BY <1>4, <1>5, <1>6, Zenon
<1>8. /\ q \in DiskPart /\ q.num = x /\ q.name = na /\ q.start = st /\ q.size = si /\ q.fsS = fs /\ q.data = d
  BY <1>4, <1>7 DEF Part, DiskPart
<1>9. table' = [i \in 1..Len(table) |-> IF i = k THEN q ELSE table[i]]
  BY <1>1, <1>2
<1> DEFINE t == table'
<1>10. t = [i \in 1..Len(table) |-> t[i]] /\ \A i \in 1..Len(table) : t[i] \in DiskPart
  BY <1>1, <1>8, <1>9
<1> HIDE DEF t
<1>11. t \in Seq(DiskPart) /\ Len(t) = Len(table)
  BY <1>1, <1>10
<1>12. table' \in Seq(DiskPart) /\ Len(table') = Len(table) /\ DOMAIN table' = 1..Len(table)
  BY <1>9, <1>11 DEF t
<1>13. \A i \in 1..Len(table) : /\ table'[i].name = table[i].name /\ table'[i].size = table[i].size
                                /\ table'[i].fsS = table[i].fsS /\ table'[i].start = table[i].start
                                /\ table'[i].num = table[i].num
                                /\ i # k => table'[i] = table[i]
  <2> TAKE i \in 1..Len(table)
  <2>1. CASE i = k
    BY <1>8, <1>9, <2>1 DEF x, na, st, si, fs, p
  <2>2. CASE i # k
    BY <1>9, <2>2
  <2> QED BY <2>1, <2>2
<1>14. TableInv'
  BY <1>1, <1>12, <1>13 DEF TableInv
<1>15. k \in DOMAIN table' /\ table'[k].data = d
  BY <1>1, <1>8, <1>9, <1>12
<1> QED BY <1>12, <1>13, <1>14, <1>15

\* ... and whatever is in a partition of another name stays.
LEMMA OthersKept ==
  ASSUME TableInv, NEW k \in DOMAIN table, NEW d \in {"none", "recovery", "system", "user"},
         table' = [table EXCEPT ![k].data = d], NEW name, NEW data, name # table[k].name, Bootable(name, data)
  PROVE  Bootable(name, data)'
<1>1. PICK i \in DOMAIN table : table[i].name = name /\ table[i].data = data
  BY DEF Bootable, Named
<1>2. i # k /\ i \in 1..Len(table)
  BY <1>1 DEF TableInv
<1>3. Len(table') = Len(table) /\ table'[i] = table[i] /\ TableInv'
  BY <1>2, DataWritten
<1>4. i \in DOMAIN table'
  BY <1>2, <1>3 DEF TableInv
<1> QED BY <1>1, <1>3, <1>4 DEF Bootable, Named

\* `elemental reset` writes to the state partition only, and one that fails leaves
\* nothing deployed.
LEMMA DeployKeeps ==
  ASSUME DiskInv, Deploy
  PROVE  DiskInv'
<1>1. stage = "deploy" /\ UNCHANGED <<total, gpt, ppc, req, torn, mode, entry, wrote>> /\ Flashed
  BY DEF Deploy, Flashed
<1>2. TableInv /\ RequestInv /\ (~torn => KeptInv)
  BY <1>1 DEF DiskInv
<1>3. ppc = "idle" /\ ppc' = "idle"
  BY <1>1, <1>2, NextStages DEF RequestInv
<1>4. RequestInv'
  BY <1>1, <1>2, <1>3 DEF RequestInv
<1>5. \A name, data : Kept(name, data) <=> Bootable(name, data)
  BY <1>3 DEF Kept
<1>6. \A name, data : Bootable(name, data)' => Kept(name, data)'
  BY DEF Kept
<1> DEFINE k == GetByName("state")
<1>7. ASSUME NEW d \in {"none", "system"}, table' = [table EXCEPT ![k].data = d], ResetPossible
      PROVE  /\ TableInv'
             /\ KeptInv => Kept("recovery", "recovery")' /\ (wrote => Kept("persistent", "user")')
             /\ d = "system" => Kept("state", "system")'
  <2>1. k \in DOMAIN table /\ table[k].name = "state"
    BY <1>2, <1>7, ByName DEF ResetPossible
  <2> HIDE DEF k
  <2>2. d \in {"none", "recovery", "system", "user"}
    OBVIOUS
  <2>3. /\ TableInv' /\ k \in DOMAIN table' /\ table'[k].data = d /\ table'[k].name = "state"
    <3>1. k \in 1..Len(table)
      BY <1>2, <2>1 DEF TableInv
    <3> QED BY <1>2, <1>7, <2>1, <2>2, <3>1, DataWritten
  <2>4. Bootable("recovery", "recovery") => Bootable("recovery", "recovery")'
    BY <1>2, <1>7, <2>1, <2>2, OthersKept
  <2>5. Bootable("persistent", "user") => Bootable("persistent", "user")'
    BY <1>2, <1>7, <2>1, <2>2, OthersKept
  <2>6. d = "system" => Bootable("state", "system")'
    BY <2>3 DEF Bootable, Named
  <2> QED BY <1>5, <1>6, <2>3, <2>4, <2>5, <2>6 DEF KeptInv
<1> HIDE DEF k
<1>8. CASE ResetPossible /\ table' = [table EXCEPT ![k].data = "system"] /\ deployed' = TRUE /\ stage' = "off"
  <2>1. TableInv' /\ (KeptInv => Kept("recovery", "recovery")' /\ (wrote => Kept("persistent", "user")')) /\ Kept("state", "system")'
    BY <1>7, <1>8
  <2>2. ~torn' => KeptInv'
    <3> SUFFICES ASSUME KeptInv PROVE KeptInv'
      BY <1>1, <1>2
    <3> QED BY <1>1, <1>8, <2>1 DEF KeptInv
  <2> QED BY <1>4, <1>8, <2>1, <2>2 DEF DiskInv
<1>9. CASE /\ mode = "recovery" /\ ResetPossible /\ table' = [table EXCEPT ![k].data = "none"]
           /\ stage' = "running" /\ deployed' = FALSE
  <2>1. TableInv' /\ (KeptInv => Kept("recovery", "recovery")' /\ (wrote => Kept("persistent", "user")'))
    BY <1>7, <1>9
  <2>2. ~torn' => KeptInv'
    <3> SUFFICES ASSUME KeptInv PROVE KeptInv'
      BY <1>1, <1>2
    <3> QED BY <1>1, <1>9, <2>1 DEF KeptInv
  <2> QED BY <1>4, <1>9, <2>1, <2>2 DEF DiskInv
<1>10. CASE stage' = "running" /\ UNCHANGED <<table, deployed>>
  <2>1. TableInv' /\ KeepsAll
    BY <1>2, <1>3, <1>10, KeptUnlessMkpart DEF TableInv
  <2>2. ~torn' => KeptInv'
    <3> SUFFICES ASSUME KeptInv PROVE KeptInv'
      BY <1>1, <1>2
    <3>1. /\ Kept("recovery", "recovery")'
          /\ deployed => Kept("state", "system")'
          /\ wrote => Kept("persistent", "user")'
      BY <2>1 DEF KeptInv, KeepsAll
    <3> QED BY <1>1, <1>10, <3>1 DEF KeptInv
  <2> QED BY <1>4, <1>10, <2>1, <2>2 DEF DiskInv
<1> QED BY <1>8, <1>9, <1>10 DEF Deploy, k

\* A user writes to the persistent partition, where what was written before may
\* be replaced.
LEMMA UserWriteKeeps ==
  ASSUME DiskInv, UserWrite
  PROVE  DiskInv'
<1> DEFINE k == GetByName("persistent")
<1>1. /\ stage = "running" /\ UNCHANGED <<total, gpt, ppc, req, torn, stage, mode, entry, deployed>> /\ Flashed
      /\ table' = [table EXCEPT ![k].data = "user"] /\ wrote' = TRUE /\ HasLabel("persistent")
  BY DEF UserWrite, Flashed
<1>2. TableInv /\ RequestInv /\ (~torn => KeptInv)
  BY <1>1 DEF DiskInv
<1>3. ppc = "idle" /\ ppc' = "idle"
  BY <1>1, <1>2, NextStages DEF RequestInv
<1>4. RequestInv'
  BY <1>1, <1>2, <1>3 DEF RequestInv
<1>5. k \in DOMAIN table /\ table[k].name = "persistent"
  BY <1>1, <1>2, ByName DEF HasLabel
<1> HIDE DEF k
<1>6. /\ TableInv' /\ k \in DOMAIN table' /\ table'[k].data = "user" /\ table'[k].name = "persistent"
  <2>1. k \in 1..Len(table) /\ "user" \in {"none", "recovery", "system", "user"}
    BY <1>2, <1>5 DEF TableInv
  <2> QED BY <1>1, <1>2, <1>5, <2>1, DataWritten
<1>7. Bootable("recovery", "recovery") => Bootable("recovery", "recovery")'
  BY <1>1, <1>2, <1>5, OthersKept
<1>8. Bootable("state", "system") => Bootable("state", "system")'
  BY <1>1, <1>2, <1>5, OthersKept
<1>9. Bootable("persistent", "user")'
  BY <1>6 DEF Bootable, Named
<1>10. ~torn' => KeptInv'
  <2> SUFFICES ASSUME KeptInv PROVE KeptInv'
    BY <1>1, <1>2
  <2>1. Bootable("recovery", "recovery") /\ (deployed => Bootable("state", "system"))
    BY <1>3 DEF KeptInv, Kept
  <2>2. /\ Kept("recovery", "recovery")' /\ Kept("persistent", "user")'
        /\ deployed => Kept("state", "system")'
    BY <1>7, <1>8, <1>9, <2>1 DEF Kept
  <2> QED BY <1>1, <2>2 DEF KeptInv
<1> QED BY <1>1, <1>4, <1>6, <1>10 DEF DiskInv

\* The power goes, at will or in the middle of a request; what was taken off the
\* disk then does not come back, and torn says so.
LEMMA PowerKeeps ==
  ASSUME DiskInv, PowerOff \/ PowerCut
  PROVE  DiskInv'
<1>1. CASE ~Flashed
  <2>1. stage = "install" /\ stage' = "failed"
    BY <1>1, NextStages DEF PowerOff, PowerCut, Flashed
  <2> QED BY <2>1 DEF DiskInv, Flashed
<1>2. CASE Flashed
  <2>1. TableInv /\ RequestInv /\ (~torn => KeptInv)
    BY <1>2 DEF DiskInv
  <2>2. /\ stage \in DOMAIN NextStage \cup {"deploy", "running"} /\ stage' = "off"
        /\ UNCHANGED <<table, total, gpt, mode, entry, deployed, wrote>>
    BY <1>2, NextStages DEF PowerOff, PowerCut, Flashed, partVars
  <2>3. ppc' = "idle" /\ (ppc # "mkpart" \/ torn' \/ req.op # "expand") /\ (torn => torn')
    <3>1. CASE PowerOff
      BY <2>1, <3>1, NextStages DEF PowerOff, RequestInv, partVars
    <3>2. CASE PowerCut
      BY <3>2 DEF PowerCut, CutTears
    <3> QED BY <3>1, <3>2
  <2>4. TableInv' /\ RequestInv'
    BY <2>1, <2>2, <2>3 DEF TableInv, RequestInv
  <2>5. ~torn' => KeepsAll
    <3> SUFFICES ASSUME ~torn', NEW name, NEW data, Kept(name, data) PROVE Kept(name, data)'
      BY DEF KeepsAll
    <3>1. Bootable(name, data)
      BY <2>3 DEF Kept
    <3>2. Bootable(name, data)'
      BY <2>1, <2>2, <3>1, BootableKept DEF TableInv
    <3> QED BY <3>2 DEF Kept
  <2>6. ~torn' => KeptInv'
    <3> SUFFICES ASSUME ~torn', KeptInv, KeepsAll PROVE KeptInv'
      BY <2>1, <2>3, <2>5
    <3>1. /\ Kept("recovery", "recovery")'
          /\ deployed => Kept("state", "system")'
          /\ wrote => Kept("persistent", "user")'
      BY DEF KeptInv, KeepsAll
    <3> QED BY <2>2, <3>1 DEF KeptInv
  <2> QED BY <2>2, <2>4, <2>6 DEF DiskInv
<1> QED BY <1>1, <1>2

-----------------------------------------------------------------------------
(***************************************************************************)
(* From the image to the machine                                           *)
(***************************************************************************)

\* The partitions and images of a finished build, as numbers of sectors.
LEMMA LaidTyped ==
  ASSUME NEW s \in DiskSpecs, Room(s)
  PROVE  /\ DOMAIN LaidOf(s) = 1..Count(s)
         /\ \A i \in 1..Count(s) :
              /\ LaidOf(s)[i].name = NameAt[i] /\ LaidOf(s)[i].start \in Nat /\ LaidOf(s)[i].size \in Nat
              /\ MiBToSectors(WantImages(s, Count(s))[i].size) \in Nat
<1>1. ExtraOf(s) \in Nat /\ ExtraOf(s) > 0
  BY ExtraPositive
<1>2. /\ GptSectors \in Nat /\ GptSectors < SectorsPerMiB /\ SectorsPerMiB \in Nat
  BY PartitionerAssumption
<1> DEFINE mx == MiBToSectors(ExtraOf(s))
           m1 == MiBToSectors(1)
           mb == MiBToSectors(PartSize["boot"])
           mo == MiBToSectors(PartSize["oem"])
           mr == MiBToSectors(PartSize["recovery"])
           ma == MiBToSectors(PartSize["state"])
           mt == MiBToSectors(RecoverySize)
           mq == MiBToSectors(SizeOf(s, "persistent"))
<1>3. m1 \in Nat /\ mb \in Nat /\ mo \in Nat /\ mr \in Nat /\ ma \in Nat /\ mt \in Nat /\ mx \in Nat
  BY <1>1, MiBNat, PartSizes
<1>4. mx - GptSectors \in Nat
  <2>1. mx >= SectorsPerMiB
    BY <1>1, MiBPos
  <2> QED BY <1>2, <1>3, <2>1
<1>5. CASE s.expandable
  <2>1. /\ DOMAIN LaidOf(s) = 1..3
        /\ LaidOf(s)[1] = [name |-> "boot", start |-> m1, size |-> mb]
        /\ LaidOf(s)[2] = [name |-> "oem", start |-> m1 + mb, size |-> mo]
        /\ LaidOf(s)[3] = [name |-> "recovery", start |-> m1 + mb + mo, size |-> mt + mx - GptSectors]
        /\ Sizes(WantImages(s, 3)) \in Seq(Nat) /\ Len(Sizes(WantImages(s, 3))) = 3
    BY <1>5, ExpandableLaid
  <2>2. Count(s) = 3
    BY <1>5 DEF Count
  <2>3. \A i \in 1..3 : MiBToSectors(WantImages(s, 3)[i].size) \in Nat
    <3> TAKE i \in 1..3
    <3>1. WantImages(s, 3)[i].size \in Nat
      BY <2>1, WantImagesAre, ElementOfSeq
    <3> QED BY <3>1, MiBNat
  <2> HIDE DEF mx, m1, mb, mo, mr, ma, mt, mq
  <2>4. mt + mx - GptSectors \in Nat /\ m1 + mb \in Nat /\ m1 + mb + mo \in Nat
    BY <1>2, <1>3, <1>4
  <2>5. \A i \in 1..3 : LaidOf(s)[i].name = NameAt[i] /\ LaidOf(s)[i].start \in Nat /\ LaidOf(s)[i].size \in Nat
    <3> TAKE i \in 1..3
    <3>1. i = 1 \/ i = 2 \/ i = 3
      OBVIOUS
    <3> QED BY <1>3, <2>1, <2>4, <3>1, SMTT(30) DEF NameAt
  <2> QED BY <2>1, <2>2, <2>3, <2>5
<1>6. CASE ~s.expandable
  <2>1. /\ DOMAIN LaidOf(s) = 1..5
        /\ LaidOf(s)[1] = [name |-> "boot", start |-> m1, size |-> mb]
        /\ LaidOf(s)[2] = [name |-> "oem", start |-> m1 + mb, size |-> mo]
        /\ LaidOf(s)[3] = [name |-> "recovery", start |-> m1 + mb + mo, size |-> mr]
        /\ LaidOf(s)[4] = [name |-> "state", start |-> m1 + mb + mo + mr, size |-> ma]
        /\ LaidOf(s)[5] = [name |-> "persistent", start |-> m1 + mb + mo + mr + ma,
                           size |-> IF PartSize["persistent"] = 0 THEN mq + mx - GptSectors ELSE mq]
        /\ Sizes(WantImages(s, 5)) \in Seq(Nat) /\ Len(Sizes(WantImages(s, 5))) = 5
        /\ SizeOf(s, "persistent") \in Nat
    BY <1>6, WholeLaid
  <2>2. Count(s) = 5
    BY <1>6 DEF Count
  <2>3. \A i \in 1..5 : MiBToSectors(WantImages(s, 5)[i].size) \in Nat
    <3> TAKE i \in 1..5
    <3>1. WantImages(s, 5)[i].size \in Nat
      BY <2>1, WantImagesAre, ElementOfSeq, SMTT(30)
    <3> QED BY <3>1, MiBNat
  <2>4. mq \in Nat
    BY <2>1, MiBNat
  <2> HIDE DEF mx, m1, mb, mo, mr, ma, mt, mq
  <2>5. mq + mx - GptSectors \in Nat /\ m1 + mb \in Nat /\ m1 + mb + mo \in Nat /\ m1 + mb + mo + mr \in Nat
        /\ m1 + mb + mo + mr + ma \in Nat
    BY <1>2, <1>3, <1>4, <2>4
  <2>6. \A i \in 1..5 : LaidOf(s)[i].name = NameAt[i] /\ LaidOf(s)[i].start \in Nat /\ LaidOf(s)[i].size \in Nat
    <3> TAKE i \in 1..5
    <3>1. i = 1 \/ i = 2 \/ i = 3 \/ i = 4 \/ i = 5
      OBVIOUS
    <3>a. LaidOf(s)[1] = [name |-> "boot", start |-> m1, size |-> mb]
      BY <2>1
    <3>b. LaidOf(s)[2] = [name |-> "oem", start |-> m1 + mb, size |-> mo]
      BY <2>1
    <3>2. CASE i = 1 \/ i = 2
      BY <1>3, <2>5, <3>a, <3>b, <3>2 DEF NameAt
    <3>3. CASE i = 3 \/ i = 4
      BY <1>3, <2>1, <2>5, <3>3, SMTT(30) DEF NameAt
    <3>4. CASE i = 5
      <4>1. LaidOf(s)[5].size = mq + mx - GptSectors \/ LaidOf(s)[5].size = mq
        BY <2>1
      <4> QED BY <2>1, <2>4, <2>5, <3>4, <4>1 DEF NameAt
    <3> QED BY <3>1, <3>2, <3>3, <3>4
  <2> QED BY <2>1, <2>2, <2>3, <2>6
<1> QED BY <1>5, <1>6

\* What comes along with an image.
LEMMA DataIs ==
  /\ \A name \in PartNames : Data(name) \in {"none", "recovery", "system", "user"}
  /\ Data("recovery") = "recovery" /\ Data("state") = "system"
<1>1. \A name : name # "recovery" /\ name # "state" => Data(name) = "none"
  BY Zenon DEF Data
<1>2. Data("recovery") = "recovery"
  BY Zenon DEF Data
<1>3. Data("state") = "system"
  BY Zenon DEF Data
<1> QED BY <1>1, <1>2, <1>3

\* The disk of a machine an image has just been written to.
LEMMA FlashedTable ==
  ASSUME BuildInv, NEW sectors \in DiskSizes, Flash(sectors)
  PROVE  /\ TableInv' /\ total' \in Nat /\ gpt' \in Nat
         /\ spec \in DiskSpecs /\ Room(spec) /\ gpt' >= MiBToSectors(RawOf(spec)) - 1
         /\ Len(table') = Count(spec)
         /\ \A i \in 1..Count(spec) :
              table'[i] = Part(i, NameAt[i], LaidOf(spec)[i].start, LaidOf(spec)[i].size,
                               MiBToSectors(WantImages(spec, Count(spec))[i].size), Data(NameAt[i]))
<1>0. bpc = "idle" /\ builds > 0 /\ berr = "nil" /\ ~busy
  BY DEF Flash, BuildDone
<1>1. spec \in DiskSpecs /\ Room(spec)
  BY <1>0, FinishedFile
<1>2. PICK n \in Nat : /\ n >= MiBToSectors(RawOf(spec)) - 1
                       /\ out[spec.type] = FileOf(spec, builds, TRUE, LaidOf(spec), n)
  BY <1>0, FinishedFile, Zenon
<1> DEFINE file == FileOf(spec, builds, TRUE, LaidOf(spec), n)
           P(i) == Part(i, NameAt[i], LaidOf(spec)[i].start, LaidOf(spec)[i].size,
                        MiBToSectors(WantImages(spec, Count(spec))[i].size), Data(NameAt[i]))
<1>3. file.parts = LaidOf(spec) /\ file.images = WantImages(spec, Count(spec)) /\ file.sectors = n
  BY DEF FileOf
<1>4. Assembled(file)
  BY <1>1, <1>2, FileAssembled
<1> HIDE DEF file
<1>5. out[spec.type] = file
  BY <1>2 DEF file
<1>6. /\ table' = [i \in DOMAIN file.parts |->
                      Part(i, file.parts[i].name, file.parts[i].start, file.parts[i].size,
                           MiBToSectors(file.images[i].size), Data(file.parts[i].name))]
      /\ total' = sectors /\ gpt' = file.sectors
  BY <1>5 DEF Flash
<1>7. /\ DOMAIN LaidOf(spec) = 1..Count(spec)
      /\ \A i \in 1..Count(spec) :
              /\ LaidOf(spec)[i].name = NameAt[i] /\ LaidOf(spec)[i].start \in Nat /\ LaidOf(spec)[i].size \in Nat
              /\ MiBToSectors(WantImages(spec, Count(spec))[i].size) \in Nat
  BY <1>1, LaidTyped
<1>8. table' = [i \in 1..Count(spec) |-> P(i)]
  BY <1>3, <1>6, <1>7
<1>9. \A i \in 1..Count(spec) : MiBToSectors(WantImages(spec, Count(spec))[i].size) <= LaidOf(spec)[i].size
  BY <1>3, <1>4, <1>7 DEF Assembled
<1>10. Count(spec) \in Nat /\ \A i \in 1..Count(spec) : i \in Nat /\ NameAt[i] \in PartNames
  <2>1. CASE Count(spec) = 3
    BY <2>1 DEF NameAt, PartNames
  <2>2. CASE Count(spec) = 5
    BY <2>2 DEF NameAt, PartNames
  <2> QED BY <2>1, <2>2 DEF Count
<1>11. \A i \in 1..Count(spec) : /\ P(i) \in DiskPart /\ P(i).num = i /\ P(i).fsS <= P(i).size
  <2> TAKE i \in 1..Count(spec)
  <2> DEFINE st == LaidOf(spec)[i].start
             si == LaidOf(spec)[i].size
             fs == MiBToSectors(WantImages(spec, Count(spec))[i].size)
             da == Data(NameAt[i])
             na == NameAt[i]
  <2>1. st \in Nat /\ si \in Nat /\ fs \in Nat /\ fs <= si /\ na \in PartNames /\ i \in Nat
        /\ da \in {"none", "recovery", "system", "user"}
    BY <1>7, <1>9, <1>10, DataIs
  <2> HIDE DEF st, si, fs, da, na
  <2>2. /\ Part(i, na, st, si, fs, da) \in DiskPart /\ Part(i, na, st, si, fs, da).num = i
        /\ Part(i, na, st, si, fs, da).fsS <= Part(i, na, st, si, fs, da).size
    BY <2>1 DEF Part, DiskPart
  <2> QED BY <2>2 DEF st, si, fs, da, na
<1> DEFINE t == table'
<1> HIDE DEF P
<1>12. t = [i \in 1..Count(spec) |-> P(i)]
  BY <1>8
<1> HIDE DEF t
<1>13. t \in Seq(DiskPart) /\ Len(t) = Count(spec) /\ \A i \in 1..Count(spec) : t[i] = P(i)
  BY <1>10, <1>11, <1>12
<1>14. TableInv'
  BY <1>11, <1>13 DEF TableInv, t
<1>15. total' \in Nat /\ gpt' \in Nat /\ gpt' >= MiBToSectors(RawOf(spec)) - 1
  BY <1>2, <1>3, <1>6, FirstBootAssumption
<1> QED BY <1>1, <1>13, <1>14, <1>15 DEF t, P

\* An image brings its recovery system along, and a deployed one if it is not expandable.
LEMMA FlashKeeps ==
  ASSUME BuildInv, DiskInv, NEW sectors \in DiskSizes, Flash(sectors)
  PROVE  DiskInv'
<1>1. /\ stage = "none" /\ stage' = "off" /\ UNCHANGED <<ppc, wrote>>
      /\ entry' = (IF spec.expandable THEN "recovery" ELSE "none") /\ deployed' = ~spec.expandable
  BY DEF Flash
<1>2. ppc' = "idle" /\ ~wrote'
  BY <1>1 DEF DiskInv
<1>3. /\ TableInv' /\ total' \in Nat /\ gpt' \in Nat /\ Len(table') = Count(spec) /\ spec \in DiskSpecs
      /\ \A i \in 1..Count(spec) :
              table'[i] = Part(i, NameAt[i], LaidOf(spec)[i].start, LaidOf(spec)[i].size,
                               MiBToSectors(WantImages(spec, Count(spec))[i].size), Data(NameAt[i]))
  BY FlashedTable
<1>4. RequestInv'
  BY <1>2, <1>3 DEF RequestInv
<1>5. \A i \in 1..Count(spec) : i \in DOMAIN table' /\ table'[i].name = NameAt[i] /\ table'[i].data = Data(NameAt[i])
  BY <1>3 DEF Part, TableInv
<1>6. Kept("recovery", "recovery")'
  <2>1. 3 \in 1..Count(spec) /\ NameAt[3] = "recovery"
    BY DEF Count, NameAt
  <2> QED BY <1>5, <2>1, DataIs DEF Kept, Bootable, Named
<1>7. ~spec.expandable => Kept("state", "system")'
  <2> SUFFICES ASSUME ~spec.expandable PROVE Kept("state", "system")'
    OBVIOUS
  <2>1. 4 \in 1..Count(spec) /\ NameAt[4] = "state"
    BY DEF Count, NameAt
  <2> QED BY <1>5, <2>1, DataIs DEF Kept, Bootable, Named
<1>8. KeptInv'
  BY <1>1, <1>2, <1>6, <1>7, NextStages DEF KeptInv
<1> QED BY <1>1, <1>3, <1>4, <1>8 DEF DiskInv

\* There is no disk at first.
LEMMA DiskInvInit == Init => DiskInv
  BY DEF Init, DiskInv, Flashed

\* Every step keeps what is on the disk.
LEMMA DiskInvNext == BuildInv /\ DiskInv /\ [Next]_vars => DiskInv'
<1> SUFFICES ASSUME BuildInv, DiskInv, [Next]_vars PROVE DiskInv'
  OBVIOUS
<1>1. CASE UNCHANGED <<partVars, machine>>
  BY <1>1 DEF DiskInv, Flashed, TableInv, RequestInv, KeptInv, Kept, Bootable, Named, partVars, machine
<1>2. CASE BuildNext /\ UNCHANGED <<partVars, machine>>
  BY <1>1, <1>2
<1>3. ASSUME NEW sectors \in DiskSizes, Flash(sectors)
      PROVE  DiskInv'
  BY <1>3, FlashKeeps
<1>4. ASSUME NEW sectors \in DiskSizes, NEW efi \in BOOLEAN, NewPartitionTable(sectors, efi)
      PROVE  DiskInv'
  <2>1. stage' = "install"
    BY <1>4 DEF NewPartitionTable
  <2> QED BY <2>1 DEF DiskInv, Flashed
<1>5. CASE CreatePartition
  <2>1. stage' \in {"install", "failed", "installed"}
    BY <1>5 DEF CreatePartition
  <2> QED BY <2>1 DEF DiskInv, Flashed
<1>6. CASE MachineNext
  BY <1>6, BootKeeps, LayoutKeeps, PartitionerKeeps, DeployKeeps, PowerKeeps DEF MachineNext
<1>7. CASE UserWrite
  BY <1>7, UserWriteKeeps
<1>8. CASE PowerCut
  BY <1>8, PowerKeeps
<1>9. CASE Stopped \/ UNCHANGED vars
  BY <1>1, <1>9 DEF Stopped, vars
<1> QED
  BY <1>2, <1>3, <1>4, <1>5, <1>6, <1>7, <1>8, <1>9 DEF Next

\* However often the stages run again, in boots to whichever entry, and whatever
\* fails in them: the recovery system, what users have written and the system of
\* the last reset, if it has succeeded, stay on the disk, unless a fault hit where
\* torn says so.
THEOREM DataStaysOnDisk == Spec => []DataKept
<1>1. DiskInv => DataKept
  <2> SUFFICES ASSUME DiskInv, stage \notin {"none", "install", "installed", "failed"}, ~torn,
                      ~(ppc = "mkpart" /\ req.op = "expand")
               PROVE  /\ Bootable("recovery", "recovery")
                      /\ deployed => Bootable("state", "system")
                      /\ wrote => Bootable("persistent", "user")
    BY DEF DataKept
  <2> QED BY DEF DiskInv, KeptInv, Kept, Flashed
<1> QED
  BY <1>1, BuildInvInit, BuildInvAll, DiskInvInit, DiskInvNext, PTL DEF Spec

-----------------------------------------------------------------------------
(***************************************************************************)
(* The layout of the disk                                                  *)
(*                                                                         *)
(* LayoutInv says of every step of a boot and of an installation without a *)
(* fault how far the layout is.  StagesInv is about the stages: which      *)
(* partitions are there, where each one begins, and that the disk is Wide  *)
(* enough for what is still to come, also when the recovery partition takes *)
(* what the build has left behind it.  MadeTo is about the installer: the  *)
(* table has the first k partitions of its list, at the sums of the sizes  *)
(* before them.                                                            *)
(***************************************************************************)

\* The sizes of the configuration, in sectors.
SectorsOf(name) == MiBToSectors(PartSize[name])

\* The recovery partition may be wider than configured, when its image is.
Widest == MiBToSectors(IF RecoverySize > PartSize["recovery"] THEN RecoverySize ELSE PartSize["recovery"])

\* What a disk an image was written to has room for.
Wide(s) == MiBToSectors(1) + SectorsOf("boot") + SectorsOf("oem") + Widest + SectorsOf("state")
             + MiBToSectors(Grown(PartSize["persistent"])) + MiBToSectors(ExtraOf(s))

\* The partitions of the layout, one after the other.
IsPart(i, name) == table[i].name = name /\ table[i].size >= SectorsOf(name) /\ table[i].fsS > 0
FirstTwo ==
  /\ Len(table) >= 2 /\ IsPart(1, "boot") /\ IsPart(2, "oem")
  /\ table[2].start + table[2].size = MiBToSectors(1) + SectorsOf("boot") + SectorsOf("oem")
RecoveryAt(i) ==
  /\ table[i].name = "recovery" /\ table[i].fsS > 0
  /\ table[i].start = MiBToSectors(1) + SectorsOf("boot") + SectorsOf("oem")
RecoveryOnly == Len(table) = 3 /\ RecoveryAt(3)
Third ==
  /\ RecoveryAt(3) /\ table[3].size >= SectorsOf("recovery")
  /\ table[3].size <= Widest + MiBToSectors(ExtraOf(spec)) - GptSectors
Follows(i) == table[i].start = table[i - 1].start + table[i - 1].size
Fourth == table[4].name = "state" /\ table[4].size = SectorsOf("state") /\ Follows(4)
Fifth  == /\ table[5].name = "persistent" /\ table[5].size > 0
          /\ IF PartSize["persistent"] = 0 THEN End(table[5]) = LastUsable(total)
             ELSE table[5].size >= SectorsOf("persistent")

Complete ==
  /\ Len(table) = 5 /\ FirstTwo /\ Third /\ Fourth /\ Fifth
  /\ table[4].fsS > 0 /\ table[5].fsS > 0

\* The stages in a boot without a fault.
ExpandStage ==
  /\ ppc \in {"idle", "reload", "rm", "mkpart", "device", "format", "ok", "error"}
  /\ ppc \in {"idle", "reload", "rm", "error"} =>
       RecoveryOnly /\ table[3].size <= Widest + MiBToSectors(ExtraOf(spec)) - GptSectors
  /\ ppc = "error" => table[3].size >= SectorsOf("recovery")
  /\ ppc \in {"reload", "rm", "mkpart", "device", "format"} => req.op = "expand"
  /\ ppc \in {"rm", "mkpart"} => gpt = total
  /\ ppc \in {"rm", "mkpart", "device", "format"} => req.num = 3
  /\ ppc \in {"rm", "mkpart"} => req.start = MiBToSectors(1) + SectorsOf("boot") + SectorsOf("oem")
  /\ ppc = "mkpart" => Len(table) = 2 /\ req.part[1].name = "recovery" /\ req.part[1].fsS > 0
  /\ ppc \in {"device", "format", "ok"} => RecoveryOnly /\ table[3].size = SectorsOf("recovery")

AddStage(n) ==
  /\ ppc \in {"idle", "reload", "mkpart", "device", "format", "ok"}
  /\ ppc \in {"idle", "reload", "mkpart"} => Len(table) = n - 1
  /\ ppc \in {"device", "format", "ok"} => Len(table) = n
  /\ ppc \in {"reload", "mkpart", "device", "format"} =>
       req.op = "add" /\ req.name = stage /\ req.size = PartSize[stage] /\ req.fs = TRUE
  /\ ppc = "mkpart" => req.start = table[n - 1].start + table[n - 1].size /\ gpt = total
  /\ ppc = "ok" => table[n].fsS > 0

StateStage      == Third /\ AddStage(4) /\ (ppc \in {"device", "format", "ok"} => Fourth)
PersistentStage == Third /\ Fourth /\ table[4].fsS > 0 /\ AddStage(5) /\ (ppc \in {"device", "format", "ok"} => Fifth)

StagesInv ==
  /\ spec \in DiskSpecs /\ Room(spec) /\ total >= Wide(spec)
  /\ FirstTwo
  /\ stage \in {"expand", "state", "persistent", "deploy"} => mode = "recovery" /\ ~deployed /\ stages
  /\ stage = "off" /\ ~deployed =>
       /\ RecoveryOnly /\ table[3].size <= Widest + MiBToSectors(ExtraOf(spec)) - GptSectors
       /\ entry = "recovery" /\ stages
  /\ stage = "expand" => ExpandStage
  /\ stage = "state" => StateStage
  /\ stage = "persistent" => PersistentStage
  /\ stage = "deploy" \/ deployed => Complete
  /\ deployed => ~stages
  /\ stage = "running" => deployed

\* The disk an installer has made partitions on.
Weights(parts) == [i \in DOMAIN parts |-> IF parts[i].size = 0 THEN 1 ELSE parts[i].size]
StartOf(parts, i) == MiBToSectors(1 + Totals(Weights(parts))[i - 1])
SizeOn(parts, i, sectors) == IF parts[i].size = 0 THEN sectors - GptSectors - StartOf(parts, i) ELSE MiBToSectors(parts[i].size)
MadePart(parts, i, done) ==
  Part(i, parts[i].name, StartOf(parts, i), SizeOn(parts, i, total),
       IF parts[i].fs /\ done THEN SizeOn(parts, i, total) ELSE 0, "none")
MadeTable(parts, k) ==
  /\ table = [i \in 1..k |-> table[i]]
  /\ \A i \in 1..k : table[i] = MadePart(parts, i, i < k \/ ppc \notin {"device", "format"})

\* The first k partitions are made, and the request at hand is about the next
\* one, or about the last of them, which may still have to be formatted.
MadeTo(parts, k) ==
  /\ total \in Nat /\ gpt = total /\ total >= MiBToSectors(2 + Total(Weights(parts)))
  /\ ppc \in {"idle", "reload", "mkpart", "device", "format", "ok"}
  /\ MadeTable(parts, k)
  /\ ppc \in {"idle", "reload", "mkpart"} => todo = SubSeq(parts, k + 1, Len(parts))
  /\ ppc \in {"device", "format", "ok"} => k > 0 /\ todo = SubSeq(parts, k, Len(parts))
  /\ ppc \in {"reload", "mkpart"} =>
       /\ k < Len(parts) /\ RequestFields(req) /\ req.op = "add" /\ req.part = <<>>
       /\ req.name = parts[k + 1].name /\ req.size = parts[k + 1].size /\ req.fs = parts[k + 1].fs
  /\ ppc = "mkpart" => req.num = k + 1 /\ req.start = StartOf(parts, k + 1)
  /\ ppc \in {"device", "format"} => req.op = "add" /\ req.num = k /\ req.fs = parts[k].fs
  /\ stage = "installed" => ppc = "idle" /\ k = Len(parts)

\* The list is the one of the firmware the installer runs on.
MadeInv == \E parts \in {InstallParts(mode = "efi")} : \E k \in 0..Len(parts) : MadeTo(parts, k)

\* An empty disk, and what the stages or the installer have made of it.
LayoutInv ==
  /\ faults \in Nat
  /\ stage = "none" => table = <<>>
  /\ faults = 0 => /\ stage # "failed"
                   /\ Flashed /\ spec.expandable => StagesInv
                   /\ stage \in {"install", "installed"} => MadeInv

\* One turn of the loop of PartitionsByInstallOrder.
LoopStep(all, n, i, prev) ==
  IF ~(all[i].size = 0 /\ (all[i].name = "persistent" \/ i > n))
  THEN [partitions |-> Append(prev.partitions, all[i]), last |-> prev.last]
  ELSE [partitions |-> prev.partitions, last |-> IF prev.last = <<>> THEN <<all[i]>> ELSE prev.last]
LoopTo(all, n, f, m) ==
  f = [i \in 0..m |-> IF i = 0 THEN [partitions |-> <<>>, last |-> <<>>] ELSE LoopStep(all, n, i, f[i - 1])]

\* What the loop collects: partitions with a size, and at most one that may grow.
Sorted(Item) == [partitions : Seq({x \in Item : x.size # 0}), last : {<<>>} \cup {<<x>> : x \in Item}]

\* The loop keeps to that.
LEMMA LoopStepSorted ==
  ASSUME NEW Item, NEW all \in Seq(Item), NEW n, NEW i \in 1..Len(all),
         \A j \in 1..Len(all) : all[j].size = 0 => all[j].name = "persistent" \/ j > n,
         NEW prev \in Sorted(Item)
  PROVE  LoopStep(all, n, i, prev) \in Sorted(Item)
<1> DEFINE P == {x \in Item : x.size # 0}
           L == {<<>>} \cup {<<x>> : x \in Item}
           g == all[i].size = 0 /\ (all[i].name = "persistent" \/ i > n)
<1>1. all[i] \in Item
  BY ElementOfSeq
<1>2. prev.partitions \in Seq(P) /\ prev.last \in L
  BY DEF Sorted
<1>3. CASE ~g
  <2>1. all[i] \in P
    BY <1>1, <1>3
  <2> DEFINE a == Append(prev.partitions, all[i])
             l == prev.last
  <2>2. a \in Seq(P)
    <3> HIDE DEF P
    <3> QED BY <1>2, <2>1, AppendProperties
  <2>3. LoopStep(all, n, i, prev) = [partitions |-> a, last |-> l]
    BY <1>3 DEF LoopStep
  <2>4. l \in L
    BY <1>2
  <2> HIDE DEF a, l, P, L
  <2>5. [partitions |-> a, last |-> l] \in [partitions : Seq(P), last : L]
    BY <2>2, <2>4
  <2> QED BY <2>3, <2>5 DEF Sorted, P, L
<1>4. CASE g
  <2> DEFINE a == prev.partitions
             l == IF prev.last = <<>> THEN <<all[i]>> ELSE prev.last
  <2>1. LoopStep(all, n, i, prev) = [partitions |-> a, last |-> l]
    BY <1>4 DEF LoopStep
  <2>2. l \in L
    BY <1>1, <1>2
  <2> HIDE DEF l, P, L
  <2>3. [partitions |-> a, last |-> l] \in [partitions : Seq(P), last : L]
    BY <1>2, <2>2
  <2> QED BY <2>1, <2>3 DEF Sorted, P, L
<1> QED BY <1>3, <1>4

\* There is a function that the loop computes.
LEMMA LoopExists ==
  ASSUME NEW Item, NEW all \in Seq(Item), NEW n,
         \A j \in 1..Len(all) : all[j].size = 0 => all[j].name = "persistent" \/ j > n
  PROVE  \A m \in 0..Len(all) : \E f \in [0..m -> Sorted(Item)] : LoopTo(all, n, f, m)
<1> DEFINE R == Sorted(Item)
           T == {m \in 0..Len(all) : ~ \E f \in [0..m -> R] : LoopTo(all, n, f, m)}
<1> SUFFICES ASSUME T # {} PROVE FALSE
  OBVIOUS
<1>0. T \in SUBSET Nat /\ Len(all) \in Nat
  OBVIOUS
<1>e. [partitions |-> <<>>, last |-> <<>>] \in R
  BY DEF Sorted
<1>s. ASSUME NEW i \in 1..Len(all), NEW prev \in R PROVE LoopStep(all, n, i, prev) \in R
  BY <1>s, LoopStepSorted
<1> HIDE DEF R
<1>1. PICK m \in T : \A y \in T : m <= y
  <2> HIDE DEF T
  <2> QED BY <1>0, LeastNat
<1>2. m \in 0..Len(all) /\ ~ \E f \in [0..m -> R] : LoopTo(all, n, f, m)
  OBVIOUS
<1>3. CASE m = 0
  <2> DEFINE e == [partitions |-> <<>>, last |-> <<>>]
             f == [i \in 0..0 |-> e]
  <2>1. f \in [0..0 -> R]
    <3> HIDE DEF e
    <3> QED BY <1>e DEF e
  <2>2. f = [i \in 0..0 |-> IF i = 0 THEN e ELSE LoopStep(all, n, i, f[i - 1])]
    <3> HIDE DEF e
    <3>1. \A i \in 0..0 : i = 0
      OBVIOUS
    <3> QED BY <3>1
  <2> HIDE DEF f
  <2>3. LoopTo(all, n, f, m)
    BY <1>3, <2>2 DEF LoopTo
  <2> QED BY <1>2, <1>3, <2>1, <2>3
<1>4. CASE m # 0
  <2>1. m - 1 \in 0..Len(all) /\ ~ (m <= m - 1) /\ m \in 1..Len(all)
    BY <1>0, <1>2, <1>4
  <2>2. PICK g \in [0..(m - 1) -> R] : LoopTo(all, n, g, m - 1)
    BY <1>1, <2>1
  <2> HIDE DEF T
  <2> DEFINE last == LoopStep(all, n, m, g[m - 1])
             f == [i \in 0..m |-> IF i = m THEN last ELSE g[i]]
  <2>3. last \in R
    BY <1>s, <2>1
  <2>4. f \in [0..m -> R]
    <3> HIDE DEF last
    <3>1. \A i \in 0..m : i # m => i \in 0..(m - 1)
      BY <2>1
    <3> QED BY <2>3, <3>1
  <2>5. ASSUME NEW i \in 0..m
        PROVE  f[i] = IF i = 0 THEN [partitions |-> <<>>, last |-> <<>>] ELSE LoopStep(all, n, i, f[i - 1])
    <3>1. CASE i = m
      <4>1. f[m] = last /\ f[m - 1] = g[m - 1] /\ m # 0
        <5> HIDE DEF last
        <5>1. m \in 0..m /\ m - 1 \in 0..m /\ m - 1 # m
          BY <2>1
        <5> QED BY <1>4, <5>1
      <4> HIDE DEF f
      <4> QED BY <3>1, <4>1
    <3>2. CASE i # m
      <4>1. i \in 0..(m - 1) /\ (i # 0 => i - 1 \in 0..(m - 1) /\ i - 1 # m /\ i - 1 \in 0..m)
        BY <2>1, <3>2
      <4>2. g[i] = IF i = 0 THEN [partitions |-> <<>>, last |-> <<>>] ELSE LoopStep(all, n, i, g[i - 1])
        BY <2>2, <4>1 DEF LoopTo
      <4>3. f[i] = g[i] /\ (i # 0 => f[i - 1] = g[i - 1])
        <5> HIDE DEF last
        <5> QED BY <3>2, <4>1
      <4> HIDE DEF f
      <4> QED BY <4>2, <4>3
    <3> QED BY <3>1, <3>2
  <2> HIDE DEF f
  <2>6. LoopTo(all, n, f, m)
    BY <2>4, <2>5 DEF LoopTo
  <2> QED BY <1>2, <2>4, <2>6
<1> QED BY <1>3, <1>4

\* The list an installer goes through: only its last entry may have no size.
Ordered(parts) ==
  /\ \E Item : parts \in Seq(Item)
  /\ \A i \in 1..Len(parts) : parts[i].size \in Nat
  /\ \A i \in 1..(Len(parts) - 1) : parts[i].size > 0

\* PartitionsByInstallOrder makes such a list.
LEMMA OrderOf ==
  ASSUME NEW Item, NEW parts, NEW extra, parts \o extra \in Seq(Item), \A x \in Item : x.size \in Nat,
         \A j \in 1..Len(parts \o extra) :
            (parts \o extra)[j].size = 0 => (parts \o extra)[j].name = "persistent" \/ j > Len(parts)
  PROVE  Ordered(PartitionsByInstallOrder(parts, extra))
<1> DEFINE all == parts \o extra
           n == Len(parts)
           P == {x \in Item : x.size # 0}
<1>1. Len(all) \in Nat /\ Len(all) \in 0..Len(all)
  OBVIOUS
<1>2. PICK f \in [0..Len(all) -> Sorted(Item)] : LoopTo(all, n, f, Len(all))
  <2> HIDE DEF all, n
  <2>1. all \in Seq(Item) /\ \A j \in 1..Len(all) : all[j].size = 0 => all[j].name = "persistent" \/ j > n
    BY DEF all, n
  <2> QED BY <1>1, <2>1, LoopExists
<1>3. InstallLoop(all, n, f)
  BY <1>2, Zenon DEF LoopTo, LoopStep, InstallLoop
<1> DEFINE p == f[Len(all)].partitions
           l == f[Len(all)].last
<1>4. PartitionsByInstallOrder(parts, extra) = p \o l
  BY <1>1, <1>3, InstallOrderIs
<1>5. f[Len(all)] \in Sorted(Item)
  <2> HIDE DEF all
  <2> QED BY <1>1, <1>2
<1>6. p \in Seq(P) /\ l \in {<<>>} \cup {<<x>> : x \in Item}
  BY <1>5 DEF Sorted
<1> HIDE DEF p, l, all, n
<1>7. Len(p) \in Nat /\ \A i \in 1..Len(p) : p[i] \in Item /\ p[i].size # 0
  <2>1. \A i \in 1..Len(p) : p[i] \in P
    <3> HIDE DEF P
    <3> QED BY <1>6, ElementOfSeq
  <2> QED BY <1>6, <2>1
<1>8. p \in Seq(Item)
  <2>1. p = [i \in 1..Len(p) |-> p[i]]
    BY <1>6
  <2> QED BY <1>7, <2>1, SMTT(30)
<1>9. CASE l = <<>>
  <2>1. p \o l = p
    BY <1>8, <1>9, ConcatEmptySeq
  <2>2. \A i \in 1..Len(p) : p[i].size \in Nat /\ p[i].size > 0
    BY <1>7
  <2> QED BY <1>4, <1>7, <1>8, <2>1, <2>2 DEF Ordered
<1>10. CASE l # <<>>
  <2>1. PICK x \in Item : l = <<x>>
    BY <1>6, <1>10
  <2>2. l \in Seq(Item) /\ Len(l) = 1 /\ l[1] = x
    BY <2>1
  <2> DEFINE r == p \o l
  <2>3. /\ r \in Seq(Item) /\ Len(r) = Len(p) + 1
        /\ \A i \in 1..(Len(p) + 1) : r[i] = IF i <= Len(p) THEN p[i] ELSE l[i - Len(p)]
    <3>1. /\ r \in Seq(Item) /\ Len(r) = Len(p) + Len(l)
          /\ \A i \in 1..(Len(p) + Len(l)) : r[i] = IF i <= Len(p) THEN p[i] ELSE l[i - Len(p)]
      BY <1>8, <2>2, ConcatProperties
    <3> HIDE DEF r
    <3> QED BY <2>2, <3>1
  <2> HIDE DEF r
  <2>4. \A i \in 1..Len(r) : r[i].size \in Nat
    BY <2>3, ElementOfSeq
  <2>5. \A i \in 1..(Len(r) - 1) : r[i].size > 0
    BY <1>7, <2>3, <2>4
  <2>6. Ordered(r)
    BY <2>3, <2>4, <2>5 DEF Ordered
  <2> QED BY <1>4, <2>6 DEF r
<1> QED BY <1>9, <1>10

-----------------------------------------------------------------------------
(***************************************************************************)
(* The list of an installer, and the room it takes                         *)
(***************************************************************************)

\* The installer's partitions are such a list.
LEMMA InstallPartsOrdered == \A efi : Ordered(InstallParts(efi))
<1> SUFFICES ASSUME NEW efi PROVE Ordered(InstallParts(efi))
  OBVIOUS
<1> DEFINE f == Firmware(efi)
           r == [i \in 1..4 |-> Wanted(AllParts[i + 1], TRUE)]
           x == [i \in DOMAIN ExtraParts |-> Wanted(ExtraParts[i], TRUE)]
           Item == {f[1]} \cup {r[i] : i \in 1..4} \cup {x[i] : i \in DOMAIN ExtraParts}
<1>1. f = <<f[1]>> /\ f[1].size \in Nat /\ f[1].size > 0
  <2>1. CASE efi
    <3>1. AllParts[1].size \in Nat /\ AllParts[1].size > 0
      BY AllPartsAre, PartSizes DEF NameAt
    <3>2. f = <<Wanted(AllParts[1], TRUE)>>
      BY <2>1, Zenon DEF Firmware
    <3>3. Wanted(AllParts[1], TRUE).size = AllParts[1].size
      BY DEF Wanted
    <3> HIDE DEF f
    <3> QED BY <3>1, <3>2, <3>3
  <2>2. CASE ~efi
    <3> DEFINE b == [name |-> "bios", size |-> 1, fs |-> FALSE]
    <3>1. f = <<b>>
      BY <2>2, Zenon DEF Firmware
    <3>2. b.size = 1
      OBVIOUS
    <3> HIDE DEF f, b
    <3> QED BY <3>1, <3>2
  <2> QED BY <2>1, <2>2
<1>2. \A i \in 1..4 : /\ r[i].size = PartSize[NameAt[i + 1]] /\ r[i].name = NameAt[i + 1]
                      /\ r[i].size \in Nat /\ (i # 4 => r[i].size > 0) /\ (i = 4 => r[i].name = "persistent")
  <2> TAKE i \in 1..4
  <2> DEFINE q == AllParts[i + 1]
             n == NameAt[i + 1]
  <2>1. q.name = n /\ q.size = PartSize[n]
    BY AllPartsAre
  <2>2. r[i] = [name |-> q.name, size |-> q.size, fs |-> TRUE]
    BY DEF Wanted
  <2> HIDE DEF r, q, n
  <2>3. r[i].size = PartSize[n] /\ r[i].name = n
    BY <2>1, <2>2
  <2>4. r[i].size = PartSize[NameAt[i + 1]] /\ r[i].name = NameAt[i + 1]
    BY <2>3 DEF n
  <2>5. i = 1 \/ i = 2 \/ i = 3 \/ i = 4
    OBVIOUS
  <2> QED BY <2>4, <2>5, PartSizes DEF NameAt
<1>3. Len(ExtraParts) \in Nat /\ DOMAIN ExtraParts = 1..Len(ExtraParts)
  BY FirstBootAssumption
<1>4. \A i \in DOMAIN ExtraParts : x[i].size \in Nat
  <2> TAKE i \in DOMAIN ExtraParts
  <2> DEFINE Extra == [name : STRING, size : Nat]
  <2>1. ExtraParts[i].size \in Nat
    <3>1. ExtraParts \in Seq(Extra)
      BY FirstBootAssumption
    <3>2. \A y \in Extra : y.size \in Nat
      OBVIOUS
    <3> HIDE DEF Extra
    <3>3. ExtraParts[i] \in Extra
      BY <1>3, <3>1, ElementOfSeq
    <3> QED BY <3>2, <3>3
  <2>2. Wanted(ExtraParts[i], TRUE).size = ExtraParts[i].size
    BY DEF Wanted
  <2> QED BY <2>1, <2>2
<1>5. InstallParts(efi) = PartitionsByInstallOrder(f \o r, x)
  BY Zenon DEF InstallParts
<1>6. x = [i \in 1..Len(ExtraParts) |-> x[i]] /\ r = [i \in 1..4 |-> r[i]]
  BY <1>3
<1> HIDE DEF f, r, x
<1>7. \A y \in Item : y.size \in Nat
  BY <1>1, <1>2, <1>4
<1>8. f \in Seq(Item) /\ Len(f) = 1 /\ r \in Seq(Item) /\ Len(r) = 4 /\ x \in Seq(Item) /\ Len(x) = Len(ExtraParts)
  <2>1. f[1] \in Item /\ (\A i \in 1..4 : r[i] \in Item) /\ (\A i \in 1..Len(ExtraParts) : x[i] \in Item)
    BY <1>3
  <2> HIDE DEF Item
  <2>2. f \in Seq(Item) /\ Len(f) = 1
    <3> DEFINE e == f[1]
    <3>1. f = <<e>> /\ e \in Item
      BY <1>1, <2>1
    <3> HIDE DEF e
    <3>2. <<e>> \in Seq(Item) /\ Len(<<e>>) = 1
      BY <3>1
    <3> QED BY <3>1, <3>2
  <2>3. r \in Seq(Item) /\ Len(r) = 4
    BY <1>6, <2>1
  <2>4. x \in Seq(Item) /\ Len(x) = Len(ExtraParts)
    BY <1>3, <1>6, <2>1
  <2> QED BY <2>2, <2>3, <2>4
<1> HIDE DEF Item
<1> DEFINE p == f \o r
<1>9. /\ p \in Seq(Item) /\ Len(p) = 5 /\ p[1] = f[1] /\ p[2] = r[1] /\ p[3] = r[2] /\ p[4] = r[3] /\ p[5] = r[4]
  <2>1. /\ p \in Seq(Item) /\ Len(p) = Len(f) + Len(r)
        /\ \A i \in 1..(Len(f) + Len(r)) : p[i] = IF i <= Len(f) THEN f[i] ELSE r[i - Len(f)]
    BY <1>8, ConcatProperties
  <2> HIDE DEF p
  <2>2. Len(p) = 5 /\ \A i \in 1..5 : p[i] = IF i <= 1 THEN f[i] ELSE r[i - 1]
    BY <1>8, <2>1
  <2>3. p[1] = f[1] /\ p[2] = r[1]
    BY <2>2
  <2>4. p[3] = r[2] /\ p[4] = r[3] /\ p[5] = r[4]
    BY <2>2
  <2> QED BY <2>1, <2>2, <2>3, <2>4
<1> HIDE DEF p
<1> DEFINE all == p \o x
<1>10. /\ all \in Seq(Item) /\ Len(all) \in Nat
       /\ \A i \in 1..Len(all) : i <= 5 => all[i] = p[i]
  <2>1. /\ all \in Seq(Item) /\ Len(all) = Len(p) + Len(x)
        /\ \A i \in 1..(Len(p) + Len(x)) : all[i] = IF i <= Len(p) THEN p[i] ELSE x[i - Len(p)]
    <3>1. p \in Seq(Item) /\ x \in Seq(Item)
      BY <1>8, <1>9
    <3> QED BY <3>1, ConcatProperties
  <2> HIDE DEF all
  <2>2. Len(all) \in Nat
    BY <2>1
  <2>3. \A i \in 1..Len(all) : i <= 5 => all[i] = p[i]
    BY <1>9, <2>1
  <2> QED BY <2>1, <2>2, <2>3
<1> HIDE DEF all
<1>11. \A j \in 1..Len(all) : all[j].size = 0 => all[j].name = "persistent" \/ j > Len(p)
  <2> SUFFICES ASSUME NEW j \in 1..Len(all), all[j].size = 0, ~(j > Len(p)) PROVE all[j].name = "persistent"
    OBVIOUS
  <2>1. j <= 5 /\ all[j] = p[j]
    BY <1>9, <1>10
  <2>2. j = 1 \/ j = 2 \/ j = 3 \/ j = 4 \/ j = 5
    BY <1>10, <2>1
  <2> QED BY <1>1, <1>2, <1>9, <2>1, <2>2
<1>12. Ordered(PartitionsByInstallOrder(p, x))
  BY <1>7, <1>10, <1>11, OrderOf DEF all
<1> QED BY <1>5, <1>12 DEF p

\* The sizes that are added up for it.
LEMMA WeightsAre ==
  ASSUME NEW parts, Ordered(parts)
  PROVE  /\ Len(parts) \in Nat /\ DOMAIN parts = 1..Len(parts)
         /\ Weights(parts) \in Seq(Nat) /\ Len(Weights(parts)) = Len(parts)
         /\ \A i \in 1..Len(parts) : /\ parts[i].size \in Nat
                                     /\ Weights(parts)[i] = IF parts[i].size = 0 THEN 1 ELSE parts[i].size
<1>1. PICK Item : parts \in Seq(Item)
  BY DEF Ordered
<1>2. Len(parts) \in Nat /\ DOMAIN parts = 1..Len(parts)
  BY <1>1
<1>3. \A i \in 1..Len(parts) : parts[i].size \in Nat
  BY DEF Ordered
<1> DEFINE w == Weights(parts)
<1>4. w = [i \in 1..Len(parts) |-> IF parts[i].size = 0 THEN 1 ELSE parts[i].size]
  BY <1>2 DEF Weights
<1> HIDE DEF w
<1>5. w \in Seq(Nat) /\ Len(w) = Len(parts)
  BY <1>2, <1>3, <1>4
<1> QED BY <1>2, <1>3, <1>4, <1>5 DEF w

\* The partitions follow each other up to the end of a disk that is large
\* enough, although the sums leave out the backup of the table.
LEMMA InstallFits ==
  ASSUME NEW parts, Ordered(parts), NEW n \in Nat, n >= MiBToSectors(2 + Total(Weights(parts))),
         NEW i \in 1..Len(parts)
  PROVE  /\ StartOf(parts, i) \in Nat /\ SizeOn(parts, i, n) \in Nat /\ SizeOn(parts, i, n) > 0
         /\ StartOf(parts, 1) = AlignedStart
         /\ i < Len(parts) => StartOf(parts, i + 1) = StartOf(parts, i) + SizeOn(parts, i, n)
         /\ StartOf(parts, i) + SizeOn(parts, i, n) - 1 <= LastUsable(n)
         /\ StartOf(parts, i) + MiBToSectors(parts[i].size) <= n
<1> DEFINE w == Weights(parts)
           t == Totals(w)
           l == Len(parts)
<1>1. /\ l \in Nat /\ w \in Seq(Nat) /\ Len(w) = l /\ parts[i].size \in Nat
      /\ w[i] = IF parts[i].size = 0 THEN 1 ELSE parts[i].size
  BY WeightsAre
<1>2. t[0] = 0 /\ t[i] = t[i - 1] + w[i] /\ t[i] \in Nat /\ t[i - 1] \in Nat /\ Total(w) = t[l] /\ t[l] \in Nat
  <2>1. /\ Totals(w)[0] = 0 /\ (\A j \in 1..Len(w) : Totals(w)[j] = Totals(w)[j - 1] + w[j])
        /\ \A j \in 0..Len(w) : Totals(w)[j] \in Nat
    BY <1>1, TotalsDef
  <2>2. i \in 0..Len(w) /\ i - 1 \in 0..Len(w) /\ i \in 1..Len(w) /\ l \in 0..Len(w)
    BY <1>1
  <2>3. Total(w) = t[l]
    BY <1>1 DEF Total
  <2> HIDE DEF w
  <2> QED BY <2>1, <2>2, <2>3
<1>3. t[i] <= t[l]
  <2>1. i \in 0..Len(w) /\ l \in i..Len(w)
    BY <1>1
  <2> QED BY <1>1, <2>1, TotalsGrow
<1> DEFINE a == t[i - 1]
           b == t[i]
           c == w[i]
           z == t[l]
           m(q) == MiBToSectors(q)
<1>4. a \in Nat /\ b \in Nat /\ c \in Nat /\ z \in Nat /\ b = a + c /\ b <= z /\ c > 0
  BY <1>1, <1>2, <1>3
<1>5. StartOf(parts, i) = m(1 + a) /\ n >= m(2 + z) /\ (i < l => StartOf(parts, i + 1) = m(1 + b)) /\ StartOf(parts, 1) = m(1 + 0)
  <2>1. StartOf(parts, i) = m(1 + a)
    BY DEF StartOf
  <2>2. n >= m(2 + z)
    BY <1>2
  <2>3. i + 1 - 1 = i /\ 1 - 1 = 0
    BY <1>1
  <2>4. StartOf(parts, i + 1) = m(1 + b)
    BY <2>3 DEF StartOf
  <2>5. StartOf(parts, 1) = m(1 + 0)
    BY <1>2, <2>3 DEF StartOf
  <2> QED BY <2>1, <2>2, <2>4, <2>5
<1>6. parts[i].size = 0 => i = l
  <2>1. i # l => i \in 1..(l - 1)
    BY <1>1
  <2> QED BY <1>1, <2>1 DEF Ordered
<1> HIDE DEF a, b, c, z, t, w
<1> DEFINE s == MiBToSectors(1 + a)
           e == MiBToSectors(c)
           u == MiBToSectors(1 + b)
           o == MiBToSectors(1)
           y == MiBToSectors(2 + z)
           v == MiBToSectors(2 + b)
<1>7. s \in Nat /\ e \in Nat /\ u \in Nat /\ o \in Nat /\ y \in Nat /\ v \in Nat
  <2>1. 1 + a \in Nat /\ 1 + b \in Nat /\ 2 + z \in Nat /\ 2 + b \in Nat
    BY <1>4
  <2>2. s \in Nat /\ e \in Nat /\ u \in Nat
    BY <1>4, <2>1, MiBNat
  <2> QED BY <2>1, <2>2, MiBNat
<1>8. u = s + e /\ v = u + o /\ v <= y
  <2>1. 1 + b = (1 + a) + c /\ 2 + b = (1 + b) + 1 /\ 1 + a \in Nat /\ 1 + b \in Nat /\ 2 + b <= 2 + z /\ 2 + z \in Nat /\ 2 + b \in Nat
    BY <1>4
  <2>2. MiBToSectors((1 + a) + c) = MiBToSectors(1 + a) + MiBToSectors(c)
    BY <1>4, <2>1, MiBSum
  <2>3. MiBToSectors((1 + b) + 1) = MiBToSectors(1 + b) + MiBToSectors(1)
    BY <2>1, MiBSum
  <2>4. MiBToSectors(2 + b) <= MiBToSectors(2 + z)
    BY <2>1, MiBUp
  <2> QED BY <2>1, <2>2, <2>3, <2>4
<1>9. e >= SectorsPerMiB /\ o = SectorsPerMiB /\ GptSectors \in Nat /\ GptSectors < SectorsPerMiB /\ SectorsPerMiB \in Nat
  BY <1>4, MiBPos, MiBOne, PartitionerAssumption DEF MiBToSectors
<1>10. StartOf(parts, i) = s /\ n >= y /\ (i < l => StartOf(parts, i + 1) = u) /\ StartOf(parts, 1) = AlignedStart
  BY <1>5 DEF AlignedStart
<1>11. CASE parts[i].size = 0
  <2>1. SizeOn(parts, i, n) = n - GptSectors - s /\ c = 1 /\ i = l
    BY <1>1, <1>6, <1>10, <1>11 DEF SizeOn, c
  <2>2. MiBToSectors(parts[i].size) = 0
    BY <1>11, MiBOne
  <2> HIDE DEF s, e, u, o, y, v
  <2>3. n - GptSectors - s \in Nat /\ n - GptSectors - s > 0 /\ s <= n
    BY <1>7, <1>8, <1>9, <1>10
  <2>4. s + (n - GptSectors - s) - 1 <= n - GptSectors - 1
    BY <1>7, <1>9
  <2>5. ~(i < l)
    BY <1>1, <2>1
  <2>6. s + 0 <= n
    BY <1>7, <2>3
  <2> QED BY <1>7, <1>10, <2>1, <2>2, <2>3, <2>4, <2>5, <2>6 DEF LastUsable
<1>12. CASE parts[i].size # 0
  <2>1. c = parts[i].size
    BY <1>1, <1>12 DEF c
  <2>2. SizeOn(parts, i, n) = e /\ MiBToSectors(parts[i].size) = e
    BY <1>12, <2>1 DEF SizeOn
  <2> HIDE DEF s, e, u, o, y, v
  <2>3. e > 0 /\ s + e - 1 <= n - GptSectors - 1 /\ s + e <= n
    BY <1>7, <1>8, <1>9, <1>10
  <2> QED BY <1>7, <1>8, <1>10, <2>2, <2>3 DEF LastUsable
<1> QED BY <1>11, <1>12

-----------------------------------------------------------------------------
(***************************************************************************)
(* The installer makes its list                                            *)
(***************************************************************************)

\* What the table of an installer looks like.
LEMMA MadeFacts ==
  ASSUME NEW parts, Ordered(parts), NEW k \in 0..Len(parts), MadeTo(parts, k)
  PROVE  /\ k \in Nat /\ Len(parts) \in Nat /\ Len(table) = k /\ DOMAIN table = 1..k
         /\ \A i \in 1..k : /\ table[i].num = i /\ table[i].name = parts[i].name
                            /\ table[i].start = StartOf(parts, i) /\ table[i].size = SizeOn(parts, i, total)
         /\ (table = <<>>) <=> k = 0
         /\ k > 0 => Last(table) = table[k]
         /\ LowestFree = k + 1
<1>1. k \in Nat /\ Len(parts) \in Nat
  BY WeightsAre
<1>2. /\ table = [i \in 1..k |-> table[i]]
      /\ \A i \in 1..k : table[i] = MadePart(parts, i, i < k \/ ppc \notin {"device", "format"})
  BY DEF MadeTo, MadeTable
<1>3. Len(table) = k /\ DOMAIN table = 1..k
  BY <1>1, <1>2
<1>4. \A i \in 1..k : /\ table[i].num = i /\ table[i].name = parts[i].name
                      /\ table[i].start = StartOf(parts, i) /\ table[i].size = SizeOn(parts, i, total)
  <2> TAKE i \in 1..k
  <2> DEFINE d == i < k \/ ppc \notin {"device", "format"}
             fsS == IF parts[i].fs /\ d THEN SizeOn(parts, i, total) ELSE 0
  <2>1. table[i] = Part(i, parts[i].name, StartOf(parts, i), SizeOn(parts, i, total), fsS, "none")
    BY <1>2, Zenon DEF MadePart
  <2> HIDE DEF fsS
  <2> QED BY <2>1 DEF Part
<1>5. (table = <<>>) <=> k = 0
  BY <1>1, <1>3
<1>6. k > 0 => Last(table) = table[k]
  BY <1>3 DEF Last
<1>7. LowestFree = k + 1
  BY <1>1, <1>3, <1>4, LowestFreeIs
<1> QED BY <1>1, <1>3, <1>4, <1>5, <1>6, <1>7

\* Where the next partition goes.
LEMMA NextIs ==
  ASSUME NEW parts, Ordered(parts), NEW k \in 0..Len(parts), MadeTo(parts, k), k < Len(parts)
  PROVE  /\ NextNumber = k + 1 /\ NextStart = StartOf(parts, k + 1) /\ CanAdd(parts[k + 1].size)
         /\ table # <<>> => StartOf(parts, k + 1) > End(Last(table))
<1>1. /\ k \in Nat /\ Len(parts) \in Nat /\ Len(table) = k /\ ((table = <<>>) <=> k = 0)
      /\ k > 0 => Last(table) = table[k]
      /\ \A i \in 1..k : /\ table[i].num = i
                         /\ table[i].start = StartOf(parts, i) /\ table[i].size = SizeOn(parts, i, total)
  BY MadeFacts
<1>2. total \in Nat /\ total >= MiBToSectors(2 + Total(Weights(parts)))
  BY DEF MadeTo
<1> DEFINE s == StartOf(parts, k + 1)
           m == MiBToSectors(parts[k + 1].size)
<1>3. s \in Nat /\ s + m <= total /\ parts[k + 1].size \in Nat /\ StartOf(parts, 1) = AlignedStart
  <2>1. k + 1 \in 1..Len(parts)
    BY <1>1
  <2>2. parts[k + 1].size \in Nat
    BY <2>1, WeightsAre
  <2> QED BY <1>2, <2>1, <2>2, InstallFits
<1>4. m \in Nat
  BY <1>3, MiBNat
<1>5. CASE k = 0
  <2>1. NextNumber = 1 /\ NextStart = AlignedStart /\ FreeSpace = total - (AlignedStart - 1)
    BY <1>1, <1>5 DEF NextNumber, NextStart, FreeSpace, lastS
  <2>2. s = AlignedStart
    BY <1>3, <1>5
  <2> HIDE DEF s, m
  <2>3. m <= total - (s - 1)
    BY <1>2, <1>3, <1>4
  <2> QED BY <1>1, <1>5, <2>1, <2>2, <2>3 DEF s, m, CanAdd
<1>6. CASE k # 0
  <2> DEFINE a == StartOf(parts, k)
             z == SizeOn(parts, k, total)
  <2>1. k \in 1..Len(parts) /\ k < Len(parts) /\ k \in 1..k
    BY <1>1, <1>6
  <2>2. a \in Nat /\ z \in Nat /\ z > 0 /\ s = a + z
    BY <1>2, <2>1, InstallFits
  <2>3. table # <<>> /\ Last(table).num = k /\ Last(table).start = a /\ Last(table).size = z
    BY <1>1, <1>6, <2>1
  <2>4. NextNumber = k + 1 /\ NextStart = a + z /\ FreeSpace = total - (a + z - 1) /\ End(Last(table)) = a + z - 1
    <3> HIDE DEF a, z
    <3> QED BY <2>3 DEF NextNumber, NextStart, FreeSpace, lastS, End
  <2> HIDE DEF s, m, a, z
  <2>5. m <= total - (a + z - 1) /\ s > a + z - 1
    BY <1>2, <1>3, <1>4, <2>2
  <2> QED BY <2>2, <2>4, <2>5 DEF s, m, CanAdd
<1> QED BY <1>5, <1>6

\* The checks let the next partition pass.
LEMMA ReloadMakes ==
  ASSUME NEW parts, Ordered(parts), NEW k \in 0..Len(parts), MadeTo(parts, k), Reload, UNCHANGED machine,
         stage = "install", faults = 0, faults' = 0
  PROVE  MadeTo(parts, k)'
<1>1. ppc = "reload" /\ UNCHANGED <<table, total, stage, todo>>
  BY DEF Reload, machine
<1>2. /\ k < Len(parts) /\ RequestFields(req) /\ req.op = "add" /\ req.part = <<>>
      /\ req.name = parts[k + 1].name /\ req.size = parts[k + 1].size /\ req.fs = parts[k + 1].fs
      /\ total \in Nat /\ gpt = total /\ total >= MiBToSectors(2 + Total(Weights(parts)))
      /\ MadeTable(parts, k) /\ todo = SubSeq(parts, k + 1, Len(parts))
  BY <1>1 DEF MadeTo
<1>3. NextNumber = k + 1 /\ NextStart = StartOf(parts, k + 1) /\ CanAdd(req.size)
  BY <1>2, NextIs
<1>4. /\ req' = [req EXCEPT !.num = NextNumber, !.start = NextStart] /\ ppc' = "mkpart" /\ gpt' = total
  BY <1>2, <1>3 DEF Reload, Fault
<1>5. /\ RequestFields(req') /\ req'.op = "add" /\ req'.name = req.name /\ req'.size = req.size
      /\ req'.part = req.part /\ req'.num = NextNumber /\ req'.start = NextStart /\ req'.fs = req.fs
  BY <1>2, <1>4, RequestEdit, Zenon
<1>6. MadeTable(parts, k)'
  BY <1>1, <1>2, <1>4 DEF MadeTable, MadePart
<1> QED BY <1>1, <1>2, <1>3, <1>4, <1>5, <1>6 DEF MadeTo

\* A partition at the end of the table of an installer.
LEMMA MkpartMakes ==
  ASSUME NEW parts, Ordered(parts), NEW k \in 0..Len(parts), MadeTo(parts, k), Mkpart, UNCHANGED machine,
         stage = "install", faults = 0, faults' = 0
  PROVE  k + 1 \in 0..Len(parts) /\ MadeTo(parts, k + 1)'
<1>1. ppc = "mkpart" /\ UNCHANGED <<total, gpt, req, stage, todo>>
  BY DEF Mkpart, machine
<1>2. /\ k < Len(parts) /\ RequestFields(req) /\ req.op = "add" /\ req.part = <<>>
      /\ req.name = parts[k + 1].name /\ req.size = parts[k + 1].size /\ req.fs = parts[k + 1].fs
      /\ req.num = k + 1 /\ req.start = StartOf(parts, k + 1)
      /\ total \in Nat /\ gpt = total /\ total >= MiBToSectors(2 + Total(Weights(parts)))
      /\ MadeTable(parts, k) /\ todo = SubSeq(parts, k + 1, Len(parts))
  BY <1>1 DEF MadeTo
<1>3. /\ k \in Nat /\ Len(parts) \in Nat /\ Len(table) = k /\ DOMAIN table = 1..k /\ LowestFree = k + 1
  BY MadeFacts
<1>4. table # <<>> => req.start > End(Last(table))
  BY <1>2, NextIs
<1> DEFINE s == StartOf(parts, k + 1)
           z == SizeOn(parts, k + 1, total)
<1>5. k + 1 \in 1..Len(parts)
  BY <1>2, <1>3
<1>6. s \in Nat /\ z \in Nat /\ z > 0 /\ s + z - 1 <= LastUsable(total)
  BY <1>2, <1>5, InstallFits
<1>7. NewSize = z
  <2>1. CASE req.size = 0
    <3>1. NewSize = LastUsable(total) - s + 1 /\ z = total - GptSectors - s
      BY <1>2, <2>1 DEF NewSize, SizeOn
    <3>2. GptSectors \in Nat
      BY PartitionerAssumption
    <3> HIDE DEF s, z
    <3>3. LastUsable(total) - s + 1 = total - GptSectors - s
      BY <1>2, <1>6, <3>2 DEF LastUsable
    <3> QED BY <3>1, <3>3
  <2>2. CASE req.size # 0
    BY <1>2, <2>2 DEF NewSize, SizeOn
  <2> QED BY <2>1, <2>2
<1>8. Fitting
  BY <1>2, <1>4, <1>6, <1>7 DEF Fitting
<1>9. table' = Append(table, NewPart) /\ ppc' = "device"
  BY <1>8 DEF Mkpart, Fault
<1>10. NewPart = Part(k + 1, parts[k + 1].name, s, z, 0, "none")
  BY <1>2, <1>3, <1>7 DEF NewPart
<1> DEFINE p == NewPart
           S == {table[i] : i \in 1..k} \cup {p}
<1>11. /\ table' = [i \in 1..(k + 1) |-> table'[i]] /\ table'[k + 1] = p
       /\ \A i \in 1..k : table'[i] = table[i]
  <2>1. table = [i \in 1..k |-> table[i]] /\ \A i \in 1..k : table[i] \in S
    BY <1>2 DEF MadeTable
  <2>2. p \in S /\ table' = Append(table, p)
    BY <1>9
  <2> HIDE DEF S, p
  <2>3. table \in Seq(S)
    BY <1>3, <2>1
  <2>4. /\ table' \in Seq(S) /\ Len(table') = Len(table) + 1
        /\ \A i \in 1..Len(table) : table'[i] = table[i]
        /\ table'[Len(table) + 1] = p
    BY <2>2, <2>3, AppendProperties
  <2>5. table' = [i \in 1..(k + 1) |-> table'[i]]
    BY <1>3, <2>4
  <2> QED BY <1>3, <2>4, <2>5
<1>12. MadeTable(parts, k + 1)'
  <2>1. ASSUME NEW i \in 1..k
        PROVE  table'[i] = MadePart(parts, i, i < k + 1 \/ ppc \notin {"device", "format"})'
    <3>1. i < k + 1
      BY <1>3
    <3>2. table[i] = MadePart(parts, i, i < k \/ ppc \notin {"device", "format"})
      BY <1>2 DEF MadeTable
    <3>3. table[i] = Part(i, parts[i].name, StartOf(parts, i), SizeOn(parts, i, total),
                          IF parts[i].fs THEN SizeOn(parts, i, total) ELSE 0, "none")
      BY <1>1, <3>2 DEF MadePart
    <3> QED BY <1>1, <1>11, <3>1, <3>3 DEF MadePart
  <2>2. table'[k + 1] = MadePart(parts, k + 1, k + 1 < k + 1 \/ ppc \notin {"device", "format"})'
    <3>1. ~(k + 1 < k + 1)
      BY <1>3
    <3> QED BY <1>1, <1>9, <1>10, <1>11, <3>1 DEF MadePart
  <2>3. \A i \in 1..(k + 1) : i \in 1..k \/ i = k + 1
    BY <1>3
  <2> QED BY <1>11, <2>1, <2>2, <2>3 DEF MadeTable
<1>13. k + 1 \in 0..Len(parts) /\ k + 1 > 0
  BY <1>3, <1>5
<1> QED BY <1>1, <1>2, <1>9, <1>12, <1>13 DEF MadeTo

\* The device of the partition is found ...
LEMMA DeviceMakes ==
  ASSUME NEW parts, Ordered(parts), NEW k \in 0..Len(parts), MadeTo(parts, k), FindPartitionDevice, UNCHANGED machine,
         stage = "install", faults = 0, faults' = 0
  PROVE  MadeTo(parts, k)'
<1>1. ppc = "device" /\ UNCHANGED <<table, total, gpt, req, stage, todo>>
  BY DEF FindPartitionDevice, machine
<1>2. k > 0 /\ req.num = k
  BY <1>1 DEF MadeTo
<1>3. k \in Numbered
  BY <1>2, MadeFacts DEF Numbered
<1>4. ppc' = "format"
  BY <1>3 DEF FindPartitionDevice, Fault
<1>5. MadeTable(parts, k)'
  BY <1>1, <1>4 DEF MadeTo, MadeTable, MadePart
<1> QED BY <1>1, <1>4, <1>5 DEF MadeTo

\* ... and formatted, unless it is the one of the BIOS.
LEMMA MkfsMakes ==
  ASSUME NEW parts, Ordered(parts), NEW k \in 0..Len(parts), MadeTo(parts, k), MkfsCall, UNCHANGED machine,
         stage = "install", faults = 0, faults' = 0
  PROVE  MadeTo(parts, k)'
<1>1. ppc = "format" /\ UNCHANGED <<total, gpt, req, stage, todo>>
  BY DEF MkfsCall, machine
<1>2. /\ k > 0 /\ req.num = k /\ req.fs = parts[k].fs /\ MadeTable(parts, k)
      /\ total \in Nat /\ gpt = total /\ total >= MiBToSectors(2 + Total(Weights(parts)))
      /\ todo = SubSeq(parts, k, Len(parts))
  BY <1>1 DEF MadeTo
<1>3. /\ k \in Nat /\ DOMAIN table = 1..k
      /\ \A i \in 1..k : table[i].num = i /\ table[i].size = SizeOn(parts, i, total)
  BY MadeFacts
<1>4. \A i \in 1..k : i \in Numbered <=> i = k
  BY <1>2, <1>3 DEF Numbered
<1>5. /\ table' = [i \in DOMAIN table |->
                      IF i \in Numbered /\ req.fs THEN [table[i] EXCEPT !.fsS = table[i].size, !.data = "none"]
                      ELSE table[i]]
      /\ ppc' = "ok"
  <2>1. ~Fault
    BY DEF Fault
  <2> QED BY <2>1, Zenon DEF MkfsCall
<1>6. /\ table' = [i \in 1..k |-> table'[i]]
      /\ \A i \in 1..k : i # k => table'[i] = table[i]
      /\ table'[k] = IF parts[k].fs THEN [table[k] EXCEPT !.fsS = table[k].size, !.data = "none"] ELSE table[k]
  <2> DEFINE E(i) == [table[i] EXCEPT !.fsS = table[i].size, !.data = "none"]
  <2>1. table' = [i \in 1..k |-> IF i \in Numbered /\ req.fs THEN E(i) ELSE table[i]]
    BY <1>3, <1>5, Zenon
  <2>2. k \in 1..k
    BY <1>2, <1>3
  <2> HIDE DEF E
  <2>3. table' = [i \in 1..k |-> table'[i]]
    BY <2>1
  <2>4. \A i \in 1..k : i # k => table'[i] = table[i]
    BY <1>4, <2>1
  <2>5. table'[k] = IF parts[k].fs THEN E(k) ELSE table[k]
    BY <1>2, <1>4, <2>1, <2>2, Zenon
  <2> QED BY <2>3, <2>4, <2>5, Zenon DEF E
<1>7. MadeTable(parts, k)'
  <2>1. ASSUME NEW i \in 1..k
        PROVE  table'[i] = MadePart(parts, i, i < k \/ ppc \notin {"device", "format"})'
    <3>1. table[i] = MadePart(parts, i, i < k \/ ppc \notin {"device", "format"})
      BY <1>2 DEF MadeTable
    <3>2. CASE i # k
      <4>1. i < k
        BY <1>3, <3>2
      <4> QED BY <1>1, <1>5, <1>6, <3>1, <3>2, <4>1 DEF MadePart
    <3>3. CASE i = k
      <4> DEFINE z == SizeOn(parts, k, total)
                 s == StartOf(parts, k)
                 n == parts[k].name
                 P(f) == Part(k, n, s, z, f, "none")
      <4>1. ~(k < k)
        BY <1>3
      <4>2. table[k] = P(0)
        BY <1>1, <3>1, <3>3, <4>1 DEF MadePart
      <4>3. MadePart(parts, k, k < k \/ ppc \notin {"device", "format"})' = P(IF parts[k].fs THEN z ELSE 0)
        BY <1>1, <1>5 DEF MadePart
      <4> HIDE DEF z, s, n
      <4>4. [P(0) EXCEPT !.fsS = z] = P(z) /\ [P(z) EXCEPT !.data = "none"] = P(z) /\ P(0).size = z
        BY DEF Part
      <4>5. [P(0) EXCEPT !.fsS = z, !.data = "none"] = [[P(0) EXCEPT !.fsS = z] EXCEPT !.data = "none"]
        BY Zenon
      <4>6. CASE parts[k].fs
        <5>1. table'[k] = [P(0) EXCEPT !.fsS = P(0).size, !.data = "none"]
          BY <1>6, <4>2, <4>6, Zenon
        <5> QED BY <3>3, <4>3, <4>4, <4>5, <4>6, <5>1, Zenon
      <4>7. CASE ~parts[k].fs
        <5>1. table'[k] = P(0)
          BY <1>6, <4>2, <4>7, Zenon
        <5> QED BY <3>3, <4>3, <4>7, <5>1, Zenon
      <4> QED BY <4>6, <4>7
    <3> QED BY <3>2, <3>3
  <2> QED BY <1>6, <2>1 DEF MadeTable
<1> QED BY <1>1, <1>2, <1>5, <1>7 DEF MadeTo

\* No other command is run for an installer.
LEMMA PartitionerMakes ==
  ASSUME NEW parts, Ordered(parts), NEW k \in 0..Len(parts), MadeTo(parts, k), PartitionerNext, UNCHANGED machine,
         stage = "install", faults = 0, faults' = 0
  PROVE  \E n \in 0..Len(parts) : MadeTo(parts, n)'
<1>1. CASE Reload
  BY <1>1, ReloadMakes
<1>2. CASE Rm
  BY <1>2 DEF Rm, MadeTo
<1>3. CASE Mkpart
  BY <1>3, MkpartMakes
<1>4. CASE FindPartitionDevice
  BY <1>4, DeviceMakes
<1>5. CASE MkfsCall
  BY <1>5, MkfsMakes
<1>6. CASE ExpandFilesystem
  BY <1>6 DEF ExpandFilesystem, MadeTo
<1> QED BY <1>1, <1>2, <1>3, <1>4, <1>5, <1>6 DEF PartitionerNext

\* What is left of a list.
LEMMA RestOf ==
  ASSUME NEW S, NEW s \in Seq(S), NEW k \in 1..(Len(s) + 1)
  PROVE  /\ k \in 1..Len(s) => /\ SubSeq(s, k, Len(s)) # <<>> /\ Head(SubSeq(s, k, Len(s))) = s[k]
                               /\ Tail(SubSeq(s, k, Len(s))) = SubSeq(s, k + 1, Len(s))
         /\ k = Len(s) + 1 => SubSeq(s, k, Len(s)) = <<>>
         /\ k = 1 => SubSeq(s, k, Len(s)) = s
<1>1. Len(s) \in Nat
  OBVIOUS
<1> DEFINE r == SubSeq(s, k, Len(s))
           n == Len(s) - k + 1
<1>2. n \in Nat /\ k \in Nat
  BY <1>1
<1>3. r \in Seq(S) /\ Len(r) = n /\ \A i \in 1..n : r[i] = s[k + i - 1]
  <2>1. \A i \in k..Len(s) : s[i] \in S
    BY <1>1, ElementOfSeq
  <2>2. /\ r \in Seq(S) /\ Len(r) = (IF k <= Len(s) THEN Len(s) - k + 1 ELSE 0)
        /\ \A i \in 1..(Len(s) - k + 1) : r[i] = s[k + i - 1]
    BY <1>1, <1>2, <2>1, SubSeqProperties
  <2> HIDE DEF r
  <2> QED BY <1>1, <1>2, <2>2
<1> HIDE DEF r
<1>4. k \in 1..Len(s) => r # <<>> /\ Head(r) = s[k] /\ Tail(r) = SubSeq(s, k + 1, Len(s))
  <2> SUFFICES ASSUME k \in 1..Len(s) PROVE r # <<>> /\ Head(r) = s[k] /\ Tail(r) = SubSeq(s, k + 1, Len(s))
    OBVIOUS
  <2>1. n > 0
    BY <1>1, <1>2
  <2>2. r # <<>>
    BY <1>3, <2>1
  <2>3. Len(s) \in k..Len(s)
    BY <1>1, <1>2
  <2>4. Head(r) = s[k] /\ Tail(r) = SubSeq(s, k + 1, Len(s))
    BY <2>3, HeadTailOfSubSeq DEF r
  <2> QED BY <2>2, <2>4
<1>5. k = Len(s) + 1 => r = <<>>
  BY <1>1, <1>3
<1>6. k = 1 => r = s
  <2> SUFFICES ASSUME k = 1 PROVE r = s
    OBVIOUS
  <2>1. n = Len(s)
    BY <1>1
  <2>2. \A i \in 1..n : r[i] = s[i]
    <3> TAKE i \in 1..n
    <3>1. k + i - 1 = i
      BY <1>1
    <3> QED BY <1>3, <3>1
  <2>3. r = [i \in 1..n |-> r[i]] /\ s = [i \in 1..n |-> s[i]]
    BY <1>3, <2>1
  <2> QED BY <2>2, <2>3
<1> QED BY <1>4, <1>5, <1>6 DEF r

\* createPartitions takes the partitions one by one.
LEMMA CreateMakes ==
  ASSUME NEW parts, Ordered(parts), NEW k \in 0..Len(parts), MadeTo(parts, k), CreatePartition, faults = 0
  PROVE  MadeTo(parts, k)' /\ stage' # "failed"
<1>0. /\ stage = "install" /\ UNCHANGED <<table, total, gpt>>
  BY DEF CreatePartition
<1>1. PICK Item : parts \in Seq(Item)
  BY DEF Ordered
<1>2. Len(parts) \in Nat /\ k \in Nat
  BY <1>1
<1>3. /\ total \in Nat /\ gpt = total /\ total >= MiBToSectors(2 + Total(Weights(parts)))
      /\ ppc \in {"idle", "reload", "mkpart", "device", "format", "ok"}
      /\ MadeTable(parts, k)
      /\ ppc \in {"idle", "reload", "mkpart"} => todo = SubSeq(parts, k + 1, Len(parts))
      /\ ppc \in {"device", "format", "ok"} => k > 0 /\ todo = SubSeq(parts, k, Len(parts))
  BY DEF MadeTo
<1>4. ASSUME ppc \notin {"device", "format"}, ppc' \notin {"device", "format"} PROVE MadeTable(parts, k)'
  BY <1>0, <1>3, <1>4 DEF MadeTable, MadePart
<1>5. CASE /\ todo # <<>>
           /\ Request(AddRequest(Head(todo).name, Head(todo).size, Head(todo).fs))
           /\ UNCHANGED <<stage, todo>>
  <2>1. ppc = "idle" /\ ppc' = "reload" /\ todo = SubSeq(parts, k + 1, Len(parts))
    BY <1>3, <1>5 DEF Request
  <2>2. k + 1 \in 1..(Len(parts) + 1) /\ (k + 1 \in 1..Len(parts) <=> k < Len(parts)) /\ (~(k < Len(parts)) => k + 1 = Len(parts) + 1)
    BY <1>2
  <2>3. k < Len(parts)
    BY <1>1, <1>5, <2>1, <2>2, RestOf
  <2>4. Head(todo) = parts[k + 1]
    BY <1>1, <2>1, <2>2, <2>3, RestOf
  <2> DEFINE p == parts[k + 1]
  <2>5. req' = AddRequest(p.name, p.size, p.fs)
    BY <1>5, <2>4 DEF Request
  <2> HIDE DEF p
  <2>6. /\ RequestFields(req') /\ req'.op = "add" /\ req'.part = <<>>
        /\ req'.name = p.name /\ req'.size = p.size /\ req'.fs = p.fs
    BY <2>5 DEF AddRequest, RequestFields
  <2>7. MadeTable(parts, k)'
    BY <1>4, <2>1
  <2>8. stage' = "install" /\ todo' = todo
    BY <1>0, <1>5
  <2> QED BY <1>0, <1>3, <2>1, <2>3, <2>6, <2>7, <2>8 DEF MadeTo, p
<1>6. CASE Idle("ok") /\ todo' = Tail(todo) /\ UNCHANGED <<stage, req>>
  <2>1. ppc = "ok" /\ ppc' = "idle" /\ k > 0 /\ todo = SubSeq(parts, k, Len(parts))
    BY <1>3, <1>6 DEF Idle
  <2>2. k \in 1..(Len(parts) + 1) /\ k \in 1..Len(parts)
    BY <1>2, <2>1
  <2>3. todo' = SubSeq(parts, k + 1, Len(parts))
    BY <1>1, <1>6, <2>1, <2>2, RestOf
  <2>4. MadeTable(parts, k)'
    BY <1>4, <2>1
  <2> QED BY <1>0, <1>3, <1>6, <2>1, <2>3, <2>4 DEF MadeTo
<1>7. CASE Idle("error")
  BY <1>3, <1>7 DEF Idle
<1>8. CASE todo = <<>> /\ ppc = "idle" /\ stage' = "installed" /\ UNCHANGED <<todo, ppc, req>>
  <2>1. k + 1 \in 1..(Len(parts) + 1) /\ (k + 1 \in 1..Len(parts) <=> k < Len(parts))
    BY <1>2
  <2>2. ~(k < Len(parts))
    BY <1>1, <1>3, <1>8, <2>1, RestOf
  <2>3. k = Len(parts)
    BY <1>2, <2>2
  <2>4. MadeTable(parts, k)'
    BY <1>4, <1>8
  <2> QED BY <1>0, <1>3, <1>8, <2>3, <2>4 DEF MadeTo
<1> QED BY <1>5, <1>6, <1>7, <1>8 DEF CreatePartition

\* An installer begins.
LEMMA NewTableMakes ==
  ASSUME NEW parts, Ordered(parts), NEW sectors \in Nat, NEW efi \in BOOLEAN, NewPartitionTable(sectors, efi),
         parts = InstallParts(efi), table = <<>>, ppc = "idle"
  PROVE  MadeTo(parts, 0)' /\ 0 \in 0..Len(parts) /\ stage' = "install" /\ (mode' = "efi" <=> efi)
<1>1. PICK Item : parts \in Seq(Item)
  BY DEF Ordered
<1>2. Len(parts) \in Nat
  BY <1>1
<1>3. /\ stage' = "install" /\ ppc' = "idle" /\ table' = <<>> /\ total' = sectors /\ gpt' = sectors
      /\ todo' = parts /\ sectors >= MiBToSectors(InstallRoom(efi))
  BY Zenon DEF NewPartitionTable
<1>4. mode' = "efi" <=> efi
  BY DEF NewPartitionTable
<1>5. InstallRoom(efi) = 2 + Total(Weights(parts))
  BY Zenon DEF InstallRoom, Weights
<1>6. todo' = SubSeq(parts, 0 + 1, Len(parts))
  <2>1. 1 \in 1..(Len(parts) + 1) /\ 0 + 1 = 1
    BY <1>2
  <2> QED BY <1>1, <1>3, <2>1, RestOf
<1>7. MadeTable(parts, 0)'
  BY <1>3 DEF MadeTable
<1>8. 0 \in 0..Len(parts)
  BY <1>2
<1> QED BY <1>3, <1>4, <1>5, <1>6, <1>7, <1>8 DEF MadeTo

\* What an installer has made is what was asked for.
LEMMA MadeLayout ==
  ASSUME MadeInv, stage = "installed"
  PROVE  LET parts == InstallParts(mode = "efi")
         IN /\ Len(table) = Len(parts)
            /\ \A i \in DOMAIN table :
                 /\ Sized(i, parts[i].name, parts[i].size)
                 /\ table[i].num = i
                 /\ (table[i].fsS > 0) <=> parts[i].fs
<1> DEFINE parts == InstallParts(mode = "efi")
<1>0. Ordered(parts)
  BY InstallPartsOrdered
<1> HIDE DEF parts
<1>1. PICK k \in 0..Len(parts) : MadeTo(parts, k)
  BY Zenon DEF MadeInv, parts
<1>2. /\ ppc = "idle" /\ k = Len(parts) /\ total \in Nat /\ total >= MiBToSectors(2 + Total(Weights(parts)))
      /\ MadeTable(parts, k)
  BY <1>1 DEF MadeTo
<1>3. k \in Nat /\ Len(table) = k /\ DOMAIN table = 1..k
  BY <1>0, <1>1, MadeFacts
<1>4. ASSUME NEW i \in 1..k
      PROVE  Sized(i, parts[i].name, parts[i].size) /\ table[i].num = i /\ ((table[i].fsS > 0) <=> parts[i].fs)
  <2> DEFINE z == SizeOn(parts, i, total)
             s == StartOf(parts, i)
             n == parts[i].name
             f == IF parts[i].fs THEN z ELSE 0
  <2>1. z \in Nat /\ z > 0 /\ s \in Nat
    BY <1>0, <1>2, InstallFits
  <2>2. table[i] = Part(i, n, s, z, f, "none")
    BY <1>2 DEF MadeTable, MadePart
  <2>3. f \in Nat /\ f <= z /\ (f > 0 <=> parts[i].fs)
    BY <2>1
  <2>4. IF parts[i].size = 0 THEN s + z - 1 = LastUsable(total) ELSE z >= MiBToSectors(parts[i].size)
    <3>1. CASE parts[i].size = 0
      <4>1. z = total - GptSectors - s /\ GptSectors \in Nat
        BY <3>1, PartitionerAssumption DEF SizeOn
      <4> HIDE DEF z, s
      <4>2. s + z - 1 = LastUsable(total)
        BY <1>2, <2>1, <4>1 DEF LastUsable
      <4> QED BY <3>1, <4>2
    <3>2. CASE parts[i].size # 0
      <4>1. z = MiBToSectors(parts[i].size)
        BY <3>2 DEF SizeOn
      <4> QED BY <2>1, <3>2, <4>1
    <3> QED BY <3>1, <3>2
  <2> HIDE DEF z, s, n, f
  <2>5. /\ table[i].num = i /\ table[i].name = n /\ table[i].start = s /\ table[i].size = z /\ table[i].fsS = f
    BY <2>2 DEF Part
  <2>6. Sized(i, n, parts[i].size)
    BY <2>3, <2>4, <2>5 DEF Sized, End
  <2> QED BY <2>3, <2>5, <2>6 DEF n
<1> QED BY <1>2, <1>3, <1>4 DEF parts

-----------------------------------------------------------------------------
(***************************************************************************)
(* An image on a disk that is wide enough                                  *)
(***************************************************************************)

\* The sectors of the configuration, and what is left at the end.
LEMMA SectorFacts ==
  ASSUME NEW s \in DiskSpecs, Room(s)
  PROVE  /\ MiBToSectors(1) \in Nat /\ GptSectors \in Nat /\ GptSectors > 0 /\ MiBToSectors(1) > GptSectors
         /\ SectorsOf("boot") \in Nat /\ SectorsOf("boot") > 0 /\ SectorsOf("oem") \in Nat /\ SectorsOf("oem") > 0
         /\ SectorsOf("recovery") \in Nat /\ SectorsOf("recovery") > 0 /\ SectorsOf("state") \in Nat /\ SectorsOf("state") > 0
         /\ SectorsOf("persistent") \in Nat /\ MiBToSectors(Grown(PartSize["persistent"])) \in Nat
         /\ MiBToSectors(Grown(PartSize["persistent"])) > 0
         /\ PartSize["persistent"] # 0 => MiBToSectors(Grown(PartSize["persistent"])) = SectorsOf("persistent")
         /\ PartSize["persistent"] # 0 => SectorsOf("persistent") > 0
         /\ MiBToSectors(ExtraOf(s)) \in Nat /\ MiBToSectors(ExtraOf(s)) > GptSectors
         /\ Widest \in Nat /\ SectorsOf("recovery") <= Widest
<1>1. /\ SectorsPerMiB \in Nat /\ GptSectors \in Nat /\ GptSectors > 0 /\ GptSectors < SectorsPerMiB
      /\ MiBToSectors(1) = SectorsPerMiB
  BY PartitionerAssumption, MiBOne DEF MiBToSectors
<1>2. ASSUME NEW n \in Nat, n > 0 PROVE MiBToSectors(n) \in Nat /\ MiBToSectors(n) > 0 /\ MiBToSectors(n) > GptSectors
  <2>1. MiBToSectors(n) \in Nat /\ MiBToSectors(n) >= SectorsPerMiB
    BY <1>2, MiBNat, MiBPos
  <2> QED BY <1>1, <2>1
<1>3. /\ SectorsOf("boot") \in Nat /\ SectorsOf("boot") > 0 /\ SectorsOf("oem") \in Nat /\ SectorsOf("oem") > 0
      /\ SectorsOf("recovery") \in Nat /\ SectorsOf("recovery") > 0 /\ SectorsOf("state") \in Nat /\ SectorsOf("state") > 0
  BY <1>2, PartSizes DEF SectorsOf
<1>4. SectorsOf("persistent") \in Nat
  BY PartSizes, MiBNat DEF SectorsOf
<1>5. Grown(PartSize["persistent"]) \in Nat /\ Grown(PartSize["persistent"]) > 0
      /\ (PartSize["persistent"] # 0 => Grown(PartSize["persistent"]) = PartSize["persistent"])
  BY PartSizes DEF Grown
<1>6. /\ MiBToSectors(Grown(PartSize["persistent"])) \in Nat /\ MiBToSectors(Grown(PartSize["persistent"])) > 0
      /\ PartSize["persistent"] # 0 => MiBToSectors(Grown(PartSize["persistent"])) = SectorsOf("persistent")
  BY <1>2, <1>5 DEF SectorsOf
<1>7. MiBToSectors(ExtraOf(s)) \in Nat /\ MiBToSectors(ExtraOf(s)) > GptSectors
  BY <1>2, ExtraPositive
<1>8. Widest \in Nat /\ SectorsOf("recovery") <= Widest
  <2>1. CASE RecoverySize > PartSize["recovery"]
    <3>1. Widest = MiBToSectors(RecoverySize)
      BY <2>1 DEF Widest
    <3> QED BY <2>1, <3>1, PartSizes, MiBNat, MiBUp DEF SectorsOf
  <2>2. CASE ~(RecoverySize > PartSize["recovery"])
    BY <1>3, <2>2 DEF Widest, SectorsOf
  <2> QED BY <2>1, <2>2
<1> QED BY <1>1, <1>3, <1>4, <1>6, <1>7, <1>8

\* A disk with the room the build asks for is wide enough.
LEMMA WideEnough ==
  ASSUME spec \in DiskSpecs, Room(spec), spec.expandable, NEW n \in Nat, n >= MiBToSectors(LayoutRoom)
  PROVE  n >= Wide(spec)
<1> DEFINE b == PartSize["boot"]
           o == PartSize["oem"]
           c == PartSize["recovery"]
           v == RecoverySize
           r == IF v > c THEN v ELSE c
           t == PartSize["state"]
           p == Grown(PartSize["persistent"])
           x == ExtraOf(spec)
           z == spec.size
           w == 1 + (b + o + r + t + p) + x
<1>1. /\ b \in Nat /\ o \in Nat /\ r \in Nat /\ c \in Nat /\ v \in Nat /\ t \in Nat /\ p \in Nat /\ x \in Nat
      /\ z \in Nat
  BY PartSizes, ExtraPositive, SpecFields DEF Grown
<1>2. MinDiskSize = 2 + b + o + c + t + p /\ MinDiskSize \in Nat
  BY MinDiskSizeIs
<1>3. x = IF z > 0 THEN z - MinDiskSize ELSE 1
  BY DEF ExtraOf
<1>4. Wide(spec) = MiBToSectors(w)
  <2>1. Wide(spec) = MiBToSectors(1) + MiBToSectors(b) + MiBToSectors(o) + MiBToSectors(r) + MiBToSectors(t) + MiBToSectors(p) + MiBToSectors(x)
    BY DEF Wide, Widest, SectorsOf
  <2> HIDE DEF b, o, r, t, p, x
  <2>2. MiBToSectors(1 + (b + o + r + t + p) + x)
          = MiBToSectors(1) + MiBToSectors(b) + MiBToSectors(o) + MiBToSectors(r) + MiBToSectors(t) + MiBToSectors(p) + MiBToSectors(x)
    <3>1. b \in Nat /\ o \in Nat /\ r \in Nat /\ t \in Nat /\ p \in Nat /\ x \in Nat
      BY <1>1
    <3> QED BY <3>1, MiBSum7, SMTT(60)
  <2> QED BY <2>1, <2>2
<1>5. LayoutRoom = (IF z > MinDiskSize THEN z ELSE MinDiskSize) + (IF v > c THEN v - c ELSE 0)
  <2>1. ImageSize("recovery") = v
    BY DEF ImageSize, RecoverySize
  <2> HIDE DEF v, c
  <2> QED BY <2>1 DEF LayoutRoom, c
<1>6. r = IF v > c THEN v ELSE c
  OBVIOUS
<1>7. z > 0 => z > MinDiskSize
  BY DEF Room
<1> HIDE DEF b, o, c, v, r, t, p, x, z
<1>8. w \in Nat /\ LayoutRoom \in Nat /\ w <= LayoutRoom
  BY <1>1, <1>2, <1>3, <1>5, <1>6, <1>7
<1> HIDE DEF w
<1>9. MiBToSectors(w) <= MiBToSectors(LayoutRoom)
  BY <1>8, MiBUp
<1>10. MiBToSectors(w) \in Nat /\ MiBToSectors(LayoutRoom) \in Nat
  BY <1>8, MiBNat
<1> QED BY <1>4, <1>9, <1>10

\* An expandable image that has just been written to a disk.
LEMMA FlashStages ==
  ASSUME BuildInv, NEW sectors \in DiskSizes, Flash(sectors), spec.expandable
  PROVE  StagesInv'
<1>1. /\ stage' = "off" /\ UNCHANGED spec /\ entry' = "recovery" /\ stages' = TRUE /\ deployed' = FALSE
  <2>1. spec.expandable = TRUE \/ ~spec.expandable = FALSE
    OBVIOUS
  <2> QED BY <2>1 DEF Flash
<1>2. total' = sectors /\ sectors >= MiBToSectors(LayoutRoom) /\ sectors \in Nat
  BY FirstBootAssumption DEF Flash
<1>3. /\ TableInv' /\ spec \in DiskSpecs /\ Room(spec) /\ Len(table') = Count(spec)
      /\ \A i \in 1..Count(spec) :
              table'[i] = Part(i, NameAt[i], LaidOf(spec)[i].start, LaidOf(spec)[i].size,
                               MiBToSectors(WantImages(spec, Count(spec))[i].size), Data(NameAt[i]))
  BY FlashedTable
<1>4. Count(spec) = 3
  BY DEF Count
<1>5. total' >= Wide(spec)' /\ Widest' = Widest
  <2>1. sectors >= Wide(spec)
    BY <1>2, <1>3, WideEnough
  <2> QED BY <1>1, <1>2, <2>1 DEF Wide, ExtraOf
<1> DEFINE M(n) == MiBToSectors(n)
           b == PartSize["boot"]
           o == PartSize["oem"]
           t == RecoverySize
           r == PartSize["recovery"]
           x == M(ExtraOf(spec))
           z == Sizes(WantImages(spec, 3))
           f(i) == M(WantImages(spec, 3)[i].size)
<1>6. /\ z[1] = b /\ z[2] = o /\ z[3] = t
      /\ LaidOf(spec)[1] = [name |-> "boot", start |-> M(1), size |-> M(b)]
      /\ LaidOf(spec)[2] = [name |-> "oem", start |-> M(1) + M(b), size |-> M(o)]
      /\ LaidOf(spec)[3] = [name |-> "recovery", start |-> M(1) + M(b) + M(o), size |-> M(t) + M(ExtraOf(spec)) - GptSectors]
  BY <1>3, ExpandableLaid
<1>7. f(1) = M(b) /\ f(2) = M(o) /\ f(3) = M(t)
  <2>1. \A i \in 1..3 : z[i] = WantImages(spec, 3)[i].size
    BY DEF Sizes, WantImages
  <2> HIDE DEF z
  <2>2. z[1] = WantImages(spec, 3)[1].size /\ z[2] = WantImages(spec, 3)[2].size /\ z[3] = WantImages(spec, 3)[3].size
    BY <2>1
  <2> QED BY <1>6, <2>2
<1>8. /\ M(b) = SectorsOf("boot") /\ M(o) = SectorsOf("oem") /\ M(r) = SectorsOf("recovery")
  BY DEF SectorsOf
<1>9. M(t) \in Nat /\ M(t) > 0 /\ M(t) <= Widest
  <2>1. t \in Nat /\ t > 0 /\ r \in Nat
    BY PartSizes
  <2>0. Widest = IF t > r THEN M(t) ELSE M(r)
    BY DEF Widest
  <2> HIDE DEF t, r
  <2>2. M(t) \in Nat /\ M(t) >= SectorsPerMiB /\ (t <= r => M(t) <= M(r))
    BY <2>1, MiBNat, MiBPos, MiBUp
  <2> QED BY <2>0, <2>1, <2>2, PartitionerAssumption
<1>10. /\ table'[1] = Part(1, "boot", M(1), SectorsOf("boot"), SectorsOf("boot"), Data(NameAt[1]))
       /\ table'[2] = Part(2, "oem", M(1) + SectorsOf("boot"), SectorsOf("oem"), SectorsOf("oem"), Data(NameAt[2]))
       /\ table'[3] = Part(3, "recovery", M(1) + SectorsOf("boot") + SectorsOf("oem"), M(t) + x - GptSectors, M(t), Data(NameAt[3]))
  <2>1. 1 \in 1..3 /\ 2 \in 1..3 /\ 3 \in 1..3 /\ NameAt[1] = "boot" /\ NameAt[2] = "oem" /\ NameAt[3] = "recovery"
    BY DEF NameAt
  <2>2. /\ LaidOf(spec)[1].start = M(1) /\ LaidOf(spec)[1].size = M(b)
        /\ LaidOf(spec)[2].start = M(1) + M(b) /\ LaidOf(spec)[2].size = M(o)
        /\ LaidOf(spec)[3].start = M(1) + M(b) + M(o) /\ LaidOf(spec)[3].size = M(t) + M(ExtraOf(spec)) - GptSectors
    BY <1>6
  <2>3. \A i \in 1..3 : table'[i] = Part(i, NameAt[i], LaidOf(spec)[i].start, LaidOf(spec)[i].size, f(i), Data(NameAt[i]))
    BY <1>3, <1>4
  <2> HIDE DEF f, b, o, t
  <2> QED BY <1>7, <1>8, <2>1, <2>2, <2>3
<1>11. /\ M(1) \in Nat /\ SectorsOf("boot") \in Nat /\ SectorsOf("boot") > 0 /\ SectorsOf("oem") \in Nat /\ SectorsOf("oem") > 0
       /\ x \in Nat /\ GptSectors \in Nat /\ Widest \in Nat
  BY <1>3, <1>8, SectorFacts
<1> DEFINE d1 == Data(NameAt[1])
           d2 == Data(NameAt[2])
           d3 == Data(NameAt[3])
<1> HIDE DEF M, x, z, f, b, o, t, r, d1, d2, d3
<1>12. /\ table'[1].name = "boot" /\ table'[1].size = SectorsOf("boot") /\ table'[1].fsS = SectorsOf("boot")
       /\ table'[2].name = "oem" /\ table'[2].size = SectorsOf("oem") /\ table'[2].fsS = SectorsOf("oem")
       /\ table'[2].start = M(1) + SectorsOf("boot")
       /\ table'[3].name = "recovery" /\ table'[3].start = M(1) + SectorsOf("boot") + SectorsOf("oem")
       /\ table'[3].size = M(t) + x - GptSectors /\ table'[3].fsS = M(t)
  BY <1>10 DEF Part
<1>13. Len(table') = 3
  BY <1>3, <1>4
<1>14. FirstTwo'
  BY <1>11, <1>12, <1>13 DEF FirstTwo, IsPart, M
<1>15. RecoveryOnly'
  BY <1>9, <1>12, <1>13 DEF RecoveryOnly, RecoveryAt, M
<1>16. table'[3].size <= Widest + MiBToSectors(ExtraOf(spec)) - GptSectors
  <2>1. M(t) + x - GptSectors <= Widest + x - GptSectors
    BY <1>9, <1>11
  <2>2. x = MiBToSectors(ExtraOf(spec))
    BY DEF x, M
  <2> QED BY <1>12, <2>1, <2>2
<1> QED BY <1>1, <1>3, <1>5, <1>14, <1>15, <1>16 DEF StagesInv

-----------------------------------------------------------------------------
(***************************************************************************)
(* The stage that expands the recovery partition                           *)
(***************************************************************************)

\* A partition of the table.
LEMMA TableAt ==
  ASSUME TableInv, NEW i \in 1..Len(table)
  PROVE  /\ table[i] \in DiskPart /\ i \in DOMAIN table /\ table[i].num = i /\ table[i].start \in Nat /\ table[i].size \in Nat
         /\ table[i].fsS \in Nat /\ table[i].fsS <= table[i].size
<1>1. table \in Seq(DiskPart) /\ table[i].num = i /\ table[i].fsS <= table[i].size /\ i \in DOMAIN table
  BY DEF TableInv
<1>2. table[i] \in DiskPart
  BY <1>1, ElementOfSeq
<1> QED BY <1>1, <1>2, DiskPartFields

\* A table that has the first partitions of another one.
LEMMA FirstTwoKept ==
  ASSUME FirstTwo, Len(table') >= 2, table'[1] = table[1], table'[2] = table[2]
  PROVE  FirstTwo'
  BY DEF FirstTwo, IsPart

\* The stage that makes the recovery partition larger.
LEMMA ExpandReload ==
  ASSUME TableInv, RequestInv, StagesInv, stage = "expand", Reload, UNCHANGED <<machine, spec>>,
         faults = 0, faults' = 0
  PROVE  StagesInv'
<1>1. ppc = "reload" /\ UNCHANGED <<table, total, stage, mode, deployed, stages>>
  BY DEF Reload, machine
<1>2. /\ RecoveryOnly /\ table[3].size <= Widest + MiBToSectors(ExtraOf(spec)) - GptSectors
      /\ req.op = "expand" /\ FirstTwo /\ total >= Wide(spec) /\ spec \in DiskSpecs /\ Room(spec)
      /\ mode = "recovery" /\ ~deployed /\ stages
  BY <1>1 DEF StagesInv, ExpandStage
<1>3. RequestFields(req) /\ req.size = PartSize["recovery"] /\ PartSize["recovery"] > 0
  BY <1>1, <1>2, PartSizes DEF RequestInv
<1>4. table # <<>> /\ Len(table) = 3 /\ Last(table) = table[3] /\ table[3] \in DiskPart /\ table[2] \in DiskPart
  <2>1. Len(table) = 3 /\ 3 \in 1..Len(table) /\ 2 \in 1..Len(table)
    BY <1>2 DEF RecoveryOnly
  <2>2. table # <<>>
    BY <2>1
  <2> QED BY <2>1, <2>2, TableAt, TableEnds
<1>5. /\ table[3].size \in Nat /\ table[3].start = MiBToSectors(1) + SectorsOf("boot") + SectorsOf("oem")
      /\ table[3].name = "recovery" /\ table[3].fsS > 0 /\ table[3].num = 3
  BY <1>2, <1>4, DiskPartFields DEF RecoveryOnly, RecoveryAt, TableInv
<1>6. SectorsOf("recovery") = MiBToSectors(req.size) /\ SectorsOf("recovery") \in Nat
  BY <1>2, <1>3, SectorFacts DEF SectorsOf
<1>7. CanExpand(req.size) <=> SectorsOf("recovery") >= table[3].size
  <2> DEFINE e == MiBToSectors(1) + SectorsOf("boot") + SectorsOf("oem")
  <2>1. FreeSpaceWithoutLast = total - (table[2].start + table[2].size - 1)
    BY <1>4 DEF FreeSpaceWithoutLast, lastS, End
  <2>2. table[2].start + table[2].size = e
    BY <1>2 DEF FirstTwo
  <2>3. total \in Nat /\ table[2].start \in Nat /\ table[2].size \in Nat
    BY <1>4, DiskPartFields DEF RequestInv
  <2>4. e \in Nat /\ SectorsOf("recovery") <= total - (e - 1)
    BY <1>2, <2>3, SectorFacts DEF Wide
  <2> HIDE DEF e
  <2>5. SectorsOf("recovery") <= FreeSpaceWithoutLast
    BY <1>6, <2>1, <2>2, <2>3, <2>4
  <2> QED BY <1>3, <1>4, <1>6, <2>5 DEF CanExpand
<1>8. FirstTwo' /\ RecoveryOnly'
  BY <1>1, <1>2 DEF FirstTwo, IsPart, RecoveryOnly, RecoveryAt
<1>9. CASE /\ req.op = "expand" /\ CanExpand(req.size) /\ gpt' = total
           /\ req' = [req EXCEPT !.num = Last(table).num, !.start = Last(table).start, !.part = <<Last(table)>>]
           /\ ppc' = "rm"
  <2>1. /\ req'.op = "expand" /\ req'.num = Last(table).num /\ req'.start = Last(table).start
    BY <1>3, <1>9, RequestEditPart, Zenon
  <2>2. ExpandStage'
    BY <1>1, <1>2, <1>4, <1>5, <1>8, <1>9, <2>1 DEF ExpandStage
  <2> QED BY <1>1, <1>2, <1>8, <2>2 DEF StagesInv
<1>10. CASE ~CanExpand(req.size) /\ ppc' = "error"
  <2>1. table[3].size >= SectorsOf("recovery")
    BY <1>5, <1>6, <1>7, <1>10
  <2>2. ExpandStage'
    BY <1>1, <1>2, <1>8, <1>10, <2>1 DEF ExpandStage
  <2> QED BY <1>1, <1>2, <1>8, <2>2 DEF StagesInv
<1>11. ~Fault
  BY DEF Fault
<1> QED BY <1>2, <1>9, <1>10, <1>11 DEF Reload

\* parted takes the partition off, the two before it stay ...
LEMMA ExpandRm ==
  ASSUME TableInv, RequestInv, StagesInv, stage = "expand", Rm, UNCHANGED <<machine, spec>>,
         faults = 0, faults' = 0
  PROVE  StagesInv'
<1>1. ppc = "rm" /\ UNCHANGED <<total, gpt, req, stage, mode, deployed, stages>>
  BY DEF Rm, machine
<1>2. /\ RecoveryOnly /\ req.op = "expand" /\ FirstTwo /\ total >= Wide(spec) /\ spec \in DiskSpecs /\ Room(spec)
      /\ mode = "recovery" /\ ~deployed /\ stages /\ gpt = total /\ req.num = 3
      /\ req.start = MiBToSectors(1) + SectorsOf("boot") + SectorsOf("oem")
  BY <1>1 DEF StagesInv, ExpandStage
<1>3. req.part = <<table[Len(table)]>> /\ table # <<>> /\ Len(table) = 3
  BY <1>1, <1>2 DEF RequestInv, RecoveryOnly
<1>4. table' = Front(table) /\ ppc' = "mkpart"
  BY DEF Rm, Fault
<1>5. /\ Len(table') = 2 /\ table'[1] = table[1] /\ table'[2] = table[2]
  <2>1. table \in Seq(DiskPart) /\ table' = SubSeq(table, 1, Len(table) - 1)
    BY <1>3, <1>4, TableEnds DEF TableInv
  <2>2. Len(table') = Len(table) - 1 /\ \A i \in 1..(Len(table) - 1) : table'[i] = table[i]
    BY <1>3, <2>1, WithoutLast
  <2> QED BY <1>3, <2>2
<1>6. FirstTwo'
  BY <1>2, <1>5, FirstTwoKept
<1>7. req.part[1] = table[3] /\ table[3].name = "recovery" /\ table[3].fsS > 0
  BY <1>2, <1>3 DEF RecoveryOnly, RecoveryAt
<1>8. ExpandStage'
  BY <1>1, <1>2, <1>4, <1>5, <1>7 DEF ExpandStage
<1> QED BY <1>1, <1>2, <1>6, <1>8 DEF StagesInv

\* ... it fits where it was, with its new size ...
LEMMA ExpandMkpart ==
  ASSUME TableInv, RequestInv, StagesInv, stage = "expand", Mkpart, UNCHANGED <<machine, spec>>,
         faults = 0, faults' = 0
  PROVE  StagesInv'
<1>1. ppc = "mkpart" /\ UNCHANGED <<total, gpt, req, stage, mode, deployed, stages>>
  BY DEF Mkpart, machine
<1>2. /\ req.op = "expand" /\ FirstTwo /\ total >= Wide(spec) /\ spec \in DiskSpecs /\ Room(spec)
      /\ mode = "recovery" /\ ~deployed /\ stages /\ gpt = total /\ req.num = 3
      /\ req.start = MiBToSectors(1) + SectorsOf("boot") + SectorsOf("oem")
      /\ Len(table) = 2 /\ req.part[1].name = "recovery" /\ req.part[1].fsS > 0
  BY <1>1 DEF StagesInv, ExpandStage
<1>3. /\ req.size = PartSize["recovery"] /\ req.part = <<req.part[1]>> /\ req.part[1] \in DiskPart
      /\ req.part[1].fsS <= MiBToSectors(req.size) /\ total \in Nat
  BY <1>1, <1>2 DEF RequestInv
<1>4. NewSize = SectorsOf("recovery")
  BY <1>3, PartSizes DEF NewSize, SectorsOf
<1>5. /\ table # <<>> /\ Last(table) = table[2] /\ table[2].start \in Nat /\ table[2].size \in Nat
  <2>0. Len(table) = 2
    BY <1>2
  <2>1. 2 \in 1..Len(table)
    BY <2>0
  <2>2. table # <<>>
    BY <2>0
  <2> QED BY <1>2, <2>1, <2>2, TableAt, TableEnds
<1>6. Fitting
  <2>1. End(Last(table)) = table[2].start + table[2].size - 1
    BY <1>5 DEF End
  <2>2. table[2].start + table[2].size = req.start
    BY <1>2 DEF FirstTwo
  <2>3. req.start > End(Last(table))
    BY <1>5, <2>1, <2>2
  <2>4. SectorsOf("recovery") > 0 /\ req.start + SectorsOf("recovery") - 1 <= total - GptSectors - 1
    BY <1>2, <1>3, SectorFacts DEF Wide
  <2> QED BY <1>2, <1>4, <2>3, <2>4 DEF Fitting, LastUsable
<1>7. table' = Append(table, NewPart) /\ ppc' = "device"
  BY <1>6 DEF Mkpart, Fault
<1> DEFINE old == req.part[1]
           p == NewPart
<1>8. LowestFree = 3
  BY <1>2, LowestFreeIs DEF TableInv
<1>9. p = Part(3, old.name, req.start, SectorsOf("recovery"), old.fsS, old.data)
  <2>1. req.part # <<>> /\ old.fsS <= NewSize
    BY <1>3, <1>4 DEF SectorsOf
  <2> QED BY <1>4, <1>8, <2>1 DEF NewPart
<1>10. /\ Len(table') = 3 /\ table'[1] = table[1] /\ table'[2] = table[2] /\ table'[3] = p
  <2> DEFINE S == DiskPart \cup {p}
  <2>1. table \in Seq(S) /\ p \in S
    BY DEF TableInv
  <2> HIDE DEF S, p
  <2>2. table' = Append(table, p)
    BY <1>7 DEF p
  <2>3. Len(table') = Len(table) + 1 /\ (\A i \in 1..Len(table) : table'[i] = table[i]) /\ table'[Len(table) + 1] = p
    BY <2>1, <2>2, AppendProperties
  <2> QED BY <1>2, <2>3
<1>11. FirstTwo'
  BY <1>2, <1>10, FirstTwoKept
<1> HIDE DEF p, old
<1>12. table'[3].name = old.name /\ table'[3].fsS = old.fsS /\ table'[3].start = req.start /\ table'[3].size = SectorsOf("recovery")
  BY <1>9, <1>10 DEF Part
<1>13. RecoveryOnly'
  BY <1>2, <1>10, <1>12 DEF RecoveryOnly, RecoveryAt, old
<1>14. ExpandStage'
  BY <1>1, <1>2, <1>7, <1>12, <1>13 DEF ExpandStage
<1> QED BY <1>1, <1>2, <1>11, <1>14 DEF StagesInv

\* ... its device is found ...
LEMMA ExpandDevice ==
  ASSUME TableInv, RequestInv, StagesInv, stage = "expand", FindPartitionDevice, UNCHANGED <<machine, spec>>,
         faults = 0, faults' = 0
  PROVE  StagesInv'
<1>1. ppc = "device" /\ UNCHANGED <<table, total, gpt, req, stage, mode, deployed, stages>>
  BY DEF FindPartitionDevice, machine
<1>2. RecoveryOnly /\ req.num = 3 /\ req.op = "expand" /\ table[3].size = SectorsOf("recovery") /\ FirstTwo
  BY <1>1 DEF StagesInv, ExpandStage
<1>3. 3 \in Numbered
  BY <1>2 DEF Numbered, RecoveryOnly, TableInv
<1>4. ppc' = "format"
  BY <1>3 DEF FindPartitionDevice, Fault
<1>5. FirstTwo' /\ RecoveryOnly'
  BY <1>1, <1>2 DEF FirstTwo, IsPart, RecoveryOnly, RecoveryAt
<1>6. ExpandStage'
  BY <1>1, <1>2, <1>4, <1>5 DEF ExpandStage
<1> QED BY <1>1, <1>5, <1>6 DEF StagesInv

\* ... and its file system gets the size of the partition.
LEMMA ExpandFormat ==
  ASSUME TableInv, RequestInv, StagesInv, stage = "expand", ExpandFilesystem, UNCHANGED <<machine, spec>>,
         faults = 0, faults' = 0
  PROVE  StagesInv'
<1>1. ppc = "format" /\ UNCHANGED <<total, gpt, req, stage, mode, deployed, stages>>
  BY DEF ExpandFilesystem, machine
<1>2. RecoveryOnly /\ req.num = 3 /\ req.op = "expand" /\ table[3].size = SectorsOf("recovery") /\ FirstTwo
      /\ spec \in DiskSpecs /\ Room(spec)
  BY <1>1 DEF StagesInv, ExpandStage
<1>3. DOMAIN table = 1..3 /\ 3 \in 1..3 /\ table[1].num = 1 /\ table[2].num = 2 /\ table[3].num = 3 /\ table[3].fsS > 0
  BY <1>2 DEF RecoveryOnly, RecoveryAt, TableInv
<1>4. 3 \in Numbered /\ 1 \notin Numbered /\ 2 \notin Numbered
  BY <1>2, <1>3 DEF Numbered
<1>5. ~Fault
  BY DEF Fault
<1>6. /\ table' = [i \in DOMAIN table |->
                      IF i \in Numbered /\ table[i].fsS > 0 THEN [table[i] EXCEPT !.fsS = table[i].size] ELSE table[i]]
      /\ ppc' = IF \E i \in Numbered : table[i].fsS > 0 THEN "ok" ELSE "error"
  BY <1>5, Zenon DEF ExpandFilesystem
<1>7. ppc' = "ok"
  BY <1>3, <1>4, <1>6
<1> DEFINE E(i) == [table[i] EXCEPT !.fsS = table[i].size]
           q == E(3)
<1>8. table' = [i \in 1..3 |-> IF i \in Numbered /\ table[i].fsS > 0 THEN E(i) ELSE table[i]]
  BY <1>3, <1>6, Zenon
<1>9. q.name = table[3].name /\ q.start = table[3].start /\ q.size = table[3].size /\ q.fsS = table[3].size
  <2> DEFINE p == table[3]
  <2>1. p \in DiskPart
    <3>1. 3 \in 1..Len(table)
      BY <1>2 DEF RecoveryOnly
    <3> QED BY <3>1, TableAt
  <2>2. q = [p EXCEPT !.fsS = p.size]
    BY Zenon
  <2> DEFINE n == p.num
             na == p.name
             st == p.start
             si == p.size
             fs == p.fsS
             da == p.data
  <2>3. p = Part(n, na, st, si, fs, da)
    BY <2>1, DiskPartIs
  <2> HIDE DEF p, q, n, na, st, si, fs, da
  <2>4. [Part(n, na, st, si, fs, da) EXCEPT !.fsS = si] = Part(n, na, st, si, si, da)
    BY DEF Part
  <2>5. q = Part(n, na, st, si, si, da)
    BY <2>2, <2>3, <2>4, Zenon DEF si
  <2>6. q.name = na /\ q.start = st /\ q.size = si /\ q.fsS = si
    BY <2>5 DEF Part
  <2> QED BY <2>6 DEF p, na, st, si
<1> HIDE DEF E
<1>10. Len(table') = 3 /\ table'[1] = table[1] /\ table'[2] = table[2] /\ table'[3] = E(3)
  BY <1>3, <1>4, <1>8
<1>11. table'[3].size > 0
  BY <1>2, <1>9, <1>10, SectorFacts
<1>12. FirstTwo'
  BY <1>2, <1>10, FirstTwoKept
<1>13. RecoveryOnly' /\ table'[3].size = SectorsOf("recovery")
  BY <1>2, <1>9, <1>10, <1>11 DEF RecoveryOnly, RecoveryAt
<1>14. ExpandStage'
  BY <1>1, <1>2, <1>7, <1>13 DEF ExpandStage
<1> QED BY <1>1, <1>12, <1>14 DEF StagesInv

-----------------------------------------------------------------------------
(***************************************************************************)
(* The stages that add a partition                                         *)
(***************************************************************************)

\* The place of the partition a stage adds.
Nth(name) == IF name = "state" THEN 4 ELSE 5

\* A partition a stage has just added.
NewAt(n) ==
  /\ table[n].name = stage /\ table[n].size > 0 /\ Follows(n)
  /\ IF PartSize[stage] = 0 THEN End(table[n]) = LastUsable(total) ELSE table[n].size = SectorsOf(stage)

\* A step that keeps what the partitions are and where they are.
SameParts ==
  /\ Len(table') >= Len(table)
  /\ \A i \in 1..Len(table) : /\ table'[i].name = table[i].name /\ table'[i].start = table[i].start
                              /\ table'[i].size = table[i].size /\ (table[i].fsS > 0 => table'[i].fsS > 0)

\* There is room for the partition a stage is to add.
LEMMA AddRoom ==
  ASSUME TableInv, RequestInv, StagesInv, stage \in {"state", "persistent"}, ppc \in {"idle", "reload", "mkpart"},
         NEW n, n = Nth(stage)
  PROVE  /\ n \in {4, 5} /\ Len(table) = n - 1 /\ table # <<>> /\ Last(table) = table[n - 1]
         /\ table[n - 1].num = n - 1 /\ table[n - 1].start \in Nat /\ table[n - 1].size \in Nat
         /\ total \in Nat /\ PartSize[stage] \in Nat /\ GptSectors \in Nat
         /\ MiBToSectors(Grown(PartSize[stage])) \in Nat /\ MiBToSectors(Grown(PartSize[stage])) > 0
         /\ table[n - 1].start + table[n - 1].size + MiBToSectors(Grown(PartSize[stage])) + GptSectors <= total
<1>1. /\ spec \in DiskSpecs /\ Room(spec) /\ total >= Wide(spec)
      /\ stage = "state" => Third /\ AddStage(4)
      /\ stage = "persistent" => Third /\ Fourth /\ AddStage(5)
  BY DEF StagesInv, StateStage, PersistentStage
<1>2. n \in {4, 5} /\ Len(table) = n - 1 /\ total \in Nat
  BY <1>1 DEF Nth, AddStage, RequestInv
<1>3. n - 1 \in 1..Len(table) /\ 3 \in 1..Len(table)
  BY <1>2
<1>4. table # <<>>
  BY <1>3 DEF TableInv
<1>5. Last(table) = table[n - 1]
  BY <1>2, <1>4, TableEnds
<1>6. /\ table[n - 1].num = n - 1 /\ table[n - 1].start \in Nat /\ table[n - 1].size \in Nat
      /\ table[3].start \in Nat /\ table[3].size \in Nat
  BY <1>3, TableAt
<1> DEFINE e == table[3].start + table[3].size
           s == SectorsOf("state")
           p == MiBToSectors(Grown(PartSize["persistent"]))
<1>7. e \in Nat /\ s \in Nat /\ s > 0 /\ p \in Nat /\ p > 0 /\ GptSectors \in Nat /\ e + s + p + GptSectors <= total
  <2>1. /\ table[3].start = MiBToSectors(1) + SectorsOf("boot") + SectorsOf("oem")
        /\ table[3].size <= Widest + MiBToSectors(ExtraOf(spec)) - GptSectors
    BY <1>1 DEF Third, RecoveryAt
  <2> DEFINE m == MiBToSectors(1) + SectorsOf("boot") + SectorsOf("oem")
             r == Widest
             x == MiBToSectors(ExtraOf(spec))
             a == table[3].start
             z == table[3].size
  <2>2. m \in Nat /\ r \in Nat /\ x \in Nat /\ s \in Nat /\ s > 0 /\ p \in Nat /\ p > 0 /\ GptSectors \in Nat
    BY <1>1, SectorFacts
  <2>3. total >= m + r + s + p + x
    BY <1>1 DEF Wide
  <2>4. a = m /\ z <= r + x - GptSectors /\ a \in Nat /\ z \in Nat
    BY <1>6, <2>1
  <2>5. e = a + z
    OBVIOUS
  <2> HIDE DEF e, s, p, m, r, x, a, z
  <2> QED BY <1>2, <2>2, <2>3, <2>4, <2>5
<1>8. CASE stage = "state"
  <2>1. PartSize[stage] \in Nat /\ MiBToSectors(Grown(PartSize[stage])) = s /\ n = 4
    BY <1>8, PartSizes DEF Grown, SectorsOf, Nth
  <2>2. table[n - 1].start + table[n - 1].size = e
    BY <2>1
  <2> HIDE DEF e, s, p
  <2>3. e + s + GptSectors <= total
    BY <1>2, <1>7
  <2> QED BY <1>2, <1>4, <1>5, <1>6, <1>7, <2>1, <2>2, <2>3
<1>9. CASE stage = "persistent"
  <2>1. PartSize[stage] \in Nat /\ MiBToSectors(Grown(PartSize[stage])) = p /\ n = 5
    BY <1>9, PartSizes DEF Nth
  <2>2. table[4].start = e /\ table[4].size = s
    BY <1>1, <1>9 DEF Fourth, Follows
  <2>3. table[n - 1].start + table[n - 1].size = e + s
    BY <2>1, <2>2
  <2> HIDE DEF e, s, p
  <2>4. (e + s) + p + GptSectors <= total
    BY <1>7
  <2> QED BY <1>2, <1>4, <1>5, <1>6, <1>7, <2>1, <2>3, <2>4
<1> QED BY <1>8, <1>9

\* What a step of such a stage has to show.
LEMMA AddStep ==
  ASSUME TableInv, StagesInv, stage \in {"state", "persistent"}, UNCHANGED <<machine, spec, total>>,
         NEW n, n = Nth(stage), AddStage(n)', SameParts,
         ppc' \in {"device", "format", "ok"} => ppc \in {"device", "format", "ok"} \/ NewAt(n)'
  PROVE  StagesInv'
<1>1. /\ spec \in DiskSpecs /\ Room(spec) /\ total >= Wide(spec) /\ FirstTwo /\ Third
      /\ mode = "recovery" /\ ~deployed /\ stages
      /\ stage = "state" => AddStage(4) /\ (ppc \in {"device", "format", "ok"} => Fourth)
      /\ stage = "persistent" => Fourth /\ table[4].fsS > 0 /\ AddStage(5) /\ (ppc \in {"device", "format", "ok"} => Fifth)
  BY DEF StagesInv, StateStage, PersistentStage
<1>2. UNCHANGED <<stage, mode, deployed, stages, spec, total>>
  BY DEF machine
<1>3. Len(table) \in Nat /\ Len(table') \in Nat /\ Len(table) >= 3 /\ Len(table') >= 3
      /\ (stage = "persistent" => Len(table) >= 4)
      /\ (ppc \in {"device", "format", "ok"} => Len(table) = n) /\ n \in {4, 5}
  <2>1. Len(table) \in Nat
    BY DEF TableInv
  <2>2. ppc \in {"idle", "reload", "mkpart", "device", "format", "ok"}
    BY <1>1 DEF AddStage
  <2>3. /\ stage = "state" => Len(table) = 3 \/ Len(table) = 4
        /\ stage = "persistent" => Len(table) = 4 \/ Len(table) = 5
        /\ ppc \in {"device", "format", "ok"} => Len(table) = n
    BY <1>1, <2>2 DEF AddStage, Nth
  <2>4. Len(table') = n - 1 \/ Len(table') = n
    BY DEF AddStage
  <2>5. n \in {4, 5}
    BY DEF Nth
  <2>6. Len(table') \in Nat /\ Len(table') >= 3
    BY <2>4, <2>5
  <2>7. Len(table) >= 3 /\ (stage = "persistent" => Len(table) >= 4)
    BY <2>3, SMTT(30)
  <2> QED BY <2>1, <2>3, <2>5, <2>6, <2>7
<1>4. \A i \in 1..Len(table) : /\ table'[i].name = table[i].name /\ table'[i].start = table[i].start
                              /\ table'[i].size = table[i].size /\ (table[i].fsS > 0 => table'[i].fsS > 0)
  BY DEF SameParts
<1>5. 1 \in 1..Len(table) /\ 2 \in 1..Len(table) /\ 3 \in 1..Len(table) /\ Len(table') >= 2
  BY <1>3
<1>6. FirstTwo' /\ Third'
  BY <1>1, <1>2, <1>4, <1>5 DEF FirstTwo, IsPart, Third, RecoveryAt
<1>7. ASSUME 4 \in 1..Len(table), Fourth PROVE Fourth' /\ (table[4].fsS > 0 => table'[4].fsS > 0)
  BY <1>4, <1>5, <1>7 DEF Fourth, Follows
<1>8. ASSUME 5 \in 1..Len(table), Fifth PROVE Fifth'
  BY <1>2, <1>4, <1>8 DEF Fifth, End
<1>9. CASE stage = "state"
  <2>1. n = 4
    BY <1>9 DEF Nth
  <2>2. ppc' \in {"device", "format", "ok"} => Fourth'
    <3>1. CASE ppc \in {"device", "format", "ok"}
      BY <1>1, <1>3, <1>7, <1>9, <2>1, <3>1
    <3>2. CASE NewAt(n)'
      <4>1. PartSize[stage] # 0
        BY <1>9, PartSizes
      <4>2. table'[4].name = "state" /\ Follows(4)' /\ table'[4].size = SectorsOf("state")
        BY <1>2, <1>9, <2>1, <3>2, <4>1 DEF NewAt
      <4> QED BY <4>2 DEF Fourth
    <3> QED BY <3>1, <3>2
  <2> QED BY <1>1, <1>2, <1>6, <1>9, <2>1, <2>2 DEF StagesInv, StateStage
<1>10. CASE stage = "persistent"
  <2>1. n = 5 /\ 4 \in 1..Len(table)
    BY <1>3, <1>10 DEF Nth
  <2>2. Fourth' /\ table'[4].fsS > 0
    BY <1>1, <1>7, <1>10, <2>1
  <2>3. ppc' \in {"device", "format", "ok"} => Fifth'
    <3>1. CASE ppc \in {"device", "format", "ok"}
      BY <1>1, <1>3, <1>8, <1>10, <2>1, <3>1
    <3>2. CASE NewAt(n)'
      <4>1. /\ table'[5].name = "persistent" /\ table'[5].size > 0
            /\ IF PartSize["persistent"] = 0 THEN End(table'[5]) = LastUsable(total') ELSE table'[5].size = SectorsOf("persistent")
        BY <1>2, <1>10, <2>1, <3>2 DEF NewAt
      <4>2. SectorsOf("persistent") \in Nat
        BY <1>1, SectorFacts
      <4> QED BY <4>1, <4>2 DEF Fifth
    <3> QED BY <3>1, <3>2
  <2> QED BY <1>1, <1>2, <1>6, <1>10, <2>1, <2>2, <2>3 DEF StagesInv, PersistentStage
<1> QED BY <1>9, <1>10

\* The checks let the partition of the stage pass ...
LEMMA AddReload ==
  ASSUME TableInv, RequestInv, StagesInv, stage \in {"state", "persistent"}, Reload, UNCHANGED <<machine, spec>>,
         faults = 0, faults' = 0
  PROVE  StagesInv'
<1>0. PICK n : n = Nth(stage)
  OBVIOUS
<1> DEFINE need == MiBToSectors(Grown(PartSize[stage]))
<1>1. ppc = "reload" /\ UNCHANGED <<table, total, stage>>
  BY DEF Reload, machine
<1>2. /\ n \in {4, 5} /\ Len(table) = n - 1 /\ table # <<>> /\ Last(table) = table[n - 1]
      /\ table[n - 1].start \in Nat /\ table[n - 1].size \in Nat
      /\ total \in Nat /\ PartSize[stage] \in Nat /\ GptSectors \in Nat /\ need \in Nat
      /\ table[n - 1].start + table[n - 1].size + need + GptSectors <= total
  BY <1>0, <1>1, AddRoom
<1>3. AddStage(n)
  BY <1>0 DEF StagesInv, StateStage, PersistentStage, Nth
<1>4. /\ req.op = "add" /\ req.name = stage /\ req.size = PartSize[stage] /\ req.fs = TRUE /\ RequestFields(req)
  BY <1>1, <1>3 DEF AddStage, RequestInv
<1>5. MiBToSectors(req.size) \in Nat /\ MiBToSectors(req.size) <= need
  <2>1. PartSize[stage] = 0 \/ Grown(PartSize[stage]) = PartSize[stage]
    BY DEF Grown
  <2> QED BY <1>2, <1>4, <2>1, MiBOne
<1> HIDE DEF need
<1>6. CanAdd(req.size)
  <2> DEFINE a == table[n - 1].start
             z == table[n - 1].size
             m == MiBToSectors(req.size)
  <2>1. FreeSpace = total - (a + z - 1)
    BY <1>2 DEF FreeSpace, lastS, End
  <2>2. a \in Nat /\ z \in Nat /\ m \in Nat /\ m <= need /\ a + z + need + GptSectors <= total
    BY <1>2, <1>5
  <2> HIDE DEF a, z, m
  <2>3. m <= total - (a + z - 1)
    BY <1>2, <2>2
  <2> QED BY <2>1, <2>3 DEF CanAdd, m
<1>7. /\ req' = [req EXCEPT !.num = NextNumber, !.start = NextStart] /\ ppc' = "mkpart" /\ gpt' = total
  BY <1>4, <1>6 DEF Reload, Fault
<1>8. req'.op = "add" /\ req'.name = req.name /\ req'.size = req.size /\ req'.start = NextStart /\ req'.fs = req.fs
  BY <1>4, <1>7, RequestEdit, Zenon
<1>9. NextStart = table[n - 1].start + table[n - 1].size
  BY <1>2 DEF NextStart
<1>10. AddStage(n)'
  <2>1. req'.fs = TRUE
    BY <1>4, <1>8, Zenon
  <2>2. req'.op = "add" /\ req'.name = stage' /\ req'.size = PartSize[stage']
    BY <1>1, <1>4, <1>8
  <2>3. req'.start = table'[n - 1].start + table'[n - 1].size
    BY <1>1, <1>8, <1>9
  <2>4. Len(table') = n - 1 /\ gpt' = total'
    BY <1>1, <1>2, <1>7
  <2> QED BY <1>7, <2>1, <2>2, <2>3, <2>4 DEF AddStage
<1>11. SameParts
  BY <1>1, <1>2 DEF SameParts
<1> QED BY <1>0, <1>1, <1>7, <1>10, <1>11, AddStep

\* ... it fits behind the last one ...
LEMMA AddMkpart ==
  ASSUME TableInv, RequestInv, StagesInv, stage \in {"state", "persistent"}, Mkpart, UNCHANGED <<machine, spec>>,
         faults = 0, faults' = 0
  PROVE  StagesInv'
<1>0. PICK n : n = Nth(stage)
  OBVIOUS
<1> DEFINE need == MiBToSectors(Grown(PartSize[stage]))
           a == table[n - 1].start
           z == table[n - 1].size
<1>1. ppc = "mkpart" /\ UNCHANGED <<total, gpt, req, stage>>
  BY DEF Mkpart, machine
<1>2. /\ n \in {4, 5} /\ Len(table) = n - 1 /\ table # <<>> /\ Last(table) = table[n - 1]
      /\ a \in Nat /\ z \in Nat
      /\ total \in Nat /\ PartSize[stage] \in Nat /\ GptSectors \in Nat /\ need \in Nat /\ need > 0
      /\ a + z + need + GptSectors <= total
  BY <1>0, <1>1, AddRoom
<1>3. AddStage(n)
  BY <1>0 DEF StagesInv, StateStage, PersistentStage, Nth
<1>4. /\ req.op = "add" /\ req.name = stage /\ req.size = PartSize[stage] /\ req.fs = TRUE
      /\ req.start = a + z /\ gpt = total
  BY <1>1, <1>3 DEF AddStage
<1>5. req.part = <<>>
  BY <1>1, <1>4 DEF RequestInv
<1>6. NewSize = IF PartSize[stage] = 0 THEN LastUsable(total) - (a + z) + 1 ELSE SectorsOf(stage)
  BY <1>4 DEF NewSize, SectorsOf
<1>7. PartSize[stage] # 0 => SectorsOf(stage) = need
  BY DEF Grown, SectorsOf
<1>8. End(Last(table)) = a + z - 1
  BY <1>2 DEF End
<1> DEFINE w == NewSize
           q == SectorsOf(stage)
<1> HIDE DEF need, a, z, w, q
<1>9. /\ w \in Nat /\ w > 0 /\ (a + z) + w - 1 <= LastUsable(total) /\ a + z > a + z - 1
      /\ PartSize[stage] = 0 => (a + z) + w - 1 = LastUsable(total)
  <2>1. w = (IF PartSize[stage] = 0 THEN LastUsable(total) - (a + z) + 1 ELSE q) /\ (PartSize[stage] # 0 => q = need)
    BY <1>6, <1>7 DEF w, q
  <2>2. LastUsable(total) = total - GptSectors - 1
    BY DEF LastUsable
  <2>3. CASE PartSize[stage] = 0
    BY <1>2, <2>1, <2>2, <2>3
  <2>4. CASE PartSize[stage] # 0
    BY <1>2, <2>1, <2>2, <2>4
  <2> QED BY <2>3, <2>4
<1>10. Fitting
  BY <1>4, <1>8, <1>9 DEF Fitting, w
<1>11. table' = Append(table, NewPart) /\ ppc' = "device"
  BY <1>10 DEF Mkpart, Fault
<1>12. LowestFree = n
  <2>1. LowestFree = Len(table) + 1
    BY LowestFreeIs DEF TableInv
  <2> QED BY <1>2, <2>1
<1> DEFINE p == NewPart
<1>13. p = Part(n, stage, a + z, w, 0, "none")
  BY <1>4, <1>5, <1>12 DEF NewPart, w
<1>14. /\ Len(table') = n /\ (\A i \in 1..Len(table) : table'[i] = table[i]) /\ table'[n] = p
  <2> DEFINE S == DiskPart \cup {p}
  <2>1. table \in Seq(S) /\ p \in S
    BY DEF TableInv
  <2> HIDE DEF S, p
  <2>2. table' = Append(table, p)
    BY <1>11 DEF p
  <2>3. Len(table') = Len(table) + 1 /\ (\A i \in 1..Len(table) : table'[i] = table[i]) /\ table'[Len(table) + 1] = p
    BY <2>1, <2>2, AppendProperties
  <2> QED BY <1>2, <2>3
<1> HIDE DEF p
<1>15. table'[n].name = stage /\ table'[n].start = a + z /\ table'[n].size = w
  BY <1>13, <1>14 DEF Part
<1>16. table'[n - 1] = table[n - 1]
  BY <1>2, <1>14
<1>17. NewAt(n)'
  <2>1. Follows(n)'
    BY <1>15, <1>16 DEF Follows, a, z
  <2>2. PartSize[stage] = 0 => End(table'[n]) = LastUsable(total')
    BY <1>1, <1>9, <1>15 DEF End
  <2>3. PartSize[stage] # 0 => table'[n].size = SectorsOf(stage)
    BY <1>6, <1>15 DEF w
  <2> QED BY <1>1, <1>9, <1>15, <2>1, <2>2, <2>3 DEF NewAt
<1>18. AddStage(n)'
  BY <1>1, <1>4, <1>11, <1>14 DEF AddStage
<1>19. SameParts
  BY <1>2, <1>14 DEF SameParts
<1> QED BY <1>0, <1>1, <1>17, <1>18, <1>19, AddStep

\* ... its device is found ...
LEMMA AddDevice ==
  ASSUME TableInv, RequestInv, StagesInv, stage \in {"state", "persistent"}, FindPartitionDevice,
         UNCHANGED <<machine, spec>>, faults = 0, faults' = 0
  PROVE  StagesInv'
<1>0. PICK n : n = Nth(stage)
  OBVIOUS
<1>1. ppc = "device" /\ UNCHANGED <<table, total, gpt, req, stage>>
  BY DEF FindPartitionDevice, machine
<1>2. AddStage(n)
  BY <1>0 DEF StagesInv, StateStage, PersistentStage, Nth
<1>3. n \in {4, 5} /\ Len(table) = n /\ req.op = "add" /\ req.num = Len(table)
  BY <1>0, <1>1, <1>2 DEF AddStage, Nth, RequestInv
<1>4. n \in Numbered
  <2>1. n \in 1..Len(table)
    BY <1>3
  <2> QED BY <1>3, <2>1, TableAt DEF Numbered
<1>5. ppc' = "format"
  BY <1>4 DEF FindPartitionDevice, Fault
<1>6. AddStage(n)'
  BY <1>1, <1>2, <1>5 DEF AddStage
<1>7. SameParts
  BY <1>1, <1>3 DEF SameParts
<1> QED BY <1>0, <1>1, <1>6, <1>7, AddStep

\* ... and formatted.
LEMMA AddFormat ==
  ASSUME TableInv, RequestInv, StagesInv, stage \in {"state", "persistent"}, MkfsCall,
         UNCHANGED <<machine, spec>>, faults = 0, faults' = 0
  PROVE  StagesInv'
<1>0. PICK n : n = Nth(stage)
  OBVIOUS
<1>1. ppc = "format" /\ UNCHANGED <<total, gpt, req, stage>>
  BY DEF MkfsCall, machine
<1>2. AddStage(n)
  BY <1>0 DEF StagesInv, StateStage, PersistentStage, Nth
<1>3. n \in {4, 5} /\ Len(table) = n /\ req.op = "add" /\ req.num = n /\ req.fs = TRUE
  BY <1>0, <1>1, <1>2 DEF AddStage, Nth, RequestInv
<1>4. DOMAIN table = 1..n /\ n \in 1..n /\ \A i \in 1..n : table[i].num = i /\ table[i] \in DiskPart
  BY <1>3 DEF TableInv
<1>5. \A i \in 1..n : i \in Numbered <=> i = n
  BY <1>3, <1>4 DEF Numbered
<1>6. ~Fault
  BY DEF Fault
<1> DEFINE E(i) == [table[i] EXCEPT !.fsS = table[i].size, !.data = "none"]
           q == E(n)
<1>7. table' = [i \in DOMAIN table |-> IF i \in Numbered /\ req.fs THEN E(i) ELSE table[i]] /\ ppc' = "ok"
  BY <1>6, Zenon DEF MkfsCall
<1>8. q.name = table[n].name /\ q.start = table[n].start /\ q.size = table[n].size /\ q.fsS = table[n].size
  <2> DEFINE p == table[n]
             nu == p.num
             na == p.name
             st == p.start
             si == p.size
             fs == p.fsS
             da == p.data
  <2>1. p = Part(nu, na, st, si, fs, da)
    BY <1>4, DiskPartIs
  <2>2. q = [[p EXCEPT !.fsS = p.size] EXCEPT !.data = "none"]
    BY Zenon
  <2> HIDE DEF p, q, nu, na, st, si, fs, da
  <2>3. [Part(nu, na, st, si, fs, da) EXCEPT !.fsS = si] = Part(nu, na, st, si, si, da)
    BY DEF Part
  <2>4. [Part(nu, na, st, si, si, da) EXCEPT !.data = "none"] = Part(nu, na, st, si, si, "none")
    BY DEF Part
  <2>5. q = Part(nu, na, st, si, si, "none")
    BY <2>1, <2>2, <2>3, <2>4, Zenon DEF si
  <2>6. q.name = na /\ q.start = st /\ q.size = si /\ q.fsS = si
    BY <2>5 DEF Part
  <2> QED BY <2>6 DEF p, na, st, si
<1> HIDE DEF E
<1>9. table' = [i \in 1..n |-> IF i = n THEN E(n) ELSE table[i]]
  <2>1. table' = [i \in 1..n |-> IF i \in Numbered /\ req.fs THEN E(i) ELSE table[i]]
    BY <1>4, <1>7, Zenon
  <2>2. \A i \in 1..n : (IF i \in Numbered /\ req.fs THEN E(i) ELSE table[i]) = (IF i = n THEN E(n) ELSE table[i])
    BY <1>3, <1>5, Zenon
  <2> QED BY <2>1, <2>2
<1>10. Len(table') = n /\ table'[n] = E(n) /\ \A i \in 1..n : i # n => table'[i] = table[i]
  BY <1>3, <1>4, <1>9
<1>11. table[n].size > 0
  <2>1. ppc \in {"device", "format", "ok"} /\ spec \in DiskSpecs /\ Room(spec)
    BY <1>1 DEF StagesInv
  <2>2. CASE stage = "state"
    <3>1. Fourth /\ n = 4
      BY <1>0, <2>1, <2>2 DEF StagesInv, StateStage, Nth
    <3> QED BY <2>1, <3>1, SectorFacts DEF Fourth
  <2>3. CASE stage = "persistent"
    <3>1. Third /\ Fourth /\ Fifth /\ n = 5
      BY <1>0, <2>1, <2>3 DEF StagesInv, PersistentStage, Nth
    <3> QED BY <3>1 DEF Fifth
  <2> QED BY <2>2, <2>3
<1>12. AddStage(n)'
  BY <1>1, <1>7, <1>8, <1>10, <1>11 DEF AddStage
<1>13. SameParts
  <2>1. ASSUME NEW i \in 1..n
        PROVE  /\ table'[i].name = table[i].name /\ table'[i].start = table[i].start
               /\ table'[i].size = table[i].size /\ (table[i].fsS > 0 => table'[i].fsS > 0)
    BY <1>8, <1>10, <1>11
  <2> QED BY <1>3, <1>10, <2>1 DEF SameParts
<1> QED BY <1>0, <1>1, <1>12, <1>13, AddStep

-----------------------------------------------------------------------------
(***************************************************************************)
(* From stage to stage                                                     *)
(***************************************************************************)

\* The partitioner at work for a stage.
LEMMA PartitionerStages ==
  ASSUME TableInv, RequestInv, StagesInv, PartitionerNext, UNCHANGED <<machine, spec>>, faults = 0, faults' = 0
  PROVE  StagesInv'
<1>1. ppc \in {"reload", "rm", "mkpart", "device", "format"}
  BY DEF PartitionerNext, Reload, Rm, Mkpart, FindPartitionDevice, MkfsCall, ExpandFilesystem
<1>2. stage \in {"expand", "state", "persistent"}
  BY <1>1, NextStages DEF RequestInv
<1>3. CASE stage = "expand"
  <2>1. req.op = "expand"
    BY <1>1, <1>3 DEF StagesInv, ExpandStage
  <2>2. ~MkfsCall
    BY <2>1 DEF MkfsCall
  <2> QED BY <1>3, <2>2, ExpandReload, ExpandRm, ExpandMkpart, ExpandDevice, ExpandFormat DEF PartitionerNext
<1>4. CASE stage \in {"state", "persistent"}
  <2>1. ppc # "rm" /\ req.op = "add"
    BY <1>1, <1>4 DEF StagesInv, StateStage, PersistentStage, AddStage
  <2>2. ~Rm /\ ~ExpandFilesystem
    BY <2>1 DEF Rm, ExpandFilesystem
  <2> QED BY <1>4, <2>2, AddReload, AddMkpart, AddDevice, AddFormat DEF PartitionerNext
<1> QED BY <1>2, <1>3, <1>4

\* The labels that are there, and those that are not.
LEMMA StageLabels ==
  ASSUME TableInv, StagesInv, stage \in {"expand", "state", "persistent"}, ppc = "idle"
  PROVE  HasLabel("recovery") /\ (stage # "expand" => ~HasLabel(stage))
<1>1. Len(table) >= 3 /\ table[3].name = "recovery" /\ table[3].fsS > 0
  BY DEF StagesInv, ExpandStage, StateStage, PersistentStage, AddStage, Third, RecoveryOnly, RecoveryAt
<1>2. Len(table) \in Nat /\ DOMAIN table = 1..Len(table)
  BY DEF TableInv
<1>3. HasLabel("recovery")
  <2>1. 3 \in DOMAIN table
    BY <1>1, <1>2
  <2> QED BY <1>1, <2>1 DEF HasLabel, Named
<1>4. ASSUME stage = "state" PROVE ~HasLabel(stage)
  <2>1. Len(table) = 3 /\ table[1].name = "boot" /\ table[2].name = "oem"
    BY <1>4 DEF StagesInv, StateStage, AddStage, FirstTwo, IsPart
  <2>2. \A i \in 1..3 : i = 1 \/ i = 2 \/ i = 3
    OBVIOUS
  <2> QED BY <1>1, <1>2, <1>4, <2>1, <2>2 DEF HasLabel, Named
<1>5. ASSUME stage = "persistent" PROVE ~HasLabel(stage)
  <2>1. Len(table) = 4 /\ table[1].name = "boot" /\ table[2].name = "oem" /\ table[4].name = "state"
    BY <1>5 DEF StagesInv, PersistentStage, AddStage, FirstTwo, IsPart, Fourth
  <2>2. \A i \in 1..4 : i = 1 \/ i = 2 \/ i = 3 \/ i = 4
    OBVIOUS
  <2> QED BY <1>1, <1>2, <1>5, <2>1, <2>2 DEF HasLabel, Named
<1> QED BY <1>3, <1>4, <1>5

\* What the stages say of the table, when it stays.
LEMMA FactsSame ==
  ASSUME UNCHANGED <<table, total, spec>>
  PROVE  /\ FirstTwo' <=> FirstTwo
         /\ RecoveryOnly' <=> RecoveryOnly
         /\ Third' <=> Third
         /\ Fourth' <=> Fourth
         /\ Fifth' <=> Fifth
         /\ Complete' <=> Complete
<1>1. /\ FirstTwo' <=> FirstTwo
      /\ RecoveryOnly' <=> RecoveryOnly
      /\ Third' <=> Third
      /\ Fourth' <=> Fourth
      /\ Fifth' <=> Fifth
  BY DEF FirstTwo, IsPart, RecoveryOnly, RecoveryAt, Third, Fourth, Follows, Fifth, End
<1> QED BY <1>1 DEF Complete

\* Each stage begins its work, and ends it with the partition it is about.
LEMMA LayoutStages ==
  ASSUME TableInv, RequestInv, StagesInv, Layout, faults = 0
  PROVE  StagesInv'
<1>1. /\ stage \in {"expand", "state", "persistent"} /\ UNCHANGED <<table, total, gpt, mode, deployed, stages, spec>>
  BY NextStages DEF Layout, builder, buildVars
<1>2. /\ FirstTwo' <=> FirstTwo
      /\ RecoveryOnly' <=> RecoveryOnly
      /\ Third' <=> Third
      /\ Fourth' <=> Fourth
      /\ Fifth' <=> Fifth
      /\ Complete' <=> Complete
  BY <1>1, FactsSame
<1>3. /\ spec \in DiskSpecs /\ Room(spec) /\ total >= Wide(spec) /\ FirstTwo
      /\ mode = "recovery" /\ ~deployed /\ stages
      /\ stage = "expand" => ExpandStage
      /\ stage = "state" => StateStage
      /\ stage = "persistent" => PersistentStage
  BY <1>1 DEF StagesInv
<1>4. NextStage["expand"] = "state" /\ NextStage["state"] = "persistent" /\ NextStage["persistent"] = "deploy"
  BY DEF NextStage
<1>5. CASE stage = "expand" /\ Request(ExpandRequest(PartSize["recovery"])) /\ UNCHANGED stage
  <2>1. ppc = "idle" /\ ppc' = "reload" /\ req'.op = "expand"
    BY <1>5 DEF Request, ExpandRequest
  <2>2. ExpandStage'
    BY <1>1, <1>2, <1>3, <1>5, <2>1 DEF ExpandStage
  <2> QED BY <1>1, <1>2, <1>3, <1>5, <2>2 DEF StagesInv
<1>6. CASE stage # "expand" /\ Request(AddRequest(stage, PartSize[stage], TRUE)) /\ UNCHANGED stage
  <2>1. ppc = "idle" /\ ppc' = "reload" /\ req' = AddRequest(stage, PartSize[stage], TRUE)
    BY <1>6 DEF Request
  <2>2. req'.op = "add" /\ req'.name = stage /\ req'.size = PartSize[stage] /\ req'.fs = TRUE
    BY <2>1 DEF AddRequest
  <2>3. ASSUME NEW n, AddStage(n) PROVE AddStage(n)'
    BY <1>1, <1>6, <2>1, <2>2, <2>3 DEF AddStage
  <2>4. CASE stage = "state"
    <3>1. StateStage'
      BY <1>2, <1>3, <2>1, <2>3, <2>4 DEF StateStage
    <3> QED BY <1>1, <1>2, <1>3, <1>6, <2>4, <3>1 DEF StagesInv
  <2>5. CASE stage = "persistent"
    <3>1. PersistentStage'
      BY <1>1, <1>2, <1>3, <2>1, <2>3, <2>5 DEF PersistentStage
    <3> QED BY <1>1, <1>2, <1>3, <1>6, <2>5, <3>1 DEF StagesInv
  <2> QED BY <1>1, <1>6, <2>4, <2>5
<1>7. CASE ppc \in {"ok", "error"} /\ ppc' = "idle" /\ stage' = NextStage[stage]
  <2>1. CASE stage = "expand"
    <3>1. RecoveryOnly /\ Third
      <4>1. spec \in DiskSpecs /\ Room(spec) /\ ExpandStage
        BY <1>3, <2>1
      <4>2. RecoveryOnly
        BY <1>7, <4>1 DEF ExpandStage
      <4>3. ppc = "error" => table[3].size >= SectorsOf("recovery") /\ table[3].size <= Widest + MiBToSectors(ExtraOf(spec)) - GptSectors
        BY <4>1 DEF ExpandStage
      <4>4. ppc = "ok" => table[3].size >= SectorsOf("recovery") /\ table[3].size <= Widest + MiBToSectors(ExtraOf(spec)) - GptSectors
        <5>1. ppc = "ok" => table[3].size = SectorsOf("recovery")
          BY <4>1 DEF ExpandStage
        <5>2. SectorsOf("recovery") <= Widest + MiBToSectors(ExtraOf(spec)) - GptSectors /\ SectorsOf("recovery") \in Nat
          BY <4>1, SectorFacts
        <5> QED BY <5>1, <5>2
      <4> QED BY <1>7, <4>2, <4>3, <4>4 DEF Third, RecoveryOnly
    <3>2. StateStage'
      BY <1>1, <1>2, <1>7, <3>1 DEF StateStage, AddStage, RecoveryOnly
    <3> QED BY <1>1, <1>2, <1>3, <1>4, <1>7, <2>1, <3>2 DEF StagesInv
  <2>2. CASE stage = "state"
    <3>1. ppc = "ok" /\ Third /\ Fourth /\ Len(table) = 4 /\ table[4].fsS > 0
      BY <1>3, <1>7, <2>2 DEF StateStage, AddStage
    <3>2. PersistentStage'
      BY <1>1, <1>2, <1>7, <3>1 DEF PersistentStage, AddStage
    <3> QED BY <1>1, <1>2, <1>3, <1>4, <1>7, <2>2, <3>2 DEF StagesInv
  <2>3. CASE stage = "persistent"
    <3>1. ppc = "ok" /\ Third /\ Fourth /\ Fifth /\ Len(table) = 5 /\ table[4].fsS > 0 /\ table[5].fsS > 0
      BY <1>3, <1>7, <2>3 DEF PersistentStage, AddStage
    <3>2. Complete
      BY <1>3, <3>1 DEF Complete
    <3> QED BY <1>1, <1>2, <1>3, <1>4, <1>7, <2>3, <3>2 DEF StagesInv
  <2> QED BY <1>1, <2>1, <2>2, <2>3
<1>8. ~(ppc = "idle" /\ (~HasLabel("recovery") \/ (stage # "expand" /\ HasLabel(stage))))
  BY <1>1, StageLabels
<1>9. Idle("ok") \/ Idle("error") => ppc \in {"ok", "error"} /\ ppc' = "idle"
  BY DEF Idle
<1> QED BY <1>5, <1>6, <1>7, <1>8, <1>9 DEF Layout, AfterError

\* Writing to a partition leaves the layout as it is.
LEMMA CompleteKept ==
  ASSUME TableInv, Complete, NEW k \in DOMAIN table, NEW d \in {"none", "recovery", "system", "user"},
         table' = [table EXCEPT ![k].data = d], UNCHANGED <<total, spec>>
  PROVE  Complete' /\ FirstTwo'
<1>1. /\ Len(table') = Len(table)
      /\ \A i \in 1..Len(table) : /\ table'[i].name = table[i].name /\ table'[i].size = table[i].size
                                  /\ table'[i].fsS = table[i].fsS /\ table'[i].start = table[i].start
  BY DataWritten
<1>2. Len(table) = 5
  BY DEF Complete
<1>3. \A i \in {1, 2, 3, 4, 5} : /\ table'[i].name = table[i].name /\ table'[i].size = table[i].size
                                  /\ table'[i].fsS = table[i].fsS /\ table'[i].start = table[i].start
  BY <1>1, <1>2
<1>4. FirstTwo /\ Third /\ Fourth /\ Fifth /\ table[4].fsS > 0 /\ table[5].fsS > 0
  BY DEF Complete
<1>5. FirstTwo' /\ Third'
  BY <1>1, <1>2, <1>3, <1>4 DEF FirstTwo, IsPart, Third, RecoveryAt
<1>6. Fourth' /\ Fifth'
  BY <1>3, <1>4 DEF Fourth, Follows, Fifth, End
<1> QED BY <1>1, <1>2, <1>3, <1>4, <1>5, <1>6 DEF Complete

\* A boot goes to the stages as long as nothing is deployed.
LEMMA BootStages ==
  ASSUME TableInv, RequestInv, StagesInv, Boot
  PROVE  StagesInv'
<1>1. stage = "off" /\ UNCHANGED <<table, total, spec, ppc, stages, deployed>>
  BY DEF Boot, partVars, builder, buildVars
<1>2. ppc = "idle"
  BY <1>1, NextStages DEF RequestInv
<1>3. /\ FirstTwo' <=> FirstTwo
      /\ RecoveryOnly' <=> RecoveryOnly
      /\ Complete' <=> Complete
  BY <1>1, FactsSame
<1>4. spec \in DiskSpecs /\ Room(spec) /\ total >= Wide(spec) /\ FirstTwo
  BY DEF StagesInv
<1>5. CASE ~deployed
  <2>1. /\ RecoveryOnly /\ table[3].size <= Widest + MiBToSectors(ExtraOf(spec)) - GptSectors
        /\ entry = "recovery" /\ stages
    BY <1>1, <1>5 DEF StagesInv
  <2>2. mode' = "recovery" /\ stage' \in {"dead", "expand"}
    BY <2>1, Zenon DEF Boot
  <2>3. ExpandStage'
    BY <1>1, <1>2, <1>3, <2>1 DEF ExpandStage
  <2> QED BY <1>1, <1>3, <1>4, <1>5, <2>1, <2>2, <2>3 DEF StagesInv
<1>6. CASE deployed
  <2>1. Complete /\ ~stages
    BY <1>6 DEF StagesInv
  <2>2. stage' \in {"dead", "running"}
    BY <2>1, Zenon DEF Boot
  <2> QED BY <1>1, <1>3, <1>4, <1>6, <2>1, <2>2 DEF StagesInv
<1> QED BY <1>5, <1>6

\* The reset finds what it needs.
LEMMA DeployStages ==
  ASSUME TableInv, StagesInv, Deploy, faults = 0, faults' = 0
  PROVE  StagesInv'
<1>1. stage = "deploy" /\ UNCHANGED <<total, spec>>
  BY DEF Deploy, builder, buildVars
<1>2. /\ spec \in DiskSpecs /\ Room(spec) /\ total >= Wide(spec) /\ Complete /\ mode = "recovery"
  BY <1>1 DEF StagesInv
<1>3. /\ Len(table) = 5 /\ table[1].name = "boot" /\ table[2].name = "oem" /\ table[3].name = "recovery"
      /\ table[4].name = "state" /\ table[4].fsS > 0 /\ table[5].name = "persistent" /\ table[5].fsS > 0
  BY <1>2 DEF Complete, FirstTwo, IsPart, Third, RecoveryAt, Fourth, Fifth
<1>4. DOMAIN table = 1..5
  BY <1>3 DEF TableInv
<1>5. \A i \in 1..5 : i = 1 \/ i = 2 \/ i = 3 \/ i = 4 \/ i = 5
  OBVIOUS
<1>6. Named("state") # {} /\ Named("persistent") # {}
  <2>1. 4 \in DOMAIN table /\ 5 \in DOMAIN table
    BY <1>4
  <2> QED BY <1>3, <2>1 DEF Named
<1>7. GetByName("state") = 4
  <2>1. GetByName("state") \in 1..5 /\ table[GetByName("state")].name = "state"
    BY <1>4, <1>6, ByName
  <2> DEFINE k == GetByName("state")
  <2> HIDE DEF k
  <2>2. k \in 1..5 /\ table[k].name = "state"
    BY <2>1 DEF k
  <2>3. k = 4
    BY <1>3, <1>5, <2>2
  <2> QED BY <2>3 DEF k
<1>8. GetByName("persistent") = 5
  <2>1. GetByName("persistent") \in 1..5 /\ table[GetByName("persistent")].name = "persistent"
    BY <1>4, <1>6, ByName
  <2> DEFINE k == GetByName("persistent")
  <2> HIDE DEF k
  <2>2. k \in 1..5 /\ table[k].name = "persistent"
    BY <2>1 DEF k
  <2>3. k = 5
    BY <1>3, <1>5, <2>2
  <2> QED BY <2>3 DEF k
<1>9. ResetPossible
  BY <1>3, <1>6, <1>7, <1>8 DEF ResetPossible
<1>10. /\ table' = [table EXCEPT ![4].data = "system"] /\ deployed' = TRUE /\ stage' = "off" /\ stages' = FALSE
  <2>1. ~(faults' = faults + 1)
    OBVIOUS
  <2> QED BY <1>2, <1>7, <1>9, <2>1, Zenon DEF Deploy, HookRemoves
<1>11. Complete' /\ FirstTwo'
  <2>1. 4 \in DOMAIN table
    BY <1>4
  <2> QED BY <1>1, <1>2, <1>10, <2>1, CompleteKept
<1> QED BY <1>1, <1>2, <1>10, <1>11 DEF StagesInv

\* A user writes to a partition of the layout.
LEMMA UserWriteStages ==
  ASSUME TableInv, StagesInv, UserWrite
  PROVE  StagesInv'
<1>1. stage = "running" /\ UNCHANGED <<total, spec, stage, deployed, stages, mode, entry>>
  BY DEF UserWrite, builder, buildVars
<1>2. deployed /\ Complete /\ ~stages /\ spec \in DiskSpecs /\ Room(spec) /\ total >= Wide(spec)
  BY <1>1 DEF StagesInv
<1> DEFINE k == GetByName("persistent")
<1>3. k \in DOMAIN table
  <2>1. Named("persistent") # {}
    BY DEF UserWrite, HasLabel
  <2> QED BY <2>1, ByName
<1>4. table' = [table EXCEPT ![k].data = "user"]
  BY DEF UserWrite
<1> HIDE DEF k
<1>5. Complete' /\ FirstTwo'
  BY <1>1, <1>2, <1>3, <1>4, CompleteKept
<1> QED BY <1>1, <1>2, <1>5 DEF StagesInv

\* A machine that runs has its layout, and keeps it.
LEMMA PowerOffStages ==
  ASSUME StagesInv, PowerOff
  PROVE  StagesInv'
<1>1. stage = "running" /\ stage' = "off" /\ UNCHANGED <<table, total, spec, deployed, stages, mode, entry>>
  BY DEF PowerOff, partVars, builder, buildVars
<1>2. (FirstTwo' <=> FirstTwo) /\ (Complete' <=> Complete)
  BY <1>1, FactsSame
<1>3. deployed
  BY <1>1 DEF StagesInv
<1> QED BY <1>1, <1>2, <1>3 DEF StagesInv

-----------------------------------------------------------------------------
(***************************************************************************)
(* Every step keeps LayoutInv                                              *)
(***************************************************************************)

\* Only Init and faults count: none of the steps takes one back.
LEMMA FaultsGrow ==
  ASSUME faults \in Nat, [Next]_vars
  PROVE  faults' \in Nat /\ (faults' = 0 => faults = 0)
<1>1. CASE UNCHANGED faults
  BY <1>1
<1>2. CASE faults' = faults + 1
  BY <1>2
<1>3. CASE BuildNext /\ UNCHANGED <<partVars, machine>>
  BY <1>1, <1>3 DEF partVars
<1>4. ASSUME NEW sectors \in DiskSizes, Flash(sectors) PROVE UNCHANGED faults
  BY <1>4 DEF Flash
<1>5. ASSUME NEW sectors \in DiskSizes, NEW efi \in BOOLEAN, NewPartitionTable(sectors, efi) PROVE UNCHANGED faults
  BY <1>5 DEF NewPartitionTable
<1>6. CASE CreatePartition
  BY <1>1, <1>6 DEF CreatePartition
<1>7. CASE Boot \/ Layout \/ PowerOff
  BY <1>1, <1>7 DEF Boot, Layout, PowerOff, partVars
<1>8. CASE PartitionerNext
  <2>1. faults' = faults + 1 \/ UNCHANGED faults
    BY <1>8 DEF PartitionerNext, Reload, Rm, Mkpart, FindPartitionDevice, MkfsCall, ExpandFilesystem, Fault
  <2> QED BY <1>1, <1>2, <2>1
<1>9. CASE Deploy
  <2>1. faults' = faults + 1 \/ UNCHANGED faults
    BY <1>9 DEF Deploy
  <2> QED BY <1>1, <1>2, <2>1
<1>10. CASE UserWrite
  BY <1>1, <1>10 DEF UserWrite
<1>11. CASE PowerCut
  BY <1>2, <1>11 DEF PowerCut
<1>12. CASE Stopped \/ UNCHANGED vars
  BY <1>1, <1>12 DEF Stopped, vars, partVars
<1> QED BY <1>1, <1>3, <1>4, <1>5, <1>6, <1>7, <1>8, <1>9, <1>10, <1>11, <1>12 DEF Next, MachineNext

\* The installer's steps.
LEMMA InstallMakes ==
  ASSUME MadeInv, stage = "install", faults = 0, faults' = 0,
         CreatePartition \/ (PartitionerNext /\ UNCHANGED machine)
  PROVE  MadeInv' /\ stage' # "failed"
<1> DEFINE P(m) == InstallParts(m = "efi")
<1>1. PICK parts : parts = P(mode)
  OBVIOUS
<1>2. Ordered(parts)
  BY <1>1, InstallPartsOrdered
<1>3. PICK k \in 0..Len(parts) : MadeTo(parts, k)
  BY <1>1 DEF MadeInv
<1>4. mode' = mode
  BY DEF CreatePartition, machine
<1>5. parts = P(mode')
  BY <1>1, <1>4
<1>6. (\E n \in 0..Len(parts) : MadeTo(parts, n)') /\ stage' # "failed"
  <2>1. CASE CreatePartition
    BY <1>2, <1>3, <2>1, CreateMakes
  <2>2. CASE PartitionerNext /\ UNCHANGED machine
    <3>1. stage' # "failed"
      BY <2>2 DEF machine
    <3> QED BY <1>2, <1>3, <2>2, <3>1, PartitionerMakes
  <2> QED BY <2>1, <2>2
<1> QED BY <1>5, <1>6 DEF MadeInv

\* A disk without partitions is where an installer begins.
LEMMA InstallBegins ==
  ASSUME NEW sectors \in DiskSizes, NEW efi \in BOOLEAN, NewPartitionTable(sectors, efi), table = <<>>, ppc = "idle"
  PROVE  MadeInv' /\ stage' = "install"
<1>1. PICK parts : parts = InstallParts(efi)
  OBVIOUS
<1>2. Ordered(parts)
  BY <1>1, InstallPartsOrdered
<1>3. sectors \in Nat
  BY FirstBootAssumption
<1>4. MadeTo(parts, 0)' /\ 0 \in 0..Len(parts) /\ stage' = "install" /\ (mode' = "efi" <=> efi)
  BY <1>1, <1>2, <1>3, NewTableMakes
<1>5. (mode' = "efi") = efi
  BY <1>4
<1>6. parts = InstallParts(mode' = "efi")
  BY <1>1, <1>5
<1> QED BY <1>4, <1>6 DEF MadeInv

\* A step that changes nothing of the machine and its disk.
LEMMA LayoutSame ==
  ASSUME LayoutInv, UNCHANGED <<partVars, machine>>, Flashed => UNCHANGED spec
  PROVE  LayoutInv'
<1>1. UNCHANGED <<table, total, gpt, ppc, req, faults, stage, mode, entry, stages, todo, deployed>>
  BY DEF partVars, machine
<1>2. ASSUME Flashed, StagesInv PROVE StagesInv'
  <2>1. UNCHANGED spec
    BY <1>2
  <2>2. /\ FirstTwo' <=> FirstTwo
        /\ RecoveryOnly' <=> RecoveryOnly
        /\ Third' <=> Third
        /\ Fourth' <=> Fourth
        /\ Fifth' <=> Fifth
        /\ Complete' <=> Complete
    BY <1>1, <2>1, FactsSame
  <2>3. ExpandStage' <=> ExpandStage
    BY <1>1, <2>1, <2>2 DEF ExpandStage
  <2>4. \A n : AddStage(n)' <=> AddStage(n)
    BY <1>1 DEF AddStage
  <2>5. (StateStage' <=> StateStage) /\ (PersistentStage' <=> PersistentStage)
    BY <1>1, <2>2, <2>4 DEF StateStage, PersistentStage
  <2> QED BY <1>1, <1>2, <2>1, <2>2, <2>3, <2>5 DEF StagesInv
<1>3. ASSUME MadeInv PROVE MadeInv'
  <2>1. ASSUME NEW parts, NEW k, MadeTo(parts, k) PROVE MadeTo(parts, k)'
    BY <1>1, <2>1 DEF MadeTo, MadeTable, MadePart
  <2>2. (mode' = "efi") = (mode = "efi")
    BY <1>1
  <2> QED BY <1>3, <2>1, <2>2 DEF MadeInv
<1>4. (Flashed' <=> Flashed) /\ (Flashed => spec' = spec)
  BY <1>1 DEF Flashed
<1> QED BY <1>1, <1>2, <1>3, <1>4 DEF LayoutInv

\* The invariant holds before there is a disk ...
LEMMA LayoutInvInit == Init => LayoutInv
  BY DEF Init, LayoutInv, Flashed

\* ... and every step keeps it.
LEMMA LayoutInvNext == BuildInv /\ DiskInv /\ LayoutInv /\ [Next]_vars => LayoutInv'
<1> SUFFICES ASSUME BuildInv, DiskInv, LayoutInv, [Next]_vars PROVE LayoutInv'
  OBVIOUS
<1>1. faults \in Nat /\ faults' \in Nat /\ (faults' = 0 => faults = 0)
  BY FaultsGrow DEF LayoutInv
<1>2. Flashed => TableInv /\ RequestInv
  BY DEF DiskInv
<1>3. faults = 0 => /\ stage # "failed"
                    /\ Flashed /\ spec.expandable => StagesInv
                    /\ stage \in {"install", "installed"} => MadeInv
  BY DEF LayoutInv
<1>4. stage = "none" => table = <<>> /\ ppc = "idle"
  BY DEF LayoutInv, DiskInv
<1>5. CASE BuildNext /\ stage = "none" /\ UNCHANGED <<partVars, machine>>
  BY <1>5, LayoutSame DEF Flashed
<1>6. ASSUME NEW sectors \in DiskSizes, Flash(sectors) PROVE LayoutInv'
  <2>1. stage' = "off" /\ UNCHANGED spec
    BY <1>6 DEF Flash
  <2>2. spec.expandable => StagesInv'
    BY <1>6, FlashStages
  <2> QED BY <1>1, <2>1, <2>2 DEF LayoutInv
<1>7. ASSUME NEW sectors \in DiskSizes, NEW efi \in BOOLEAN, NewPartitionTable(sectors, efi) PROVE LayoutInv'
  <2>1. stage = "none"
    BY <1>7 DEF NewPartitionTable
  <2>2. MadeInv' /\ stage' = "install"
    BY <1>4, <1>7, <2>1, InstallBegins
  <2> QED BY <1>1, <2>2 DEF LayoutInv, Flashed
<1>8. CASE CreatePartition
  <2>1. stage = "install" /\ stage' \in {"install", "installed", "failed"}
    BY <1>8 DEF CreatePartition
  <2>2. faults' = 0 => MadeInv' /\ stage' # "failed"
    BY <1>1, <1>3, <1>8, <2>1, InstallMakes
  <2> QED BY <1>1, <2>1, <2>2 DEF LayoutInv, Flashed
<1>9. ASSUME Flashed, Flashed', UNCHANGED spec, faults' = 0 /\ StagesInv => StagesInv' PROVE LayoutInv'
  BY <1>1, <1>3, <1>9 DEF LayoutInv, Flashed
<1>10. CASE Boot
  <2>1. Flashed /\ Flashed' /\ UNCHANGED spec
    <3>1. stage = "off" /\ stage' \in {"dead", "expand", "running"} /\ UNCHANGED spec
      BY <1>10 DEF Boot, builder, buildVars
    <3> QED BY <3>1 DEF Flashed
  <2> QED BY <1>2, <1>9, <1>10, <2>1, BootStages
<1>11. CASE Layout
  <2>1. Flashed /\ Flashed' /\ UNCHANGED spec /\ UNCHANGED faults
    <3>1. stage \in {"expand", "state", "persistent"} /\ UNCHANGED spec /\ UNCHANGED faults
      BY <1>11, NextStages DEF Layout, builder, buildVars
    <3>2. stage' \in {"expand", "state", "persistent", "deploy"}
      BY <1>11, <3>1, NextStages DEF Layout, AfterError
    <3> QED BY <3>1, <3>2 DEF Flashed
  <2> QED BY <1>2, <1>9, <1>11, <2>1, LayoutStages
<1>12. CASE PartitionerNext /\ UNCHANGED <<builder, machine>>
  <2>1. ppc # "idle" /\ UNCHANGED stage /\ UNCHANGED spec
    BY <1>12 DEF PartitionerNext, Reload, Rm, Mkpart, FindPartitionDevice, MkfsCall, ExpandFilesystem, machine, builder, buildVars
  <2>2. CASE Flashed
    <3>1. Flashed'
      BY <2>1, <2>2 DEF Flashed
    <3>2. UNCHANGED <<machine, spec>>
      BY <1>12, <2>1
    <3> QED BY <1>1, <1>2, <1>9, <1>12, <2>1, <2>2, <3>1, <3>2, PartitionerStages
  <2>3. CASE stage = "none"
    BY <1>4, <2>1, <2>3
  <2>4. CASE stage = "failed"
    BY <1>1, <1>3, <2>1, <2>4 DEF LayoutInv, Flashed
  <2>5. CASE stage = "installed"
    <3>1. faults # 0
      BY <1>3, <2>1, <2>5 DEF MadeInv, MadeTo
    <3> QED BY <1>1, <2>1, <2>5, <3>1 DEF LayoutInv, Flashed
  <2>6. CASE stage = "install"
    <3>1. faults' = 0 => MadeInv'
      BY <1>1, <1>3, <1>12, <2>6, InstallMakes
    <3> QED BY <1>1, <2>1, <2>6, <3>1 DEF LayoutInv, Flashed
  <2> QED BY <2>2, <2>3, <2>4, <2>5, <2>6 DEF Flashed
<1>13. CASE Deploy
  <2>1. Flashed /\ Flashed' /\ UNCHANGED spec
    BY <1>13 DEF Deploy, builder, buildVars, Flashed
  <2> QED BY <1>1, <1>2, <1>9, <1>13, <2>1, DeployStages
<1>14. CASE PowerOff
  <2>1. Flashed /\ Flashed' /\ UNCHANGED spec
    BY <1>14 DEF PowerOff, builder, buildVars, Flashed
  <2> QED BY <1>9, <1>14, <2>1, PowerOffStages
<1>15. CASE UserWrite
  <2>1. Flashed /\ Flashed' /\ UNCHANGED spec
    BY <1>15 DEF UserWrite, builder, buildVars, Flashed
  <2> QED BY <1>2, <1>9, <1>15, <2>1, UserWriteStages
<1>16. CASE PowerCut
  <2>1. faults' # 0 /\ stage' # "none"
    BY <1>1, <1>16 DEF PowerCut
  <2> QED BY <1>1, <2>1 DEF LayoutInv
<1>17. CASE Stopped \/ UNCHANGED vars
  <2>1. UNCHANGED <<partVars, machine>> /\ UNCHANGED spec
    BY <1>17 DEF Stopped, vars, buildVars
  <2> QED BY <2>1, LayoutSame
<1> QED BY <1>5, <1>6, <1>7, <1>8, <1>10, <1>11, <1>12, <1>13, <1>14, <1>15, <1>16, <1>17 DEF Next, MachineNext

\* The file of the stages comes with an expandable image, and a boot that runs its
\* stages has it.
StageFile ==
  Flashed => /\ stages => spec.expandable
             /\ stage \in {"expand", "state", "persistent", "deploy"} => stages

\* Only a reset removes the file, and no stage runs after it.
LEMMA StageFileNext == StageFile /\ [Next]_vars => StageFile'
<1> SUFFICES ASSUME StageFile, [Next]_vars PROVE StageFile'
  OBVIOUS
<1>1. ASSUME UNCHANGED <<stage, stages>>, Flashed => UNCHANGED spec PROVE StageFile'
  BY <1>1 DEF StageFile, Flashed
<1>2. CASE BuildNext /\ stage = "none" /\ UNCHANGED <<partVars, machine>>
  BY <1>2, <1>1 DEF machine, Flashed
<1>3. ASSUME NEW sectors \in DiskSizes, Flash(sectors) PROVE StageFile'
  <2>1. stage' = "off" /\ stages' = spec.expandable /\ UNCHANGED spec
    BY <1>3 DEF Flash
  <2> QED BY <2>1 DEF StageFile
<1>4. ASSUME NEW sectors \in DiskSizes, NEW efi \in BOOLEAN, NewPartitionTable(sectors, efi) PROVE StageFile'
  BY <1>4 DEF NewPartitionTable, StageFile, Flashed
<1>5. CASE CreatePartition
  BY <1>5 DEF CreatePartition, StageFile, Flashed
<1>6. CASE Boot
  <2>1. stage = "off" /\ UNCHANGED <<spec, stages>>
    BY <1>6 DEF Boot, builder, buildVars
  <2>2. stage' \in {"dead", "running"} \/ (stages /\ stage' = "expand")
    BY <1>6, Zenon DEF Boot
  <2> QED BY <2>1, <2>2 DEF StageFile, Flashed
<1>7. CASE Layout
  <2>1. stage \in {"expand", "state", "persistent"} /\ UNCHANGED <<spec, stages>>
    BY <1>7, NextStages DEF Layout, builder, buildVars
  <2> QED BY <2>1 DEF StageFile, Flashed
<1>8. CASE PartitionerNext /\ UNCHANGED <<builder, machine>>
  BY <1>1, <1>8 DEF machine, builder, buildVars
<1>9. CASE Deploy
  <2>1. stage = "deploy" /\ stage' \in {"off", "running"} /\ UNCHANGED spec
    BY <1>9 DEF Deploy, builder, buildVars
  <2>2. stages' => stages
    BY <1>9, Zenon DEF Deploy, HookRemoves
  <2> QED BY <2>1, <2>2 DEF StageFile, Flashed
<1>10. CASE PowerOff \/ UserWrite
  <2>1. stage = "running" /\ stage' \in {"off", "running"} /\ UNCHANGED <<spec, stages>>
    BY <1>10 DEF PowerOff, UserWrite, builder, buildVars
  <2> QED BY <2>1 DEF StageFile, Flashed
<1>11. CASE PowerCut
  <2>1. /\ stage \in {"expand", "state", "persistent", "deploy", "install"} /\ UNCHANGED <<spec, stages>>
        /\ stage' = IF stage = "install" THEN "failed" ELSE "off"
    BY <1>11, NextStages DEF PowerCut, builder, buildVars
  <2> QED BY <2>1 DEF StageFile, Flashed
<1>12. CASE Stopped \/ UNCHANGED vars
  BY <1>1, <1>12 DEF Stopped, vars, machine, buildVars
<1> QED BY <1>2, <1>3, <1>4, <1>5, <1>6, <1>7, <1>8, <1>9, <1>10, <1>11, <1>12 DEF Next, MachineNext

\* While no command has failed, no boot to recovery comes to the reset of a system
\* that is deployed.
THEOREM ResetRunsOnce == Spec => []ResetOnce
<1>1. LayoutInv /\ StageFile => ResetOnce
  <2> SUFFICES ASSUME LayoutInv, StageFile, stage = "deploy", deployed PROVE faults > 0
    BY DEF ResetOnce
  <2>1. Flashed /\ spec.expandable
    BY DEF StageFile, Flashed
  <2>2. faults # 0
    BY <2>1 DEF LayoutInv, StagesInv
  <2> QED BY <2>2 DEF LayoutInv
<1>2. Init => StageFile
  BY DEF Init, StageFile, Flashed
<1> QED
  BY <1>1, <1>2, BuildInvInit, BuildInvAll, DiskInvInit, DiskInvNext, LayoutInvInit, LayoutInvNext, StageFileNext, PTL DEF Spec

\* Without a fault the disk gets the layout of its configuration, by the stages of
\* the first boot or by the installer, whatever the sizes of the partitions, the
\* extra partitions and the disk are.
THEOREM DiskLayoutIsConfigured == Spec => []LayoutAsConfigured
<1>1. DiskInv /\ LayoutInv => LayoutAsConfigured
  <2> SUFFICES ASSUME DiskInv, LayoutInv, faults = 0
               PROVE  /\ (deployed /\ stage = "running" /\ spec.expandable) =>
                           /\ Len(table) = Len(AllParts)
                           /\ \A i \in DOMAIN table : Sized(i, AllParts[i].name, AllParts[i].size) /\ table[i].fsS > 0
                      /\ stage = "installed" =>
                           LET parts == InstallParts(mode = "efi")
                           IN /\ Len(table) = Len(parts)
                              /\ \A i \in DOMAIN table :
                                   /\ Sized(i, parts[i].name, parts[i].size)
                                   /\ table[i].num = i
                                   /\ (table[i].fsS > 0) <=> parts[i].fs
                      /\ stage # "failed"
    BY Zenon DEF LayoutAsConfigured
  <2>1. stage # "failed"
    BY DEF LayoutInv
  <2>2. ASSUME stage = "installed"
        PROVE  LET parts == InstallParts(mode = "efi")
               IN /\ Len(table) = Len(parts)
                  /\ \A i \in DOMAIN table :
                       /\ Sized(i, parts[i].name, parts[i].size)
                       /\ table[i].num = i
                       /\ (table[i].fsS > 0) <=> parts[i].fs
    <3>1. MadeInv
      BY <2>2 DEF LayoutInv
    <3> QED BY <2>2, <3>1, MadeLayout, Zenon
  <2>3. ASSUME deployed, stage = "running", spec.expandable
        PROVE  /\ Len(table) = Len(AllParts)
               /\ \A i \in DOMAIN table : Sized(i, AllParts[i].name, AllParts[i].size) /\ table[i].fsS > 0
    <3>1. TableInv /\ StagesInv
      BY <2>3 DEF DiskInv, LayoutInv, Flashed
    <3>2. Complete /\ spec \in DiskSpecs /\ Room(spec)
      BY <2>3, <3>1 DEF StagesInv
    <3>3. Len(table) = 5 /\ Len(AllParts) = 5 /\ DOMAIN table = 1..5
      BY <3>1, <3>2, AllPartsAre DEF Complete, TableInv
    <3>4. \A i \in 1..5 : AllParts[i].name = NameAt[i] /\ AllParts[i].size = PartSize[NameAt[i]]
      BY AllPartsAre
    <3>5. /\ NameAt[1] = "boot" /\ NameAt[2] = "oem" /\ NameAt[3] = "recovery" /\ NameAt[4] = "state" /\ NameAt[5] = "persistent"
      BY DEF NameAt
    <3>6. \A i \in 1..5 : table[i].name = NameAt[i] /\ table[i].fsS > 0
      BY <3>2, <3>5 DEF Complete, FirstTwo, IsPart, Third, RecoveryAt, Fourth, Fifth
    <3>7. \A i \in 1..5 : IF PartSize[NameAt[i]] = 0 THEN End(table[i]) = LastUsable(total)
                          ELSE table[i].size >= MiBToSectors(PartSize[NameAt[i]])
      <4>1. table[1].size >= SectorsOf("boot") /\ table[2].size >= SectorsOf("oem") /\ table[3].size >= SectorsOf("recovery")
        BY <3>2 DEF Complete, FirstTwo, IsPart, Third
      <4>2. table[4].size >= SectorsOf("state")
        BY <3>2, SectorFacts DEF Complete, Fourth
      <4>3. IF PartSize["persistent"] = 0 THEN End(table[5]) = LastUsable(total) ELSE table[5].size >= SectorsOf("persistent")
        BY <3>2 DEF Complete, Fifth
      <4>4. PartSize["boot"] # 0 /\ PartSize["oem"] # 0 /\ PartSize["recovery"] # 0 /\ PartSize["state"] # 0
        BY PartSizes
      <4>5. \A i \in 1..5 : i = 1 \/ i = 2 \/ i = 3 \/ i = 4 \/ i = 5
        OBVIOUS
      <4> QED BY <3>5, <4>1, <4>2, <4>3, <4>4, <4>5 DEF SectorsOf
    <3>8. \A i \in 1..5 : table[i].fsS <= table[i].size
      BY <3>1, <3>3 DEF TableInv
    <3> QED BY <3>3, <3>4, <3>6, <3>7, <3>8 DEF Sized
  <2> QED BY <2>1, <2>2, <2>3, Zenon
<1> QED
  BY <1>1, BuildInvInit, BuildInvAll, DiskInvInit, DiskInvNext, LayoutInvInit, LayoutInvNext, PTL DEF Spec
=============================================================================

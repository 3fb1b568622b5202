----------------------------- MODULE BuildDisk -----------------------------
(***************************************************************************)
(* `elemental build-disk` (pkg/action/build-disk.go): builds of disk       *)
(* images, one after the other, on one host.                               *)
(*                                                                         *)
(* A build fills a directory for each partition, makes an image file of    *)
(* each, puts them in one file behind each other and writes a partition    *)
(* table to it.  What a directory or an image holds is a set of the things *)
(* the steps put there.                                                    *)
(***************************************************************************)
EXTENDS Chroot, Partitioner

CONSTANTS
  DiskSpecs,      \* the specs to build
  PartSize,       \* configured size of each partition, in MiB
  TreeSize,       \* what is in the trees of recovery and persistent, in MiB
  ImgOverhead,    \* what an image of a tree has on top of it
  MinPartSize,
  MiBPerGB,
  MaxBuilds       \* bound: builds

VARIABLES
  spec,       \* the DiskSpec of the build
  bpc,        \* step of BuildDiskRun
  builds,
  berr,       \* its err
  roots,      \* BuildDiskAction.roots, with what is in them; for state, what is in its image
  images,     \* the partition images made so far
  snapshot,   \* is BuildDiskAction.snapshot set?
  source,     \* RecoverySystem.Source: "spec" or "tree"
  mounted,    \* is the state image mounted?
  links,      \* the links of createHookSymlinks on the host
  out,        \* the output file of each type
  hostLost    \* has the clean up deleted files of the host?

buildVars == <<chVars, spec, bpc, builds, berr, roots, images, snapshot, source, mounted, links, out, hostLost>>

PartNames == {"boot", "oem", "recovery", "state", "persistent"}

Types == {"raw", "azure", "gce"}

ASSUME BuildAssumption ==
  /\ DiskSpecs \subseteq [expandable : BOOLEAN, type : Types, size : Nat]
  /\ PartSize \in [PartNames -> Nat]
  /\ TreeSize \in [{"recovery", "persistent"} -> Nat \ {0}]
  /\ \A p \in PartNames \ {"persistent"} : PartSize[p] > 0
  /\ TreeSize["recovery"] <= PartSize["recovery"]
  /\ ImgOverhead \in Nat /\ ImgOverhead >= MinPartSize
  /\ MiBPerGB \in Nat \ {0}
  /\ MinPartSize \in Nat \ {0}

Configured(name) == [name |-> name, size |-> PartSize[name]]
AllParts    == <<Configured("boot"), Configured("oem"), Configured("recovery"), Configured("state"), Configured("persistent")>>

\* The partitions that are built: an expandable image leaves out the last two.
Built(s) == PartitionsByInstallOrder(IF s.expandable THEN SubSeq(AllParts, 1, 3) ELSE AllParts, <<>>)

\* MinDiskSize
MinDiskSize ==
  LET parts == PartitionsByInstallOrder(AllParts, <<>>)
  IN 2 + Total([i \in DOMAIN parts |-> IF parts[i].size = 0 THEN MinPartSize ELSE parts[i].size])

\* DiskSpec.Sanitize
Sanitized(s) == s.size # 0 /\ ~s.expandable => s.size > MinDiskSize

\* A disk image: the build it is of, its table, its partition images, its size.
NoFile == [build |-> 0, whole |-> FALSE, parts |-> <<>>, images |-> <<>>, sectors |-> 0]
PartOf(build) == [NoFile EXCEPT !.build = build]

BuildInit ==
  /\ ChrootInit
  /\ spec \in DiskSpecs
  /\ bpc = "idle"
  /\ builds = 0
  /\ berr = "nil"
  /\ roots = <<>>
  /\ images = <<>>
  /\ snapshot = FALSE
  /\ source = "spec"
  /\ mounted = FALSE
  /\ links = {}
  /\ out = [t \in Types |-> NoFile]
  /\ hostLost = FALSE

-----------------------------------------------------------------------------
(* The order of BuildDiskRun                                               *)

\* The steps that put something in a root: where and what.
Writes ==
  [ cloudinit   |-> <<"oem", "cloud-init">>,
    grubconfig  |-> <<"boot", "grub.cfg">>,
    firstentry  |-> <<"oem", "next_entry">>,
    grublabels  |-> <<"boot", "labels">>,
    efi         |-> <<"boot", "efi">>,
    rebrand     |-> <<"boot", "entry">>,
    recovery    |-> <<"recovery", "system">>,
    expandstage |-> <<"oem", "stages">> ]

\* All steps in their order; CreatePartitionImages makes the state image first,
\* for what the snapshotter has to say in the others, and later finds its place in
\* the list.
Steps ==
  << "mkdir", "hook", "roots", "cloudinit", "grubconfig", "firstentry", "grublabels", "efi",
     "rebrand", "chroot", "link1", "link2", "afterhook", "recovery", "expandstage",
     "stateimage", "transaction", "stateyaml", "unmount", "recoveryyaml", "efiimage",
     "oemimage", "recoveryimage", "stateadd", "persistentimage",
     "removeold", "assemble", "table", "posthook", "convert", "cleanup" >>

\* The steps that an expandable image leaves out, and those only it has.
Skipped(s) ==
  IF s.expandable
  THEN {"chroot", "stateimage", "transaction", "stateyaml", "unmount", "stateadd", "persistentimage"}
  ELSE {"firstentry", "expandstage"}

Position(step) == CHOOSE i \in DOMAIN Steps : Steps[i] = step

After(step) ==
  LET later == {i \in DOMAIN Steps : i > Position(step) /\ Steps[i] \notin Skipped(spec)}
  IN Steps[CHOOSE i \in later : \A j \in later : i <= j]

\* A step is done, or its error ends the build.
Done(step) == bpc = step /\ bpc' = After(step) /\ UNCHANGED berr
Fail(step) == bpc = step /\ bpc' = "cleanup" /\ berr' = "error"

host   == <<links, hostLost>>
work   == <<roots, images, snapshot, mounted>>
others == <<chVars, spec, builds>>

\* The command line: a sanitized spec and a run of the action, in a new process.
BuildDiskRun(s) ==
  /\ bpc = "idle"
  /\ builds < MaxBuilds
  /\ Sanitized(s)
  /\ spec' = s
  /\ bpc' = "mkdir"
  /\ builds' = builds + 1
  /\ berr' = "nil"
  /\ roots' = <<>>
  /\ images' = <<>>
  /\ snapshot' = FALSE
  /\ source' = "spec"
  /\ root' = "host" /\ cwd' = "start"
  /\ UNCHANGED <<chpc, activeMounts, failures, cherr, bound, busy, mounted, host, out>>

\* The working directory, the hooks and the copy of the recovery tree: they
\* may fail and leave nothing that is looked at later.
PlainStep(step) ==
  /\ step \in {"mkdir", "hook", "posthook"}
  /\ Done(step) \/ Fail(step)
  /\ UNCHANGED <<others, work, source, host, out>>

\* preparePartitionsRoot and the tree of the recovery system.
PreparePartitionsRoot ==
  /\ \/ Done("roots") /\ roots' = [p \in {Built(spec)[i].name : i \in DOMAIN Built(spec)} |-> {}]
     \/ Fail("roots") /\ UNCHANGED roots
  /\ UNCHANGED <<others, images, snapshot, mounted, source, host, out>>

Put(where, things) == roots' = [roots EXCEPT ![where] = @ \cup things]

\* Cloud config, boot loader and recovery system.  DeployRecoverySystem takes
\* its source from the tree of the build; the source of the spec is put back
\* when it is done.
Write(step) ==
  /\ step \in DOMAIN Writes
  /\ \/ Done(step) /\ Put(Writes[step][1], {Writes[step][2]}) /\ UNCHANGED source
     \/ Fail(step) /\ source' = (IF step = "recovery" THEN "tree" ELSE source) /\ UNCHANGED roots
  /\ UNCHANGED <<others, images, snapshot, mounted, host, out>>

\* buildDiskChrootHook: a call of ChrootedCallback with the recovery tree.
ChrootHook ==
  /\ bpc = "chroot"
  /\ ChrootedCallback
  /\ UNCHANGED <<spec, bpc, builds, berr, work, source, host, out>>

ChrootHookReturns ==
  /\ chpc = "returned"
  /\ chpc' = "idle"
  /\ IF cherr = "nil" THEN Done("chroot") ELSE Fail("chroot")
  /\ UNCHANGED <<activeMounts, failures, cherr, root, cwd, bound, busy, spec, builds, work, source, host, out>>

\* createHookSymlinks: a link that is there already is an error, and the first
\* stays when the second cannot be made.
CreateHookSymlink(step) ==
  /\ step \in {"link1", "link2"}
  /\ \/ Done(step) /\ step \notin links /\ links' = links \cup {step}
     \/ Fail(step) /\ UNCHANGED links
  /\ UNCHANGED <<others, work, source, hostLost, out>>

\* The hook and the deferred removal of the links, whose errors are dropped.
BuildAfterDiskHook ==
  /\ Done("afterhook") \/ Fail("afterhook")
  /\ links' \in SUBSET links
  /\ UNCHANGED <<others, work, source, hostLost, out>>

-----------------------------------------------------------------------------
(* CreateRAWDisk                                                           *)

\* ToImage and CreateFileSystemImage: a size of 0 is that of the tree and some
\* room, whatever MinDiskSize has counted for it.
ImageSize(name) ==
  IF PartSize[name] = 0 \/ (name = "recovery" /\ spec.expandable)
  THEN TreeSize[name] + ImgOverhead ELSE PartSize[name]

Image(name, holds) == [name |-> name, size |-> ImageSize(name), holds |-> holds]

\* createStatePartitionImage: the file system is made and mounted ...
CreateStateImage ==
  /\ \/ Done("stateimage") /\ mounted' = TRUE
     \/ Fail("stateimage") /\ UNCHANGED mounted
  /\ UNCHANGED <<others, roots, images, snapshot, source, host, out>>

\* An error from here on goes through the deferred unmount.
FailMounted(step) == bpc = step /\ bpc' = "unmount" /\ berr' = "error"

\* ... a snapshot is made in it, with variables for GRUB in the boot root ...
SnapshotTransaction ==
  /\ \/ /\ Done("transaction")
        /\ snapshot' = TRUE
        /\ roots' = [roots EXCEPT !["boot"] = @ \cup {"snapshots"}, !["state"] = @ \cup {"snapshot"}]
     \/ FailMounted("transaction") /\ snapshot' \in BOOLEAN /\ UNCHANGED roots
  /\ UNCHANGED <<others, images, mounted, source, host, out>>

\* createBuildDiskStateYaml: the snapshots, and the source of the recovery
\* system as the spec has it at that time.
Yaml == {"state.yaml"} \cup (IF snapshot THEN {"snapshot entry"} ELSE {})
                       \cup (IF source = "spec" THEN {"recovery source"} ELSE {})

StateYaml ==
  /\ \/ Done("stateyaml") /\ Put("state", Yaml)
     \/ FailMounted("stateyaml") /\ UNCHANGED roots
  /\ UNCHANGED <<others, images, snapshot, mounted, source, host, out>>

\* ... and it is unmounted, the error of which is dropped.
UnmountStateImage ==
  /\ bpc = "unmount"
  /\ bpc' = IF berr = "nil" THEN After("unmount") ELSE "cleanup"
  /\ mounted' \in {FALSE, mounted}
  /\ busy' = (busy \/ mounted')
  /\ UNCHANGED <<chpc, activeMounts, failures, cherr, root, cwd, bound, spec, builds, berr, roots, images, snapshot, source, host, out>>

RecoveryYaml ==
  /\ \/ Done("recoveryyaml") /\ Put("recovery", Yaml)
     \/ Fail("recoveryyaml") /\ UNCHANGED roots
  /\ UNCHANGED <<others, images, snapshot, mounted, source, host, out>>

\* createEFIPartitionImage and CreateImageFromTree, which removes the root.
ImageOf == [efiimage |-> "boot", oemimage |-> "oem", recoveryimage |-> "recovery", persistentimage |-> "persistent"]

CreatePartitionImage(step) ==
  /\ step \in DOMAIN ImageOf
  /\ LET name == ImageOf[step]
     IN \/ /\ Done(step)
           /\ images' = Append(images, Image(name, roots[name]))
           /\ roots' = IF name = "boot" THEN roots ELSE [roots EXCEPT ![name] = {}]
        \/ Fail(step) /\ UNCHANGED <<images, roots>>
  /\ UNCHANGED <<others, snapshot, mounted, source, host, out>>

\* While it is mounted the image file may lack what was written last.
AddStateImage ==
  /\ Done("stateadd")
  /\ \E holds \in {roots["state"]} \cup (IF mounted THEN {{"snapshot"}} ELSE {}) :
       images' = Append(images, Image("state", holds))
  /\ UNCHANGED <<others, roots, snapshot, mounted, source, host, out>>

RemoveOld ==
  /\ \/ Done("removeold") /\ out' = [out EXCEPT !["raw"] = NoFile]
     \/ Fail("removeold") /\ out["raw"] # NoFile /\ UNCHANGED out
  /\ UNCHANGED <<others, work, source, host>>

\* Faulty: no room for the backup of the partition table.
ExtraSize_none == IF spec.size > 0 THEN spec.size - MinDiskSize ELSE 0

\* eSize of CreateDiskImage
ExtraSize == IF spec.size > 0 THEN spec.size - MinDiskSize ELSE 1

RawSize == 1 + Total(Sizes(images)) + ExtraSize

\* CreateDiskImage: 1 MiB, the images, the extra space; on an error part of it.
\* The size of an expandable image is only checked here.
CreateDiskImage ==
  /\ \/ /\ spec.size > 0 => spec.size > MinDiskSize
        /\ Done("assemble")
        /\ out' = [out EXCEPT !["raw"] = [PartOf(builds) EXCEPT !.images = images, !.sectors = MiBToSectors(RawSize)]]
     \/ /\ Fail("assemble")
        /\ out' \in {out, [out EXCEPT !["raw"] = PartOf(builds)]}
  /\ UNCHANGED <<others, work, source, host>>

TableSize(p) == IF p.name = "recovery" /\ spec.expandable THEN 0 ELSE MiBToSectors(p.size)

\* The partitions sgdisk makes of CreateDiskPartitionTable; size 0 is the rest.
DiskPartitions ==
  LET parts    == Built(spec)
      sizes    == [i \in DOMAIN parts |-> TableSize(parts[i])]
      start(i) == AlignedStart + Totals(sizes)[i - 1]
      size(i)  == IF sizes[i] = 0 THEN LastUsable(out["raw"].sectors) - start(i) + 1 ELSE sizes[i]
  IN [i \in DOMAIN parts |-> [name |-> parts[i].name, start |-> start(i), size |-> size(i)]]

CreateDiskPartitionTable ==
  /\ \/ Done("table") /\ out' = [out EXCEPT !["raw"].parts = DiskPartitions, !["raw"].whole = TRUE]
     \/ Fail("table") /\ out' \in {out, [out EXCEPT !["raw"].parts = DiskPartitions]}
  /\ UNCHANGED <<others, work, source, host>>

\* Raw2Gce: the next multiple of 1 GB.
GceSectors(sectors) == MiBToSectors(((sectors \div SectorsPerMiB) \div MiBPerGB + 1) * MiBPerGB)

\* Raw2Azure: a multiple of 1 MiB, but for the footer of one sector.
AzureSectors(sectors) == ((sectors + SectorsPerMiB - 1) \div SectorsPerMiB) * SectorsPerMiB - 1

Converted(type, file) ==
  [file EXCEPT !.sectors = IF type = "gce" THEN GceSectors(@) ELSE AzureSectors(@)]

\* The raw image is removed once it is converted.
Convert ==
  /\ \/ spec.type = "raw" /\ Done("convert") /\ UNCHANGED out
     \/ /\ spec.type # "raw"
        /\ Done("convert")
        /\ out' = [out EXCEPT ![spec.type] = Converted(spec.type, out["raw"]), !["raw"] = NoFile]
     \/ /\ spec.type # "raw"
        /\ Fail("convert")
        /\ out' \in {out, [out EXCEPT ![spec.type] = PartOf(builds)]}
  /\ UNCHANGED <<others, work, source, host>>

\* Cleanup: RemoveAll of the working directory, where the recovery tree is and
\* the state image may be mounted.  A process that could not leave the tree does
\* not find it.
Cleanup ==
  /\ bpc = "cleanup"
  /\ bpc' = "idle"
  /\ berr' \in {berr, "error"}
  /\ hostLost' = (hostLost \/ (bound # <<>> /\ root = "host"))
  /\ UNCHANGED <<others, work, source, links, out>>

BuildNext ==
  \/ \E s \in DiskSpecs : BuildDiskRun(s)
  \/ \E step \in {"mkdir", "hook", "posthook"} : PlainStep(step)
  \/ PreparePartitionsRoot
  \/ \E step \in DOMAIN Writes : Write(step)
  \/ ChrootHook
  \/ ChrootNext /\ UNCHANGED <<spec, bpc, builds, berr, work, source, host, out>>
  \/ ChrootHookReturns
  \/ \E step \in {"link1", "link2"} : CreateHookSymlink(step)
  \/ BuildAfterDiskHook
  \/ CreateStateImage
  \/ SnapshotTransaction
  \/ StateYaml
  \/ UnmountStateImage
  \/ RecoveryYaml
  \/ \E step \in DOMAIN ImageOf : CreatePartitionImage(step)
  \/ AddStateImage
  \/ RemoveOld
  \/ CreateDiskImage
  \/ CreateDiskPartitionTable
  \/ Convert
  \/ Cleanup

-----------------------------------------------------------------------------
\* What the partitions of a disk must hold to boot: the boot partition knows
\* the snapshots, both copies of state.yaml say the same, and an expandable disk
\* boots to recovery and brings along the stages for it.
Expected(s, name) ==
  LET yaml == {"state.yaml", "recovery source"} \cup (IF s.expandable THEN {} ELSE {"snapshot entry"})
  IN CASE name = "boot"       -> {"grub.cfg", "labels", "efi", "entry"} \cup (IF s.expandable THEN {} ELSE {"snapshots"})
       [] name = "oem"        -> {"cloud-init"} \cup (IF s.expandable THEN {"next_entry", "stages"} ELSE {})
       [] name = "recovery"   -> {"system"} \cup yaml
       [] name = "state"      -> {"snapshot"} \cup yaml
       [] name = "persistent" -> {}

\* The file systems are where the partition table says, each inside its
\* partition, although the table is computed from the configuration and the file
\* put together from the images; no partition reaches over the end of the file,
\* whatever its conversion did to the size.
Assembled(file) ==
  /\ Len(file.parts) = Len(file.images)
  /\ \A i \in DOMAIN file.parts :
       /\ file.parts[i].name = file.images[i].name
       /\ file.parts[i].start = MiBToSectors(1 + Totals(Sizes(file.images))[i - 1])
       /\ MiBToSectors(file.images[i].size) <= file.parts[i].size
       /\ End(file.parts[i]) < file.sectors

\* A build has returned nil.  (When an umount has failed, the state image is read
\* while it is mounted, and nothing is said of the disk.)
BuildDone == bpc = "idle" /\ builds > 0 /\ berr = "nil" /\ ~busy

\* What the image of a partition without a size has on top of what MinDiskSize has
\* counted for it.
Uncounted == IF PartSize["persistent"] = 0 THEN ImageSize("persistent") - MinPartSize ELSE 0

\* A build that returns nil has made the disk of its spec: complete contents in
\* every partition, a table that fits, no file of an earlier build, and, when the
\* disk is not expandable, the size that was asked for but for the MiB at its end.
\* More than that are what Uncounted is, which MinDiskSize ("the minimum size
\* required for the disk") does not tell, and the rounding of the gce format.
ImageComplete ==
  BuildDone =>
    LET file == out[spec.type]
    IN /\ file.build = builds
       /\ file.whole
       /\ Assembled(file)
       /\ (spec.size > 0 /\ ~spec.expandable) =>
            /\ file.sectors + 1 >= MiBToSectors(spec.size - 1)
            /\ spec.type # "gce" => file.sectors <= MiBToSectors(spec.size - 1 + Uncounted)
       /\ \A i \in DOMAIN file.images : file.images[i].holds = Expected(spec, file.images[i].name)

\* The clean up deletes the working directory with all that is below it.  It
\* never comes to files of the host through the mounts of the chroot hook, as
\* long as no umount has failed for reasons of its own: a mount that could not
\* be made, a hook that fails and the order of the umounts are no such reasons.
HostKept == hostLost => busy
=============================================================================

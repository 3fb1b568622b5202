----------------------------- MODULE FirstBoot -----------------------------
(***************************************************************************)
(* From a disk image to a running machine.                                 *)
(*                                                                         *)
(* An image of `elemental build-disk` is written to a disk.  An expandable *)
(* one boots to its recovery system, where the stages SetExpandableCloud-  *)
(* InitStage has left in the OEM partition give the disk its layout and     *)
(* deploy the system with `elemental reset`; they run at every boot until a *)
(* successful reset removes them.  A disk may also get its partitions from *)
(* an installer (PartitionAndFormatDevice).                                *)
(***************************************************************************)
EXTENDS BuildDisk

CONSTANTS
  DiskSizes,      \* of the machines, in sectors
  ExtraParts      \* extra-partitions of the installer

ASSUME FirstBootAssumption ==
  /\ DiskSizes \subseteq Nat
  /\ ExtraParts \in Seq([name : STRING, size : Nat])

VARIABLES
  stage,      \* what the machine does
  mode,       \* of the boot
  entry,      \* next_entry of the GRUB environment
  stages,     \* is 00_disk_layout_setup.yaml in the OEM partition?
  todo,       \* partitions the installer has not made yet
  deployed,   \* has the last reset succeeded?
  wrote       \* has a user written to the persistent partition?

machine == <<stage, mode, entry, stages, todo, deployed, wrote>>
vars == <<buildVars, partVars, machine>>

Init ==
  /\ BuildInit
  /\ table = <<>>
  /\ total = 0
  /\ gpt = 0
  /\ ppc = "idle"
  /\ req = ExpandRequest(0)
  /\ faults = 0
  /\ torn = FALSE
  /\ stage = "none"
  /\ mode = "none"
  /\ entry = "none"
  /\ stages = FALSE
  /\ todo = <<>>
  /\ deployed = FALSE
  /\ wrote = FALSE

\* What a partition brings along from the image.
Data(name) == CASE name = "recovery" -> "recovery" [] name = "state" -> "system" [] OTHER -> "none"

\* What the partitions of an expandable disk are going to need: the sizes of the
\* configuration, and more where the recovery image is already larger.
LayoutRoom ==
  (IF spec.size > MinDiskSize THEN spec.size ELSE MinDiskSize)
    + (IF ImageSize("recovery") > PartSize["recovery"] THEN ImageSize("recovery") - PartSize["recovery"] ELSE 0)

\* The image is copied to a disk with room for all its partitions.  The host of
\* the builds is of no interest any more.
Flash(sectors) ==
  /\ stage = "none"
  /\ BuildDone
  /\ LET file == out[spec.type]
     IN /\ sectors >= file.sectors
        /\ spec.expandable => sectors >= MiBToSectors(LayoutRoom)
        /\ total' = sectors
        /\ gpt' = file.sectors
        /\ table' = [i \in DOMAIN file.parts |->
                      Part(i, file.parts[i].name, file.parts[i].start, file.parts[i].size,
                           MiBToSectors(file.images[i].size), Data(file.parts[i].name))]
  /\ stage' = "off"
  /\ entry' = IF spec.expandable THEN "recovery" ELSE "none"
  /\ stages' = spec.expandable
  /\ deployed' = ~spec.expandable
  /\ bpc' = "left" /\ builds' = 0 /\ links' = {} /\ hostLost' = FALSE /\ images' = <<>> /\ roots' = <<>>
  /\ out' = [t \in Types |-> NoFile] /\ failures' = <<>> /\ cherr' = "nil"
  /\ UNCHANGED <<chpc, activeMounts, root, cwd, bound, busy, spec, berr, snapshot, source, mounted,
                 ppc, req, faults, torn, mode, todo, wrote>>

builder == <<buildVars>>

-----------------------------------------------------------------------------
(* PartitionAndFormatDevice                                                *)

Wanted(p, fs) == [name |-> p.name, size |-> p.size, fs |-> fs]

\* SetFirmwarePartitions of InstallSpec.Sanitize: a BIOS partition has no file
\* system, and there is either that or a boot partition.
Firmware(efi) ==
  IF efi THEN <<Wanted(AllParts[1], TRUE)>> ELSE <<[name |-> "bios", size |-> 1, fs |-> FALSE]>>

InstallParts(efi) ==
  PartitionsByInstallOrder(Firmware(efi) \o [i \in 1..4 |-> Wanted(AllParts[i + 1], TRUE)],
                           [i \in DOMAIN ExtraParts |-> Wanted(ExtraParts[i], TRUE)])

\* InstallSpec.Sanitize: at most one partition of size 0.
InstallSanitized ==
  Cardinality({i \in DOMAIN ExtraParts : ExtraParts[i].size = 0})
    + (IF PartSize["persistent"] = 0 THEN 1 ELSE 0) <= 1

\* What the installer needs: the partitions and 1 MiB at each end.
InstallRoom(efi) ==
  LET parts == InstallParts(efi)
  IN 2 + Total([i \in DOMAIN parts |-> IF parts[i].size = 0 THEN 1 ELSE parts[i].size])

NewPartitionTable(sectors, efi) ==
  /\ stage = "none" /\ builds = 0
  /\ InstallSanitized
  /\ sectors >= MiBToSectors(InstallRoom(efi))
  /\ total' = sectors
  /\ gpt' = sectors
  /\ todo' = InstallParts(efi)
  /\ stage' = "install"
  /\ mode' = IF efi THEN "efi" ELSE "bios"
  /\ UNCHANGED <<builder, table, ppc, req, faults, torn, entry, stages, deployed, wrote>>

\* createPartitions
CreatePartition ==
  /\ stage = "install"
  /\ \/ /\ todo # <<>>
        /\ Request(AddRequest(Head(todo).name, Head(todo).size, Head(todo).fs))
        /\ UNCHANGED <<stage, todo>>
     \/ Idle("ok") /\ todo' = Tail(todo) /\ UNCHANGED <<stage, req>>
     \/ Idle("error") /\ stage' = "failed" /\ UNCHANGED <<todo, req>>
     \/ todo = <<>> /\ ppc = "idle" /\ stage' = "installed" /\ UNCHANGED <<todo, ppc, req>>
  /\ UNCHANGED <<builder, table, total, gpt, faults, torn, mode, entry, stages, deployed, wrote>>

-----------------------------------------------------------------------------
(* Boots of a machine                                                      *)

Bootable(name, data) == \E i \in Named(name) : table[i].data = data

\* GRUB: next_entry once, then the active system; recovery is the fallback, and an
\* entry of the menu at every boot.
Boot ==
  /\ stage = "off"
  /\ \E choice \in {"active", "recovery"} :
       /\ choice = "active" => entry # "recovery" /\ Bootable("state", "system")
       /\ mode' = choice
       /\ stage' = IF choice = "recovery" /\ ~Bootable("recovery", "recovery") THEN "dead"
                   ELSE IF stages THEN "expand" ELSE "running"
  /\ entry' = "none"
  /\ UNCHANGED <<builder, partVars, stages, todo, deployed, wrote>>

\* layoutPlugin, one stage: the expansion, or a partition whose label is not
\* there yet.  Its error is logged, the next stage runs all the same.
NextStage == [expand |-> "state", state |-> "persistent", persistent |-> "deploy"]

\* Faulty: the error of a stage ends the boot's work.
AfterError_stops == "running"

AfterError == NextStage[stage]

Layout ==
  /\ stage \in DOMAIN NextStage
  /\ \/ /\ ppc = "idle"
        /\ \/ /\ HasLabel("recovery")
              /\ \/ stage = "expand" /\ Request(ExpandRequest(PartSize["recovery"]))
                 \/ stage # "expand" /\ ~HasLabel(stage) /\ Request(AddRequest(stage, PartSize[stage], TRUE))
              /\ UNCHANGED stage
           \/ /\ ~HasLabel("recovery") \/ (stage # "expand" /\ HasLabel(stage))
              /\ stage' = NextStage[stage]
              /\ UNCHANGED <<ppc, req>>
     \/ Idle("ok") /\ stage' = NextStage[stage] /\ UNCHANGED req
     \/ Idle("error") /\ stage' = AfterError /\ UNCHANGED req
  /\ UNCHANGED <<builder, table, total, gpt, faults, torn, mode, entry, stages, todo, deployed, wrote>>

\* Reset finds the partitions by name.  It formats the state partition with the
\* file system it has, and mounts a persistent partition that is there.
ResetPossible ==
  /\ Named("state") # {} /\ table[GetByName("state")].fsS > 0
  /\ Named("persistent") # {} => table[GetByName("persistent")].fsS > 0

\* Faulty: the hook that removes the stages is not there.
HookRemoves_none == stages' = stages

\* The hook of the reset, on the OEM partition.
HookRemoves == stages' = FALSE

\* `elemental reset --reboot`, at every boot to recovery that has the stages.  Its
\* hook removes them, which may fail.  A reset that fails has formatted the state
\* partition and deletes the snapshot it has made, also when it fails after its hook.
Deploy ==
  /\ stage = "deploy"
  /\ \/ /\ mode = "recovery" /\ ResetPossible
        /\ table' = [table EXCEPT ![GetByName("state")].data = "system"]
        /\ deployed' = TRUE
        /\ stage' = "off"
        /\ \/ HookRemoves /\ UNCHANGED faults
           \/ faults < MaxFaults /\ faults' = faults + 1 /\ UNCHANGED stages
     \/ /\ mode = "recovery" /\ ResetPossible /\ faults < MaxFaults
        /\ faults' = faults + 1
        /\ table' = [table EXCEPT ![GetByName("state")].data = "none"]
        /\ stage' = "running"
        /\ deployed' = FALSE
        /\ stages' \in {stages, FALSE}
     \/ /\ ~(mode = "recovery" /\ ResetPossible)
        /\ stage' = "running"
        /\ UNCHANGED <<table, faults, deployed, stages>>
  /\ UNCHANGED <<builder, total, gpt, ppc, req, torn, mode, entry, todo, wrote>>

UserWrite ==
  /\ stage = "running" /\ mode = "active"
  /\ HasLabel("persistent")
  /\ table' = [table EXCEPT ![GetByName("persistent")].data = "user"]
  /\ wrote' = TRUE
  /\ UNCHANGED <<builder, total, gpt, ppc, req, faults, torn, stage, mode, entry, stages, todo, deployed>>

\* The machine is turned off; one that came up in recovery by somebody who
\* tries again.
PowerOff ==
  /\ stage = "running"
  /\ stage' = "off"
  /\ UNCHANGED <<builder, partVars, mode, entry, stages, todo, deployed, wrote>>

PowerCut ==
  /\ stage \in DOMAIN NextStage \cup {"deploy", "install"}
  /\ faults < MaxFaults
  /\ faults' = faults + 1
  /\ torn' = (torn \/ CutTears)
  /\ ppc' = "idle"
  /\ stage' = IF stage = "install" THEN "failed" ELSE "off"
  /\ UNCHANGED <<builder, table, total, gpt, req, mode, entry, stages, todo, deployed, wrote>>

Stopped ==
  /\ stage \in {"dead", "failed", "installed"} \/ (stage = "none" /\ bpc = "idle" /\ builds = MaxBuilds)
  /\ UNCHANGED vars

MachineNext ==
  \/ Boot
  \/ Layout
  \/ PartitionerNext /\ UNCHANGED <<builder, machine>>
  \/ Deploy
  \/ PowerOff

Next ==
  \/ stage = "none" /\ BuildNext /\ UNCHANGED <<partVars, machine>>
  \/ \E sectors \in DiskSizes : Flash(sectors)
  \/ \E sectors \in DiskSizes, efi \in BOOLEAN : NewPartitionTable(sectors, efi)
  \/ CreatePartition
  \/ MachineNext
  \/ UserWrite
  \/ PowerCut
  \/ Stopped

\* A machine that is on does the next step of its boot, one that is off is
\* turned on.
Spec == Init /\ [][Next]_vars /\ WF_vars(MachineNext)

-----------------------------------------------------------------------------
Sized(i, name, size) ==
  /\ table[i].name = name
  /\ IF size = 0 THEN End(table[i]) = LastUsable(total) ELSE table[i].size >= MiBToSectors(size)
  /\ table[i].fsS <= table[i].size

\* Without a fault the disk gets the layout of its configuration, by the stages
\* of the first boot or by the installer: all partitions, in order, formatted, of
\* at least their sizes, the one of size 0 up to the end of the disk.  The sizes
\* are checked against numbers that are not quite those of the disk: the sectors
\* parted counts, a table that was made for a smaller disk, images without their
\* last sector.
LayoutAsConfigured ==
  faults = 0 =>
    /\ (deployed /\ stage = "running" /\ spec.expandable) =>
         /\ Len(table) = Len(AllParts)
         /\ \A i \in DOMAIN table : Sized(i, AllParts[i].name, AllParts[i].size) /\ table[i].fsS > 0
    /\ stage = "installed" =>
         LET parts == InstallParts(mode = "efi")
         IN /\ Len(table) = Len(parts)
            /\ \A i \in DOMAIN table :
                 /\ Sized(i, parts[i].name, parts[i].size)
                 /\ table[i].num = i
                 /\ (table[i].fsS > 0) <=> parts[i].fs
    /\ stage # "failed"

\* However often the stages run again, after resets that failed, power cuts and
\* boots of a deployed system that still has them, to whichever entry: the recovery
\* system, what users have written and the system of a reset that has succeeded
\* stay on the disk, the latter until a reset runs again and fails.  (Unless a
\* fault hits between the rm and the mkpart of parted, or the new end of a partition
\* is one that only parted's count of sectors allows: see torn.)
DataKept ==
  (stage \notin {"none", "install", "installed", "failed"} /\ ~torn /\ ~(ppc = "mkpart" /\ req.op = "expand")) =>
    /\ Bootable("recovery", "recovery")
    /\ deployed => Bootable("state", "system")
    /\ wrote => Bootable("persistent", "user")

\* The disk is reset once: while no command has failed, no boot to recovery, by a
\* user or as the fallback, comes to the reset of a system that is deployed.
ResetOnce == (stage = "deploy" /\ mode = "recovery" /\ deployed) => faults > 0

\* An expandable image that was written to a disk becomes a deployed system,
\* whichever commands fail and whenever the power goes: what is missing is made at
\* the next boot.  The exceptions are a reset that fails when its hook has already
\* removed the stages, and those in torn: a fault that leaves a partition half made,
\* and a state partition that could not be added, for the next stage still adds the
\* persistent one in its place.
FirstBootDeploys == (stage = "off") ~> (deployed \/ torn \/ ~stages)
=============================================================================

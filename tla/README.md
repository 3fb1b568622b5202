# TLA+ models of the Elemental toolkit

`elemental` installs, upgrades, resets and boots an immutable Linux system. It is
run as root on one machine; its state is what it leaves on the disk, and the hard
part of it is what happens when a command fails half way, when the power goes, or
when the next run finds what an interrupted one has left. These modules model that
part of the code: every operation that changes the disk is a step, every step may
fail, and the machine may stop between any two.

## 1. Inventory

| component | state | operations | how it interacts |
|---|---|---|---|
| loop device snapshotter (`pkg/snapshotter/loopdevice.go`) | `.snapshots/<id>/snapshot.img`, link `.snapshots/active`, legacy `/cOS/*.img`, GRUB variables | Init, Start, Close, CloseOnError, Delete, list | called by install, upgrade, reset; read by GRUB |
| Btrfs snapshotter (`btrfs.go`, `btrfs-backend.go`, `snapper-backend.go`) | subvolumes, default subvolume, mounts | the same interface | the same callers |
| upgrade (`pkg/action/upgrade.go`) | mounts, clean up stack, `state.yaml` twice | Run | snapshotter, recovery upgrade, hooks, GRUB |
| recovery upgrade (`upgrade-recovery.go`) | `/boot`, old boot and transition directory of the recovery partition, `state.yaml` | Run | on its own, or nested in upgrade |
| install, reset (`install.go`, `reset.go`) | partitions, recovery system, `state.yaml` | Run | partitioner, snapshotter, GRUB |
| clean up stack (`pkg/utils/cleanstack.go`) | a stack of jobs | Push, PushErrorOnly, Cleanup | used by every action |
| boot menu and assessment (`features/embedded/grub-config`, `boot-assessment`) | GRUB environment, kernel command line | choose entry, health check, ask for an assessment | shared by GRUB, a service and the upgrade hook |
| mount (`pkg/action/mount.go`) | mounts of `/sysroot`, backing directories of ephemeral and persistent paths, `/etc/fstab`, relabel flags and list | RunMount | run by a service of the initrd at every boot; systemd reads fstab and the list |
| chroot (`pkg/utils/chroot.go`) | root and working directory of the process, bind mounts | Prepare, RunCallback, Close | called by hooks of every action, here by the disk builder |
| partitioner (`pkg/partitioner`) | the partition table and file systems of a disk | add, expand, format | called by install, and by the layout stages of cloud-init |
| disk builder (`pkg/action/build-disk.go`) | partition roots and images, output file, links on the host | BuildDiskRun | chroot, snapshotter, GRUB; leaves stages for the first boot in the OEM partition |
| cloud-init layout (`pkg/cloudinit/layout_plugin.go`) | the disk of a machine | one stage each: expand, add state, add persistent | runs what the disk builder has left, then `elemental reset` |
| GRUB and EFI installation, ISO builder, snapper backend, configuration, features | see `PROJECT.json` | | |

What is hard about them:

- *Failure in the middle.* An action is a list of system calls. Go's `defer` and the
  clean up stack undo what was done, in an order that must fit.
- *Crash and rerun.* Links, directories, subvolumes, two copies of `state.yaml` and
  several GRUB variables are written one after the other, none of it atomically.
- *Cached identities.* The snapshotters remember which snapshot was active when the
  transaction began, and use it after the active snapshot has changed.
- *Shared GRUB environment.* GRUB, the assessment service and an upgrade write to it.
- *Boot after boot.* What `elemental mount` copies, flags and lists in one boot, and
  the stages an expandable image runs until they succeed, is found by the next boot,
  after power cuts and upgrades.
- *Numbers that are nearly right.* Sectors counted by parted, the table of a smaller
  disk, image sizes of a conversion.
- *Bounds.* `max-snaps` is not checked, directory names are sorted as text.

There are no threads in the program that share state. `PROJECT.json` lists the
hazards line by line, with the properties that cover them.

What makes each component correct: a snapshotter never makes an incomplete snapshot
the one that boots and never touches the one that is running (`SnapshotStore`); an
action that reports success has left a complete system, a matching boot menu and two
equal state files; one that fails has not harmed the running system; the recovery
partition always has a complete system; a failed active system is followed by a
healthy passive one; after `elemental mount` every path is what the configuration
says and users find their files; a chrooted call puts back all it changed; a built
image is complete, and a disk it is written to ends up with a deployed system.

## 2. Modules

| module | models |
|---|---|
| `SnapshotStore` | abstract: complete snapshots, the active and the running one |
| `SnapshotNames` | the order of directory names made of digits, and a listing in that order |
| `LoopDevice` | `loopdevice.go`, one action per file system step |
| `LoopDeviceProofs` | theorems about `LoopDevice` |
| `Btrfs`, `BtrfsProofs` | `btrfs.go` over `btrfs-backend.go`, and theorems about it |
| `Action` | what install, upgrade and reset share: calls to the snapshotter (an `INSTANCE` of `LoopDevice`), clean up stack, state files, power action |
| `Upgrade` | `upgrade.go` on top of `Action` |
| `Install` | `install.go` and `reset.go` on top of `Action` |
| `ActionProofs`, `UpgradeProofs`, `InstallProofs` | lemmas about the snapshotter under an action, and theorems about both |
| `UpgradeRecovery` | `upgrade-recovery.go` |
| `BootAssessment` | `grub.cfg`, the GRUB snippet, the service and the upgrade hook |
| `BootProofs` | theorems about `UpgradeRecovery` and `BootAssessment` |
| `Mount`, `MCMount`, `MountProofs` | `mount.go` and the boots it is part of, and theorems about it |
| `Chroot` | `chroot.go`, one action per mount and deferred function |
| `Partitioner` | `pkg/partitioner`: what parted, sgdisk and mkfs are asked to do |
| `BuildDisk` | `build-disk.go` on top of `Chroot`, with the arithmetic of `Partitioner` |
| `FirstBoot`, `MCFirstBoot` | a built image on a disk, its layout stages, or an installer's partitions |
| `FirstBootProofs` | theorems about `Chroot`, `Partitioner` and `BuildDisk` as parts of `FirstBoot`, and about its boots |
| `*Claims` | statements of comments and documents that the code does not keep |

### LoopDevice

`snaps[i]` is what is in `.snapshots/<i>`: `dir`, `work` (the work tree), `raw` (an
image that is being written), `img` (a complete one). `activeLink` is the link's
target; 0 is possible, because `CloseTransaction` restores a link from an
`activeSnapshotID` that may be 0. `pc` is the next step; the states in `Calls` are
those between two calls of the interface. `logged` remembers failures the code only
logs, so that a property can say "unless the boot variables could not be written".
`Reboot` takes the machine down at any step and comes up from any entry of the menu
that can boot. Functions ending in `_something` preceded by *Faulty* are mutations,
used to check that the properties can fail.

### Btrfs

The same protocol over subvolumes. `subvols[i]` is `none`, `copy` (a fresh copy of
the base), `torn` or `whole`; `default` is the default subvolume. `mounts` counts
mounts of the snapshots subvolume inside the active snapshot, needed when the system
does not run from the state partition; `bind` is the bind mount of the work tree.

### Action, Upgrade, Install

`upc` is the next step of `Run`, `pc` that of the snapshotter it calls. `jobs` is the
clean up stack: a set of partitions to unmount, or `Abort`, the error only job. `held`
are the partitions mounted. A failing step sets `err` and goes to `cleanup`. With
`--reboot` the command returns and the machine goes down later; since it may stop at
any time anyway (`Reboot`), the flag itself is not part of the state. A state
file is the IDs it lists, those marked active and whether it has a recovery entry; a
torn file loads as nothing, as a state whose map is nil, or as an incomplete one.

`Install` adds the recovery system that install deploys and the device preparation;
install and reset may follow each other in any order. An install may start on any system,
a live medium or the one it is about to replace; only with no-format does the code ask
whether it runs from a deployment, and for force. `formatted` remembers that the state
partition was formatted since the boot, which takes a running system away.

### UpgradeRecovery

Contents of three directories (`boot`, `oldBoot`, `transition`): a version, `Absent`
or `Torn`. `Upgrade` keeps this action as one step and this module has the detail.

### BootAssessment

`env` is the GRUB environment; `machine` and `service` say where the boot is. Each
snapshot is good, sick (boots and fails its check), crashes while booting, or cannot
be loaded. An upgrade runs its hook first and then commits; the passives it leaves are
listed in any order, as names are sorted as text, or as before if the variables could not
be written. The snippet's loop over `passive_snaps` is the recursive function in
`NextDefault`; it is entered while an assessment is asked for, once
(`boot_assessment_check`) or for every boot (`boot_assessment_always_check`), which is
`Asked`. `cut` remembers the systems whose attempt was ended by a power loss or a user,
`stale` that an upgrade has changed the list while an attempt was remembered.

### Mount

`mounts` is the mount table in the order it was made; the mount a path is seen through
is the last one over it. A path is a sequence of components and a component a
sequence of words, so that the name of a backing directory (slashes become dashes) is
modelled by what it does. Ephemeral paths, persistent paths and volumes may be inside
each other in any way; `ConfigAssumption` only keeps the paths out of `/run`. In every
persistent path there are three files: one that the image ships, one of a user, and the
flag of `getRelabelPaths`; each has data and a label. `persist[s][p]` is what the backing
directory of `s` has at `p`: with paths inside each other it has files of those below too,
which a bind mount copies along and users write to while the mount of the inner path has
failed (`stray`). `StoresAssumption` says where this picture of the files is right: paths
have backing directories of their own, no path hides the directories, and no persistent
path is on a volume of its own. No proof and no statement about mounts depends on it.
`pc` follows
`RunMount`; `failed`, `disabled` and `up` are systems that run. A failing rsync has
copied any subset of the files. `PowerOff` may happen at any step and may be followed
by another image (`version`). systemd's relabelling (`SwitchRoot`) is external.

### Chroot, Partitioner, BuildDisk, FirstBoot

Each of the first two is a called component: `chpc` (`ppc`) is `idle`, the next step,
or the result, and the caller goes on when it sees the result. `bound` is what is
mounted below the tree, also by earlier calls; `activeMounts` is the list of the code.
`busy` remembers that an umount has failed although nothing the code did was in its way.

`Partitioner` keeps the partition table (numbers, starts, sizes, size of the file
system), the sectors of the disk and those the table was made for. Each external
command is a step: a reload with `sgdisk -e`, `rm`, `mkpart`, the second reload with
the search for the device, `mkfs` or the growth of the file system. `faults` counts
commands that fail for no reason and power cuts; `torn` marks those after which the
disk is not mended by running the stages again, which the code has no answer to.

`BuildDisk` has the order of `BuildDiskRun` as the sequence `Steps`; `Skipped(spec)` are
the steps the code leaves out for an expandable disk or for one that is not; `roots` and
`images` hold the set of things the steps have put in a partition. An image of a partition
without a size has that of its tree and `ImgOverhead` (256 MiB in the code), while
`MinDiskSize` counts `MinPartSize` (64 MiB) for it. Several builds follow each other on one host, which keeps
the links, mounts and output files of earlier ones.

`FirstBoot` writes the image to a disk (`Flash`), or lets the installer partition one
(`NewPartitionTable`). `Boot` takes `next_entry` once, and after that any entry of the
menu that boots: recovery is one of them also when a system is deployed. `Layout` is a
stage of `layoutPlugin`, whose error is only logged; `Deploy` is the final stage, a reset
at every boot to recovery while the file of the stages is there. Its hook removes the file
(`HookRemoves`), and may fail to; the reset may fail before and after the hook, and leaves
no system then. `deployed` says that the last reset has succeeded.

## 3. Runs

Passing runs:

| run | instance | shows |
|---|---|---|
| `loopdevice` | IDs up to 11 from active 8, `max-snaps` 2 | repeated transactions, crashes, failures: the active image is complete, the old active system stays bootable, retention, boot menu, the running snapshot is untouched, every call returns, and the refinement of `SnapshotStore` |
| `loopdevice_legacy` | 3 IDs, a disk with `/cOS` images | migration never deletes the legacy image in use |
| `btrfs` | IDs 1-3 and 8-11, first disk empty or with 8 active | the same for Btrfs, with mounts and aborts |
| `upgrade` | 3 IDs, with and without `--recovery` | mounts, state files, stack order, running snapshot |
| `install` | 2 IDs, both actions | success leaves a fresh system, whatever was there; only formatting takes the running system away |
| `upgrade_recovery` | two versions | `/boot` never torn, a run never loses every recovery system, every run returns |
| `boot_assessment` | 3 snapshots, two interferences, with and without `boot_assessment_always_check` | rollback finds a healthy system and skips none; requests are kept |
| `mount` | persistent `/etc/ssh` and `/etc/ssh/keys` inside ephemeral `/etc`, ephemeral `/etc/ssh/tmp` inside the former, a volume above both backing directories, two images, five specs | paths are served by the mounts of the configuration, users' files survive, fstab is what is mounted, what is read is labelled |
| `first_boot` | two builds of five specs, disks of four sizes, three faults | a chrooted call puts everything back, images are complete, fit their table and have the size requested but for what is stated, the host's files are kept, the layout is that of the configuration, data survives repeated stages and boots to any entry, a deployed system is not reset again without a fault, and the first boot deploys |

Bounds. IDs run across 9 to 10, where the order of names and of numbers part. With
`max-snaps` 2 there is one passive to keep and one to evict, and an interrupted
transaction adds a directory that must be counted. `MaxID` stops new transactions,
not those under way, so a run has three (`loopdevice`, from 8 to 11) or two
(`upgrade`) transactions after the first system: enough for crash, rerun and
eviction of what the crash left. `install` needs two IDs: with formatting the first
is always 1, and 2 is the one no-format adds. Two versions tell an upgraded recovery
system from the old one. `MaxBreaks` bounds power losses and users; two interrupt the
attempts at two systems of a round. In `mount` each kind of path is inside one of the
other kind, a persistent one inside another and both backing directories inside a volume,
which are the relations the order of mounts can get wrong; two versions of the image
tell an upgrade from a reboot, two writes (`MaxWrites`) what is older from what is newer;
boots are unbounded. In `first_boot` a MiB has 4 sectors
and the backup table takes 2, so that "not a multiple of a MiB" and "inside the backup
table" happen; an image without a size comes out larger than `MinDiskSize` counts, as the
default one does; the disks are one of exactly the size needed (40), one that is short of
the size recovery is expanded to (44), one with an odd number of sectors (49) and one
with room (60); two builds are the least that can find what a build has left, and
three faults (`MaxFaults`) allow a fault in two stages and one in the boot that repairs
them. All runs check for deadlock; `Stopped` is the end of a disk that does not boot, an
installer that is done and a host that builds no more.

Runs that end in a violation, each refuting one statement of the repository
(`findings` quotes it):

| run | the code does |
|---|---|
| `claim_closed_is_active` | run from recovery or a passive system with `max-snaps` 1 or leftovers, clean up deletes the former active snapshot and with it the new link |
| `claim_failed_upgrade` | a failure after `CloseTransaction` deletes the snapshot that is already active |
| `claim_new_active_assessed` | the service that still checks the old system drops the request of a new upgrade |

Fairness. `WF(SnapshotterStep)` in `LoopDevice`, `WF(RecoveryStep)` in `UpgradeRecovery`,
`WF(MachineStep)` in `BootAssessment`: a process that was started goes on, because it
waits for nothing but the system calls it makes (each of which returns or fails), and
a machine that is on goes on booting. `WF(MachineNext)` in `FirstBoot`: a machine does
the next step of its boot, and one that is off, or came up in recovery without a
deployed system, is turned on again by somebody. Faults are bounded there, as the stages
can do nothing about a command that always fails. Nothing is assumed of upgrades or
power.

## 4. Proofs

TLAPS checks 36 theorems that matter to a reader and the lemmas they rest on. They hold
for every value of the constants the modules' assumptions admit, while a run is one
instance. Every safety property and every action property of a passing run is the
subject of one of them, under the hypothesis on legacy images where one is named below.

`LoopDeviceProofs`, for every `MaxID`, `MaxSnaps`, `FirstID`:

- `AllTypesCorrect`: `TypeOK`. It needs `HasID`, that in the middle of a transaction
  there is a snapshot to work on, and what a list for the boot menu is made of.
- `ActiveNeverDangles`: `ActiveIsComplete`. Not inductive on its own. `IInv` adds that
  the running snapshot is complete, that the transaction's own snapshot is not the
  one running and not the active one until the link is moved, that it has an image
  when the link is moved (`Filling`, `Switching`, `Committed` name the phases), what
  the old active snapshot is while the link is away, and that what clean up has still
  to visit does not contain the new snapshot.
- `RunningSnapshotKept`: the action property `BootedKept`, from `OneDirectory`: a step
  changes at most one directory, neither the running nor the active one.
- `StoreImplemented`: the refinement of `SnapshotStore`, from `StoreStep`. It and the
  two theorems above hold for disks without legacy images; with them they cannot, see
  `legacyClean` in section 6.
- `RetentionIsBounded`, `BootMenuIsDisk`, `OldActiveStaysPassive`: what a closed
  transaction leaves, on any disk. `CloseInv` says, from the commit on, that the link is
  the new snapshot's or is away, that what is neither in use nor still to be visited is
  within the bound (`Retained`), and which variables of the menu have been written and
  with what (`MenuWritten`). `DoomedRest` is the counting argument: of a finite set the
  ones with at least `MaxSnaps` above them leave no more than that.
- `LegacyImageKept`: `LegacyBootedKept`, on a disk with a legacy deployment.

`BtrfsProofs`, for every set of IDs (an infinite one too), `MaxSnaps` and first disk:

- `DefaultStaysWhole`, `RunningSnapshotKept` and `StoreImplemented`. `IInv` adds to the
  types that a running system can boot (`RunningBootable`), that the backend knows the
  snapshot in use while there is one to work on (`Probed`, so that clean up and abort
  spare it), that a transaction's own subvolume is neither the running nor the default
  one before that (`OwnSnapshot`), and that it is whole when it becomes the default
  (`WholeAtCommit`). With it, both snapshotters are shown to implement one abstract store.
- `NothingIsLeft`: `ProcInv` relates what the object and its backend know to each other
  and to the disk; `LeftInv` counts: one mount at most until an umount has failed.
- `RetentionIsBounded`: the oldest snapshots are visited first and what is left to visit
  is a lower part of the list (`Rest`), so the loop ends within the bound or at the
  oldest snapshot of all, which is the one in use (`InUseFirst`).
- `BootMenuIsDisk`, `OldActiveStaysPassive`: before the first commit there is no snapshot
  but number 1 (`FirstOnly`), which is why the query that finds nothing is right.

Both of these modules develop the order of the names: that `Digits` is the function its
recursion describes (by approximations up to a bound, and a least counterexample), that
`NameBefore` is a strict total order, that it is the order of the numbers among those of
one length, and that `LatestFirst` lists every element of a finite set once.

`ActionProofs`: `LDInv`, the part of the snapshotter's invariant that holds under an
action too. It is weaker than the one above because an action may give up a transaction
that it has already closed.

`UpgradeProofs`: `SnapshotterIsOnMounted`, `SuccessIsRecorded`, `CompletedIsNotUndone`,
and, for disks without a legacy deployment, `RunningIsKept`. The invariant is about the
clean up stack: at each step of `Run` it is a prefix of `Pushed` (the undo of each mount
in order, the abort job on top), `Depth` long, every mount still held has its job
(`Undone`), the snapshotter is at work only during a call and at a step of that call
(`Call`), and the state files list no snapshot that is gone (`Yaml`).

`InstallProofs`: `SuccessfulRunIsFresh` and, for disks without legacy images,
`RunningSystemIsKept`. The first rests on `New` and `First`: after the state partition was
formatted the snapshotter's transaction is the only one and its number is 1, up to the
closed link and the empty menu. The second needs that the snapshot of the transaction is
not the running one as long as nothing was formatted (`Apart`), also when the abort job
runs for a transaction that is closed.

`MountProofs`, for every configuration, with paths and volumes inside each other in any
way: `PathsAreServed`, `FstabHasTheMounts`, `UserFilesAreKept`, `FilesAreLabelled`.
`MountInv` says of every path that is done, and not inside one of a kind that is mounted
later, that its mount is in the table and no later one is over it (`SeenThrough`); for
persistent paths it adds that those still to come are no shorter than those that are done
(`PersistentIn`), which is what sorting by depth gives. `FileInv` and `LabelInv` say what is
in the backing directories between boots: what users have written last is in that of the
path itself (`Kept`), and those of paths above have copies of the image only, unless the
path was written to through one of them (`StrayIn`).

`BootProofs`, for every set of versions: `BootIsWhole`, `RecoverySurvivesRun` and
`SuccessfulRunBoots`, from one `RecoveryInv` that says, per step, which of the three
directories is complete. And for every number of snapshots, of interferences and every
health of them:

- `PassiveNeverDropsRequest`: `PassiveKeepsRequest`. `AssessmentInv` adds that a request
  GRUB has passed to the kernel is in the environment until the active system is up
  (`RequestLasts`), and that the service runs on a machine that is up only.
- `HealthyIsNotSkipped`: `HealthyNotSkipped`. `AttemptInv` says that the
  remembered attempt is under way, was cut short or is at a system that fails (`UnderWay`,
  `Remembered`), that so were those before it (`NoneSkipped`), and that with strict hooks an
  upgrade has made GRUB forget them before it changes the list (`HookForgets`). It needs that every passive is
  listed once (`ListedOnce`), and what the loop of the snippet computes for a list of any
  length: the first passive after the active system (`AfterActive`), and after the last
  attempt the one that follows it, or the last once more (`AfterPassive`).

`FirstBootProofs`, for every set of specs, sizes, disks, extra partitions and number of
builds and faults. Each of the six needs more than it says:

- `ChrootPutsBack` and `HostNeverDeleted`: unless `busy`, the list the code
  keeps is what is mounted below the tree, in order, from the first mount to the end of
  Close, and nothing is mounted outside of that (`ListIsMounts`); a call is only under way
  during the hook (`InHook`); and Close has reported what it could not unmount
  (`CloseReported`). It needs that Close takes mounts from the end, since `/dev/pts` is
  inside `/dev`.
- `BuiltImageComplete`: `ImageComplete`. `BuildInv` says of every step of a build what
  the steps behind it (`Passed`) have left in the roots, the images and the file
  (`Progress`). The images then fit the table because the sum that sizes the file and
  the sums that place the partitions are the same (`FileAssembled`). That the file is not
  smaller than requested needs `ImgOverhead >= MinPartSize`, which is so in the code; how
  much larger it is (`Uncounted`) needs the sum of the images once more (`RequestedSize`).
- `DataStaysOnDisk`: `DataKept`, over any number of boots. `DiskInv` says that numbers are
  places in the table and file systems are inside their partitions (`TableInv`), that a
  request under way is about to format nothing that holds data and to bring back a
  partition no smaller than its file system (`RequestInv`), and what is on the disk or just
  about to come back to it (`KeptInv`). Nothing is assumed of the entry a boot takes.
- `ResetRunsOnce`: `ResetOnce`. Without a fault a system is deployed by a reset whose hook
  has removed the stages (`StageFile`, with `LayoutInv`), so that no later boot has one.
- `DiskLayoutIsConfigured`: `LayoutAsConfigured`, for a disk an image was written to and
  for an installer's. `LayoutInv` says, without a fault, how far the layout is: for the
  stages, which partitions are there, where each one begins and that the disk has room
  for those to come (`StagesInv`, `Wide`); for the installer, that the table has the first
  k partitions of its list, each at the sum of the sizes before it (`MadeTo`). The list is
  that of `PartitionsByInstallOrder`, of which it is proved that only its last entry may
  have no size (`OrderOf`).

The loops over lists are recursive functions in the model (`Totals`,
`PartitionsByInstallOrder`, `NextDefault`). What they compute is proved without induction
over data: the function is shown to satisfy its recursion, and a wrong value to have a
least place where it is wrong (`LeastNat`). The proof of `DiskLayoutIsConfigured` asked for
one assumption that the instance satisfied silently, now in `FirstBootAssumption`: extra
partitions have a name and a size that is a natural number.

Assumptions are those the modules declare, named `...Assumption`; `MaxSnaps` may be any
integer.

Only model checked: the four liveness properties (`CallsReturn`, `RunReturns`,
`RoundFindsHealthy`, `FirstBootDeploys`). They rest on fairness, and so on ENABLED, which
is out of the prover's reach.

## 5. Not modelled, and why

- Real time: `StartLimitBurst` of the assessment service, timeouts of hooks.
- Contents of file trees beyond the few files a property tells apart; formats of
  configuration, and how flags, environment and files are merged.
- Two `elemental` processes at once: the code has no lock, and says nothing of what
  should happen (`cmd/upgrade.go:53`).
- The snapper backend: most of what it does is in an external tool.
- The ISO builder: one pass over a temporary directory, of which nothing is read again.
  Its `Run` drops the error of the clean up, as `err` is not a named result.
- EFI variables, `init` and the features it installs, the copying of GRUB and EFI files:
  I/O without state of their own.
- Cloud-init stages other than the disk layout; they run commands of a user's file.
- In `FirstBoot`, the `reset` that deploys is one step that succeeds or fails: `Install`
  has its detail.

## 6. Observed while modelling

Not stated as runs; where a document or a comment says otherwise it is quoted:

- After a partial write of the GRUB variables the fallback list may be shorter than
  the menu (`grub.go:374`).
- With one snapshot on the disk there is a window, between removal of the link and
  its replacement, in which only recovery boots (`loopdevice.go:259`).
- A snapshot ID is used again after a failed upgrade while `state.yaml` may still
  have its entry (`upgrade.go:188`); a snapshot of a run that stopped before writing
  `state.yaml` is never recorded.
- With legacy images around (`legacyClean`) an abort removes every snapshot,
  the running one included (`loopdevice.go:210`), while the comment above it speaks of
  the transaction's own (`loopdevice.go:192`).
- A failed rename that the salvage makes good is reported as a successful upgrade of the
  recovery system (`upgrade-recovery.go:203`).
- An install without formatting deploys the recovery system in place; an interrupted one
  leaves no recovery system (`install.go:270`).
- An install with formatting asks for no force: run on a deployed system it formats the
  partition that system runs from (`install.go:306-324`; only no-format looks for an active
  deployment).
- The recovery entry of `state.yaml` keeps fields of the previous system
  (`upgrade-recovery.go:131`).
- `upgrade --recovery --reboot` may reboot in the nested action before `state.yaml`
  is written (`upgrade.go:334`).
- When the active and all passive systems fail, the assessment never comes to recovery by
  itself: the loop ends at the oldest passive, which is booted over and over
  (`08_boot_assessment.yaml:36-46`). The documents say "if there are failures will boot into
  the passive, and finally if keeps failing, will boot into recovery"
  (`docs/content/en/docs/Customizing/configure_grub.md:187`) and "a Fallback mechanism that
  boots the partitions in this sequence: "A -> B -> Recovery" in case of booting failures"
  (`docs/content/en/docs/Reference/layout.md:27`). That is so only for systems GRUB cannot
  load. `RoundFindsHealthy` says nothing of a machine without a healthy listed system.
- Btrfs: an abort never deletes the first snapshot of a partition; subvolumes of
  interrupted transactions are listed in the menu and, run from recovery, push
  complete passives out; an umount error after the commit is returned as a failure
  of the transaction; a failure between Init and Start in recovery leaves
  `.snapshots` mounted.
- Mount: the flag of `getRelabelPaths` is written before the paths are relabelled, so a
  boot that ends in between is never made good (`mount.go`, variable `cut`); in bind mode
  `SyncData` copies the image's files over those a user has changed, and after an upgrade
  the copies have no label and a flag that says they do; fstab has a tmpfs for an
  ephemeral block device.
- Mount, paths inside each other: an ephemeral path or a volume inside a persistent path
  is hidden by it. When the mount of a persistent path inside another has failed, users
  write to the directory of the outer one; from then on that copy is what a bind mount is
  filled from, over what is in the inner path's own directory, and with an overlay it is
  hidden; it is not relabelled either. A path above the mount point of the persistent
  volume would hide the backing directories (outside `StoresAssumption`).
- Disk builder: a link of `createHookSymlinks` that is left over makes each later build
  fail; an error of the state image's umount is dropped and the image read while it is
  mounted; Azure conversion cuts the last sector, where the backup table is, and the size
  it leaves is one sector short of the multiple of a MiB its comment promises; a disk whose
  partitions all have a size comes out 1 MiB smaller than requested, as `MinDiskSize`
  counts the MiB at the end of the disk and the extra space does not. With a partition of
  size 0, which is the default, it comes out larger: the image has 256 MiB on top of its tree
  where `MinDiskSize`, "the minimum size (MB) required for the disk" (`types/config.go:810`),
  counts 64, so the file has 191 MiB and the tree more than requested (`build-disk.go:544`;
  `ImageComplete` has the exact size).
- First boot: when the state partition cannot be added the next stage gives its room to
  the persistent partition, and the disk never deploys; a partition that is made but not
  formatted has no label, is added once more and on a disk without room for that the
  machine never deploys either; when the expansion of recovery fails, the next boot
  expands the last partition there is then; a persistent partition that could not be
  added is not added after the deployment. While the file of the stages is left, because
  its removal failed, every boot to recovery resets the system, and a reset that fails
  takes the deployed one away (`build-disk.go:858-865`); one that fails after its hook has
  removed the file leaves a disk that does not deploy any more (`build-disk.go:866-874`).
- Partitioner: parted's number of sectors is taken for the last one, and the backup table
  is not subtracted. An expansion that ends in it passes the check, `rm` is done, `mkpart`
  refuses, and the partition is gone (`disk.go`, `ExpandLastPartition`).

## 7. State of the plan

1. Done: `LoopDevice`, `SnapshotStore`, `UpgradeRecovery`, `Action`, `Upgrade`,
   `Install`, `BootAssessment`, `Btrfs`, `Mount`, `Chroot`, `Partitioner`, `BuildDisk`,
   `FirstBoot`; every safety property of them is proved.
2. Left to TLC: liveness.
3. Left to model: the snapper backend as an alternative of `Btrfs`, the order of GRUB and
   EFI files, the merging of configurations.

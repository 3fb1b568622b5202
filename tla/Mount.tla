------------------------------- MODULE Mount -------------------------------
(***************************************************************************)
(* `elemental mount` (pkg/action/mount.go), run by elemental-rootfs.service *)
(* in the initrd, over any number of boots of one machine.                 *)
(*                                                                         *)
(* It mounts the volumes, the ephemeral and the persistent paths of the    *)
(* new root, writes /etc/fstab for it and the list of paths systemd has to *)
(* relabel.  A path is the sequence of its components and a component the  *)
(* sequence of the words its dashes separate: /var/lib-x is                *)
(* <<<<"var">>, <<"lib", "x">>>>.  The sysroot is left out of every path.   *)
(***************************************************************************)
EXTENDS Integers, Sequences, FiniteSets, SequencesExt

CONSTANTS
  Volumes,          \* mount points of extra-volumes
  PersistentDir,    \* mount point of the persistent volume
  EphemeralPaths,
  PersistentPaths,
  Specs,            \* the configurations considered
  MaxVersion,       \* bound: versions of the installed image
  MaxWrites         \* bound: files users write

Run        == <<"run">>
OverlayDir == <<Run, <<"elemental">>, <<"overlay">>>>
StateRoot  == <<Run, <<"initramfs">>>>              \* RunningStateDir
StateDir   == Append(PersistentDir, <<"", "state">>) \* PersistentStateDir

\* ReplaceAll(path, "/", "-"): the name of the directory that backs a path.
PathName(p) == FlattenSeq(p)

Covers(p, q) == IsPrefix(p, q)

Configured == EphemeralPaths \cup PersistentPaths

\* What the code takes for granted of a configuration: it has no path in /run,
\* which the new root gets from the initrd, and no two volumes for one directory.
\* Paths and volumes may be inside each other.
ASSUME ConfigAssumption ==
  /\ \A p \in Configured \cup Volumes \cup {PersistentDir} : p \in Seq(Seq(STRING))
  /\ \A p \in Configured : ~Covers(<<Run>>, p)
  /\ PersistentDir \notin Volumes
  /\ MaxVersion \in Nat \ {0} /\ MaxWrites \in Nat

\* What this module takes for granted where it follows files: no two paths share
\* a backing directory, no path hides those directories, and no persistent path is
\* on a volume of its own.  The mounts (PathsServed, FstabIsMounts) do not depend
\* on it.
ASSUME StoresAssumption ==
  /\ \A p, q \in Configured : PathName(p) = PathName(q) => p = q
  /\ \A p \in Configured : ~Covers(p, PersistentDir) /\ ~Covers(p, OverlayDir)
  /\ ~Covers(OverlayDir, PersistentDir)
  /\ \A v \in Volumes \cup {PersistentDir}, p \in PersistentPaths : ~Covers(v, p)

\* ReadMountSpec: what Sanitize and the decoding of flags and environment let
\* through.
MountSpec == [pmode : {"bind", "overlay"}, etype : {"tmpfs", "block"},
              writeFstab : BOOLEAN, selinux : BOOLEAN]

ASSUME SpecsAssumption == Specs \subseteq MountSpec

VARIABLES
  conf,      \* persistent mode, ephemeral type, write-fstab, selinux-relabel
  mode,      \* elemental.mode of the kernel command line
  pc,
  todo,      \* what the loop at hand has not mounted yet
  failed,    \* the errors MountVolumes has collected: are there any?
  mounts,    \* the mount table, in order
  fstabData, \* lines put together so far
  fstab,     \* /etc/fstab of the new root
  relabel,   \* the paths in SELinuxRelabelFile
  version,   \* of the installed image
  persist,   \* contents of the persistent backing directories
  ephem,     \* contents of the ephemeral backing directories
  wrote,     \* what users have written last to the backing directory of a path
  writes,    \* number of the last of them
  stray,     \* paths written to through the backing directory of one above
  cut        \* has a boot ended between the flags and the relabelling?

disk == <<conf, version, persist, ephem, wrote, writes, stray, cut>>
vars == <<disk, mode, pc, todo, failed, mounts, fstabData, fstab, relabel>>

-----------------------------------------------------------------------------
(* Files.  In each persistent path the image ships one file and users keep *)
(* one of their own; the third is the flag of getRelabelPaths.  The backing *)
(* directory of a path has files of the paths below it too: persist[s][p]   *)
(* is what is at p in that of s.                                           *)

Files == {"shipped", "own", "flag"}

File(data, label) == [data |-> data, label |-> label]
NoFile   == File(0, FALSE)
UserData(n) == MaxVersion + n

\* The image ships its version and is labelled when it is installed.
Image(f) == IF f = "shipped" THEN File(version, TRUE) ELSE NoFile

Empty == [p \in PersistentPaths |-> [f \in Files |-> NoFile]]

-----------------------------------------------------------------------------
(* The mounts of the spec, as they are made and as fstab has them          *)

\* A volume is named by where it goes; only its mount point matters here.
VolumeMount(v)      == [at |-> v, fs |-> "auto", src |-> <<<<"dev">>>> \o v]
OverlayPath(dir, p) == [at |-> p, fs |-> "overlay", src |-> Append(dir, PathName(p))]
BindPath(dir, p)    == [at |-> p, fs |-> "none", src |-> Append(dir, PathName(p))]
EphemeralStore      == [at |-> OverlayDir, fs |-> conf.etype, src |-> <<<<conf.etype>>>>]

HasPersistent == mode # "recovery"

PersistentMount(p) == IF conf.pmode = "bind" THEN BindPath(StateDir, p) ELSE OverlayPath(StateDir, p)

\* The mount a path is seen through is the last one over it.
Over(p) == {i \in DOMAIN mounts : Covers(mounts[i].at, p)}
Served(p) == mounts[Max(Over(p))]

FromPersistent(m) == \E p \in PersistentPaths : m = PersistentMount(p)
FromEphemeral(m)  == \E p \in EphemeralPaths : m = OverlayPath(OverlayDir, p)

\* What a mount has of its own at a path; that of the root is the image's.
Content(m, p, f) ==
  IF FromPersistent(m) THEN persist[m.at][p][f]
  ELSE IF FromEphemeral(m) THEN ephem[p][f]
  ELSE Image(f)

\* An overlay shows what is below it where it has nothing of its own.
Showing(p, f) == {i \in Over(p) : mounts[i].fs # "overlay" \/ Content(mounts[i], p, f) # NoFile}
Read(p, f) == Content(mounts[Max(Showing(p, f))], p, f)

\* What the initrd has mounted: the root and the state partition.
InitialMounts == <<[at |-> <<>>, fs |-> "root", src |-> <<<<"root">>>>],
                   [at |-> StateRoot, fs |-> "state", src |-> <<<<"state">>>>]>>

\* elemental.mode of the kernel command line is the boot's, the rest of the spec
\* (defaults, configuration files, environment) is the machine's.
Modes == {"active", "recovery"}     \* a passive system is mounted as an active one

Init ==
  /\ conf \in Specs
  /\ version = 1
  /\ persist = [s \in PersistentPaths |-> Empty]
  /\ ephem = Empty
  /\ wrote = [p \in PersistentPaths |-> [f \in Files |-> 0]]
  /\ writes = 0
  /\ stray = {}
  /\ cut = FALSE
  /\ mode = "active"
  /\ pc = "off"
  /\ todo = {}
  /\ failed = FALSE
  /\ mounts = InitialMounts
  /\ fstabData = {}
  /\ fstab = {}
  /\ relabel = {}

\* The command: a spec that cannot be read leaves the system as it is, with
\* elemental.disable nothing is mounted at all.
Outcomes == {"initial", "failed", "disabled"}

\* Power on, and the spec of this boot.
Boot(m) ==
  /\ pc = "off"
  /\ mode' = m
  /\ pc' \in Outcomes
  /\ UNCHANGED <<disk, todo, failed, mounts, fstabData, fstab, relabel>>

Go(at, next) == pc = at /\ pc' = next
Stop(at)     == pc = at /\ pc' = "failed"

\* The error of the step at hand ends the run.  The service is only wanted by
\* initrd-fs.target: the system comes up without the rest of the mounts.
Unfinished == UNCHANGED <<disk, mode, todo, failed, mounts, fstabData, fstab, relabel>>

VolumesTodo == Volumes \cup (IF HasPersistent THEN {PersistentDir} ELSE {})

InitialFstabData ==
  \/ /\ Go("initial", "volumes")
     /\ fstabData' = IF conf.writeFstab THEN ToSet(mounts) ELSE {}
     /\ todo' = VolumesTodo
     /\ UNCHANGED <<disk, mode, failed, mounts, fstab, relabel>>
  \/ conf.writeFstab /\ Stop("initial") /\ Unfinished

\* MountVolumes: in the order of their mount points, so a parent goes before
\* its children; errors are collected.
MountVolume(v) ==
  /\ pc = "volumes"
  /\ v \in todo
  /\ ~ \E u \in todo \ {v} : Covers(u, v)
  /\ todo' = todo \ {v}
  /\ \/ mounts' = Append(mounts, VolumeMount(v)) /\ UNCHANGED failed
     \/ failed' = TRUE /\ UNCHANGED mounts
  /\ UNCHANGED <<disk, mode, pc, fstabData, fstab, relabel>>

VolumesMounted ==
  /\ pc = "volumes"
  /\ todo = {}
  /\ pc' = IF failed THEN "failed" ELSE "ephemeral"
  /\ Unfinished

\* MountEphemeral: the file system behind the paths, then the paths.
MountEphemeral ==
  \/ /\ Go("ephemeral", "paths")
     /\ mounts' = Append(mounts, EphemeralStore)
     /\ todo' = EphemeralPaths
     /\ UNCHANGED <<disk, mode, failed, fstabData, fstab, relabel>>
  \/ Stop("ephemeral") /\ Unfinished

\* Faulty: the paths in the order of the configuration.
NextPath_unsorted(p) == p \in todo

\* MountSpec.Sanitize: the paths with fewer separators first.
NextPath(p) == p \in todo /\ \A q \in todo : Len(p) <= Len(q)

MountEphemeralPath(p) ==
  \/ /\ pc = "paths"
     /\ NextPath(p)
     /\ mounts' = Append(mounts, OverlayPath(OverlayDir, p))
     /\ todo' = todo \ {p}
     /\ UNCHANGED <<disk, mode, pc, failed, fstabData, fstab, relabel>>
  \/ NextPath(p) /\ Stop("paths") /\ Unfinished

EphemeralMounted ==
  /\ Go("paths", "persistent")
  /\ todo = {}
  /\ todo' = IF HasPersistent THEN PersistentPaths ELSE {}
  /\ UNCHANGED <<disk, mode, failed, mounts, fstabData, fstab, relabel>>

\* Faulty: MirrorData, which deletes what the image does not have.
SyncData_mirror(old, base) ==
  [f \in Files |-> IF base[f].data = old[f].data THEN old[f] ELSE File(base[f].data, FALSE)]

\* SyncData: rsync without --delete or --update; a file that is different is
\* written anew and its SELinux label left out.
SyncData(old, base) ==
  [f \in Files |-> IF base[f] = NoFile \/ base[f].data = old[f].data THEN old[f]
                   ELSE File(base[f].data, FALSE)]

\* MountOverlayPath and MountBindPath.  The latter first copies what the path
\* holds, with the paths below it; an rsync that fails has copied any part of it.
MountPersistentPath(p) ==
  /\ NextPath(p)
  /\ pc = "persistent"
  /\ LET base(q) == [f \in Files |-> Read(q, f)]
         synced  == [q \in PersistentPaths |->
                       IF conf.pmode = "bind" /\ Covers(p, q) THEN SyncData(persist[p][q], base(q)) ELSE persist[p][q]]
     IN \/ /\ mounts' = Append(mounts, PersistentMount(p))
           /\ persist' = [persist EXCEPT ![p] = synced]
           /\ todo' = todo \ {p}
           /\ UNCHANGED pc
        \/ /\ \E done \in SUBSET (PersistentPaths \X Files) :
                persist' = [persist EXCEPT ![p] =
                              [q \in PersistentPaths |-> [f \in Files |->
                                 IF <<q, f>> \in done THEN synced[q][f] ELSE @[q][f]]]]
           /\ pc' = "failed"
           /\ UNCHANGED <<mounts, todo>>
  /\ UNCHANGED <<conf, version, ephem, wrote, writes, stray, cut, mode, failed, fstabData, fstab, relabel>>

PersistentMounted == Go("persistent", "fstab") /\ todo = {} /\ Unfinished

\* Faulty: the persistent lines also in recovery mode.
FstabLines_always ==
  {VolumeMount(v) : v \in Volumes \cup {PersistentDir}} \cup {PersistentMount(p) : p \in PersistentPaths}
    \cup {[at |-> OverlayDir, fs |-> "tmpfs", src |-> <<<<"tmpfs">>>>]}
    \cup {OverlayPath(OverlayDir, p) : p \in EphemeralPaths}

\* The lines of the spec.  The ephemeral file system is always a tmpfs there.
FstabLines ==
  {VolumeMount(v) : v \in VolumesTodo}
    \cup {PersistentMount(p) : p \in IF HasPersistent THEN PersistentPaths ELSE {}}
    \cup {[at |-> OverlayDir, fs |-> "tmpfs", src |-> <<<<"tmpfs">>>>]}
    \cup {OverlayPath(OverlayDir, p) : p \in EphemeralPaths}

WriteFstab ==
  \/ /\ Go("fstab", "relabel")
     /\ fstab' = IF conf.writeFstab THEN fstabData \cup FstabLines ELSE {}
     /\ UNCHANGED <<disk, mode, todo, failed, mounts, fstabData, relabel>>
  \/ conf.writeFstab /\ Stop("fstab") /\ Unfinished

\* Faulty: the paths whose store is new, when they have been filled already.
Unflagged_new == {p \in PersistentPaths : persist[p][p] = [f \in Files |-> NoFile]}

\* getRelabelPaths: the paths without the flag, which is written before the
\* list is; where it cannot be written there is a warning only.
Unflagged == {p \in PersistentPaths : Read(p, "flag") = NoFile}

\* The paths of a set that are seen through the mount of s.
Through(s, paths) == {p \in paths : FromPersistent(Served(p)) /\ Served(p).at = s}

Flagged(store, paths) ==
  [p \in PersistentPaths |-> IF p \in paths THEN [store[p] EXCEPT !["flag"] = File(1, FALSE)] ELSE store[p]]

SelinuxRelabel ==
  /\ pc = "relabel"
  /\ IF conf.selinux
     THEN /\ persist' = [s \in PersistentPaths |-> Flagged(persist[s], Through(s, Unflagged))]
          /\ ephem' = Flagged(ephem, {p \in Unflagged : FromEphemeral(Served(p))})
          /\ \/ pc' = "switchroot" /\ relabel' = Unflagged /\ UNCHANGED cut
             \/ pc' = "failed" /\ cut' = TRUE /\ UNCHANGED relabel
     ELSE pc' = "switchroot" /\ UNCHANGED <<persist, ephem, relabel, cut>>
  /\ UNCHANGED <<conf, version, wrote, writes, stray, mode, todo, failed, mounts, fstabData, fstab>>

-----------------------------------------------------------------------------
(* The rest of the boot, its users and its end                             *)

Labelled(store, paths) ==
  [p \in PersistentPaths |->
     IF p \in paths THEN [f \in Files |-> [store[p][f] EXCEPT !.label = @ \/ store[p][f] # NoFile]] ELSE store[p]]

\* systemd relabels the listed paths once it has loaded the policy.
SwitchRoot ==
  /\ Go("switchroot", "up")
  /\ persist' = [s \in PersistentPaths |-> Labelled(persist[s], Through(s, relabel))]
  /\ ephem' = Labelled(ephem, {p \in relabel : FromEphemeral(Served(p))})
  /\ UNCHANGED <<conf, version, wrote, writes, stray, cut, mode, todo, failed, mounts, fstabData, fstab, relabel>>

Running == pc \in {"up", "failed", "disabled"}

\* A user writes a file; it gets the label the policy has for it.  Where the
\* mount of a path has failed it is in the backing directory of one above.
UserWrite(p, f) ==
  /\ Running
  /\ f # "flag"
  /\ writes < MaxWrites
  /\ writes' = writes + 1
  /\ LET new == File(UserData(writes'), TRUE)
         s   == Served(p).at
     IN \/ /\ FromPersistent(Served(p))
           /\ persist' = [persist EXCEPT ![s][p][f] = new]
           /\ wrote' = IF s = p THEN [wrote EXCEPT ![p][f] = new.data] ELSE wrote
           /\ stray' = IF s = p THEN stray ELSE stray \cup {p}
           /\ UNCHANGED ephem
        \/ /\ FromEphemeral(Served(p))
           /\ ephem' = [ephem EXCEPT ![p][f] = new]
           /\ UNCHANGED <<persist, wrote, stray>>
  /\ UNCHANGED <<conf, version, cut, mode, pc, todo, failed, mounts, fstabData, fstab, relabel>>

\* The end of a boot, at any time, takes along all that is not on a disk; there
\* may be another image for the next one.
PowerOff ==
  /\ pc # "off"
  /\ pc' = "off"
  /\ mode' = "active"
  /\ ephem' = IF conf.etype = "tmpfs" THEN Empty ELSE ephem
  /\ mounts' = InitialMounts
  /\ todo' = {}
  /\ failed' = FALSE
  /\ fstab' = {}
  /\ fstabData' = {}
  /\ relabel' = {}
  /\ version' \in {version} \cup (IF Running /\ version < MaxVersion THEN {version + 1} ELSE {})
  /\ cut' = (cut \/ (pc = "switchroot" /\ relabel # {}))
  /\ UNCHANGED <<conf, persist, wrote, writes, stray>>

Next ==
  \/ \E m \in Modes : Boot(m)
  \/ InitialFstabData
  \/ \E v \in Volumes \cup {PersistentDir} : MountVolume(v)
  \/ VolumesMounted
  \/ MountEphemeral
  \/ \E p \in EphemeralPaths : MountEphemeralPath(p)
  \/ EphemeralMounted
  \/ \E p \in PersistentPaths : MountPersistentPath(p)
  \/ PersistentMounted
  \/ WriteFstab
  \/ SelinuxRelabel
  \/ SwitchRoot
  \/ \E p \in PersistentPaths, f \in Files : UserWrite(p, f)
  \/ PowerOff

Spec == Init /\ [][Next]_vars

-----------------------------------------------------------------------------
Inside(p, S) == \E q \in S : Covers(q, p)

\* The persistent paths of this boot.
PersistentNow == IF HasPersistent THEN PersistentPaths ELSE {}

\* When RunMount has returned nil each path is seen through the mount the
\* configuration asks for, however paths and volumes are nested: parents go first,
\* volumes before ephemeral paths and those before persistent ones.  Only what is
\* inside a path of a later kind is hidden by it.
PathsServed ==
  pc = "up" =>
    /\ \A p \in PersistentNow : Served(p) = PersistentMount(p)
    /\ \A p \in EphemeralPaths : ~Inside(p, PersistentNow) => Served(p) = OverlayPath(OverlayDir, p)
    /\ \A v \in VolumesTodo : ~Inside(v, PersistentNow \cup EphemeralPaths \cup {OverlayDir}) => Served(v) = VolumeMount(v)

\* What users have written last to a persistent path is there after every later
\* boot, upgrades, failed mounts, power cuts and visits to the recovery system
\* in between.  With bind mounts over a block device and for files of the image
\* this does not hold: SyncData copies over them.  Nor does it for a path that was
\* written to through one above when its own mount had failed: that copy is the
\* source of SyncData from then on, or is hidden by what is older.
PersistentKept ==
  (pc = "up" /\ HasPersistent) =>
    \A p \in PersistentPaths \ stray, f \in {"shipped", "own"} :
      (wrote[p][f] # 0 /\ (conf.pmode = "overlay" \/ (f = "own" /\ conf.etype = "tmpfs")))
        => Read(p, f).data = wrote[p][f]

\* /etc/fstab of the running system has the mounts that have been made and no
\* other, although it is put together from the spec and not from the mounts.
\* (For an ephemeral block device it has a tmpfs.)
FstabIsMounts == (pc = "up" /\ conf.writeFstab /\ conf.etype = "tmpfs") => fstab = ToSet(mounts)

\* The files that SyncData copies have no SELinux label and those of a boot that
\* failed stay in the store; still what a system with the image it was installed
\* with reads from a persistent path is labelled, as long as no boot ended
\* between the flags of getRelabelPaths and the relabelling, and the path was not
\* written to through one above.
PersistentLabelled ==
  (pc = "up" /\ conf.selinux /\ conf.etype = "tmpfs" /\ version = 1 /\ ~cut) =>
    \A p \in PersistentPaths \ stray, f \in {"shipped", "own"} :
      (wrote[p]["shipped"] = 0 /\ Read(p, f) # NoFile) => Read(p, f).label
=============================================================================

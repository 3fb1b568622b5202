---------------------------- MODULE MountProofs ----------------------------
(***************************************************************************)
(* Proofs about `elemental mount`, for every configuration that            *)
(* ConfigAssumption admits, whatever is inside what: the paths are seen     *)
(* through the mounts they are configured for, /etc/fstab has those mounts, *)
(* and what users write to a persistent path is kept and labelled over any *)
(* number of boots.                                                        *)
(***************************************************************************)
EXTENDS Mount, SequenceTheorems, NaturalsInduction, WellFoundedInduction, TLAPS

-----------------------------------------------------------------------------
(* The inductive invariant.  First the mount table, which each boot builds *)
(* anew.                                                                   *)

\* The components of a path: of the configured ones, of the code's own ones, of
\* the names of devices, and the names of backing directories.
Component ==
  Seq(STRING)
    \cup {Run, <<"elemental">>, <<"overlay">>, <<"initramfs">>, <<"", "state">>, <<"root">>, <<"state">>, <<"dev">>, <<"tmpfs">>, <<"block">>}
    \cup {PathName(p) : p \in Configured}

Path     == Seq(Component)
MountRec == [at : Path, fs : {"root", "state", "auto", "tmpfs", "block", "overlay", "none"}, src : Path]

\* A path is seen through m: m is the last mount of the table over it.
SeenThrough(table, p, m) ==
  \E i \in 1..Len(table) :
    /\ table[i] = m
    /\ Covers(m.at, p)
    /\ \A j \in 1..Len(table) : Covers(table[j].at, p) => j <= i

\* The steps of RunMount with the volumes, the ephemeral paths and the
\* persistent paths behind them.
Late           == {"fstab", "relabel", "switchroot", "up"}
AfterEphemeral == Late \cup {"persistent"}
AfterVolumes   == AfterEphemeral \cup {"ephemeral", "paths"}

\* What the loop over each kind has mounted already.
VolumesDone    == VolumesTodo \ (IF pc = "volumes" THEN todo ELSE {})
EphemeralDone  == EphemeralPaths \ (IF pc = "paths" THEN todo ELSE {})
PersistentDone == PersistentNow \ (IF pc = "persistent" THEN todo ELSE {})

Kinds ==
  /\ conf \in MountSpec
  /\ mode \in Modes
  /\ pc \in AfterVolumes \cup {"off", "initial", "volumes", "failed", "disabled"}
  /\ failed \in BOOLEAN
  /\ mounts \in Seq(MountRec)

Start == pc \in {"off", "initial"} => mounts = InitialMounts /\ ~failed

\* The volumes and the ephemeral paths that nothing of a later kind hides.
OpenVolumes   == {v \in VolumesTodo : ~Inside(v, PersistentNow \cup EphemeralPaths \cup {OverlayDir})}
OpenEphemeral == {p \in EphemeralPaths : ~Inside(p, PersistentNow)}

\* A volume is mounted after those it is below.
VolumesIn ==
  /\ pc = "volumes" => /\ todo \subseteq VolumesTodo
                       /\ \A v \in todo, u \in VolumesDone : ~Covers(v, u)
  /\ pc \in AfterVolumes => ~failed
  /\ (pc \in AfterVolumes \cup {"volumes"} /\ ~failed) =>
       \A v \in VolumesDone \cap OpenVolumes : SeenThrough(mounts, v, VolumeMount(v))

\* An ephemeral path is mounted after the shorter ones.
EphemeralIn ==
  /\ pc = "paths" => /\ todo \subseteq EphemeralPaths
                     /\ \A p \in todo, q \in EphemeralDone : Len(q) <= Len(p)
  /\ pc \in AfterEphemeral \cup {"paths"} =>
       \A p \in EphemeralDone \cap OpenEphemeral : SeenThrough(mounts, p, OverlayPath(OverlayDir, p))

\* So is a persistent path.
PersistentIn ==
  /\ pc = "persistent" => /\ todo \subseteq PersistentNow
                          /\ \A p \in todo, q \in PersistentDone : Len(q) <= Len(p)
  /\ pc \in AfterEphemeral =>
       \A p \in PersistentDone : SeenThrough(mounts, p, PersistentMount(p))

\* All that has been mounted.
Made ==
  ToSet(InitialMounts)
    \cup {VolumeMount(v) : v \in VolumesDone}
    \cup (IF pc \in AfterEphemeral \cup {"paths"}
          THEN {EphemeralStore} \cup {OverlayPath(OverlayDir, p) : p \in EphemeralDone} ELSE {})
    \cup (IF pc \in AfterEphemeral THEN {PersistentMount(p) : p \in PersistentDone} ELSE {})

Table ==
  /\ (pc \in AfterVolumes \cup {"volumes"} /\ ~failed) => ToSet(mounts) = Made
  /\ (pc \in AfterVolumes \cup {"volumes"} /\ conf.writeFstab) => fstabData = ToSet(InitialMounts)
  /\ (pc \in Late \ {"fstab"} /\ conf.writeFstab) => fstab = ToSet(InitialMounts) \cup FstabLines

MountInv == Kinds /\ Start /\ VolumesIn /\ EphemeralIn /\ PersistentIn /\ Table

-----------------------------------------------------------------------------
(* Then the files, which stay from one boot to the next.                   *)

\* The largest number a file can have.
Top == MaxVersion + MaxWrites

FileRec == {NoFile} \cup [data : 1..Top, label : BOOLEAN]
Store   == [PersistentPaths -> [Files -> FileRec]]

Typed ==
  /\ version \in 1..MaxVersion
  /\ persist \in [PersistentPaths -> Store]
  /\ ephem \in Store
  /\ wrote \in [PersistentPaths -> [Files -> 0..Top]]
  /\ writes \in 0..MaxWrites
  /\ stray \subseteq PersistentPaths
  /\ cut \in BOOLEAN
  /\ relabel \subseteq PersistentPaths

\* An ephemeral store in memory is empty until the flags are written.
Starting == {"off", "initial", "volumes", "ephemeral", "paths", "persistent", "fstab", "relabel"}
EphemeralEmpty == (conf.etype = "tmpfs" /\ pc \in Starting) => ephem = Empty

\* What a user wrote is in the store of the path.
Kept ==
  \A p \in PersistentPaths \ stray, f \in {"shipped", "own"} :
    (wrote[p][f] # 0 /\ (conf.pmode = "overlay" \/ (f = "own" /\ conf.etype = "tmpfs")))
      => persist[p][p][f].data = wrote[p][f]

\* What the stores of the paths above have of a path: no flag, and of a path that
\* was not written to through them only copies of the image's file.
StrayIn ==
  \A s, p \in PersistentPaths : s # p =>
    /\ conf.etype = "tmpfs" => persist[s][p]["flag"] = NoFile
    /\ (conf.etype = "tmpfs" /\ p \notin stray) => persist[s][p]["own"] = NoFile
    /\ (conf.pmode = "overlay" /\ p \notin stray) => persist[s][p]["shipped"] = NoFile

FileInv == Typed /\ EphemeralEmpty /\ Kept /\ StrayIn

-----------------------------------------------------------------------------
(* And the labels, for PersistentLabelled.                                 *)

Unlabelled(file) == file # NoFile /\ ~file.label

\* A file without a label is the image's, and a boot that finds it will have it
\* relabelled: the flag is not there, or the path is on the list.
LabelsIn ==
  /\ \A p \in PersistentPaths, f \in {"shipped", "own"} : ~Unlabelled(ephem[p][f])
  /\ \A p \in PersistentPaths \ stray :
       /\ ~Unlabelled(persist[p][p]["own"])
       /\ \A s \in PersistentPaths \ {p} : persist[s][p]["shipped"].data \in {0, 1}
       /\ wrote[p]["shipped"] = 0 =>
            /\ persist[p][p]["shipped"].data \in {0, 1}
            /\ Unlabelled(persist[p][p]["shipped"]) =>
                 \/ persist[p][p]["flag"] = NoFile
                 \/ pc = "switchroot" /\ HasPersistent /\ p \in relabel

\* The flag of a bind mounted path comes after the files of the image.
FlagsIn ==
  /\ conf.pmode = "bind" => \A p \in PersistentPaths : persist[p][p]["flag"] # NoFile => persist[p][p]["shipped"] # NoFile
  /\ (conf.pmode = "bind" /\ HasPersistent /\ pc \in {"persistent", "fstab", "relabel"}) =>
       \A s \in PersistentDone, p \in PersistentPaths : Covers(s, p) => persist[s][p]["shipped"] # NoFile
  /\ (HasPersistent /\ pc \in {"switchroot", "up"}) => \A p \in PersistentPaths : persist[p][p]["flag"] # NoFile

\* The condition of PersistentLabelled but for pc.
LabelsMatter == conf.selinux /\ conf.etype = "tmpfs" /\ version = 1 /\ ~cut

LabelInv == LabelsMatter => LabelsIn /\ FlagsIn

Inv == MountInv /\ FileInv /\ LabelInv

-----------------------------------------------------------------------------
(* Paths and mounts.                                                       *)

\* What Covers says of two paths.
LEMMA CoversIs ==
  ASSUME NEW p \in Path, NEW q \in Path
  PROVE  Covers(p, q) <=> Len(p) <= Len(q) /\ \A i \in 1..Len(p) : p[i] = q[i]
<1>1. /\ Len(p) \in Nat /\ Len(q) \in Nat
      /\ \A i \in 1..Len(p) : p[i] \in Component
      /\ \A i \in 1..Len(q) : q[i] \in Component
  BY LenProperties, ElementOfSeq DEF Path
<1>2. CASE Len(p) <= Len(q)
  <2> DEFINE s == SubSeq(p, 1, Len(p))
             t == SubSeq(q, 1, Len(p))
  <2>1. /\ s \in Seq(Component) /\ Len(s) = Len(p)
        /\ \A i \in 1..Len(p) : s[i] = p[i]
    BY <1>1, SubSeqFull DEF Path
  <2>2. \A i \in 1..Len(p) : q[i] \in Component
    BY <1>1, <1>2
  <2>3. /\ t \in Seq(Component) /\ Len(t) = IF 1 <= Len(p) THEN Len(p) - 1 + 1 ELSE 0
        /\ \A i \in 1..(Len(p) - 1 + 1) : t[i] = q[1 + i - 1]
    BY <1>1, <2>2, SubSeqProperties
  <2>4. Len(t) = Len(p) /\ \A i \in 1..Len(p) : t[i] = q[i]
    BY <1>1, <2>3
  <2>5. s = t <=> \A i \in 1..Len(p) : p[i] = q[i]
    BY <2>1, <2>3, <2>4, SeqEqual
  <2> QED
    BY <1>2, <2>5 DEF Covers, IsPrefix
<1>3. CASE ~ (Len(p) <= Len(q))
  BY <1>3 DEF Covers, IsPrefix
<1> QED
  BY <1>2, <1>3

\* A path covers itself, and no other of the same length.
LEMMA CoversSelf ==
  ASSUME NEW p \in Path
  PROVE  /\ Covers(p, p)
         /\ \A q \in Path : Covers(p, q) /\ Len(q) <= Len(p) => p = q
<1>1. Len(p) \in Nat /\ \A q \in Path : Len(q) \in Nat
  BY LenProperties DEF Path
<1>2. Covers(p, p)
  BY <1>1, CoversIs
<1>3. ASSUME NEW q \in Path, Covers(p, q), Len(q) <= Len(p)
      PROVE  p = q
  <2>1. Len(p) = Len(q) /\ \A i \in 1..Len(p) : p[i] = q[i]
    BY <1>1, <1>3, CoversIs
  <2> QED
    BY <2>1, SeqEqual DEF Path
<1> QED
  BY <1>2, <1>3

\* Sequences of up to three elements.
LEMMA ShortSeq ==
  ASSUME NEW S, NEW a \in S, NEW b \in S, NEW c \in S
  PROVE  <<>> \in Seq(S) /\ <<a>> \in Seq(S) /\ <<a, b>> \in Seq(S) /\ <<a, b, c>> \in Seq(S)
OBVIOUS

\* A sequence and one more element.
LEMMA OneMore ==
  ASSUME NEW S, NEW s \in Seq(S), NEW e \in S
  PROVE  /\ Append(s, e) \in Seq(S) /\ Len(Append(s, e)) = Len(s) + 1 /\ Len(s) \in Nat
         /\ \A i \in 1..Len(s) : Append(s, e)[i] = s[i]
         /\ Append(s, e)[Len(s) + 1] = e
BY AppendProperties, LenProperties

\* The types of the paths of the configuration; the two backing directories are
\* not the same.
LEMMA PathTypes ==
  /\ Configured \cup Volumes \cup {PersistentDir, OverlayDir, StateRoot, StateDir, <<>>} \subseteq Path
  /\ OverlayDir # StateDir
<1>1. Seq(Seq(STRING)) \subseteq Path
  <2>1. Seq(STRING) \subseteq Component
    BY DEF Component
  <2> QED
    BY <2>1, SeqMonotonic DEF Path
<1>2. Configured \cup Volumes \cup {PersistentDir} \subseteq Path
  BY <1>1, ConfigAssumption
<1>3. {Run, <<"elemental">>, <<"overlay">>, <<"initramfs">>, <<"", "state">>} \subseteq Component
  BY DEF Component
<1>4. OverlayDir \in Path /\ StateRoot \in Path /\ <<>> \in Path
  BY <1>3, ShortSeq DEF OverlayDir, StateRoot, Path
<1>5. StateDir \in Path /\ Len(StateDir) = Len(PersistentDir) + 1 /\ StateDir[Len(PersistentDir) + 1] = <<"", "state">>
  <2> DEFINE e == <<"", "state">>
  <2>1. PersistentDir \in Seq(Component) /\ e \in Component
    BY <1>2, <1>3 DEF Path
  <2>2. StateDir = Append(PersistentDir, e)
    BY DEF StateDir
  <2> HIDE DEF e
  <2>3. StateDir \in Path /\ Len(StateDir) = Len(PersistentDir) + 1 /\ StateDir[Len(PersistentDir) + 1] = e
    BY <2>1, <2>2, OneMore DEF Path
  <2> QED
    BY <2>3 DEF e
<1>6. OverlayDir # StateDir
  <2> SUFFICES ASSUME OverlayDir = StateDir PROVE FALSE
    OBVIOUS
  <2>1. Len(OverlayDir) = 3 /\ OverlayDir[3] = <<"overlay">>
    BY DEF OverlayDir
  <2>2. <<"overlay">> = <<"", "state">>
    BY <1>2, <1>5, <2>1, LenProperties DEF Path
  <2>3. Len(<<"overlay">>) = 1 /\ Len(<<"", "state">>) = 2
    OBVIOUS
  <2> QED
    BY <2>2, <2>3
<1> QED
  BY <1>2, <1>4, <1>5, <1>6

\* The types of the mounts, and which of them show a backing directory.
LEMMA MountTypes ==
  ASSUME conf \in MountSpec
  PROVE  /\ \A v \in Volumes \cup {PersistentDir} : VolumeMount(v) \in MountRec /\ VolumeMount(v).at = v
         /\ \A p \in EphemeralPaths : /\ OverlayPath(OverlayDir, p) \in MountRec
                                       /\ OverlayPath(OverlayDir, p).at = p
                                       /\ OverlayPath(OverlayDir, p).fs = "overlay"
                                       /\ ~FromPersistent(OverlayPath(OverlayDir, p))
                                       /\ FromEphemeral(OverlayPath(OverlayDir, p))
         /\ \A p \in PersistentPaths : /\ PersistentMount(p) \in MountRec
                                        /\ PersistentMount(p).at = p
                                        /\ PersistentMount(p).fs = (IF conf.pmode = "bind" THEN "none" ELSE "overlay")
                                        /\ FromPersistent(PersistentMount(p))
         /\ EphemeralStore \in MountRec /\ EphemeralStore.at = OverlayDir
         /\ \A m : m.fs \notin {"overlay", "none"} => ~FromPersistent(m) /\ ~FromEphemeral(m)
<1>0. Configured \cup Volumes \cup {PersistentDir, OverlayDir, StateDir} \subseteq Path
  BY PathTypes
<1>1. ASSUME NEW v \in Volumes \cup {PersistentDir}
      PROVE  VolumeMount(v) \in MountRec /\ VolumeMount(v).at = v
  <2>1. <<<<"dev">>>> \in Path
    BY ShortSeq DEF Path, Component
  <2>2. <<<<"dev">>>> \o v \in Path
    BY <1>0, <2>1, ConcatProperties DEF Path
  <2> QED
    BY <1>0, <2>2 DEF VolumeMount, MountRec
<1>2. ASSUME NEW dir \in {OverlayDir, StateDir}, NEW p \in Configured
      PROVE  /\ Append(dir, PathName(p)) \in Path
             /\ Len(Append(dir, PathName(p))) = Len(dir) + 1 /\ Len(dir) \in Nat
             /\ \A i \in 1..Len(dir) : Append(dir, PathName(p))[i] = dir[i]
  <2>1. PathName(p) \in Component /\ dir \in Seq(Component)
    BY <1>0 DEF Component, Path
  <2> QED
    BY <2>1, OneMore DEF Path
<1>3. ASSUME NEW p \in Configured, NEW q \in Configured
      PROVE  Append(OverlayDir, PathName(p)) # Append(StateDir, PathName(q))
  <2> SUFFICES ASSUME Append(OverlayDir, PathName(p)) = Append(StateDir, PathName(q)) PROVE FALSE
    OBVIOUS
  <2> DEFINE a == Append(OverlayDir, PathName(p))
             b == Append(StateDir, PathName(q))
  <2>1. /\ Len(a) = Len(OverlayDir) + 1 /\ Len(OverlayDir) \in Nat /\ \A i \in 1..Len(OverlayDir) : a[i] = OverlayDir[i]
        /\ Len(b) = Len(StateDir) + 1 /\ Len(StateDir) \in Nat /\ \A i \in 1..Len(StateDir) : b[i] = StateDir[i]
    BY <1>2
  <2>2. a = b
    OBVIOUS
  <2> HIDE DEF a, b
  <2>3. Len(OverlayDir) = Len(StateDir) /\ \A i \in 1..Len(OverlayDir) : OverlayDir[i] = StateDir[i]
    BY <2>1, <2>2
  <2> QED
    BY <1>0, <2>3, PathTypes, SeqEqual DEF Path
<1>4. ASSUME NEW p \in PersistentPaths
      PROVE  PersistentMount(p) = [at |-> p, fs |-> IF conf.pmode = "bind" THEN "none" ELSE "overlay",
                                   src |-> Append(StateDir, PathName(p))]
  BY DEF PersistentMount, OverlayPath, BindPath
<1>5. ASSUME NEW p \in EphemeralPaths
      PROVE  /\ OverlayPath(OverlayDir, p) \in MountRec
             /\ OverlayPath(OverlayDir, p).at = p
             /\ OverlayPath(OverlayDir, p).fs = "overlay"
             /\ ~FromPersistent(OverlayPath(OverlayDir, p))
             /\ FromEphemeral(OverlayPath(OverlayDir, p))
  <2>1. p \in Configured /\ PersistentPaths \subseteq Configured
    BY DEF Configured
  <2>2. OverlayPath(OverlayDir, p) = [at |-> p, fs |-> "overlay", src |-> Append(OverlayDir, PathName(p))]
    BY DEF OverlayPath
  <2>3. Append(OverlayDir, PathName(p)) \in Path
    BY <1>2, <2>1
  <2>4. ASSUME NEW q \in PersistentPaths PROVE OverlayPath(OverlayDir, p).src # PersistentMount(q).src
    BY <1>3, <1>4, <2>1, <2>2
  <2> QED
    BY <1>0, <2>1, <2>2, <2>3, <2>4 DEF MountRec, FromPersistent, FromEphemeral
<1>6. ASSUME NEW p \in PersistentPaths
      PROVE  /\ PersistentMount(p) \in MountRec
             /\ PersistentMount(p).at = p
             /\ PersistentMount(p).fs = (IF conf.pmode = "bind" THEN "none" ELSE "overlay")
             /\ FromPersistent(PersistentMount(p))
  <2>1. p \in Configured
    BY DEF Configured
  <2>2. Append(StateDir, PathName(p)) \in Path
    BY <1>2, <2>1
  <2> DEFINE fs  == IF conf.pmode = "bind" THEN "none" ELSE "overlay"
             src == Append(StateDir, PathName(p))
  <2>3. PersistentMount(p) \in MountRec /\ PersistentMount(p).at = p
    <3>1. fs \in {"none", "overlay"} /\ src \in Path /\ p \in Path
      BY <1>0, <2>1, <2>2
    <3>2. PersistentMount(p) = [at |-> p, fs |-> fs, src |-> src]
      BY <1>4
    <3> HIDE DEF fs, src
    <3> QED
      BY <3>1, <3>2 DEF MountRec
  <2>4. PersistentMount(p).fs = (IF conf.pmode = "bind" THEN "none" ELSE "overlay")
    BY <1>4
  <2>5. FromPersistent(PersistentMount(p))
    BY DEF FromPersistent
  <2> QED
    BY <2>3, <2>4, <2>5
<1>7. EphemeralStore \in MountRec /\ EphemeralStore.at = OverlayDir
  <2>1. conf.etype \in {"tmpfs", "block"}
    BY DEF MountSpec
  <2>2. <<conf.etype>> \in Component
    BY <2>1 DEF Component
  <2>3. <<<<conf.etype>>>> \in Path
    BY <2>2, ShortSeq DEF Path
  <2> QED
    BY <1>0, <2>1, <2>3 DEF EphemeralStore, MountRec
<1>8. ASSUME NEW m, m.fs \notin {"overlay", "none"}
      PROVE  ~FromPersistent(m) /\ ~FromEphemeral(m)
  BY <1>5, <1>6, <1>8 DEF FromPersistent, FromEphemeral
<1> QED
  BY <1>1, <1>5, <1>6, <1>7, <1>8

\* The table of the initrd.
LEMMA InitialTable ==
  /\ InitialMounts \in Seq(MountRec)
  /\ \E m \in ToSet(InitialMounts) : m.at = <<>> /\ m.fs = "root"
  /\ \A m \in ToSet(InitialMounts) : m.fs \in {"root", "state"}
<1> DEFINE root  == [at |-> <<>>, fs |-> "root", src |-> <<<<"root">>>>]
           state == [at |-> StateRoot, fs |-> "state", src |-> <<<<"state">>>>]
<1>1. <<<<"root">>>> \in Path /\ <<<<"state">>>> \in Path
  BY ShortSeq DEF Path, Component
<1>2. root \in MountRec /\ state \in MountRec
  BY <1>1, PathTypes DEF MountRec
<1>3. InitialMounts = <<root, state>> /\ root.at = <<>> /\ root.fs = "root" /\ state.fs = "state"
  BY DEF InitialMounts
<1> HIDE DEF root, state
<1>4. InitialMounts \in Seq(MountRec)
  BY <1>2, <1>3, ShortSeq
<1>5. ToSet(InitialMounts) = {root, state}
  BY <1>3 DEF ToSet
<1> QED
  BY <1>3, <1>4, <1>5

\* A nonempty set of numbers up to n has a largest element, which is its Max.
LEMMA MaxIs ==
  ASSUME NEW n \in Nat, NEW T \in SUBSET (1..n), T # {}
  PROVE  Max(T) \in T /\ \A i \in T : i <= Max(T)
<1> DEFINE U == {n - i : i \in T}
<1>1. U \in SUBSET Nat /\ U # {}
  OBVIOUS
<1>2. PICK m \in U : \A y \in U : ~ (<<y, m>> \in OpToRel(<, Nat))
  BY <1>1, NatLessThanWellFounded, WFMin
<1>3. \A y \in U : ~ (y < m)
  <2>1. \A y \in U : y < m => <<y, m>> \in OpToRel(<, Nat)
    BY <1>1 DEF OpToRel
  <2> QED
    BY <1>2, <2>1, Zenon
<1>4. PICK i \in T : m = n - i
  OBVIOUS
<1>5. \A j \in T : i >= j
  BY <1>3, <1>4
<1>6. \E x \in T : \A y \in T : x >= y
  BY <1>5
<1>7. Max(T) \in T /\ \A y \in T : Max(T) >= y
  BY <1>6 DEF Max
<1> QED
  BY <1>7

\* The mount a path is seen through is the one it is served by.
LEMMA SeenServed ==
  ASSUME mounts \in Seq(MountRec), NEW p, NEW m, SeenThrough(mounts, p, m)
  PROVE  Served(p) = m /\ Max(Over(p)) \in Over(p) /\ \A j \in Over(p) : j <= Max(Over(p))
<1>1. PICK i \in 1..Len(mounts) :
        mounts[i] = m /\ Covers(m.at, p) /\ \A j \in 1..Len(mounts) : Covers(mounts[j].at, p) => j <= i
  BY DEF SeenThrough
<1>2. DOMAIN mounts = 1..Len(mounts) /\ Len(mounts) \in Nat
  BY LenProperties
<1>3. i \in Over(p) /\ (\A j \in Over(p) : j <= i) /\ Over(p) \in SUBSET (1..Len(mounts))
  BY <1>1, <1>2 DEF Over
<1>4. Max(Over(p)) \in Over(p) /\ \A j \in Over(p) : j <= Max(Over(p))
  BY <1>2, <1>3, MaxIs
<1>5. Max(Over(p)) = i
  <2>1. Max(Over(p)) \in Nat /\ i \in Nat /\ Max(Over(p)) <= i /\ i <= Max(Over(p))
    BY <1>2, <1>3, <1>4
  <2> QED
    BY <2>1
<1> QED
  BY <1>1, <1>4, <1>5 DEF Served

\* One more mount: what it covers is seen through it, the rest as before.
LEMMA SeenAppend ==
  ASSUME NEW table \in Seq(MountRec), NEW m \in MountRec
  PROVE  /\ Append(table, m) \in Seq(MountRec)
         /\ ToSet(Append(table, m)) = ToSet(table) \cup {m}
         /\ \A p, x : SeenThrough(table, p, x) /\ ~Covers(m.at, p) => SeenThrough(Append(table, m), p, x)
         /\ \A p : Covers(m.at, p) => SeenThrough(Append(table, m), p, m)
<1> DEFINE longer == Append(table, m)
           n      == Len(table)
<1>1. /\ longer \in Seq(MountRec) /\ n \in Nat /\ Len(longer) = n + 1
      /\ \A i \in 1..n : longer[i] = table[i]
      /\ longer[n + 1] = m
      /\ DOMAIN longer = 1..(n + 1) /\ DOMAIN table = 1..n
  BY OneMore, LenProperties
<1> HIDE DEF longer, n
<1>2. 1..(n + 1) = (1..n) \cup {n + 1}
  BY <1>1
<1>3. ToSet(longer) = ToSet(table) \cup {m}
  BY <1>1, <1>2 DEF ToSet
<1>4. ASSUME NEW p, NEW x, SeenThrough(table, p, x), ~Covers(m.at, p)
      PROVE  SeenThrough(longer, p, x)
  <2>1. PICK i \in 1..n : table[i] = x /\ Covers(x.at, p) /\ \A j \in 1..n : Covers(table[j].at, p) => j <= i
    BY <1>4 DEF SeenThrough, n
  <2>2. i \in 1..(n + 1) /\ longer[i] = x /\ \A j \in 1..(n + 1) : Covers(longer[j].at, p) => j <= i
    BY <1>1, <1>2, <1>4, <2>1
  <2> QED
    BY <1>1, <2>1, <2>2 DEF SeenThrough
<1>5. ASSUME NEW p, Covers(m.at, p)
      PROVE  SeenThrough(longer, p, m)
  <2>1. n + 1 \in 1..(n + 1) /\ \A j \in 1..(n + 1) : j <= n + 1
    BY <1>1
  <2> QED
    BY <1>1, <1>5, <2>1 DEF SeenThrough
<1> QED
  BY <1>1, <1>3, <1>4, <1>5 DEF longer

-----------------------------------------------------------------------------
(* The mount table, step by step.                                          *)

LEMMA MountInvInit == Init => MountInv
<1> SUFFICES ASSUME Init PROVE MountInv
  OBVIOUS
<1>1. Kinds
  BY InitialTable, SpecsAssumption DEF Init, Kinds, Modes
<1>2. Start /\ VolumesIn /\ EphemeralIn /\ PersistentIn /\ Table
  BY DEF Init, Start, VolumesIn, EphemeralIn, PersistentIn, Table, AfterVolumes, AfterEphemeral, Late
<1> QED
  BY <1>1, <1>2 DEF MountInv

\* A run that ends, and a boot without one, leave the table as it is.
LEMMA MountEnds ==
  ASSUME MountInv, pc' \in {"failed", "disabled"}, UNCHANGED <<conf, mounts, failed>>,
         \/ mode' = mode
         \/ mode' \in Modes /\ pc = "off"
  PROVE  MountInv'
<1>1. Kinds' /\ Start' /\ VolumesIn' /\ EphemeralIn' /\ PersistentIn' /\ Table'
  BY DEF MountInv, Kinds, Start, VolumesIn, EphemeralIn, PersistentIn, Table, AfterVolumes, AfterEphemeral, Late
<1> QED
  BY <1>1 DEF MountInv

LEMMA BootMount ==
  ASSUME MountInv, NEW m \in Modes, Boot(m)
  PROVE  MountInv'
<1>1. CASE pc' = "initial"
  <2>1. UNCHANGED <<conf, mounts, failed>> /\ pc = "off" /\ mode' = m
    BY DEF Boot, disk
  <2>2. Kinds' /\ Start'
    BY <1>1, <2>1 DEF MountInv, Kinds, Start
  <2>3. VolumesIn' /\ EphemeralIn' /\ PersistentIn' /\ Table'
    BY <1>1 DEF VolumesIn, EphemeralIn, PersistentIn, Table, AfterVolumes, AfterEphemeral, Late
  <2> QED
    BY <2>2, <2>3 DEF MountInv
<1>2. CASE pc' # "initial"
  <2>1. UNCHANGED <<conf, mounts, failed>> /\ pc = "off" /\ mode' = m /\ pc' \in {"failed", "disabled"}
    BY <1>2 DEF Boot, disk, Outcomes
  <2> QED
    BY <2>1, MountEnds
<1> QED
  BY <1>1, <1>2

LEMMA InitialFstabDataMount ==
  ASSUME MountInv, InitialFstabData
  PROVE  MountInv'
<1>1. CASE pc' = "failed"
  <2>1. UNCHANGED <<conf, mounts, failed, mode>>
    BY <1>1 DEF InitialFstabData, Go, Stop, Unfinished, disk
  <2> QED
    BY <1>1, <2>1, MountEnds
<1>2. CASE pc' # "failed"
  <2>1. /\ pc = "initial" /\ pc' = "volumes" /\ todo' = VolumesTodo /\ UNCHANGED <<conf, mounts, failed, mode>>
        /\ fstabData' = IF conf.writeFstab THEN ToSet(mounts) ELSE {}
    BY <1>2 DEF InitialFstabData, Go, Stop, Unfinished, disk
  <2>2. mounts = InitialMounts /\ ~failed
    BY <2>1 DEF MountInv, Start
  <2>3. Kinds' /\ Start'
    BY <2>1 DEF MountInv, Kinds, Start
  <2>4. VolumesTodo' = VolumesTodo /\ VolumesDone' = {}
    BY <2>1 DEF VolumesTodo, VolumesDone, HasPersistent
  <2>5. VolumesIn' /\ EphemeralIn' /\ PersistentIn'
    BY <2>1, <2>4 DEF VolumesIn, EphemeralIn, PersistentIn, AfterVolumes, AfterEphemeral, Late
  <2>7. Made' = ToSet(InitialMounts)
    BY <2>1, <2>4 DEF Made, AfterEphemeral, Late
  <2>8. Table'
    BY <2>1, <2>2, <2>7 DEF Table, AfterVolumes, AfterEphemeral, Late
  <2> QED
    BY <2>3, <2>5, <2>8 DEF MountInv
<1> QED
  BY <1>1, <1>2

LEMMA MountVolumeMount ==
  ASSUME MountInv, NEW v \in Volumes \cup {PersistentDir}, MountVolume(v)
  PROVE  MountInv'
<1>1. /\ pc = "volumes" /\ pc' = pc /\ v \in todo /\ todo' = todo \ {v}
      /\ ~ \E u \in todo \ {v} : Covers(u, v)
      /\ UNCHANGED <<conf, mode, fstabData>>
  BY DEF MountVolume, disk
<1>2. \/ mounts' = Append(mounts, VolumeMount(v)) /\ failed' = failed
      \/ mounts' = mounts /\ failed' = TRUE
  BY DEF MountVolume
<1>3. /\ VolumeMount(v) \in MountRec /\ VolumeMount(v).at = v /\ mounts \in Seq(MountRec)
      /\ v \in Path /\ \A u \in VolumesTodo : u \in Path
  BY MountTypes, PathTypes DEF MountInv, Kinds, VolumesTodo
<1>4. /\ VolumesTodo' = VolumesTodo /\ todo \subseteq VolumesTodo
      /\ VolumesDone = VolumesTodo \ todo /\ VolumesDone' = VolumesDone \cup {v}
      /\ OpenVolumes' = OpenVolumes
  BY <1>1 DEF VolumesTodo, VolumesDone, OpenVolumes, PersistentNow, HasPersistent, MountInv, VolumesIn
<1>5. Kinds' /\ Start'
  BY <1>1, <1>2, <1>3, SeenAppend DEF MountInv, Kinds, Start
<1>6. VolumesIn'
  <2>1. \A w \in todo, u \in VolumesDone : ~Covers(w, u)
    BY <1>1 DEF MountInv, VolumesIn
  <2>2. \A w \in todo', u \in VolumesDone' : ~Covers(w, u)
    BY <1>1, <1>4, <2>1
  <2>3. ASSUME ~failed' PROVE \A u \in VolumesDone' \cap OpenVolumes : SeenThrough(mounts', u, VolumeMount(u))
    <3>1. mounts' = Append(mounts, VolumeMount(v)) /\ ~failed
      BY <1>2, <2>3
    <3>2. \A u \in VolumesDone \cap OpenVolumes : SeenThrough(mounts, u, VolumeMount(u)) /\ ~Covers(v, u)
      BY <1>1, <2>1, <3>1 DEF MountInv, VolumesIn
    <3>3. SeenThrough(mounts', v, VolumeMount(v))
      BY <1>3, <3>1, CoversSelf, SeenAppend
    <3>4. \A u \in VolumesDone \cap OpenVolumes : SeenThrough(mounts', u, VolumeMount(u))
      BY <1>3, <3>1, <3>2, SeenAppend
    <3> QED
      BY <1>4, <3>3, <3>4
  <2> QED
    BY <1>1, <1>4, <2>2, <2>3 DEF VolumesIn, AfterVolumes, AfterEphemeral, Late
<1>7. EphemeralIn' /\ PersistentIn'
  BY <1>1 DEF EphemeralIn, PersistentIn, AfterEphemeral, Late
<1>9. Table'
  <2>1. ~failed' => ToSet(mounts') = ToSet(mounts) \cup {VolumeMount(v)} /\ ToSet(mounts) = Made
    BY <1>1, <1>2, <1>3, SeenAppend DEF MountInv, Table
  <2>2. Made' = Made \cup {VolumeMount(v)}
    BY <1>1, <1>4 DEF Made, AfterEphemeral, Late
  <2> QED
    BY <1>1, <2>1, <2>2 DEF MountInv, Table, AfterVolumes, AfterEphemeral, Late
<1> QED
  BY <1>5, <1>6, <1>7, <1>9 DEF MountInv

LEMMA VolumesMountedMount ==
  ASSUME MountInv, VolumesMounted
  PROVE  MountInv'
<1>1. /\ pc = "volumes" /\ todo = {} /\ UNCHANGED <<conf, mode, mounts, failed, fstabData>>
      /\ pc' = IF failed THEN "failed" ELSE "ephemeral"
  BY DEF VolumesMounted, Unfinished, disk
<1>2. CASE failed
  BY <1>1, <1>2, MountEnds
<1>3. CASE ~failed
  <2>1. /\ VolumesTodo' = VolumesTodo /\ VolumesDone' = VolumesTodo /\ VolumesDone = VolumesTodo
        /\ OpenVolumes' = OpenVolumes
    BY <1>1, <1>3 DEF VolumesTodo, VolumesDone, OpenVolumes, PersistentNow, HasPersistent
  <2>2. Kinds' /\ Start'
    BY <1>1, <1>3 DEF MountInv, Kinds, Start, AfterVolumes
  <2>3. VolumesIn'
    BY <1>1, <1>3, <2>1 DEF MountInv, VolumesIn
  <2>4. EphemeralIn' /\ PersistentIn'
    BY <1>1, <1>3 DEF EphemeralIn, PersistentIn, AfterEphemeral, Late
  <2>6. Made' = Made
    BY <1>1, <1>3, <2>1 DEF Made, AfterEphemeral, Late
  <2>7. Table'
    BY <1>1, <1>3, <2>6 DEF MountInv, Table, AfterVolumes, AfterEphemeral, Late
  <2> QED
    BY <2>2, <2>3, <2>4, <2>7 DEF MountInv
<1> QED
  BY <1>2, <1>3

LEMMA MountEphemeralMount ==
  ASSUME MountInv, MountEphemeral
  PROVE  MountInv'
<1>1. CASE pc' = "failed"
  <2>1. UNCHANGED <<conf, mounts, failed, mode>>
    BY <1>1 DEF MountEphemeral, Go, Stop, Unfinished, disk
  <2> QED
    BY <1>1, <2>1, MountEnds
<1>2. CASE pc' # "failed"
  <2>1. /\ pc = "ephemeral" /\ pc' = "paths" /\ todo' = EphemeralPaths
        /\ mounts' = Append(mounts, EphemeralStore) /\ UNCHANGED <<conf, mode, failed, fstabData>>
    BY <1>2 DEF MountEphemeral, Go, Stop, Unfinished, disk
  <2>2. /\ EphemeralStore \in MountRec /\ EphemeralStore.at = OverlayDir
        /\ mounts \in Seq(MountRec)
    BY MountTypes DEF MountInv, Kinds
  <2>3. /\ VolumesTodo' = VolumesTodo /\ VolumesDone' = VolumesTodo /\ VolumesDone = VolumesTodo /\ EphemeralDone' = {}
        /\ OpenVolumes' = OpenVolumes /\ OpenVolumes \subseteq VolumesTodo
    BY <2>1 DEF VolumesTodo, VolumesDone, EphemeralDone, OpenVolumes, PersistentNow, HasPersistent
  <2>4. Kinds' /\ Start'
    BY <2>1, <2>2, SeenAppend DEF MountInv, Kinds, Start, AfterVolumes
  <2>5. VolumesIn'
    <3>1. \A v \in OpenVolumes : ~Covers(OverlayDir, v)
      BY DEF OpenVolumes, Inside
    <3>2. ~failed /\ \A v \in OpenVolumes : SeenThrough(mounts, v, VolumeMount(v))
      BY <2>1, <2>3 DEF MountInv, VolumesIn, AfterVolumes
    <3>3. \A v \in OpenVolumes : SeenThrough(mounts', v, VolumeMount(v))
      BY <2>1, <2>2, <3>1, <3>2, SeenAppend
    <3> QED
      BY <2>1, <2>3, <3>2, <3>3 DEF VolumesIn
  <2>6. EphemeralIn' /\ PersistentIn'
    BY <2>1, <2>3 DEF EphemeralIn, PersistentIn, AfterEphemeral, Late
  <2>8. Made' = Made \cup {EphemeralStore}
    BY <2>1, <2>3 DEF Made, EphemeralStore, AfterEphemeral, Late
  <2>9. Table'
    BY <2>1, <2>2, <2>8, SeenAppend DEF MountInv, Table, AfterVolumes, AfterEphemeral, Late
  <2> QED
    BY <2>4, <2>5, <2>6, <2>9 DEF MountInv
<1> QED
  BY <1>1, <1>2

LEMMA MountEphemeralPathMount ==
  ASSUME MountInv, NEW p \in EphemeralPaths, MountEphemeralPath(p)
  PROVE  MountInv'
<1>1. CASE pc' = "failed"
  <2>1. UNCHANGED <<conf, mounts, failed, mode>>
    BY <1>1 DEF MountEphemeralPath, Stop, Unfinished, disk
  <2> QED
    BY <1>1, <2>1, MountEnds
<1>2. CASE pc' # "failed"
  <2> DEFINE m == OverlayPath(OverlayDir, p)
  <2>1. /\ pc = "paths" /\ pc' = pc /\ p \in todo /\ (\A q \in todo : Len(p) <= Len(q)) /\ todo' = todo \ {p}
        /\ mounts' = Append(mounts, m) /\ UNCHANGED <<conf, mode, failed, fstabData>>
    BY <1>2 DEF MountEphemeralPath, NextPath, Stop, Unfinished, disk
  <2>2. /\ m \in MountRec /\ m.at = p /\ mounts \in Seq(MountRec)
        /\ EphemeralPaths \subseteq Path
    BY MountTypes, PathTypes DEF MountInv, Kinds, Configured
  <2>3. /\ VolumesTodo' = VolumesTodo /\ VolumesDone' = VolumesTodo /\ VolumesDone = VolumesTodo
        /\ todo \subseteq EphemeralPaths
        /\ EphemeralDone = EphemeralPaths \ todo /\ EphemeralDone' = EphemeralDone \cup {p}
        /\ OpenVolumes' = OpenVolumes /\ OpenVolumes \subseteq VolumesTodo /\ OpenEphemeral' = OpenEphemeral
    BY <2>1 DEF VolumesTodo, VolumesDone, EphemeralDone, OpenVolumes, OpenEphemeral, PersistentNow, HasPersistent,
                MountInv, EphemeralIn
  <2>4. Kinds' /\ Start'
    BY <2>1, <2>2, SeenAppend DEF MountInv, Kinds, Start
  <2>5. VolumesIn'
    <3>1. \A v \in OpenVolumes : ~Covers(p, v)
      BY DEF OpenVolumes, Inside
    <3>2. ~failed /\ \A v \in OpenVolumes : SeenThrough(mounts, v, VolumeMount(v))
      BY <2>1, <2>3 DEF MountInv, VolumesIn, AfterVolumes
    <3>3. \A v \in OpenVolumes : SeenThrough(mounts', v, VolumeMount(v))
      BY <2>1, <2>2, <3>1, <3>2, SeenAppend
    <3> QED
      BY <2>1, <2>3, <3>2, <3>3 DEF VolumesIn
  <2>6. EphemeralIn'
    <3>1. \A q \in todo, u \in EphemeralDone : Len(u) <= Len(q)
      BY <2>1 DEF MountInv, EphemeralIn
    <3>2. \A q \in todo', u \in EphemeralDone' : Len(u) <= Len(q)
      BY <2>1, <2>3, <3>1
    <3>3. \A u \in EphemeralDone : ~Covers(p, u)
      BY <2>1, <2>2, <2>3, <3>1, CoversSelf
    <3>4. \A u \in EphemeralDone \cap OpenEphemeral : SeenThrough(mounts, u, OverlayPath(OverlayDir, u))
      BY <2>1 DEF MountInv, EphemeralIn
    <3>5. \A u \in EphemeralDone \cap OpenEphemeral : SeenThrough(mounts', u, OverlayPath(OverlayDir, u))
      BY <2>1, <2>2, <3>3, <3>4, SeenAppend
    <3>6. SeenThrough(mounts', p, m)
      BY <2>1, <2>2, CoversSelf, SeenAppend
    <3>7. \A u \in EphemeralDone' \cap OpenEphemeral : SeenThrough(mounts', u, OverlayPath(OverlayDir, u))
      BY <2>3, <3>5, <3>6
    <3> QED
      BY <2>1, <2>3, <3>2, <3>7 DEF EphemeralIn
  <2>7. PersistentIn'
    BY <2>1 DEF PersistentIn, AfterEphemeral, Late
  <2>9. Made' = Made \cup {m}
    BY <2>1, <2>3 DEF Made, EphemeralStore, AfterEphemeral, Late
  <2>10. Table'
    BY <2>1, <2>2, <2>9, SeenAppend DEF MountInv, Table, AfterVolumes, AfterEphemeral, Late
  <2> QED
    BY <2>4, <2>5, <2>6, <2>7, <2>10 DEF MountInv
<1> QED
  BY <1>1, <1>2

LEMMA EphemeralMountedMount ==
  ASSUME MountInv, EphemeralMounted
  PROVE  MountInv'
<1>1. /\ pc = "paths" /\ pc' = "persistent" /\ todo = {} /\ UNCHANGED <<conf, mode, mounts, failed, fstabData>>
      /\ todo' = PersistentNow
  BY DEF EphemeralMounted, PersistentNow, Go, disk
<1>2. /\ VolumesTodo' = VolumesTodo /\ VolumesDone' = VolumesTodo /\ VolumesDone = VolumesTodo
      /\ EphemeralDone' = EphemeralPaths /\ EphemeralDone = EphemeralPaths
      /\ PersistentDone' = {} /\ PersistentNow' = PersistentNow
      /\ OpenVolumes' = OpenVolumes /\ OpenEphemeral' = OpenEphemeral
  BY <1>1 DEF VolumesTodo, VolumesDone, EphemeralDone, PersistentDone, OpenVolumes, OpenEphemeral, PersistentNow,
              HasPersistent
<1>3. Kinds' /\ Start'
  BY <1>1 DEF MountInv, Kinds, Start, AfterVolumes, AfterEphemeral
<1>4. VolumesIn'
  BY <1>1, <1>2 DEF MountInv, VolumesIn, AfterVolumes, AfterEphemeral
<1>5. EphemeralIn' /\ PersistentIn'
  BY <1>1, <1>2 DEF MountInv, EphemeralIn, PersistentIn
<1>7. Made' = Made
  BY <1>1, <1>2 DEF Made, EphemeralStore, AfterEphemeral, Late
<1>8. Table'
  BY <1>1, <1>7 DEF MountInv, Table, AfterVolumes, AfterEphemeral, Late
<1> QED
  BY <1>3, <1>4, <1>5, <1>8 DEF MountInv

LEMMA MountPersistentPathMount ==
  ASSUME MountInv, NEW p \in PersistentPaths, MountPersistentPath(p)
  PROVE  MountInv'
<1>0. UNCHANGED <<conf, mode, failed, fstabData>> /\ pc = "persistent" /\ p \in todo /\ \A q \in todo : Len(p) <= Len(q)
  BY DEF MountPersistentPath, NextPath
<1>1. CASE pc' = "failed"
  <2>1. mounts' = mounts
    BY <1>0, <1>1 DEF MountPersistentPath
  <2> QED
    BY <1>0, <1>1, <2>1, MountEnds
<1>2. CASE pc' # "failed"
  <2> DEFINE m == PersistentMount(p)
  <2>1. pc' = pc /\ todo' = todo \ {p} /\ mounts' = Append(mounts, m)
    BY <1>0, <1>2 DEF MountPersistentPath
  <2>2. m \in MountRec /\ m.at = p /\ mounts \in Seq(MountRec) /\ PersistentPaths \subseteq Path
    BY MountTypes, PathTypes DEF MountInv, Kinds, Configured
  <2>3. /\ VolumesTodo' = VolumesTodo /\ VolumesDone' = VolumesTodo /\ VolumesDone = VolumesTodo
        /\ EphemeralDone' = EphemeralPaths /\ EphemeralDone = EphemeralPaths
        /\ PersistentNow = PersistentPaths /\ PersistentNow' = PersistentNow /\ todo \subseteq PersistentPaths
        /\ PersistentDone = PersistentPaths \ todo /\ PersistentDone' = PersistentDone \cup {p}
        /\ OpenVolumes' = OpenVolumes /\ OpenVolumes \subseteq VolumesTodo
        /\ OpenEphemeral' = OpenEphemeral /\ OpenEphemeral \subseteq EphemeralPaths
    BY <1>0, <2>1 DEF VolumesTodo, VolumesDone, EphemeralDone, PersistentDone, OpenVolumes, OpenEphemeral,
                      PersistentNow, HasPersistent, MountInv, PersistentIn
  <2>4. Kinds' /\ Start'
    BY <1>0, <2>1, <2>2, SeenAppend DEF MountInv, Kinds, Start
  <2>5. VolumesIn'
    <3>1. \A v \in OpenVolumes : ~Covers(p, v)
      BY <2>3 DEF OpenVolumes, Inside
    <3>2. ~failed /\ \A v \in OpenVolumes : SeenThrough(mounts, v, VolumeMount(v))
      BY <1>0, <2>3 DEF MountInv, VolumesIn, AfterVolumes, AfterEphemeral
    <3>3. \A v \in OpenVolumes : SeenThrough(mounts', v, VolumeMount(v))
      BY <2>1, <2>2, <3>1, <3>2, SeenAppend
    <3> QED
      BY <1>0, <2>1, <2>3, <3>2, <3>3 DEF VolumesIn
  <2>6. EphemeralIn'
    <3>1. \A u \in OpenEphemeral : ~Covers(p, u)
      BY <2>3 DEF OpenEphemeral, Inside
    <3>2. \A u \in OpenEphemeral : SeenThrough(mounts, u, OverlayPath(OverlayDir, u))
      BY <1>0, <2>3 DEF MountInv, EphemeralIn, AfterEphemeral
    <3>3. \A u \in OpenEphemeral : SeenThrough(mounts', u, OverlayPath(OverlayDir, u))
      BY <2>1, <2>2, <3>1, <3>2, SeenAppend
    <3> QED
      BY <1>0, <2>1, <2>3, <3>3 DEF EphemeralIn
  <2>7. PersistentIn'
    <3>0. \A q \in todo, u \in PersistentDone : Len(u) <= Len(q)
      BY <1>0 DEF MountInv, PersistentIn
    <3>1. \A u \in PersistentDone : ~Covers(p, u)
      BY <1>0, <2>2, <2>3, <3>0, CoversSelf
    <3>2. \A u \in PersistentDone : SeenThrough(mounts, u, PersistentMount(u))
      BY <1>0 DEF MountInv, PersistentIn, AfterEphemeral
    <3>3. \A u \in PersistentDone : SeenThrough(mounts', u, PersistentMount(u))
      BY <2>1, <2>2, <3>1, <3>2, SeenAppend
    <3>4. SeenThrough(mounts', p, m)
      BY <2>1, <2>2, CoversSelf, SeenAppend
    <3>5. \A u \in PersistentDone' : SeenThrough(mounts', u, PersistentMount(u)')
      BY <1>0, <2>3, <3>3, <3>4 DEF PersistentMount
    <3>6. \A q \in todo', u \in PersistentDone' : Len(u) <= Len(q)
      BY <1>0, <2>1, <2>3, <3>0
    <3> QED
      BY <1>0, <2>1, <2>3, <3>5, <3>6 DEF PersistentIn
  <2>9. Made' = Made \cup {m}
    BY <1>0, <2>1, <2>3 DEF Made, EphemeralStore, PersistentMount, AfterEphemeral, Late
  <2>10. Table'
    BY <1>0, <2>1, <2>2, <2>9, SeenAppend DEF MountInv, Table, AfterVolumes, AfterEphemeral, Late
  <2> QED
    BY <2>4, <2>5, <2>6, <2>7, <2>10 DEF MountInv
<1> QED
  BY <1>1, <1>2

\* The steps after the last mount.
LEMMA LaterMount ==
  ASSUME MountInv, UNCHANGED <<conf, mode, mounts, failed, fstabData>>,
         \/ pc = "persistent" /\ pc' = "fstab" /\ todo = {}
         \/ pc = "fstab" /\ pc' = "relabel" /\ fstab' = IF conf.writeFstab THEN fstabData \cup FstabLines ELSE {}
         \/ pc = "relabel" /\ pc' = "switchroot" /\ fstab' = fstab
         \/ pc = "switchroot" /\ pc' = "up" /\ fstab' = fstab
         \/ pc' = pc /\ todo' = todo /\ fstab' = fstab
  PROVE  MountInv'
<1>1. /\ VolumesTodo' = VolumesTodo /\ HasPersistent' = HasPersistent /\ FstabLines' = FstabLines
      /\ EphemeralStore' = EphemeralStore /\ \A p \in PersistentPaths : PersistentMount(p)' = PersistentMount(p)
  BY DEF VolumesTodo, HasPersistent, FstabLines, EphemeralStore, PersistentMount
<1>2. /\ VolumesDone' = VolumesDone /\ EphemeralDone' = EphemeralDone /\ PersistentDone' = PersistentDone
      /\ OpenVolumes' = OpenVolumes /\ OpenEphemeral' = OpenEphemeral /\ PersistentNow' = PersistentNow
      /\ PersistentNow \subseteq PersistentPaths
  BY <1>1 DEF VolumesDone, EphemeralDone, PersistentDone, OpenVolumes, OpenEphemeral, PersistentNow
<1>3. Kinds' /\ Start'
  BY DEF MountInv, Kinds, Start, AfterVolumes, AfterEphemeral, Late
<1>4. VolumesIn'
  BY <1>1, <1>2 DEF MountInv, VolumesIn, AfterVolumes, AfterEphemeral, Late
<1>5. EphemeralIn' /\ PersistentIn'
  BY <1>1, <1>2 DEF MountInv, EphemeralIn, PersistentIn, PersistentDone, AfterEphemeral, Late
<1>7. Made' = Made
  BY <1>1, <1>2 DEF Made, PersistentDone, AfterEphemeral, Late
<1>8. Table'
  BY <1>1, <1>7 DEF MountInv, Table, AfterVolumes, AfterEphemeral, Late
<1> QED
  BY <1>3, <1>4, <1>5, <1>8 DEF MountInv

LEMMA PowerOffMount ==
  ASSUME MountInv, PowerOff
  PROVE  MountInv'
<1>1. pc' = "off" /\ mounts' = InitialMounts /\ ~failed' /\ mode' = "active" /\ conf' = conf /\ failed' = FALSE
  BY DEF PowerOff
<1>2. Kinds' /\ Start'
  BY <1>1, InitialTable DEF MountInv, Kinds, Start, Modes
<1>3. VolumesIn' /\ EphemeralIn' /\ PersistentIn' /\ Table'
  BY <1>1 DEF VolumesIn, EphemeralIn, PersistentIn, Table, AfterVolumes, AfterEphemeral, Late
<1> QED
  BY <1>2, <1>3 DEF MountInv

\* Every step keeps the table.
LEMMA MountInvNext == MountInv /\ [Next]_vars => MountInv'
<1> SUFFICES ASSUME MountInv, [Next]_vars PROVE MountInv'
  OBVIOUS
<1>1. CASE PersistentMounted
  BY <1>1, LaterMount DEF PersistentMounted, Go, Unfinished, disk
<1>2. CASE WriteFstab
  <2>1. UNCHANGED <<conf, mode, mounts, failed, fstabData>>
    BY <1>2 DEF WriteFstab, Unfinished, disk
  <2> QED
    BY <1>2, <2>1, LaterMount, MountEnds DEF WriteFstab, Go, Stop
<1>3. CASE SelinuxRelabel
  <2>1. UNCHANGED <<conf, mode, mounts, failed, fstabData, fstab>> /\ pc = "relabel" /\ pc' \in {"switchroot", "failed"}
    BY <1>3 DEF SelinuxRelabel
  <2> QED
    BY <2>1, LaterMount, MountEnds
<1>4. CASE SwitchRoot
  BY <1>4, LaterMount DEF SwitchRoot, Go
<1>5. CASE (\E p \in PersistentPaths, f \in Files : UserWrite(p, f)) \/ UNCHANGED vars
  <2>1. UNCHANGED <<conf, mode, mounts, failed, fstabData, fstab, pc, todo>>
    BY <1>5 DEF UserWrite, vars, disk
  <2> QED
    BY <2>1, LaterMount
<1> QED
  BY <1>1, <1>2, <1>3, <1>4, <1>5, BootMount, InitialFstabDataMount, MountVolumeMount, VolumesMountedMount,
     MountEphemeralMount, MountEphemeralPathMount, EphemeralMountedMount, MountPersistentPathMount, PowerOffMount
     DEF Next

\* What the mount table of a running system looks like.
THEOREM MountsAreAsConfigured == Spec => []MountInv
<1> QED
  BY MountInvInit, MountInvNext, PTL DEF Spec

\* PathsServed: once the system is up each path and each volume is seen through
\* the mount the configuration asks for, unless it is inside one of a later kind,
\* for any nesting of paths and volumes.
THEOREM PathsAreServed == Spec => []PathsServed
<1>1. MountInv => PathsServed
  <2> SUFFICES ASSUME MountInv, pc = "up" PROVE PathsServed
    BY DEF PathsServed
  <2>1. mounts \in Seq(MountRec)
    BY DEF MountInv, Kinds
  <2>2. VolumesDone = VolumesTodo /\ EphemeralDone = EphemeralPaths /\ PersistentDone = PersistentNow
    BY DEF VolumesDone, EphemeralDone, PersistentDone
  <2>3. /\ \A v \in VolumesTodo \cap OpenVolumes : SeenThrough(mounts, v, VolumeMount(v))
        /\ \A p \in EphemeralPaths \cap OpenEphemeral : SeenThrough(mounts, p, OverlayPath(OverlayDir, p))
        /\ \A p \in PersistentNow : SeenThrough(mounts, p, PersistentMount(p))
    BY <2>2 DEF MountInv, VolumesIn, EphemeralIn, PersistentIn, AfterVolumes, AfterEphemeral, Late
  <2>4. /\ \A v \in VolumesTodo \cap OpenVolumes : Served(v) = VolumeMount(v)
        /\ \A p \in EphemeralPaths \cap OpenEphemeral : Served(p) = OverlayPath(OverlayDir, p)
        /\ \A p \in PersistentNow : Served(p) = PersistentMount(p)
    BY <2>1, <2>3, SeenServed
  <2> QED
    BY <2>4 DEF PathsServed, OpenVolumes, OpenEphemeral
<1> QED
  BY <1>1, MountsAreAsConfigured, PTL

\* FstabIsMounts: /etc/fstab, put together from the configuration, has the mounts
\* that have been made and no other.
THEOREM FstabHasTheMounts == Spec => []FstabIsMounts
<1>1. MountInv => FstabIsMounts
  <2> SUFFICES ASSUME MountInv, pc = "up", conf.writeFstab, conf.etype = "tmpfs" PROVE fstab = ToSet(mounts)
    BY DEF FstabIsMounts
  <2>1. ToSet(mounts) = Made /\ fstab = ToSet(InitialMounts) \cup FstabLines
    BY DEF MountInv, Table, VolumesIn, AfterVolumes, AfterEphemeral, Late
  <2>2. EphemeralStore = [at |-> OverlayDir, fs |-> "tmpfs", src |-> <<<<"tmpfs">>>>]
    BY DEF EphemeralStore
  <2>3. /\ VolumesDone = VolumesTodo /\ EphemeralDone = EphemeralPaths
        /\ PersistentDone = IF HasPersistent THEN PersistentPaths ELSE {}
    BY DEF VolumesDone, EphemeralDone, PersistentDone, PersistentNow
  <2>4. Made = ToSet(InitialMounts) \cup FstabLines
    BY <2>2, <2>3 DEF Made, FstabLines, AfterEphemeral, Late
  <2> QED
    BY <2>1, <2>4
<1> QED
  BY <1>1, MountsAreAsConfigured, PTL

-----------------------------------------------------------------------------
(* What is read.                                                           *)

\* A file of a store is there, with data, or not there.
LEMMA FileIs ==
  ASSUME NEW file \in FileRec
  PROVE  /\ file.data \in 0..Top /\ file.label \in BOOLEAN
         /\ file.data = 0 <=> file = NoFile
         /\ file # NoFile => file.data \in 1..Top /\ File(file.data, FALSE) \in FileRec
<1>1. Top \in Nat \ {0}
  BY ConfigAssumption DEF Top
<1>2. NoFile.data = 0 /\ NoFile.label = FALSE
  BY DEF NoFile, File
<1>3. CASE file = NoFile
  <2>1. file.data = 0 /\ file.data \in 0..Top
    BY <1>1, <1>2, <1>3
  <2>2. file.label \in BOOLEAN
    BY <1>2, <1>3, Zenon
  <2> QED
    BY <1>3, <2>1, <2>2, Zenon
<1>4. CASE file \in [data : 1..Top, label : BOOLEAN]
  BY <1>1, <1>2, <1>4 DEF FileRec, File
<1> QED
  BY <1>3, <1>4 DEF FileRec

\* Which numbers a file may have.
LEMMA FileTypes ==
  /\ Top \in Nat \ {0} /\ MaxVersion \in Nat /\ MaxWrites \in Nat
  /\ NoFile \in FileRec /\ NoFile.data = 0
  /\ \A n \in 1..Top, l \in BOOLEAN : File(n, l) \in FileRec /\ File(n, l).data = n /\ File(n, l) # NoFile
  /\ 1 \in 1..Top
<1>1. Top \in Nat \ {0} /\ MaxVersion \in Nat /\ MaxWrites \in Nat
  BY ConfigAssumption DEF Top
<1>2. NoFile \in FileRec /\ NoFile.data = 0
  BY DEF FileRec, NoFile, File
<1>3. \A n \in 1..Top, l \in BOOLEAN : File(n, l) \in FileRec /\ File(n, l).data = n /\ File(n, l) # NoFile
  BY <1>1, <1>2 DEF FileRec, File
<1> QED
  BY <1>1, <1>2, <1>3

\* What the image ships.
LEMMA ImageIs ==
  ASSUME Typed, NEW f \in Files
  PROVE  /\ Image(f) \in FileRec /\ ~Unlabelled(Image(f))
         /\ f = "shipped" => Image(f) # NoFile /\ Image(f).data = version
         /\ f # "shipped" => Image(f) = NoFile
<1>1. version \in 1..Top
  BY FileTypes DEF Typed, Top
<1>2. File(version, TRUE) \in FileRec /\ File(version, TRUE).data = version /\ File(version, TRUE) # NoFile
  BY <1>1, FileTypes
<1>3. ~Unlabelled(File(version, TRUE)) /\ ~Unlabelled(NoFile)
  BY DEF Unlabelled, File
<1> QED
  BY <1>2, <1>3, FileTypes DEF Image

\* The mounts that have been made, by kind.
LEMMA MadeIs ==
  ASSUME conf \in MountSpec, NEW m \in Made
  PROVE  \/ m.fs \notin {"overlay", "none"}
         \/ \E q \in EphemeralPaths : m = OverlayPath(OverlayDir, q)
         \/ \E s \in PersistentDone : m = PersistentMount(s)
<1>1. m \in ToSet(InitialMounts) => m.fs \notin {"overlay", "none"}
  BY InitialTable
<1>2. \A v : VolumeMount(v).fs = "auto"
  BY DEF VolumeMount
<1>3. EphemeralStore.fs \in {"tmpfs", "block"}
  BY DEF EphemeralStore, MountSpec
<1>4. EphemeralDone \subseteq EphemeralPaths
  BY DEF EphemeralDone
<1> QED
  BY <1>1, <1>2, <1>3, <1>4 DEF Made

\* The mounts over a path; the root is one of them.
LEMMA OverIs ==
  ASSUME MountInv, pc \in AfterVolumes, NEW p \in Path
  PROVE  /\ Len(mounts) \in Nat /\ Over(p) \in SUBSET (1..Len(mounts))
         /\ \A i \in Over(p) : mounts[i] \in Made /\ Covers(mounts[i].at, p)
         /\ \E i \in Over(p) : mounts[i].fs = "root"
<1>1. mounts \in Seq(MountRec) /\ ToSet(mounts) = Made
  BY DEF MountInv, Kinds, Table, VolumesIn
<1>2. DOMAIN mounts = 1..Len(mounts) /\ Len(mounts) \in Nat
  BY <1>1, LenProperties
<1>3. Made = {mounts[i] : i \in 1..Len(mounts)}
  BY <1>1, <1>2 DEF ToSet
<1>4. PICK m \in Made : m.at = <<>> /\ m.fs = "root"
  BY InitialTable DEF Made
<1>5. Covers(<<>>, p)
  <2>1. <<>> \in Path /\ Len(<<>>) = 0 /\ Len(p) \in Nat
    BY PathTypes, LenProperties DEF Path
  <2> QED
    BY <2>1, CoversIs
<1> QED
  BY <1>2, <1>3, <1>4, <1>5 DEF Over

\* What is read at a persistent path is in the store of a persistent path over
\* it, in that of an ephemeral one, or in the image.
LEMMA ReadIs ==
  ASSUME MountInv, Typed, pc \in AfterEphemeral, NEW p \in PersistentPaths, NEW f \in Files
  PROVE  /\ Read(p, f) \in FileRec
         /\ \/ \E s \in PersistentDone :
                 /\ Covers(s, p) /\ Read(p, f) = persist[s][p][f]
                 /\ conf.pmode = "bind" \/ Read(p, f) # NoFile
            \/ Read(p, f) = ephem[p][f] /\ Read(p, f) # NoFile
            \/ Read(p, f) = Image(f)
         /\ (p \in PersistentDone /\ (conf.pmode = "bind" \/ persist[p][p][f] # NoFile))
              => Read(p, f) = persist[p][p][f]
<1>1. conf \in MountSpec /\ mounts \in Seq(MountRec) /\ pc \in AfterVolumes /\ p \in Path
  BY PathTypes DEF MountInv, Kinds, AfterVolumes, Configured
<1>2. /\ Len(mounts) \in Nat /\ Over(p) \in SUBSET (1..Len(mounts))
      /\ \A i \in Over(p) : mounts[i] \in Made /\ Covers(mounts[i].at, p)
      /\ \E i \in Over(p) : mounts[i].fs = "root"
  BY <1>1, OverIs
<1>3. Showing(p, f) \in SUBSET (1..Len(mounts)) /\ Showing(p, f) # {} /\ Showing(p, f) \subseteq Over(p)
  BY <1>2 DEF Showing
<1> DEFINE k == Max(Showing(p, f))
           m == mounts[k]
<1>4. k \in Showing(p, f) /\ \A i \in Showing(p, f) : i <= k
  BY <1>2, <1>3, MaxIs
<1>5. /\ m \in Made /\ Covers(m.at, p)
      /\ m.fs # "overlay" \/ Content(m, p, f) # NoFile
  BY <1>2, <1>3, <1>4 DEF Showing
<1>6. Read(p, f) = Content(m, p, f)
  BY DEF Read
<1>7. PersistentDone \subseteq PersistentPaths
  BY DEF PersistentDone, PersistentNow
<1>8. ASSUME NEW s \in PersistentPaths
      PROVE  /\ PersistentMount(s).at = s
             /\ PersistentMount(s).fs = (IF conf.pmode = "bind" THEN "none" ELSE "overlay")
             /\ Content(PersistentMount(s), p, f) = persist[s][p][f]
  BY <1>1, MountTypes DEF Content
<1>9. conf.pmode \in {"bind", "overlay"}
  BY <1>1 DEF MountSpec
<1> HIDE DEF k, m
<1>10. \/ \E s \in PersistentDone :
            /\ Covers(s, p) /\ Read(p, f) = persist[s][p][f]
            /\ conf.pmode = "bind" \/ Read(p, f) # NoFile
       \/ Read(p, f) = ephem[p][f] /\ Read(p, f) # NoFile
       \/ Read(p, f) = Image(f)
  <2>1. CASE m.fs \notin {"overlay", "none"}
    <3>1. ~FromPersistent(m) /\ ~FromEphemeral(m)
      BY <1>1, <2>1, MountTypes
    <3> QED
      BY <1>6, <3>1 DEF Content
  <2>2. ASSUME NEW q \in EphemeralPaths, m = OverlayPath(OverlayDir, q)
        PROVE  Read(p, f) = ephem[p][f] /\ Read(p, f) # NoFile
    <3>1. m.fs = "overlay" /\ ~FromPersistent(m) /\ FromEphemeral(m)
      BY <1>1, <2>2, MountTypes
    <3> QED
      BY <1>5, <1>6, <3>1 DEF Content
  <2>3. ASSUME NEW s \in PersistentDone, m = PersistentMount(s)
        PROVE  /\ Covers(s, p) /\ Read(p, f) = persist[s][p][f]
               /\ conf.pmode = "bind" \/ Read(p, f) # NoFile
    <3>1. /\ m.at = s /\ Content(m, p, f) = persist[s][p][f]
          /\ conf.pmode # "bind" => m.fs = "overlay"
      BY <1>7, <1>8, <2>3
    <3> QED
      BY <1>5, <1>6, <3>1
  <2> QED
    BY <1>1, <1>5, <2>1, <2>2, <2>3, MadeIs
<1>11. Read(p, f) \in FileRec
  <2>1. ephem[p][f] \in FileRec /\ \A s \in PersistentPaths : persist[s][p][f] \in FileRec
    BY DEF Typed, Store
  <2>2. Image(f) \in FileRec
    BY ImageIs
  <2> QED
    BY <1>7, <1>10, <2>1, <2>2
<1>12. ASSUME p \in PersistentDone, conf.pmode = "bind" \/ persist[p][p][f] # NoFile
       PROVE  Read(p, f) = persist[p][p][f]
  <2> DEFINE n == Max(Over(p))
  <2>1. SeenThrough(mounts, p, PersistentMount(p))
    BY <1>12 DEF MountInv, PersistentIn
  <2>2. mounts[n] = PersistentMount(p) /\ n \in Over(p) /\ \A j \in Over(p) : j <= n
    BY <1>1, <2>1, SeenServed DEF Served
  <2> HIDE DEF n
  <2>3. n \in Showing(p, f)
    BY <1>8, <1>12, <2>2 DEF Showing
  <2>4. k = n
    <3>1. k <= n /\ n <= k
      BY <1>3, <1>4, <2>2, <2>3
    <3>2. k \in Nat /\ n \in Nat
      BY <1>3, <1>4, <2>3
    <3> QED
      BY <3>1, <3>2
  <2> QED
    BY <1>6, <1>8, <2>2, <2>4 DEF m
<1> QED
  BY <1>10, <1>11, <1>12

\* Which paths the persistent volume serves, once RunMount has made its mounts.
LEMMA ServedIs ==
  ASSUME MountInv, pc \in Late, NEW p \in PersistentPaths
  PROVE  /\ FromPersistent(Served(p)) <=> HasPersistent
         /\ HasPersistent => Served(p).at = p /\ p \in PersistentDone
<1>1. mounts \in Seq(MountRec) /\ conf \in MountSpec /\ p \in Path /\ pc \in AfterVolumes
  BY PathTypes DEF MountInv, Kinds, AfterVolumes, AfterEphemeral, Configured
<1>2. CASE HasPersistent
  <2>1. p \in PersistentDone
    BY <1>2 DEF PersistentDone, PersistentNow, Late
  <2>2. SeenThrough(mounts, p, PersistentMount(p))
    BY <2>1 DEF MountInv, PersistentIn, AfterEphemeral
  <2>3. Served(p) = PersistentMount(p)
    BY <1>1, <2>2, SeenServed
  <2> QED
    BY <1>1, <1>2, <2>1, <2>3, MountTypes
<1>3. CASE ~HasPersistent
  <2>1. Served(p) \in Made
    <3>1. /\ Len(mounts) \in Nat /\ Over(p) \in SUBSET (1..Len(mounts)) /\ Over(p) # {}
          /\ \A i \in Over(p) : mounts[i] \in Made
      BY <1>1, OverIs
    <3>2. Max(Over(p)) \in Over(p)
      BY <3>1, MaxIs
    <3> QED
      BY <3>1, <3>2 DEF Served
  <2>2. PersistentDone = {}
    BY <1>3 DEF PersistentDone, PersistentNow
  <2>3. Served(p).fs \notin {"overlay", "none"} \/ \E q \in EphemeralPaths : Served(p) = OverlayPath(OverlayDir, q)
    BY <1>1, <2>1, <2>2, MadeIs
  <2>4. ~FromPersistent(Served(p))
    BY <1>1, <2>3, MountTypes
  <2> QED
    BY <1>3, <2>4
<1> QED
  BY <1>2, <1>3

-----------------------------------------------------------------------------
(* What the steps do to a store.                                           *)

\* What mounting a persistent path does to the files behind it: a file is copied
\* from below when it is different there, and only to a bind mount.
LEMMA SyncStep ==
  ASSUME MountInv, Typed, NEW p \in PersistentPaths, MountPersistentPath(p)
  PROVE  /\ persist' \in [PersistentPaths -> Store]
         /\ \A s \in PersistentPaths \ {p} : persist'[s] = persist[s]
         /\ \A q \in PersistentPaths, f \in Files :
              \/ persist'[p][q][f] = persist[p][q][f]
              \/ /\ conf.pmode = "bind" /\ Covers(p, q)
                 /\ Read(q, f) # NoFile /\ Read(q, f).data # persist[p][q][f].data
                 /\ persist'[p][q][f] = File(Read(q, f).data, FALSE)
         /\ (conf.pmode = "bind" /\ pc' # "failed") =>
              \A q \in PersistentPaths, f \in Files :
                Covers(p, q) /\ Read(q, f) # NoFile => persist'[p][q][f].data = Read(q, f).data
<1> DEFINE base(q) == [f \in Files |-> Read(q, f)]
           synced  == [q \in PersistentPaths |->
                         IF conf.pmode = "bind" /\ Covers(p, q) THEN SyncData(persist[p][q], base(q)) ELSE persist[p][q]]
           part(done) == [q \in PersistentPaths |-> [f \in Files |->
                            IF <<q, f>> \in done THEN synced[q][f] ELSE persist[p][q][f]]]
<1>1. pc = "persistent" /\ pc \in AfterEphemeral
  BY DEF MountPersistentPath, AfterEphemeral
<1>2. /\ persist \in [PersistentPaths -> Store] /\ persist[p] \in Store
      /\ \A q \in PersistentPaths : persist[p][q] \in [Files -> FileRec]
      /\ \A q \in PersistentPaths, f \in Files : persist[p][q][f] \in FileRec /\ Read(q, f) \in FileRec
  BY <1>1, ReadIs DEF Typed, Store
<1>3. ASSUME NEW q \in PersistentPaths
      PROVE  /\ synced[q] \in [Files -> FileRec]
             /\ \A f \in Files :
                  \/ synced[q][f] = persist[p][q][f]
                  \/ /\ conf.pmode = "bind" /\ Covers(p, q)
                     /\ Read(q, f) # NoFile /\ Read(q, f).data # persist[p][q][f].data
                     /\ synced[q][f] = File(Read(q, f).data, FALSE)
             /\ conf.pmode = "bind" /\ Covers(p, q) =>
                  \A f \in Files : Read(q, f) # NoFile => synced[q][f].data = Read(q, f).data
  <2>1. CASE conf.pmode = "bind" /\ Covers(p, q)
    <3>1. synced[q] = [f \in Files |-> IF Read(q, f) = NoFile \/ Read(q, f).data = persist[p][q][f].data
                                       THEN persist[p][q][f] ELSE File(Read(q, f).data, FALSE)]
      BY <2>1 DEF SyncData
    <3> HIDE DEF synced
    <3>2. \A f \in Files : Read(q, f) # NoFile => File(Read(q, f).data, FALSE) \in FileRec /\ File(Read(q, f).data, FALSE).data = Read(q, f).data
      BY <1>2, FileIs, FileTypes
    <3> QED
      BY <1>2, <2>1, <3>1, <3>2
  <2>2. CASE ~ (conf.pmode = "bind" /\ Covers(p, q))
    <3>1. synced[q] = persist[p][q]
      BY <2>2
    <3> QED
      BY <1>2, <2>2, <3>1
  <2> QED
    BY <2>1, <2>2
<1>4. \/ persist' = [persist EXCEPT ![p] = synced]
      \/ pc' = "failed" /\ \E done \in SUBSET (PersistentPaths \X Files) : persist' = [persist EXCEPT ![p] = part(done)]
  BY DEF MountPersistentPath
<1>5. synced \in Store
  <2>1. synced = [q \in PersistentPaths |-> synced[q]]
    OBVIOUS
  <2> HIDE DEF synced
  <2> QED
    BY <1>3, <2>1 DEF Store
<1>6. ASSUME NEW done
      PROVE  part(done) \in Store /\ \A q \in PersistentPaths, f \in Files : part(done)[q][f] \in {synced[q][f], persist[p][q][f]}
  <2> HIDE DEF synced
  <2>1. \A q \in PersistentPaths, f \in Files : synced[q][f] \in FileRec
    BY <1>3
  <2> QED
    BY <1>2, <2>1 DEF Store
<1> HIDE DEF synced, part
<1>7. ASSUME NEW store \in Store, persist' = [persist EXCEPT ![p] = store]
      PROVE  /\ persist' \in [PersistentPaths -> Store] /\ persist'[p] = store
             /\ \A s \in PersistentPaths \ {p} : persist'[s] = persist[s]
  BY <1>2, <1>7
<1>8. CASE persist' = [persist EXCEPT ![p] = synced]
  <2>1. persist' \in [PersistentPaths -> Store] /\ persist'[p] = synced /\ \A s \in PersistentPaths \ {p} : persist'[s] = persist[s]
    BY <1>5, <1>7, <1>8
  <2> QED
    BY <1>3, <2>1
<1>9. ASSUME NEW done, persist' = [persist EXCEPT ![p] = part(done)], pc' = "failed"
      PROVE  /\ persist' \in [PersistentPaths -> Store]
             /\ \A s \in PersistentPaths \ {p} : persist'[s] = persist[s]
             /\ \A q \in PersistentPaths, f \in Files : persist'[p][q][f] \in {synced[q][f], persist[p][q][f]}
  <2>1. part(done) \in Store /\ \A q \in PersistentPaths, f \in Files : part(done)[q][f] \in {synced[q][f], persist[p][q][f]}
    BY <1>6
  <2>2. /\ persist' \in [PersistentPaths -> Store] /\ persist'[p] = part(done)
        /\ \A s \in PersistentPaths \ {p} : persist'[s] = persist[s]
    BY <1>7, <1>9, <2>1
  <2> QED
    BY <2>1, <2>2
<1>10. CASE pc' = "failed" /\ \E done \in SUBSET (PersistentPaths \X Files) : persist' = [persist EXCEPT ![p] = part(done)]
  <2>1. /\ persist' \in [PersistentPaths -> Store]
        /\ \A s \in PersistentPaths \ {p} : persist'[s] = persist[s]
        /\ \A q \in PersistentPaths, f \in Files : persist'[p][q][f] \in {synced[q][f], persist[p][q][f]}
    BY <1>9, <1>10
  <2>2. ASSUME NEW q \in PersistentPaths, NEW f \in Files
        PROVE  \/ persist'[p][q][f] = persist[p][q][f]
               \/ /\ conf.pmode = "bind" /\ Covers(p, q)
                  /\ Read(q, f) # NoFile /\ Read(q, f).data # persist[p][q][f].data
                  /\ persist'[p][q][f] = File(Read(q, f).data, FALSE)
    <3>1. \/ synced[q][f] = persist[p][q][f]
          \/ /\ conf.pmode = "bind" /\ Covers(p, q)
             /\ Read(q, f) # NoFile /\ Read(q, f).data # persist[p][q][f].data
             /\ synced[q][f] = File(Read(q, f).data, FALSE)
      BY <1>3
    <3>2. persist'[p][q][f] \in {synced[q][f], persist[p][q][f]}
      BY <2>1
    <3> QED
      BY <3>1, <3>2
  <2> QED
    BY <1>10, <2>1, <2>2
<1> QED
  BY <1>4, <1>8, <1>10

\* What the flags of getRelabelPaths do to a store.
LEMMA FlaggedIs ==
  ASSUME NEW store \in Store, NEW paths
  PROVE  /\ Flagged(store, paths) \in Store
         /\ \A p \in PersistentPaths, f \in Files :
              /\ f # "flag" \/ p \notin paths => Flagged(store, paths)[p][f] = store[p][f]
              /\ p \in paths => Flagged(store, paths)[p]["flag"] = File(1, FALSE)
<1>1. "flag" \in Files
  BY DEF Files
<1>2. File(1, FALSE) \in FileRec
  BY FileTypes
<1>3. ASSUME NEW p \in PersistentPaths
      PROVE  /\ store[p] \in [Files -> FileRec]
             /\ Flagged(store, paths)[p] = IF p \in paths THEN [store[p] EXCEPT !["flag"] = File(1, FALSE)] ELSE store[p]
  BY DEF Store, Flagged
<1> QED
  BY <1>1, <1>2, <1>3 DEF Store, Flagged

\* What the relabelling of systemd does to a store.
LEMMA LabelledIs ==
  ASSUME NEW store \in Store, NEW paths
  PROVE  /\ Labelled(store, paths) \in Store
         /\ \A p \in PersistentPaths, f \in Files :
              /\ Labelled(store, paths)[p][f].data = store[p][f].data
              /\ store[p][f] = NoFile => Labelled(store, paths)[p][f] = NoFile
              /\ p \in paths => ~Unlabelled(Labelled(store, paths)[p][f])
              /\ Unlabelled(Labelled(store, paths)[p][f]) => Unlabelled(store[p][f])
<1>1. ASSUME NEW p \in PersistentPaths, NEW f \in Files
      PROVE  LET file == Labelled(store, paths)[p][f]
             IN /\ file \in FileRec /\ file.data = store[p][f].data
                /\ store[p][f] = NoFile => file = NoFile
                /\ p \in paths => ~Unlabelled(file)
                /\ Unlabelled(file) => Unlabelled(store[p][f])
  <2> DEFINE old == store[p][f]
             new == [old EXCEPT !.label = @ \/ old # NoFile]
  <2>1. old \in FileRec
    BY DEF Store
  <2>2. Labelled(store, paths)[p][f] = IF p \in paths THEN new ELSE old
    BY DEF Labelled
  <2> HIDE DEF old
  <2>3. CASE old = NoFile
    <3>1. old \in [data : Int, label : BOOLEAN] /\ ~old.label
      BY <2>3 DEF NoFile, File
    <3>2. new = old
      BY <2>3, <3>1
    <3> QED
      BY <2>1, <2>2, <2>3, <3>2 DEF Unlabelled, old
  <2>4. CASE old # NoFile
    <3>1. old \in [data : 1..Top, label : BOOLEAN]
      BY <2>1, <2>4 DEF FileRec
    <3>2. new \in [data : 1..Top, label : BOOLEAN] /\ new.data = old.data /\ new.label
      BY <2>4, <3>1
    <3> QED
      BY <2>1, <2>2, <2>4, <3>2 DEF Unlabelled, FileRec, old
  <2> QED
    BY <2>3, <2>4
<1>2. Labelled(store, paths) \in Store
  <2>1. \A p \in PersistentPaths : Labelled(store, paths)[p] \in [Files -> FileRec]
    <3> SUFFICES ASSUME NEW p \in PersistentPaths
                 PROVE  Labelled(store, paths)[p] \in [Files -> FileRec]
      OBVIOUS
    <3>1. \A f \in Files : Labelled(store, paths)[p][f] \in FileRec
      BY <1>1
    <3>2. CASE p \in paths
      BY <3>1, <3>2 DEF Labelled
    <3>3. CASE p \notin paths
      BY <3>3 DEF Labelled, Store
    <3> QED
      BY <3>2, <3>3
  <2> QED
    BY <2>1 DEF Labelled, Store
<1> QED
  BY <1>1, <1>2

-----------------------------------------------------------------------------
(* The files, step by step.                                                *)

LEMMA FilesInit == Init => FileInv /\ LabelInv
<1> SUFFICES ASSUME Init PROVE FileInv /\ LabelInv
  OBVIOUS
<1>1. Empty \in Store /\ \A p \in PersistentPaths, f \in Files : Empty[p][f] = NoFile
  BY DEF Store, Empty, FileRec
<1>2. NoFile.data = 0 /\ {"shipped", "own", "flag"} = Files
  BY DEF NoFile, File, Files
<1>3. /\ persist \in [PersistentPaths -> Store] /\ ephem \in Store
      /\ \A s, p \in PersistentPaths, f \in Files : persist[s][p][f] = NoFile /\ ephem[p][f] = NoFile
  BY <1>1 DEF Init
<1>4. wrote \in [PersistentPaths -> [Files -> 0..Top]] /\ \A p \in PersistentPaths, f \in Files : wrote[p][f] = 0
  <2>1. 0 \in 0..Top
    BY FileTypes
  <2> QED
    BY <2>1 DEF Init
<1>5. Typed
  <2>1. 1 \in 1..MaxVersion /\ 0 \in 0..MaxWrites
    BY ConfigAssumption
  <2> QED
    BY <1>3, <1>4, <2>1 DEF Init, Typed
<1>6. EphemeralEmpty /\ Kept /\ StrayIn
  BY <1>2, <1>3, <1>4 DEF Init, EphemeralEmpty, Kept, StrayIn
<1>7. LabelsIn
  BY <1>2, <1>3 DEF LabelsIn, Unlabelled
<1>8. FlagsIn
  BY <1>2, <1>3 DEF Init, FlagsIn
<1> QED
  BY <1>5, <1>6, <1>7, <1>8 DEF FileInv, LabelInv

\* Steps that touch no file.
LEMMA QuietFiles ==
  ASSUME FileInv, LabelInv, UNCHANGED <<disk, relabel>>, pc # "switchroot", pc' \notin {"switchroot", "up"},
         pc' \in Starting => pc \in Starting,
         (pc' \in {"persistent", "fstab", "relabel"} /\ HasPersistent') =>
            \/ PersistentDone' = {}
            \/ HasPersistent /\ pc \in {"persistent", "fstab", "relabel"} /\ PersistentDone' = PersistentDone
  PROVE  FileInv' /\ LabelInv'
<1>1. UNCHANGED <<conf, version, persist, ephem, wrote, writes, stray, cut>>
  BY DEF disk
<1>2. FileInv'
  BY <1>1 DEF FileInv, Typed, EphemeralEmpty, Kept, StrayIn
<1>3. ASSUME LabelsMatter PROVE LabelsIn' /\ FlagsIn'
  <2>1. LabelsIn /\ FlagsIn
    BY <1>3 DEF LabelInv, LabelsMatter
  <2>2. LabelsIn'
    BY <1>1, <2>1 DEF LabelsIn
  <2>3. FlagsIn'
    BY <1>1, <2>1 DEF FlagsIn
  <2> QED
    BY <2>2, <2>3
<1> QED
  BY <1>1, <1>2, <1>3 DEF LabelInv, LabelsMatter

\* What SyncData copies for a path comes from the store of another one, or from
\* the image: of the paths covered by the one at hand none has been mounted.
LEMMA SourceIs ==
  ASSUME MountInv, FileInv, NEW p \in PersistentPaths, MountPersistentPath(p),
         NEW q \in PersistentPaths, Covers(p, q), NEW f \in Files, conf.etype = "tmpfs"
  PROVE  \/ \E s \in PersistentDone : s # q /\ Covers(s, q) /\ Read(q, f) = persist[s][q][f]
         \/ Read(q, f) = Image(f)
<1>1. pc = "persistent" /\ p \in todo /\ pc \in AfterEphemeral /\ pc \in Starting
  BY DEF MountPersistentPath, NextPath, AfterEphemeral, Starting
<1>2. q \notin PersistentDone
  <2> SUFFICES ASSUME q \in PersistentDone PROVE FALSE
    OBVIOUS
  <2>1. Len(q) <= Len(p)
    BY <1>1 DEF MountInv, PersistentIn
  <2>2. p \in Path /\ q \in Path
    BY PathTypes DEF Configured
  <2>3. p = q
    BY <2>1, <2>2, CoversSelf
  <2> QED
    BY <1>1, <2>3 DEF PersistentDone
<1>3. ephem[q][f] = NoFile
  BY <1>1 DEF FileInv, EphemeralEmpty, Empty
<1>4. Typed
  BY DEF FileInv
<1> QED
  BY <1>1, <1>2, <1>3, <1>4, ReadIs

LEMMA MountPersistentPathFiles ==
  ASSUME MountInv, FileInv, LabelInv, NEW p \in PersistentPaths, MountPersistentPath(p)
  PROVE  FileInv' /\ LabelInv'
<1>1. /\ pc = "persistent" /\ pc' \in {"persistent", "failed"} /\ p \in todo
      /\ UNCHANGED <<conf, version, ephem, wrote, writes, stray, cut, mode, relabel>>
      /\ pc' = "persistent" => todo' = todo \ {p}
  BY DEF MountPersistentPath, NextPath
<1>2. Typed /\ Kept /\ StrayIn /\ {"shipped", "own", "flag"} = Files
  BY DEF FileInv, Files
<1>3. /\ persist' \in [PersistentPaths -> Store]
      /\ \A s \in PersistentPaths \ {p} : persist'[s] = persist[s]
  BY <1>2, SyncStep
<1>4. \A q \in PersistentPaths, f \in Files :
        \/ persist'[p][q][f] = persist[p][q][f]
        \/ /\ conf.pmode = "bind" /\ Covers(p, q)
           /\ Read(q, f) # NoFile /\ Read(q, f).data # persist[p][q][f].data
           /\ persist'[p][q][f] = File(Read(q, f).data, FALSE)
  BY <1>2, SyncStep
<1>5. (conf.pmode = "bind" /\ pc' # "failed") =>
        \A q \in PersistentPaths, f \in Files :
          Covers(p, q) /\ Read(q, f) # NoFile => persist'[p][q][f].data = Read(q, f).data
  BY <1>2, SyncStep
<1>6. PersistentDone \subseteq PersistentPaths
  BY DEF PersistentDone, PersistentNow
<1>7. ASSUME conf.etype = "tmpfs", NEW q \in PersistentPaths, Covers(p, q)
      PROVE  Read(q, "flag") = NoFile /\ (q \notin stray => Read(q, "own") = NoFile)
  <2>1. Image("flag") = NoFile /\ Image("own") = NoFile
    BY <1>2, ImageIs
  <2>2. \A s \in PersistentDone : s # q => persist[s][q]["flag"] = NoFile /\ (q \notin stray => persist[s][q]["own"] = NoFile)
    BY <1>2, <1>6, <1>7 DEF StrayIn
  <2>3. \/ \E s \in PersistentDone : s # q /\ Read(q, "flag") = persist[s][q]["flag"]
        \/ Read(q, "flag") = Image("flag")
    BY <1>2, <1>7, SourceIs
  <2>4. \/ \E s \in PersistentDone : s # q /\ Read(q, "own") = persist[s][q]["own"]
        \/ Read(q, "own") = Image("own")
    BY <1>2, <1>7, SourceIs
  <2> QED
    BY <2>1, <2>2, <2>3, <2>4
<1>8. conf.etype = "tmpfs" =>
        \A s, q \in PersistentPaths :
          /\ persist'[s][q]["flag"] = persist[s][q]["flag"]
          /\ q \notin stray => persist'[s][q]["own"] = persist[s][q]["own"]
  <2> SUFFICES ASSUME conf.etype = "tmpfs", NEW s \in PersistentPaths, NEW q \in PersistentPaths
               PROVE  /\ persist'[s][q]["flag"] = persist[s][q]["flag"]
                      /\ q \notin stray => persist'[s][q]["own"] = persist[s][q]["own"]
    OBVIOUS
  <2>1. CASE s # p
    BY <1>3, <2>1
  <2>2. CASE s = p
    <3>1. \/ persist'[p][q]["flag"] = persist[p][q]["flag"]
          \/ Covers(p, q) /\ Read(q, "flag") # NoFile
      BY <1>2, <1>4
    <3>2. \/ persist'[p][q]["own"] = persist[p][q]["own"]
          \/ Covers(p, q) /\ Read(q, "own") # NoFile
      BY <1>2, <1>4
    <3> QED
      BY <1>7, <2>2, <3>1, <3>2
  <2> QED
    BY <2>1, <2>2
<1>9. conf.pmode # "bind" => \A s, q \in PersistentPaths, f \in Files : persist'[s][q][f] = persist[s][q][f]
  BY <1>3, <1>4
<1>10. Typed' /\ EphemeralEmpty'
  <2>1. Typed'
    BY <1>1, <1>2, <1>3 DEF Typed
  <2>2. EphemeralEmpty'
    BY <1>1 DEF FileInv, EphemeralEmpty, Starting
  <2> QED
    BY <2>1, <2>2
<1>11. Kept'
  <2> SUFFICES ASSUME NEW q \in PersistentPaths \ stray, NEW f \in {"shipped", "own"},
                      wrote[q][f] # 0, conf.pmode = "overlay" \/ (f = "own" /\ conf.etype = "tmpfs")
               PROVE  persist'[q][q][f].data = wrote[q][f]
    BY <1>1 DEF Kept
  <2>1. persist[q][q][f].data = wrote[q][f]
    BY <1>2 DEF Kept
  <2>2. persist'[q][q][f] = persist[q][q][f]
    BY <1>2, <1>8, <1>9
  <2> QED
    BY <2>1, <2>2
<1>12. StrayIn'
  <2>1. conf.pmode = "overlay" => \A s, q \in PersistentPaths : persist'[s][q]["shipped"] = persist[s][q]["shipped"]
    BY <1>2, <1>9
  <2> QED
    BY <1>1, <1>2, <1>8, <2>1 DEF StrayIn
<1>13. ASSUME LabelsMatter PROVE LabelsIn' /\ FlagsIn'
  <2>1. LabelsIn /\ FlagsIn /\ conf.etype = "tmpfs" /\ version = 1
    BY <1>13 DEF LabelInv, LabelsMatter
  <2>2. /\ \A q \in PersistentPaths : persist[p][q]["shipped"] \in FileRec
        /\ \A q \in PersistentPaths : Read(q, "shipped") \in FileRec
    BY <1>1, <1>2, ReadIs DEF Typed, Store, AfterEphemeral
  <2>3. ASSUME NEW q \in PersistentPaths, Covers(p, q)
        PROVE  /\ q \notin stray => Read(q, "shipped").data \in {0, 1}
               /\ (conf.pmode = "bind" /\ HasPersistent) => Read(q, "shipped") # NoFile
    <3>1. Image("shipped") # NoFile /\ Image("shipped").data = 1
      BY <1>2, <2>1, ImageIs
    <3>2. \/ \E s \in PersistentDone : s # q /\ Covers(s, q) /\ Read(q, "shipped") = persist[s][q]["shipped"]
          \/ Read(q, "shipped") = Image("shipped")
      BY <1>2, <2>1, <2>3, SourceIs
    <3>3. \A s \in PersistentDone : s # q /\ Covers(s, q) =>
            /\ q \notin stray => persist[s][q]["shipped"].data \in {0, 1}
            /\ (conf.pmode = "bind" /\ HasPersistent) => persist[s][q]["shipped"] # NoFile
      BY <1>1, <1>6, <2>1 DEF LabelsIn, FlagsIn
    <3> QED
      BY <3>1, <3>2, <3>3
  <2>4. ASSUME NEW q \in PersistentPaths
        PROVE  \/ persist'[p][q]["shipped"] = persist[p][q]["shipped"]
               \/ /\ conf.pmode = "bind" /\ persist'[p][q]["shipped"] # NoFile
                  /\ q \notin stray => /\ persist'[p][q]["shipped"].data = 1
                                       /\ persist[p][q]["shipped"].data # 1
    <3> SUFFICES ASSUME persist'[p][q]["shipped"] # persist[p][q]["shipped"]
                 PROVE  /\ conf.pmode = "bind" /\ persist'[p][q]["shipped"] # NoFile
                        /\ q \notin stray => /\ persist'[p][q]["shipped"].data = 1
                                             /\ persist[p][q]["shipped"].data # 1
      OBVIOUS
    <3>1. /\ conf.pmode = "bind" /\ Covers(p, q)
          /\ Read(q, "shipped") # NoFile /\ Read(q, "shipped").data # persist[p][q]["shipped"].data
          /\ persist'[p][q]["shipped"] = File(Read(q, "shipped").data, FALSE)
      BY <1>2, <1>4
    <3>2. Read(q, "shipped").data \in 1..Top
      BY <2>2, <3>1, FileIs
    <3>3. persist'[p][q]["shipped"] # NoFile /\ persist'[p][q]["shipped"].data = Read(q, "shipped").data
      BY <3>1, <3>2, FileTypes
    <3>4. q \notin stray => Read(q, "shipped").data = 1
      BY <2>3, <3>1, <3>2, FileTypes
    <3> QED
      BY <3>1, <3>3, <3>4
  <2>5. LabelsIn'
    <3>1. \A q \in PersistentPaths, f \in {"shipped", "own"} : ~Unlabelled(ephem'[q][f])
      BY <1>1, <2>1 DEF LabelsIn
    <3>2. ASSUME NEW q \in PersistentPaths \ stray
          PROVE  /\ ~Unlabelled(persist'[q][q]["own"])
                 /\ \A s \in PersistentPaths \ {q} : persist'[s][q]["shipped"].data \in {0, 1}
                 /\ wrote[q]["shipped"] = 0 =>
                      /\ persist'[q][q]["shipped"].data \in {0, 1}
                      /\ Unlabelled(persist'[q][q]["shipped"]) => persist'[q][q]["flag"] = NoFile
      <4>1. /\ ~Unlabelled(persist[q][q]["own"])
            /\ \A s \in PersistentPaths \ {q} : persist[s][q]["shipped"].data \in {0, 1}
            /\ wrote[q]["shipped"] = 0 =>
                 /\ persist[q][q]["shipped"].data \in {0, 1}
                 /\ Unlabelled(persist[q][q]["shipped"]) => persist[q][q]["flag"] = NoFile
        BY <1>1, <2>1 DEF LabelsIn
      <4>2. /\ persist'[q][q]["own"] = persist[q][q]["own"]
            /\ persist'[q][q]["flag"] = persist[q][q]["flag"]
        BY <1>8, <2>1
      <4>3. \A s \in PersistentPaths \ {q} : persist'[s][q]["shipped"].data \in {0, 1}
        BY <1>3, <2>4, <4>1
      <4>4. ASSUME wrote[q]["shipped"] = 0, persist'[q][q]["shipped"] # persist[q][q]["shipped"]
            PROVE  persist'[q][q]["shipped"].data = 1 /\ persist[q][q]["flag"] = NoFile
        <5>1. q = p
          BY <1>3, <4>4
        <5>2. /\ conf.pmode = "bind" /\ persist'[q][q]["shipped"].data = 1 /\ persist[q][q]["shipped"].data # 1
          BY <2>4, <4>4, <5>1
        <5>3. persist[q][q]["shipped"] = NoFile
          BY <2>2, <4>1, <4>4, <5>1, <5>2, FileIs
        <5> QED
          BY <2>1, <5>2, <5>3 DEF FlagsIn
      <4> QED
        BY <4>1, <4>2, <4>3, <4>4
    <3> QED
      BY <1>1, <3>1, <3>2 DEF LabelsIn
  <2>6. FlagsIn'
    <3>1. \A s, q \in PersistentPaths : persist[s][q]["shipped"] # NoFile => persist'[s][q]["shipped"] # NoFile
      BY <1>3, <2>4
    <3>2. \A q \in PersistentPaths : persist'[q][q]["flag"] = persist[q][q]["flag"]
      BY <1>8, <2>1
    <3>3. ASSUME conf.pmode = "bind", pc' = "persistent", HasPersistent,
                 NEW s \in PersistentDone', NEW q \in PersistentPaths, Covers(s, q)
          PROVE  persist'[s][q]["shipped"] # NoFile
      <4>1. s \in PersistentDone \/ s = p
        BY <1>1, <3>3 DEF PersistentDone, PersistentNow, HasPersistent
      <4>2. CASE s \in PersistentDone
        <5>1. persist[s][q]["shipped"] # NoFile
          BY <1>1, <2>1, <3>3, <4>2 DEF FlagsIn
        <5> QED
          BY <1>6, <3>1, <4>2, <5>1
      <4>3. CASE s = p
        <5>1. Read(q, "shipped") # NoFile /\ persist'[p][q]["shipped"].data = Read(q, "shipped").data
          BY <1>2, <1>5, <2>3, <3>3, <4>3
        <5>2. Read(q, "shipped").data # 0
          BY <2>2, <5>1, FileIs
        <5> QED
          BY <4>3, <5>1, <5>2, FileTypes
      <4> QED
        BY <4>1, <4>2, <4>3
    <3> QED
      BY <1>1, <2>1, <3>1, <3>2, <3>3 DEF FlagsIn, HasPersistent
  <2> QED
    BY <2>5, <2>6
<1> QED
  BY <1>1, <1>10, <1>11, <1>12, <1>13 DEF FileInv, LabelInv, LabelsMatter

\* The paths that are seen through the store of s: its own, if any.
LEMMA ThroughIs ==
  ASSUME MountInv, pc \in Late, NEW paths \in SUBSET PersistentPaths, NEW s \in PersistentPaths
  PROVE  /\ Through(s, paths) \subseteq {s}
         /\ s \in Through(s, paths) <=> HasPersistent /\ s \in paths
BY ServedIs DEF Through

LEMMA SelinuxRelabelFiles ==
  ASSUME MountInv, FileInv, LabelInv, SelinuxRelabel
  PROVE  FileInv' /\ LabelInv'
<1>1. /\ pc = "relabel" /\ pc' \in {"switchroot", "failed"} /\ pc \in Late
      /\ UNCHANGED <<conf, version, wrote, writes, stray, mode, todo, mounts>>
  BY DEF SelinuxRelabel, Late
<1>2. Typed /\ ephem \in Store /\ {"shipped", "own", "flag"} = Files
  BY DEF FileInv, Typed, Files
<1>3. CASE ~conf.selinux
  <2>1. UNCHANGED <<persist, ephem, relabel, cut>> /\ pc' = "switchroot"
    BY <1>3 DEF SelinuxRelabel
  <2>2. FileInv'
    BY <1>1, <2>1 DEF FileInv, Typed, EphemeralEmpty, Starting, Kept, StrayIn
  <2>3. ~LabelsMatter'
    BY <1>1, <1>3 DEF LabelsMatter
  <2> QED
    BY <2>2, <2>3 DEF LabelInv
<1>4. CASE conf.selinux
  <2> DEFINE E == {p \in Unflagged : FromEphemeral(Served(p))}
  <2>1. /\ persist' = [s \in PersistentPaths |-> Flagged(persist[s], Through(s, Unflagged))]
        /\ ephem' = Flagged(ephem, E)
        /\ \/ pc' = "switchroot" /\ relabel' = Unflagged /\ cut' = cut
           \/ pc' = "failed" /\ cut' = TRUE /\ relabel' = relabel
    BY <1>4 DEF SelinuxRelabel
  <2>2. Unflagged \in SUBSET PersistentPaths
    BY DEF Unflagged
  <2>3. ASSUME NEW s \in PersistentPaths
        PROVE  /\ persist'[s] \in Store
               /\ \A p \in PersistentPaths :
                    /\ persist'[s][p]["shipped"] = persist[s][p]["shipped"]
                    /\ persist'[s][p]["own"] = persist[s][p]["own"]
                    /\ p # s => persist'[s][p]["flag"] = persist[s][p]["flag"]
               /\ (HasPersistent /\ s \in Unflagged) => persist'[s][s]["flag"] = File(1, FALSE)
               /\ ~ (HasPersistent /\ s \in Unflagged) => persist'[s][s]["flag"] = persist[s][s]["flag"]
    <3> DEFINE P == Through(s, Unflagged)
    <3>1. P \subseteq {s} /\ (s \in P <=> HasPersistent /\ s \in Unflagged)
      BY <1>1, <2>2, ThroughIs
    <3>2. persist[s] \in Store /\ persist'[s] = Flagged(persist[s], P)
      BY <1>2, <2>1 DEF Typed
    <3> HIDE DEF P
    <3>3. /\ persist'[s] \in Store
          /\ \A p \in PersistentPaths, f \in Files :
               /\ f # "flag" \/ p \notin P => persist'[s][p][f] = persist[s][p][f]
               /\ p \in P => persist'[s][p]["flag"] = File(1, FALSE)
      BY <3>2, FlaggedIs DEF File
    <3> QED
      BY <1>2, <3>1, <3>3
  <2>4. /\ persist' \in [PersistentPaths -> Store] /\ ephem' \in Store
        /\ \A p \in PersistentPaths : ephem'[p]["shipped"] = ephem[p]["shipped"] /\ ephem'[p]["own"] = ephem[p]["own"]
    <3> HIDE DEF E
    <3>1. persist' = [s \in PersistentPaths |-> persist'[s]]
      BY <2>1
    <3>2. persist' \in [PersistentPaths -> Store]
      BY <2>3, <3>1
    <3>3. /\ ephem' \in Store
          /\ \A p \in PersistentPaths, f \in Files : f # "flag" => ephem'[p][f] = ephem[p][f]
      BY <1>2, <2>1, FlaggedIs DEF File
    <3> QED
      BY <1>2, <3>2, <3>3
  <2>5. Typed' /\ EphemeralEmpty'
    <3>1. cut' \in BOOLEAN
      BY <1>2, <2>1 DEF Typed
    <3>2. Typed'
      BY <1>1, <1>2, <2>1, <2>2, <2>4, <3>1 DEF Typed
    <3>3. EphemeralEmpty'
      BY <1>1 DEF EphemeralEmpty, Starting
    <3> QED
      BY <3>2, <3>3
  <2>6. Kept' /\ StrayIn'
    <3>0. \A s, p \in PersistentPaths :
            /\ persist'[s][p]["shipped"] = persist[s][p]["shipped"]
            /\ persist'[s][p]["own"] = persist[s][p]["own"]
            /\ p # s => persist'[s][p]["flag"] = persist[s][p]["flag"]
      BY <2>3
    <3>1. Kept'
      <4>1. \A p \in PersistentPaths, f \in {"shipped", "own"} : persist'[p][p][f] = persist[p][p][f]
        BY <3>0
      <4> QED
        BY <1>1, <4>1 DEF FileInv, Kept
    <3>2. StrayIn'
      BY <1>1, <3>0 DEF FileInv, StrayIn
    <3> QED
      BY <3>1, <3>2
  <2>7. ASSUME LabelsMatter' PROVE LabelsIn' /\ FlagsIn'
    <3>1. pc' = "switchroot" /\ relabel' = Unflagged /\ LabelsMatter
      BY <1>1, <2>1, <2>7 DEF LabelsMatter
    <3>2. LabelsIn /\ FlagsIn /\ ephem = Empty /\ HasPersistent' = HasPersistent /\ conf.etype = "tmpfs"
      BY <1>1, <3>1 DEF LabelInv, LabelsMatter, FileInv, EphemeralEmpty, Starting, HasPersistent
    <3>3. ASSUME NEW p \in PersistentPaths, HasPersistent
          PROVE  p \in Unflagged <=> persist[p][p]["flag"] = NoFile
      <4>1. p \in PersistentDone /\ pc \in AfterEphemeral /\ PersistentDone \subseteq PersistentPaths /\ conf.pmode \in {"bind", "overlay"}
        BY <1>1, <3>3, ServedIs DEF AfterEphemeral, PersistentDone, PersistentNow, MountInv, Kinds, MountSpec
      <4>2. persist[p][p]["flag"] # NoFile => Read(p, "flag") = persist[p][p]["flag"]
        BY <1>2, <4>1, ReadIs
      <4>3. ASSUME persist[p][p]["flag"] = NoFile PROVE Read(p, "flag") = NoFile
        <5>1. \/ \E s \in PersistentDone : Read(p, "flag") = persist[s][p]["flag"]
              \/ Read(p, "flag") = ephem[p]["flag"]
              \/ Read(p, "flag") = Image("flag")
          BY <1>2, <4>1, ReadIs
        <5>2. \A s \in PersistentDone : persist[s][p]["flag"] = NoFile
          BY <3>2, <4>1, <4>3 DEF FileInv, StrayIn
        <5>3. ephem[p]["flag"] = NoFile /\ Image("flag") = NoFile
          BY <1>2, <3>2, ImageIs DEF Empty
        <5> QED
          BY <5>1, <5>2, <5>3
      <4> QED
        BY <4>2, <4>3 DEF Unflagged
    <3>4. File(1, FALSE) # NoFile
      BY FileTypes
    <3>5. LabelsIn'
      <4>1. \A p \in PersistentPaths, f \in {"shipped", "own"} : ~Unlabelled(ephem'[p][f])
        BY <2>4, <3>2 DEF LabelsIn
      <4>2. ASSUME NEW p \in PersistentPaths \ stray
            PROVE  /\ ~Unlabelled(persist'[p][p]["own"])
                   /\ \A s \in PersistentPaths \ {p} : persist'[s][p]["shipped"].data \in {0, 1}
                   /\ wrote[p]["shipped"] = 0 =>
                        /\ persist'[p][p]["shipped"].data \in {0, 1}
                        /\ Unlabelled(persist'[p][p]["shipped"]) =>
                             persist'[p][p]["flag"] = NoFile \/ (HasPersistent /\ p \in relabel')
        <5>1. /\ ~Unlabelled(persist[p][p]["own"])
              /\ \A s \in PersistentPaths \ {p} : persist[s][p]["shipped"].data \in {0, 1}
              /\ wrote[p]["shipped"] = 0 =>
                   /\ persist[p][p]["shipped"].data \in {0, 1}
                   /\ Unlabelled(persist[p][p]["shipped"]) => persist[p][p]["flag"] = NoFile
          BY <1>1, <3>2 DEF LabelsIn
        <5> QED
          BY <2>3, <3>1, <3>3, <5>1
      <4> QED
        BY <1>1, <3>1, <3>2, <4>1, <4>2 DEF LabelsIn
    <3>6. FlagsIn'
      <4>1. ASSUME conf.pmode = "bind", NEW p \in PersistentPaths, persist'[p][p]["flag"] # NoFile
            PROVE  persist'[p][p]["shipped"] # NoFile
        <5>1. CASE persist[p][p]["flag"] # NoFile
          BY <2>3, <3>2, <4>1, <5>1 DEF FlagsIn
        <5>2. CASE persist[p][p]["flag"] = NoFile
          <6>1. HasPersistent
            BY <2>3, <4>1, <5>2
          <6>2. p \in PersistentDone /\ Covers(p, p)
            BY <1>1, <6>1, ServedIs, PathTypes, CoversSelf DEF Configured
          <6>3. persist[p][p]["shipped"] # NoFile
            BY <1>1, <3>2, <4>1, <6>1, <6>2 DEF FlagsIn
          <6> QED
            BY <2>3, <6>3
        <5> QED
          BY <5>1, <5>2
      <4>2. HasPersistent => \A p \in PersistentPaths : persist'[p][p]["flag"] # NoFile
        BY <2>3, <3>3, <3>4
      <4> QED
        BY <1>1, <3>1, <3>2, <4>1, <4>2 DEF FlagsIn
    <3> QED
      BY <3>5, <3>6
  <2> QED
    BY <2>5, <2>6, <2>7 DEF FileInv, LabelInv
<1> QED
  BY <1>3, <1>4

LEMMA SwitchRootFiles ==
  ASSUME MountInv, FileInv, LabelInv, SwitchRoot
  PROVE  FileInv' /\ LabelInv'
<1> DEFINE E == {p \in relabel : FromEphemeral(Served(p))}
<1>1. /\ pc = "switchroot" /\ pc' = "up" /\ pc \in Late
      /\ UNCHANGED <<conf, version, wrote, writes, stray, cut, mode, relabel>>
      /\ persist' = [s \in PersistentPaths |-> Labelled(persist[s], Through(s, relabel))] /\ ephem' = Labelled(ephem, E)
  BY DEF SwitchRoot, Go, Late
<1>2. Typed /\ ephem \in Store /\ {"shipped", "own", "flag"} = Files /\ relabel \in SUBSET PersistentPaths
  BY DEF FileInv, Typed, Files
<1> HIDE DEF E
<1>3. ASSUME NEW s \in PersistentPaths
      PROVE  /\ persist'[s] \in Store
             /\ \A p \in PersistentPaths, f \in Files :
                  /\ persist'[s][p][f].data = persist[s][p][f].data
                  /\ persist[s][p][f] = NoFile <=> persist'[s][p][f] = NoFile
                  /\ Unlabelled(persist'[s][p][f]) => Unlabelled(persist[s][p][f])
             /\ HasPersistent /\ s \in relabel => \A f \in Files : ~Unlabelled(persist'[s][s][f])
  <2> DEFINE P == Through(s, relabel)
  <2>1. HasPersistent /\ s \in relabel => s \in P
    BY <1>1, <1>2, ThroughIs
  <2>2. persist[s] \in Store /\ persist'[s] = Labelled(persist[s], P)
    BY <1>1, <1>2 DEF Typed
  <2> HIDE DEF P
  <2>3. /\ persist'[s] \in Store
        /\ \A p \in PersistentPaths, f \in Files :
             /\ persist'[s][p][f].data = persist[s][p][f].data
             /\ p \in P => ~Unlabelled(persist'[s][p][f])
             /\ Unlabelled(persist'[s][p][f]) => Unlabelled(persist[s][p][f])
    BY <2>2, LabelledIs
  <2>4. \A p \in PersistentPaths, f \in Files : persist[s][p][f] \in FileRec /\ persist'[s][p][f] \in FileRec
    BY <2>2, <2>3 DEF Store
  <2>5. \A p \in PersistentPaths, f \in Files :
           /\ persist[s][p][f].data = 0 <=> persist[s][p][f] = NoFile
           /\ persist'[s][p][f].data = 0 <=> persist'[s][p][f] = NoFile
    BY <2>4, FileIs
  <2>6. \A p \in PersistentPaths, f \in Files : persist[s][p][f] = NoFile <=> persist'[s][p][f] = NoFile
    BY <2>3, <2>5
  <2> QED
    BY <2>1, <2>3, <2>6
<1>4. /\ persist' \in [PersistentPaths -> Store] /\ ephem' \in Store
      /\ \A p \in PersistentPaths, f \in Files : Unlabelled(ephem'[p][f]) => Unlabelled(ephem[p][f])
  <2>1. persist' = [s \in PersistentPaths |-> persist'[s]]
    BY <1>1
  <2>2. persist' \in [PersistentPaths -> Store]
    BY <1>3, <2>1
  <2>3. ephem' \in Store /\ \A p \in PersistentPaths, f \in Files : Unlabelled(ephem'[p][f]) => Unlabelled(ephem[p][f])
    BY <1>1, <1>2, LabelledIs
  <2> QED
    BY <2>2, <2>3
<1>5. Typed' /\ EphemeralEmpty'
  <2>1. Typed'
    BY <1>1, <1>2, <1>4 DEF Typed
  <2>2. EphemeralEmpty'
    BY <1>1 DEF EphemeralEmpty, Starting
  <2> QED
    BY <2>1, <2>2
<1>6. Kept' /\ StrayIn'
  <2>1. \A s, p \in PersistentPaths, f \in {"shipped", "own"} : persist'[s][p][f].data = persist[s][p][f].data
    BY <1>2, <1>3
  <2>2. Kept'
    BY <1>1, <2>1 DEF FileInv, Kept
  <2>3. StrayIn'
    BY <1>1, <1>2, <1>3 DEF FileInv, StrayIn
  <2> QED
    BY <2>2, <2>3
<1>7. ASSUME LabelsMatter' PROVE LabelsIn' /\ FlagsIn'
  <2>1. LabelsIn /\ FlagsIn /\ HasPersistent' = HasPersistent
    BY <1>1, <1>7 DEF LabelInv, LabelsMatter, HasPersistent
  <2>2. LabelsIn'
    <3>1. \A p \in PersistentPaths, f \in {"shipped", "own"} : ~Unlabelled(ephem'[p][f])
      BY <1>2, <1>4, <2>1 DEF LabelsIn
    <3>2. ASSUME NEW p \in PersistentPaths \ stray
          PROVE  /\ ~Unlabelled(persist'[p][p]["own"])
                 /\ \A s \in PersistentPaths \ {p} : persist'[s][p]["shipped"].data \in {0, 1}
                 /\ wrote[p]["shipped"] = 0 =>
                      /\ persist'[p][p]["shipped"].data \in {0, 1}
                      /\ Unlabelled(persist'[p][p]["shipped"]) => persist'[p][p]["flag"] = NoFile
      <4>1. /\ ~Unlabelled(persist[p][p]["own"])
            /\ \A s \in PersistentPaths \ {p} : persist[s][p]["shipped"].data \in {0, 1}
            /\ wrote[p]["shipped"] = 0 =>
                 /\ persist[p][p]["shipped"].data \in {0, 1}
                 /\ Unlabelled(persist[p][p]["shipped"]) =>
                      persist[p][p]["flag"] = NoFile \/ (HasPersistent /\ p \in relabel)
        BY <2>1 DEF LabelsIn
      <4> QED
        BY <1>2, <1>3, <4>1
    <3> QED
      BY <1>1, <3>1, <3>2 DEF LabelsIn
  <2>3. FlagsIn'
    <3>1. /\ \A p \in PersistentPaths : persist'[p][p]["flag"] = NoFile <=> persist[p][p]["flag"] = NoFile
          /\ \A p \in PersistentPaths : persist'[p][p]["shipped"] = NoFile <=> persist[p][p]["shipped"] = NoFile
      BY <1>2, <1>3
    <3> QED
      BY <1>1, <2>1, <3>1 DEF FlagsIn
  <2> QED
    BY <2>2, <2>3
<1> QED
  BY <1>5, <1>6, <1>7 DEF FileInv, LabelInv

LEMMA UserWriteFiles ==
  ASSUME MountInv, FileInv, LabelInv, NEW p \in PersistentPaths, NEW f \in Files, UserWrite(p, f)
  PROVE  FileInv' /\ LabelInv'
<1> DEFINE new == File(UserData(writes'), TRUE)
           s   == Served(p).at
<1>1. /\ pc \in {"up", "failed", "disabled"} /\ f \in {"shipped", "own"} /\ writes < MaxWrites /\ writes' = writes + 1
      /\ UNCHANGED <<conf, version, cut, mode, pc, todo, relabel>>
      /\ \/ /\ FromPersistent(Served(p)) /\ persist' = [persist EXCEPT ![s][p][f] = new] /\ ephem' = ephem
            /\ wrote' = IF s = p THEN [wrote EXCEPT ![p][f] = new.data] ELSE wrote
            /\ stray' = IF s = p THEN stray ELSE stray \cup {p}
         \/ ephem' = [ephem EXCEPT ![p][f] = new] /\ persist' = persist /\ wrote' = wrote /\ stray' = stray
  BY DEF UserWrite, Running, Files
<1>2. Typed /\ persist \in [PersistentPaths -> Store] /\ ephem \in Store /\ {"shipped", "own", "flag"} = Files
  BY DEF FileInv, Typed, Files
<1>3. new \in FileRec /\ new.data \in 1..Top /\ ~Unlabelled(new) /\ new # NoFile
  <2>1. UserData(writes') \in 1..Top
    BY <1>1, <1>2, FileTypes DEF UserData, Top, Typed
  <2>2. new \in FileRec /\ new.data = UserData(writes') /\ new # NoFile
    BY <2>1, FileTypes
  <2>3. ~Unlabelled(new)
    BY DEF Unlabelled, File
  <2> QED
    BY <2>1, <2>2, <2>3
<1>4. FromPersistent(Served(p)) => s \in PersistentPaths
  <2>1. conf \in MountSpec
    BY DEF MountInv, Kinds
  <2> QED
    BY <2>1, MountTypes DEF FromPersistent
<1> HIDE DEF new, s
<1>5. ASSUME NEW store \in Store
      PROVE  /\ [store EXCEPT ![p][f] = new] \in Store
             /\ [store EXCEPT ![p][f] = new][p][f] = new
             /\ \A q \in PersistentPaths, g \in Files :
                  q # p \/ g # f => [store EXCEPT ![p][f] = new][q][g] = store[q][g]
  <2>1. store \in [PersistentPaths -> [Files -> FileRec]]
    BY DEF Store
  <2>2. [store[p] EXCEPT ![f] = new] \in [Files -> FileRec]
    BY <1>3, <2>1
  <2>3. [store EXCEPT ![p][f] = new] = [store EXCEPT ![p] = [store[p] EXCEPT ![f] = new]]
    OBVIOUS
  <2>4. [store EXCEPT ![p] = [store[p] EXCEPT ![f] = new]] \in Store
    BY <2>1, <2>2 DEF Store
  <2> QED
    BY <2>1, <2>3, <2>4
\* The three cases: the path's own store, that of a path above, and an ephemeral one.
<1>6. \/ /\ s = p /\ stray' = stray /\ wrote' = [wrote EXCEPT ![p][f] = new.data] /\ ephem' = ephem
         /\ persist' = [persist EXCEPT ![p] = [persist[p] EXCEPT ![p][f] = new]]
      \/ /\ s \in PersistentPaths \ {p} /\ stray' = stray \cup {p} /\ wrote' = wrote /\ ephem' = ephem
         /\ persist' = [persist EXCEPT ![s] = [persist[s] EXCEPT ![p][f] = new]]
      \/ ephem' = [ephem EXCEPT ![p][f] = new] /\ persist' = persist /\ wrote' = wrote /\ stray' = stray
  BY <1>1, <1>4
<1>7. ASSUME NEW t \in PersistentPaths, persist' = [persist EXCEPT ![t] = [persist[t] EXCEPT ![p][f] = new]]
      PROVE  /\ persist' \in [PersistentPaths -> Store]
             /\ persist'[t][p][f] = new
             /\ \A r, q \in PersistentPaths, g \in Files :
                  r # t \/ q # p \/ g # f => persist'[r][q][g] = persist[r][q][g]
  <2> DEFINE store == [persist[t] EXCEPT ![p][f] = new]
  <2>1. /\ store \in Store /\ store[p][f] = new
        /\ \A q \in PersistentPaths, g \in Files : q # p \/ g # f => store[q][g] = persist[t][q][g]
    BY <1>2, <1>5
  <2>2. persist' = [persist EXCEPT ![t] = store]
    BY <1>7
  <2> HIDE DEF store
  <2>3. persist' \in [PersistentPaths -> Store] /\ persist'[t] = store /\ \A r \in PersistentPaths \ {t} : persist'[r] = persist[r]
    BY <1>2, <2>1, <2>2
  <2> QED
    BY <2>1, <2>3
\* Of a path that is not stray only its own store changes, and then with what
\* the user has written.
<1>8. /\ persist' \in [PersistentPaths -> Store] /\ ephem' \in Store
      /\ stray \subseteq stray' /\ stray' \subseteq PersistentPaths
      /\ \A q \in PersistentPaths, g \in Files : ephem'[q][g] = ephem[q][g] \/ (g # "flag" /\ ephem'[q][g] = new)
      /\ \A r, q \in PersistentPaths : persist'[r][q]["flag"] = persist[r][q]["flag"]
      /\ \A r, q \in PersistentPaths, g \in Files : persist'[r][q][g] = NoFile => persist[r][q][g] = NoFile
      /\ \A r \in PersistentPaths, q \in PersistentPaths \ stray', g \in Files :
           \/ persist'[r][q][g] = persist[r][q][g]
           \/ r = q /\ q = p /\ g = f
  <2>1. stray \subseteq PersistentPaths /\ f # "flag"
    BY <1>1, <1>2 DEF Typed
  <2>2. CASE s = p /\ stray' = stray /\ ephem' = ephem /\ persist' = [persist EXCEPT ![p] = [persist[p] EXCEPT ![p][f] = new]]
    <3>1. /\ persist' \in [PersistentPaths -> Store] /\ persist'[p][p][f] = new
          /\ \A r, q \in PersistentPaths, g \in Files : r # p \/ q # p \/ g # f => persist'[r][q][g] = persist[r][q][g]
      BY <1>7, <2>2
    <3> QED
      BY <1>2, <1>3, <2>1, <2>2, <3>1
  <2>3. CASE s \in PersistentPaths \ {p} /\ stray' = stray \cup {p} /\ ephem' = ephem
             /\ persist' = [persist EXCEPT ![s] = [persist[s] EXCEPT ![p][f] = new]]
    <3>1. /\ persist' \in [PersistentPaths -> Store] /\ persist'[s][p][f] = new
          /\ \A r, q \in PersistentPaths, g \in Files : r # s \/ q # p \/ g # f => persist'[r][q][g] = persist[r][q][g]
      BY <1>7, <2>3
    <3> QED
      BY <1>2, <1>3, <2>1, <2>3, <3>1
  <2>4. CASE ephem' = [ephem EXCEPT ![p][f] = new] /\ persist' = persist /\ stray' = stray
    <3>1. /\ ephem' \in Store /\ ephem'[p][f] = new
          /\ \A q \in PersistentPaths, g \in Files : q # p \/ g # f => ephem'[q][g] = ephem[q][g]
      BY <1>2, <1>5, <2>4
    <3> QED
      BY <1>2, <2>1, <2>4, <3>1
  <2> QED
    BY <1>6, <2>2, <2>3, <2>4
\* And what the user has written to it is recorded.
<1>9. /\ wrote' \in [PersistentPaths -> [Files -> 0..Top]]
      /\ \A q \in PersistentPaths \ stray', g \in Files :
           \/ persist'[q][q][g] = persist[q][q][g] /\ wrote'[q][g] = wrote[q][g]
           \/ q = p /\ g = f /\ persist'[q][q][g] = new /\ wrote'[q][g] = new.data
  <2>1. wrote \in [PersistentPaths -> [Files -> 0..Top]] /\ Top \in Nat
    BY <1>2, FileTypes DEF Typed
  <2>2. CASE s = p /\ stray' = stray /\ wrote' = [wrote EXCEPT ![p][f] = new.data]
             /\ persist' = [persist EXCEPT ![p] = [persist[p] EXCEPT ![p][f] = new]]
    <3>1. /\ persist'[p][p][f] = new
          /\ \A r, q \in PersistentPaths, g \in Files : r # p \/ q # p \/ g # f => persist'[r][q][g] = persist[r][q][g]
      BY <1>7, <2>2
    <3>2. new.data \in 0..Top
      BY <1>3, <2>1
    <3>3. /\ wrote' \in [PersistentPaths -> [Files -> 0..Top]]
          /\ wrote'[p][f] = new.data
          /\ \A q \in PersistentPaths, g \in Files : q # p \/ g # f => wrote'[q][g] = wrote[q][g]
      <4>1. wrote' = [wrote EXCEPT ![p] = [wrote[p] EXCEPT ![f] = new.data]]
        BY <2>2
      <4>2. [wrote[p] EXCEPT ![f] = new.data] \in [Files -> 0..Top]
        BY <2>1, <3>2
      <4> QED
        BY <2>1, <4>1, <4>2
    <3> QED
      BY <2>1, <3>1, <3>3
  <2>3. CASE wrote' = wrote /\ (stray' = stray \cup {p} \/ persist' = persist)
    <3>1. \A q \in PersistentPaths \ stray', g \in Files : persist'[q][q][g] = persist[q][q][g]
      BY <1>8, <2>3
    <3> QED
      BY <2>1, <2>3, <3>1
  <2> QED
    BY <1>6, <2>2, <2>3
<1>10. Typed' /\ EphemeralEmpty'
  <2>1. writes' \in 0..MaxWrites
    BY <1>1, <1>2, FileTypes DEF Typed
  <2>2. Typed'
    BY <1>1, <1>2, <1>8, <1>9, <2>1 DEF Typed
  <2>3. EphemeralEmpty'
    BY <1>1 DEF EphemeralEmpty, Starting
  <2> QED
    BY <2>2, <2>3
<1>11. Kept'
  <2> SUFFICES ASSUME NEW q \in PersistentPaths \ stray', NEW g \in {"shipped", "own"},
                      wrote'[q][g] # 0, conf.pmode = "overlay" \/ (g = "own" /\ conf.etype = "tmpfs")
               PROVE  persist'[q][q][g].data = wrote'[q][g]
    BY <1>1 DEF Kept
  <2>1. wrote[q][g] # 0 => persist[q][q][g].data = wrote[q][g]
    BY <1>8 DEF FileInv, Kept
  <2>2. g \in Files
    BY <1>2
  <2> QED
    BY <1>9, <2>1, <2>2
<1>12. StrayIn'
  <2>1. \A r \in PersistentPaths, q \in PersistentPaths \ stray' : r # q =>
          /\ persist'[r][q]["own"] = persist[r][q]["own"]
          /\ persist'[r][q]["shipped"] = persist[r][q]["shipped"]
    BY <1>2, <1>8
  <2>2. StrayIn
    BY DEF FileInv
  <2> QED
    BY <1>1, <1>8, <2>1, <2>2 DEF StrayIn
<1>13. ASSUME LabelsMatter' PROVE LabelsIn' /\ FlagsIn'
  <2>1. LabelsIn /\ FlagsIn /\ HasPersistent' = HasPersistent
    BY <1>1, <1>13 DEF LabelInv, LabelsMatter, HasPersistent
  <2>2. LabelsIn'
    <3>1. \A q \in PersistentPaths, g \in {"shipped", "own"} : ~Unlabelled(ephem'[q][g])
      BY <1>2, <1>3, <1>8, <2>1 DEF LabelsIn
    <3>2. ASSUME NEW q \in PersistentPaths \ stray'
          PROVE  /\ ~Unlabelled(persist'[q][q]["own"])
                 /\ \A r \in PersistentPaths \ {q} : persist'[r][q]["shipped"].data \in {0, 1}
                 /\ wrote'[q]["shipped"] = 0 =>
                      /\ persist'[q][q]["shipped"].data \in {0, 1}
                      /\ Unlabelled(persist'[q][q]["shipped"]) => persist'[q][q]["flag"] = NoFile
      <4>1. /\ ~Unlabelled(persist[q][q]["own"])
            /\ \A r \in PersistentPaths \ {q} : persist[r][q]["shipped"].data \in {0, 1}
            /\ wrote[q]["shipped"] = 0 =>
                 /\ persist[q][q]["shipped"].data \in {0, 1}
                 /\ Unlabelled(persist[q][q]["shipped"]) => persist[q][q]["flag"] = NoFile
        BY <1>1, <1>8, <2>1 DEF LabelsIn
      <4>2. ~Unlabelled(persist'[q][q]["own"])
        BY <1>2, <1>3, <1>9, <4>1
      <4>3. \A r \in PersistentPaths \ {q} : persist'[r][q]["shipped"].data \in {0, 1}
        <5>1. \A r \in PersistentPaths \ {q} : persist'[r][q]["shipped"] = persist[r][q]["shipped"]
          BY <1>2, <1>8
        <5> QED
          BY <4>1, <5>1
      <4>4. wrote'[q]["shipped"] = 0 => wrote[q]["shipped"] = 0 /\ persist'[q][q]["shipped"] = persist[q][q]["shipped"]
        BY <1>2, <1>3, <1>9
      <4>5. persist'[q][q]["flag"] = persist[q][q]["flag"]
        BY <1>8
      <4> QED
        BY <4>1, <4>2, <4>3, <4>4, <4>5
    <3> QED
      BY <1>1, <3>1, <3>2 DEF LabelsIn
  <2>3. FlagsIn'
    <3>1. \A q \in PersistentPaths : persist[q][q]["shipped"] # NoFile => persist'[q][q]["shipped"] # NoFile
      BY <1>2, <1>8
    <3> QED
      BY <1>1, <1>8, <2>1, <3>1 DEF FlagsIn
  <2> QED
    BY <2>2, <2>3
<1> QED
  BY <1>10, <1>11, <1>12, <1>13 DEF FileInv, LabelInv

LEMMA PowerOffFiles ==
  ASSUME FileInv, LabelInv, PowerOff
  PROVE  FileInv' /\ LabelInv'
<1>1. /\ pc' = "off" /\ relabel' = {} /\ UNCHANGED <<conf, persist, wrote, writes, stray>>
      /\ ephem' = IF conf.etype = "tmpfs" THEN Empty ELSE ephem
      /\ version' \in {version} \cup (IF Running /\ version < MaxVersion THEN {version + 1} ELSE {})
      /\ cut' = (cut \/ (pc = "switchroot" /\ relabel # {}))
  BY DEF PowerOff
<1>2. Empty \in Store /\ \A p \in PersistentPaths, f \in Files : Empty[p][f] = NoFile
  BY DEF Store, Empty, FileRec
<1>3. version \in 1..MaxVersion /\ MaxVersion \in Nat
  BY ConfigAssumption DEF FileInv, Typed
<1>4. version' \in 1..MaxVersion /\ (version' = 1 => version = 1)
  BY <1>1, <1>3
<1>5. Typed' /\ EphemeralEmpty'
  <2>1. cut' \in BOOLEAN
    BY <1>1
  <2>2. ephem' \in Store
    BY <1>1, <1>2 DEF FileInv, Typed
  <2>3. Typed'
    BY <1>1, <1>4, <2>1, <2>2 DEF FileInv, Typed
  <2>4. EphemeralEmpty'
    BY <1>1 DEF EphemeralEmpty, Empty
  <2> QED
    BY <2>3, <2>4
<1>6. Kept' /\ StrayIn'
  BY <1>1 DEF FileInv, Kept, StrayIn
<1>7. ASSUME LabelsMatter' PROVE LabelsIn' /\ FlagsIn'
  <2>1. LabelsMatter /\ ephem' = Empty /\ ~ (pc = "switchroot" /\ relabel # {})
    BY <1>1, <1>4, <1>7 DEF LabelsMatter
  <2>2. LabelsIn /\ FlagsIn
    BY <2>1 DEF LabelInv
  <2>3. LabelsIn'
    <3>1. \A p \in PersistentPaths, f \in {"shipped", "own"} : ~Unlabelled(ephem'[p][f])
      BY <1>2, <2>1 DEF Unlabelled, Files
    <3> QED
      BY <1>1, <2>1, <2>2, <3>1 DEF LabelsIn
  <2>4. FlagsIn'
    BY <1>1, <2>2 DEF FlagsIn
  <2> QED
    BY <2>3, <2>4
<1> QED
  BY <1>5, <1>6, <1>7 DEF FileInv, LabelInv

\* Every step keeps the files and their labels.
LEMMA FilesNext == MountInv /\ FileInv /\ LabelInv /\ [Next]_vars => FileInv' /\ LabelInv'
<1> SUFFICES ASSUME MountInv, FileInv, LabelInv, [Next]_vars PROVE FileInv' /\ LabelInv'
  OBVIOUS
<1>1. CASE UNCHANGED vars
  <2>1. UNCHANGED <<conf, version, persist, ephem, wrote, writes, stray, cut, mode, pc, todo, relabel>>
    BY <1>1 DEF vars, disk
  <2>2. FileInv'
    BY <2>1 DEF FileInv, Typed, EphemeralEmpty, Kept, StrayIn
  <2>3. (LabelsMatter' <=> LabelsMatter) /\ (LabelsIn' <=> LabelsIn) /\ (FlagsIn' <=> FlagsIn)
    BY <2>1 DEF LabelsMatter, LabelsIn, FlagsIn, HasPersistent, PersistentDone, PersistentNow
  <2> QED
    BY <2>2, <2>3 DEF LabelInv
<1>2. CASE (\E m \in Modes : Boot(m)) \/ InitialFstabData \/ (\E v \in Volumes \cup {PersistentDir} : MountVolume(v))
           \/ VolumesMounted \/ MountEphemeral \/ \E p \in EphemeralPaths : MountEphemeralPath(p)
  <2>1. /\ UNCHANGED <<disk, relabel>>
        /\ pc \in {"off", "initial", "volumes", "ephemeral", "paths"}
        /\ pc' \in {"initial", "failed", "disabled", "volumes", "ephemeral", "paths"}
    BY <1>2 DEF Boot, Outcomes, InitialFstabData, MountVolume, VolumesMounted, MountEphemeral, MountEphemeralPath,
                Go, Stop, Unfinished
  <2> QED
    BY <2>1, QuietFiles DEF Starting
<1>3. CASE EphemeralMounted
  <2>1. /\ UNCHANGED <<disk, relabel, mode>> /\ pc = "paths" /\ pc' = "persistent"
        /\ todo' = IF HasPersistent THEN PersistentPaths ELSE {}
    BY <1>3 DEF EphemeralMounted, Go
  <2>2. PersistentDone' = {}
    BY <2>1 DEF PersistentDone, PersistentNow, HasPersistent
  <2> QED
    BY <2>1, <2>2, QuietFiles DEF Starting
<1>4. CASE PersistentMounted \/ WriteFstab
  <2>1. /\ UNCHANGED <<disk, relabel, mode, todo>>
        /\ \/ pc = "persistent" /\ pc' = "fstab" /\ todo = {}
           \/ pc = "fstab" /\ pc' \in {"relabel", "failed"}
    BY <1>4 DEF PersistentMounted, WriteFstab, Go, Stop, Unfinished
  <2>2. PersistentDone' = PersistentDone /\ HasPersistent' = HasPersistent
    BY <2>1 DEF PersistentDone, PersistentNow, HasPersistent
  <2> QED
    BY <2>1, <2>2, QuietFiles DEF Starting
<1> QED
  BY <1>1, <1>2, <1>3, <1>4, MountPersistentPathFiles, SelinuxRelabelFiles, SwitchRootFiles, UserWriteFiles,
     PowerOffFiles DEF Next

\* The invariant of all boots.
THEOREM InvHolds == Spec => []Inv
<1>1. Init => Inv
  BY MountInvInit, FilesInit DEF Inv
<1>2. Inv /\ [Next]_vars => Inv'
  BY MountInvNext, FilesNext DEF Inv
<1> QED
  BY <1>1, <1>2, PTL DEF Spec

\* PersistentKept: what users write to a persistent path is there after every
\* later boot, whatever failed or was cut short in between.
THEOREM UserFilesAreKept == Spec => []PersistentKept
<1>1. Inv => PersistentKept
  <2> SUFFICES ASSUME Inv, pc = "up", HasPersistent,
                      NEW p \in PersistentPaths \ stray, NEW f \in {"shipped", "own"}, wrote[p][f] # 0,
                      conf.pmode = "overlay" \/ (f = "own" /\ conf.etype = "tmpfs")
               PROVE  Read(p, f).data = wrote[p][f]
    BY DEF PersistentKept
  <2>1. p \in PersistentDone /\ pc \in AfterEphemeral /\ f \in Files
    BY ServedIs DEF Inv, Late, AfterEphemeral, Files
  <2>2. persist[p][p][f].data = wrote[p][f]
    BY DEF Inv, FileInv, Kept
  <2>3. persist[p][p][f] # NoFile
    BY <2>2, FileTypes
  <2>4. Read(p, f) = persist[p][p][f]
    BY <2>1, <2>3, ReadIs DEF Inv, FileInv
  <2> QED
    BY <2>2, <2>4
<1> QED
  BY <1>1, InvHolds, PTL

\* PersistentLabelled: what a system with the image it was installed with reads
\* from a persistent path has a SELinux label, as long as no boot ended between
\* the flags of getRelabelPaths and the relabelling, and the path was not written
\* to through one above.
THEOREM FilesAreLabelled == Spec => []PersistentLabelled
<1>1. Inv => PersistentLabelled
  <2> SUFFICES ASSUME Inv, pc = "up", LabelsMatter,
                      NEW p \in PersistentPaths \ stray, NEW f \in {"shipped", "own"},
                      wrote[p]["shipped"] = 0, Read(p, f) # NoFile
               PROVE  Read(p, f).label
    BY DEF PersistentLabelled, LabelsMatter
  <2>1. LabelsIn /\ FlagsIn /\ Typed /\ StrayIn /\ f \in Files /\ MountInv /\ pc \in AfterEphemeral /\ conf.etype = "tmpfs"
    BY DEF Inv, LabelInv, LabelsMatter, FileInv, Files, Late, AfterEphemeral
  <2>2. ~Unlabelled(Image(f)) /\ ~Unlabelled(ephem[p][f])
    BY <2>1, ImageIs DEF LabelsIn
  <2>3. PersistentDone \subseteq PersistentPaths /\ (PersistentDone # {} => HasPersistent) /\ conf.pmode \in {"bind", "overlay"}
    BY <2>1 DEF PersistentDone, PersistentNow, MountInv, Kinds, MountSpec
  <2>4. HasPersistent => ~Unlabelled(persist[p][p][f]) /\ p \in PersistentDone
    BY <2>1, ServedIs DEF LabelsIn, FlagsIn, Late
  <2>5. ASSUME NEW s \in PersistentDone, Read(p, f) = persist[s][p][f]
        PROVE  ~Unlabelled(Read(p, f))
    <3>1. CASE s = p
      BY <2>3, <2>4, <2>5, <3>1
    <3>2. CASE s # p /\ conf.pmode = "overlay"
      BY <2>1, <2>3, <2>5, <3>2 DEF StrayIn
    <3>3. CASE conf.pmode = "bind"
      <4>1. Read(p, f) = persist[p][p][f]
        BY <2>1, <2>3, <2>4, <3>3, ReadIs
      <4> QED
        BY <2>3, <2>4, <4>1
    <3> QED
      BY <2>3, <3>1, <3>2, <3>3
  <2>6. ~Unlabelled(Read(p, f))
    BY <2>1, <2>2, <2>5, ReadIs
  <2> QED
    BY <2>6 DEF Unlabelled
<1> QED
  BY <1>1, InvHolds, PTL
=============================================================================

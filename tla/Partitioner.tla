---------------------------- MODULE Partitioner ----------------------------
(***************************************************************************)
(* Partitioning of one disk (pkg/partitioner) as install and the layout    *)
(* stages of cloud-init use it: a request is a run of the steps below, each *)
(* one external command.  The caller starts one when ppc is "idle" and goes *)
(* on when it is "ok" or "error".                                          *)
(*                                                                         *)
(* Sectors are numbered from 0, sizes of a configuration are in MiB.       *)
(***************************************************************************)
EXTENDS Integers, Sequences, FiniteSets, SequencesExt

CONSTANTS
  SectorsPerMiB,
  GptSectors,     \* what the backup of the partition table takes at the end
  MaxFaults       \* bound: commands that fail for no reason, and power cuts

ASSUME PartitionerAssumption ==
  /\ SectorsPerMiB \in Nat
  /\ GptSectors \in 1..(SectorsPerMiB - 1)
  /\ MaxFaults \in Nat

VARIABLES
  table,   \* the partitions, by start
  total,   \* sectors of the disk
  gpt,     \* sectors of the disk its partition table is made for
  ppc,     \* step of the request
  req,     \* the request
  faults,
  torn     \* has a fault left the disk in a state that the next stages cannot mend?

partVars == <<table, total, gpt, ppc, req, faults, torn>>

\* fsS is the size of the file system in a partition, 0 when there is none.
Part(num, name, start, size, fsS, data) ==
  [num |-> num, name |-> name, start |-> start, size |-> size, fsS |-> fsS, data |-> data]

MiBToSectors(size) == size * SectorsPerMiB

End(p) == p.start + p.size - 1

LastUsable(sectors) == sectors - GptSectors - 1

\* GetByName: the last one of that name (none of them is mounted).
Named(name)     == {i \in DOMAIN table : table[i].name = name}
GetByName(name) == CHOOSE i \in Named(name) : \A j \in Named(name) : j <= i

\* GetFullDeviceByLabel: a label is that of a file system.
HasLabel(name) == \E i \in Named(name) : table[i].fsS > 0

\* The sums of the first numbers of a sequence, and of all of them.
Totals(s) == LET sum[i \in 0..Len(s)] == IF i = 0 THEN 0 ELSE sum[i - 1] + s[i] IN sum
Total(s)  == Totals(s)[Len(s)]

Sizes(parts) == [i \in DOMAIN parts |-> parts[i].size]

\* PartitionsByInstallOrder of a list without its nil entries: of the partitions
\* that may grow the first goes last and the others are left out.
PartitionsByInstallOrder(parts, extra) ==
  LET all      == parts \o extra
      grows(i) == all[i].size = 0 /\ (all[i].name = "persistent" \/ i > Len(parts))
      loop[i \in 0..Len(all)] ==
        IF i = 0 THEN [partitions |-> <<>>, last |-> <<>>]
        ELSE IF ~grows(i)
             THEN [partitions |-> Append(loop[i - 1].partitions, all[i]), last |-> loop[i - 1].last]
        ELSE [partitions |-> loop[i - 1].partitions,
              last |-> IF loop[i - 1].last = <<>> THEN <<all[i]>> ELSE loop[i - 1].last]
  IN loop[Len(all)].partitions \o loop[Len(all)].last

-----------------------------------------------------------------------------
(* What the code computes.  GetLastSector of parted is the number of        *)
(* sectors, not the number of the last one.                                *)

lastS == total

AlignedStart == MiBToSectors(1)

\* computeFreeSpace
FreeSpace == IF table = <<>> THEN lastS - (AlignedStart - 1) ELSE lastS - End(Last(table))

\* computeFreeSpaceWithoutLast
FreeSpaceWithoutLast ==
  IF Len(table) > 1 THEN lastS - End(table[Len(table) - 1]) ELSE lastS - (AlignedStart - 1)

NextNumber == IF table = <<>> THEN 1 ELSE Last(table).num + 1

\* Faulty: the last sector of the last partition.
NextStart_end == IF table = <<>> THEN AlignedStart ELSE End(Last(table))

NextStart  == IF table = <<>> THEN AlignedStart ELSE Last(table).start + Last(table).size

\* Faulty: any size will do.
CanExpand_shrinks(size) == table # <<>> /\ MiBToSectors(size) <= FreeSpaceWithoutLast

\* The checks of ExpandLastPartition.
CanExpand(size) ==
  /\ table # <<>>
  /\ size > 0 => /\ MiBToSectors(size) >= Last(table).size
                 /\ MiBToSectors(size) <= FreeSpaceWithoutLast

CanAdd(size) == MiBToSectors(size) <= FreeSpace

-----------------------------------------------------------------------------
(* Requests                                                                *)

Request(r) == ppc = "idle" /\ ppc' = "reload" /\ req' = r

\* num, start and part are filled in as the request goes on.
AddRequest(name, size, fs) ==
  [op |-> "add", name |-> name, size |-> size, fs |-> fs, num |-> 0, start |-> 0, part |-> <<>>]
ExpandRequest(size) ==
  [op |-> "expand", name |-> "", size |-> size, fs |-> TRUE, num |-> 0, start |-> 0, part |-> <<>>]

Idle(outcome) == ppc = outcome /\ ppc' = "idle"

\* A command of the step at hand fails.  A partition that is half made, one that
\* was to come back and does not, and a state partition whose room the next one
\* takes are not mended later.
Fault == faults < MaxFaults /\ faults' = faults + 1 /\ ppc' = "error"

\* Reload moves the backup of the partition table to the end of the disk
\* (sgdisk -e); then the request is checked.
Reload ==
  /\ ppc = "reload"
  /\ \/ /\ gpt' = total
        /\ \/ /\ req.op = "add" /\ CanAdd(req.size)
              /\ req' = [req EXCEPT !.num = NextNumber, !.start = NextStart]
              /\ ppc' = "mkpart"
           \/ /\ req.op = "expand" /\ CanExpand(req.size)
              /\ req' = [req EXCEPT !.num = Last(table).num, !.start = Last(table).start, !.part = <<Last(table)>>]
              /\ ppc' = "rm"
           \/ /\ ~(IF req.op = "add" THEN CanAdd(req.size) ELSE CanExpand(req.size))
              /\ ppc' = "error"
              /\ UNCHANGED req
        /\ UNCHANGED faults
        /\ UNCHANGED torn
     \/ Fault /\ torn' = (torn \/ req.name = "state") /\ UNCHANGED <<gpt, req>>
  /\ UNCHANGED <<table, total>>

\* parted writes the table after each of its commands: rm ...
Rm ==
  /\ ppc = "rm"
  /\ \/ table' = Front(table) /\ ppc' = "mkpart" /\ UNCHANGED faults
     \/ Fault /\ UNCHANGED table
  /\ UNCHANGED <<total, gpt, req, torn>>

\* ... and mkpart.  It refuses what overlaps a partition or its own tables and
\* gives the partition the lowest free number.  A file system is still there
\* when the partition that comes back has room for it.
LowestFree == CHOOSE n \in 1..(Len(table) + 1) :
                /\ n \notin {p.num : p \in ToSet(table)}
                /\ \A m \in 1..(n - 1) : m \in {p.num : p \in ToSet(table)}

NewSize == IF req.size = 0 THEN LastUsable(gpt) - req.start + 1 ELSE MiBToSectors(req.size)

Fitting ==
  /\ NewSize > 0
  /\ req.start + NewSize - 1 <= LastUsable(gpt)
  /\ table # <<>> => req.start > End(Last(table))

NewPart ==
  IF req.part # <<>>
  THEN LET old == req.part[1]
       IN IF old.fsS <= NewSize
          THEN Part(LowestFree, old.name, req.start, NewSize, old.fsS, old.data)
          ELSE Part(LowestFree, old.name, req.start, NewSize, 0, "none")
  ELSE Part(LowestFree, req.name, req.start, NewSize, 0, "none")

Mkpart ==
  /\ ppc = "mkpart"
  /\ \/ Fitting /\ table' = Append(table, NewPart) /\ ppc' = "device" /\ UNCHANGED <<faults, torn>>
     \/ /\ ~Fitting /\ ppc' = "error" /\ UNCHANGED faults
        /\ torn' = (torn \/ req.op = "expand")
        /\ UNCHANGED table
     \/ /\ Fault
        /\ torn' = (torn \/ req.op = "expand" \/ req.name = "state")
        /\ UNCHANGED table
  /\ UNCHANGED <<total, gpt, req>>

Numbered == {i \in DOMAIN table : table[i].num = req.num}

\* The second Reload and FindPartitionDevice, with its tries.
FindPartitionDevice ==
  /\ ppc = "device"
  /\ \/ ppc' = (IF Numbered # {} THEN "format" ELSE "error") /\ UNCHANGED <<faults, torn>>
     \/ Fault /\ torn' = (torn \/ req.op = "add")
  /\ UNCHANGED <<table, total, gpt, req>>

\* mkfs or wipefs for a new partition.
MkfsCall ==
  /\ ppc = "format"
  /\ req.op = "add"
  /\ \/ /\ table' = [i \in DOMAIN table |->
                      IF i \in Numbered /\ req.fs THEN [table[i] EXCEPT !.fsS = table[i].size, !.data = "none"]
                      ELSE table[i]]
        /\ ppc' = "ok"
        /\ UNCHANGED <<faults, torn>>
     \/ Fault /\ torn' = TRUE /\ UNCHANGED table
  /\ UNCHANGED <<total, gpt, req>>

\* expandFilesystem fails where there is none.
ExpandFilesystem ==
  /\ ppc = "format"
  /\ req.op = "expand"
  /\ \/ /\ table' = [i \in DOMAIN table |->
                      IF i \in Numbered /\ table[i].fsS > 0 THEN [table[i] EXCEPT !.fsS = table[i].size] ELSE table[i]]
        /\ ppc' = IF \E i \in Numbered : table[i].fsS > 0 THEN "ok" ELSE "error"
        /\ UNCHANGED faults
     \/ Fault /\ UNCHANGED table
  /\ UNCHANGED <<total, gpt, req, torn>>

PartitionerNext ==
  \/ Reload
  \/ Rm
  \/ Mkpart
  \/ FindPartitionDevice
  \/ MkfsCall
  \/ ExpandFilesystem

\* What a power cut at this step leaves behind.
CutTears ==
  \/ ppc = "mkpart" /\ req.op = "expand"
  \/ ppc \in {"device", "format"} /\ req.op = "add"
=============================================================================

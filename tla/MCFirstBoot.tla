---------------------------- MODULE MCFirstBoot ----------------------------
(* An instance of FirstBoot: disks of exactly the size that is needed, with  *)
(* room to spare, with an odd number of sectors, and one (44) on which the   *)
(* persistent partition is just short of the size recovery is expanded to.   *)
EXTENDS FirstBoot

MCPartSize  == [boot |-> 1, oem |-> 1, recovery |-> 3, state |-> 2, persistent |-> 0]
MCTreeSize  == [recovery |-> 1, persistent |-> 2]
MCDiskSpecs == {[expandable |-> TRUE, type |-> "raw", size |-> 0],
                [expandable |-> TRUE, type |-> "azure", size |-> 0],
                [expandable |-> TRUE, type |-> "raw", size |-> 13],
                [expandable |-> FALSE, type |-> "gce", size |-> 0],
                [expandable |-> FALSE, type |-> "azure", size |-> 12]}
MCDiskSizes == {40, 44, 49, 60}
MCExtraParts == <<[name |-> "extra", size |-> 1]>>
=============================================================================

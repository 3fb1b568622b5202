--------------------------- MODULE SnapshotNames ---------------------------
(***************************************************************************)
(* How both snapshotters list their snapshots: a directory listing and     *)
(* `btrfs subvolume list --sort=path` compare names, not numbers.          *)
(***************************************************************************)
EXTENDS Integers, Sequences, FiniteSets

\* The text of an ID, and the order of two of them: "10" comes before "9".
Digits[n \in Nat] ==
  IF n < 10 THEN <<n>> ELSE Append(Digits[n \div 10], n % 10)

NameBefore(a, b) ==
  LET x == Digits[a]
      y == Digits[b]
  IN \E k \in 1..Len(y) :
       /\ k - 1 <= Len(x)
       /\ \A j \in 1..(k - 1) : x[j] = y[j]
       /\ k <= Len(x) => x[k] < y[k]

\* A listing from its end: an ID comes after those whose names are later.
LatestFirst(S) ==
  [k \in 1..Cardinality(S) |->
     CHOOSE x \in S : Cardinality({y \in S : NameBefore(x, y)}) = k - 1]
=============================================================================

--------------------------- MODULE UpgradeClaims ---------------------------
(***************************************************************************)
(* What the repository says of an upgrade and its code does not keep.      *)
(***************************************************************************)
EXTENDS Upgrade

\* An upgrade that fails leaves the active system bootable.  A failure after
\* CloseTransaction (recovery upgrade, post-upgrade hook, state.yaml) runs
\* CloseTransactionOnError on the snapshot that is already active: the link is
\* left without a target.
FailedUpgradeBoots ==
  (upc = "done" /\ err = "error" /\ activeLink \in LD!SnapIDs) => LD!Complete(activeLink)
=============================================================================

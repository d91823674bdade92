----------------------------- MODULE MCUpgrades -----------------------------
(* Upgrades for TLC: two image tags, the instance runs the older one.      *)
EXTENDS Upgrades

OldAndNew == {"v1", "v2"}
Old       == "v1"

=============================================================================

------------------------------ MODULE MCHandoff ------------------------------
(* A root and one child, present from the start or spawned on the way, two *)
(* accounts, and up to three attempts: one may run after another failed,   *)
(* died or completed, and may move the tree back.                          *)
EXTENDS Handoff, TLC

CONSTANTS root, child, alice, bob

MCThreads == {root, child}
MCProfiles == {alice, bob}
Symmetry == Permutations(MCProfiles)

=============================================================================

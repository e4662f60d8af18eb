----------------------------- MODULE MCAuthority -----------------------------
(* Two conversations of one store, the runtimes of two accounts, and two   *)
(* managers that transfer at the same time; every record may move twice.   *)
EXTENDS Authority, TLC

CONSTANTS t1, t2, alice, bob, m1, m2

MCThreads == {t1, t2}
MCProfiles == {alice, bob}
MCMovers == {m1, m2}
Symmetry == Permutations(MCThreads) \cup Permutations(MCMovers) \cup Permutations(MCProfiles)

=============================================================================

----------------------------- MODULE MCWarmup -----------------------------
(* Three workers and three profiles: a leader, one that waits for it, and  *)
(* one that the launch limit keeps back while two others are open. A unit  *)
(* of the clock is 15 seconds: a head start takes two, the cap is three; a *)
(* hold takes two instead of four, which keeps the clock short.            *)
EXTENDS Warmup, TLC

CONSTANTS p1, p2, p3, w1, w2, w3

MCProfiles == {p1, p2, p3}
MCWorkers == {w1, w2, w3}
MCSymmetry == Permutations(MCProfiles) \cup Permutations(MCWorkers)

=============================================================================

------------------------- MODULE MCUsageContinuation -------------------------
(* Up to four turns of one task, a table of two entries and one restart.   *)
EXTENDS UsageContinuation, TLC

=============================================================================

--------------------------- MODULE MCProfileLaunch ---------------------------
(***************************************************************************)
(* One worker of each kind, the shell's close and one full exit. Two       *)
(* processes: one that runs, or ran, and one that replaces it or that a    *)
(* late step of somebody starts. No two workers are alike, so there is no  *)
(* symmetry to use.                                                        *)
(***************************************************************************)
EXTENDS ProfileLaunch

CONSTANTS warmup, login, task, show

MCWarmups == {warmup}
MCShows == {show}
MCLogins == {login}
MCTasks == {task}

=============================================================================

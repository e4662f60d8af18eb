---------------------------- MODULE AdmissionLock ----------------------------
(***************************************************************************)
(* What launch admission promises, without tickets, selections or nesting: *)
(* a lock that workers share profile by profile, or one worker has alone.  *)
(* A worker keeps what it took until it gives it up itself, and never goes *)
(* from sharing to being alone.                                            *)
(***************************************************************************)
CONSTANTS Workers, Requests

VARIABLES
  open,   \* per worker, the profiles it is admitted for
  alone   \* the workers that run alone

vars == <<open, alone>>

Init ==
  /\ open = [w \in Workers |-> {}]
  /\ alone = {}

Share(w, p) ==
  /\ alone \subseteq {w}
  /\ \A o \in Workers \ {w} : p \notin open[o]
  /\ open' = [open EXCEPT ![w] = @ \cup {p}]
  /\ UNCHANGED alone

Isolate(w, p) ==
  /\ \A o \in Workers : open[o] = {}
  /\ open' = [open EXCEPT ![w] = {p}]
  /\ alone' = {w}

Leave(w) ==
  \E rest \in SUBSET open[w] :
    /\ open' = [open EXCEPT ![w] = rest]
    /\ alone' = IF rest = {} THEN alone \ {w} ELSE alone

Next ==
  \E w \in Workers :
    \/ Leave(w)
    \/ \E p \in Requests : Share(w, p) \/ Isolate(w, p)

Spec == Init /\ [][Next]_vars
=============================================================================

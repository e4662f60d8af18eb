------------------------- MODULE ProfileLaunchProofs -------------------------
(***************************************************************************)
(* Proofs about ProfileLaunch, for any workers and requests, and any       *)
(* number of launches, closes, exits and crashes.                          *)
(***************************************************************************)
EXTENDS ProfileLaunch, TLAPS

Stage == {"idle", "outer", "show", "queued", "admitted", "prepared", "checked", "spawned",
          "asking", "reopening", "window", "link", "carrying", "resuming"}
Carrying == {"prepared", "checked", "spawned", "window", "link", "carrying", "resuming"}
Following == {"link", "carrying", "resuming"}
Starting == {"prepared", "checked", "spawned"}
ActiveStages == {"queued", "admitted", "prepared", "checked", "spawned", "asking", "reopening",
                 "window"}

(* The stages under the launch admission, those that a hold lets a worker  *)
(* be in, and those that the end of the manager does.                      *)
Holding == {"show", "admitted", "prepared", "checked", "spawned", "asking", "reopening",
            "link", "carrying"}
HeldStages == {"idle", "outer", "show", "queued", "admitted", "window"}
EndStages == {"idle", "outer", "show"}

(* A request has the gate of the profile as long as it runs, and a close   *)
(* while it asks for the hold and while it removes.                        *)
Guarded ==
  /\ \A w \in Requests : pc[w] # "idle" => gate = w
  /\ \A w \in Workers : pc[w] \in Following => w \in Tasks
  /\ close.pc \in {"asked", "removing", "writing"} => gate = Closer

(* From the admission to the end of the launch, link included, the worker  *)
(* has the launch admission.                                               *)
Admitted ==
  /\ \A w \in Workers :
       pc[w] \in Holding \/ (pc[w] = "window" /\ w \in Nested) => admission = w
  /\ close.pc = "writing" => admission = Closer

(* A removal is written over a profile that does not run, and of a removed *)
(* one no launch is under way.                                             *)
Recording ==
  /\ saved.gen = saved.proc
  /\ close.pc = "writing" => ~Running
  /\ saved.removed => ~Running /\ \A w \in Workers : pc[w] \notin Starting

(* While the profile is held no worker is past the look at the hold, and   *)
(* no task waits.                                                          *)
Held ==
  /\ close.pc = "asked" => wait = Forgotten /\ ~close.swept
  /\ hold => /\ \A t \in Tasks : wait[t].life = 0
             /\ \A w \in Workers : pc[w] \in HeldStages

(* Once the exit has seen no launch there is none, and once it has swept   *)
(* the folder no task that could start one waits or goes on.               *)
Exiting ==
  /\ exit.pc # "none" => stopping
  /\ exit.pc = "drained" => \A w \in Workers : pc[w] \notin ActiveStages
  /\ exit.pc = "swept" => /\ \A t \in Tasks : wait[t].life = 0
                          /\ \A w \in Workers : pc[w] \in EndStages

IInv ==
  /\ TypeOK /\ Guarded /\ Admitted /\ Recording /\ Held /\ Exiting
  /\ LinkToAwaited /\ ClosedStaysClosed /\ ExitLeavesNothing

(* What a step of a worker w may do: it goes to stage s with launch n;     *)
Walks(w, s, n) ==
  /\ pc' \in [Workers -> Stage] /\ pc'[w] = s /\ \A v \in Workers \ {w} : pc'[v] = pc[v]
  /\ my' \in [Workers -> 0 .. launches'] /\ my'[w] = n
  /\ \A v \in Workers \ {w} : my'[v] = my[v]
  /\ n # 0 <=> s \in Carrying
  /\ UNCHANGED <<hold, stopping, close, exit, closes, exits, crashes>>

(* it takes locks that are free and lets its own go;                       *)
Locks(w, s) ==
  /\ gate' \in Requests \cup {Closer, Free} /\ (gate' # gate => gate \in {Free, w})
  /\ admission' \in Workers \cup {Closer, Free} /\ (admission' # admission => admission \in {Free, w})
  /\ w \in Requests /\ s # "idle" => gate' = w
  /\ s \in Holding \/ (s = "window" /\ w \in Nested) => admission' = w
  /\ s \in Following => w \in Tasks

(* it records only a launch of its own, and links to the recorded one;     *)
Records(w, s, n) ==
  /\ saved' \in [gen : 0 .. launches', proc : 0 .. launches', window : 0 .. launches',
                 removed : BOOLEAN]
  /\ saved'.gen = saved'.proc /\ saved'.removed = saved.removed
  /\ saved' # saved => pc[w] = "spawned"
  /\ s \in {"link", "carrying"} => saved'.gen = n
  /\ s \in Starting => ~saved.removed

(* it starts a process only from the stages that do;                       *)
Runs(w) ==
  /\ launches' \in launches .. MaxLaunches
  /\ owner' \in 0 .. launches' /\ alive' \subseteq 1 .. launches' /\ waiters' \subseteq 1 .. launches'
  /\ alive' \subseteq alive \/ pc[w] \in {"checked", "reopening", "carrying"}
  /\ close.pc = "writing" \/ saved.removed => saved'.proc \notin alive'

(* it keeps to the barriers.                                               *)
Barred(s) ==
  /\ hold => s \in HeldStages
  /\ exit.pc = "drained" => s \notin ActiveStages
  /\ exit.pc = "swept" => s \in EndStages

Waits ==
  /\ wait' \in [Tasks -> [life : 0 .. launches', again : BOOLEAN]]
  /\ close.pc = "asked" => wait' = wait
  /\ hold \/ exit.pc = "swept" => \A t \in Tasks : wait'[t].life = 0

----------------------------------------------------------------------------
LEMMA Constants ==
  /\ Closer \notin Workers /\ Free \notin Workers /\ Free # Closer
  /\ Warmups \cap Requests = {} /\ Shows \cap Nested = {} /\ Logins \cap Tasks = {}
  /\ Requests \subseteq Workers /\ Nested \subseteq Requests /\ Tasks \subseteq Nested
  /\ Workers = Warmups \cup Shows \cup Nested
  /\ {MaxLaunches, MaxCloses, MaxExits, MaxCrashes} \subseteq Nat
BY WorkersAssumption, BoundsAssumption DEF Workers, Requests, Nested

LEMMA Types ==
  TypeOK <=>
    /\ pc \in [Workers -> Stage]
    /\ my \in [Workers -> 0 .. launches]
    /\ \A w \in Workers : my[w] # 0 <=> pc[w] \in Carrying
    /\ wait \in [Tasks -> [life : 0 .. launches, again : BOOLEAN]]
    /\ gate \in Requests \cup {Closer, Free}
    /\ admission \in Workers \cup {Closer, Free}
    /\ hold \in BOOLEAN /\ stopping \in BOOLEAN
    /\ saved \in [gen : 0 .. launches, proc : 0 .. launches, window : 0 .. launches,
                  removed : BOOLEAN]
    /\ owner \in 0 .. launches /\ launches \in 0 .. MaxLaunches
    /\ alive \subseteq 1 .. launches /\ waiters \subseteq 1 .. launches
    /\ close \in [pc : {"idle", "asked", "held", "remote", "ending", "removing", "writing"},
                  remove : BOOLEAN, plain : BOOLEAN, gen : 0 .. launches,
                  seen : BOOLEAN, swept : BOOLEAN, abandoned : BOOLEAN]
    /\ exit \in [pc : {"none", "stopping", "drained", "swept"}, gen : 0 .. launches]
    /\ closes \in 0 .. MaxCloses /\ exits \in 0 .. MaxExits /\ crashes \in 0 .. MaxCrashes
BY DEF TypeOK, Stage, Carrying

LEMMA Records0 ==
  ASSUME TypeOK, launches' \in launches .. MaxLaunches
  PROVE  /\ launches' \in 0 .. MaxLaunches
         /\ 0 .. launches \subseteq 0 .. launches' /\ 1 .. launches \subseteq 1 .. launches'
         /\ saved \in [gen : 0 .. launches', proc : 0 .. launches', window : 0 .. launches',
                       removed : BOOLEAN]
         /\ close \in [pc : {"idle", "asked", "held", "remote", "ending", "removing", "writing"},
                       remove : BOOLEAN, plain : BOOLEAN, gen : 0 .. launches',
                       seen : BOOLEAN, swept : BOOLEAN, abandoned : BOOLEAN]
         /\ exit \in [pc : {"none", "stopping", "drained", "swept"}, gen : 0 .. launches']
         /\ wait \in [Tasks -> [life : 0 .. launches', again : BOOLEAN]]
         /\ my \in [Workers -> 0 .. launches']
<1>1. launches \in Nat /\ launches' \in Nat /\ launches <= launches' /\ launches' <= MaxLaunches
      /\ MaxLaunches \in Nat
  BY Constants DEF TypeOK
<1>2. 0 .. launches \subseteq 0 .. launches' /\ 1 .. launches \subseteq 1 .. launches'
  BY <1>1
<1> QED BY <1>1, <1>2 DEF TypeOK

LEMMA InitInv == Init => IInv
<1> SUFFICES ASSUME Init PROVE IInv
  OBVIOUS
<1>1. /\ close.pc = "idle" /\ close.swept = FALSE /\ exit.pc = "none" /\ launches = 0
      /\ saved.gen = 0 /\ saved.proc = 0 /\ saved.removed = FALSE /\ alive = {}
      /\ pc = [w \in Workers |-> "idle"] /\ gate = Free /\ hold = FALSE
  BY DEF Init, NoClose, NoExit
<1>2. TypeOK
  <2>1. 0 \in 0 .. launches /\ 0 \in 0 .. MaxLaunches /\ 0 \in 0 .. MaxCloses
        /\ 0 \in 0 .. MaxExits /\ 0 \in 0 .. MaxCrashes
    BY <1>1, Constants
  <2>2. /\ saved \in [gen : 0 .. launches, proc : 0 .. launches, window : 0 .. launches,
                      removed : BOOLEAN]
        /\ exit \in [pc : {"none", "stopping", "drained", "swept"}, gen : 0 .. launches]
        /\ wait \in [Tasks -> [life : 0 .. launches, again : BOOLEAN]]
    BY <2>1 DEF Init, NoExit, Forgotten, NoWait
  <2>3. close \in [pc : {"idle", "asked", "held", "remote", "ending", "removing", "writing"},
                  remove : BOOLEAN, plain : BOOLEAN, gen : 0 .. launches,
                  seen : BOOLEAN, swept : BOOLEAN, abandoned : BOOLEAN]
    BY <2>1 DEF Init, NoClose
  <2>4. pc \in [Workers -> Stage] /\ my \in [Workers -> 0 .. launches]
        /\ \A w \in Workers : my[w] = 0 /\ pc[w] \notin Carrying
    BY <2>1 DEF Init, Stage, Carrying
  <2> QED BY <2>1, <2>2, <2>3, <2>4, Types DEF Init
<1>3. Guarded /\ Admitted /\ Recording
  BY <1>1, Constants DEF Guarded, Admitted, Recording, Following, Holding, Running
<1>4. Held /\ Exiting /\ LinkToAwaited /\ ClosedStaysClosed /\ ExitLeavesNothing
  BY <1>1, Constants DEF Held, Exiting, LinkToAwaited, ClosedStaysClosed, ExitLeavesNothing
<1> QED BY <1>2, <1>3, <1>4 DEF IInv

(* Any step of a worker that does no more than that keeps the invariant.   *)
LEMMA WorkerKeeps ==
  ASSUME IInv, NEW w \in Workers, NEW s \in Stage, NEW n,
         Walks(w, s, n), Locks(w, s), Records(w, s, n), Runs(w), Barred(s), Waits
  PROVE  IInv'
<1> USE DEF IInv, Walks
<1>1. TypeOK'
  <2>1. \A v \in Workers : my'[v] # 0 <=> pc'[v] \in Carrying
    BY Types
  <2>2. launches' \in launches .. MaxLaunches
    BY DEF Runs
  <2>3. /\ launches' \in 0 .. MaxLaunches
        /\ close' \in [pc : {"idle", "asked", "held", "remote", "ending", "removing", "writing"},
                       remove : BOOLEAN, plain : BOOLEAN, gen : 0 .. launches',
                       seen : BOOLEAN, swept : BOOLEAN, abandoned : BOOLEAN]
        /\ exit' \in [pc : {"none", "stopping", "drained", "swept"}, gen : 0 .. launches']
    BY <2>2, Records0
  <2>4. /\ hold' \in BOOLEAN /\ stopping' \in BOOLEAN /\ closes' \in 0 .. MaxCloses
        /\ exits' \in 0 .. MaxExits /\ crashes' \in 0 .. MaxCrashes
    BY DEF TypeOK
  <2> QED BY <2>1, <2>3, <2>4 DEF TypeOK, Stage, Carrying, Locks, Records, Runs, Waits
<1>2. Guarded'
  BY Constants DEF Guarded, Locks
<1>3. Admitted'
  BY Constants DEF Admitted, Locks
<1>4. Recording'
  BY DEF Recording, Records, Runs, Running
<1>5. Held'
  BY DEF Held, Barred, Waits
<1>6. Exiting'
  BY DEF Exiting, Barred, Waits
<1>7. LinkToAwaited'
  <2> SUFFICES ASSUME NEW t \in Tasks, pc'[t] \in {"link", "carrying"} PROVE saved'.gen = my'[t]
    BY DEF LinkToAwaited
  <2>1. CASE t = w
    BY <2>1 DEF Records
  <2>2. CASE t # w
    <3>1. t \in Workers /\ pc[t] \in {"link", "carrying"} /\ my'[t] = my[t] /\ saved.gen = my[t]
      BY <2>2, Constants DEF LinkToAwaited
    <3>2. pc[w] # "spawned"
      BY <2>2, <3>1 DEF Admitted, Holding
    <3> QED BY <3>1, <3>2 DEF Records
  <2> QED BY <2>1, <2>2
<1>8. ClosedStaysClosed'
  BY DEF ClosedStaysClosed, Held, HeldStages, Runs
<1>9. ExitLeavesNothing'
  BY DEF ExitLeavesNothing, Exiting, EndStages, Runs
<1> QED BY <1>1, <1>2, <1>3, <1>4, <1>5, <1>6, <1>7, <1>8, <1>9

----------------------------------------------------------------------------
(* What the parts of the actions of a worker amount to.                    *)

LEMMA DoneWalks ==
  ASSUME IInv, NEW w \in Workers, Done(w), UNCHANGED <<barrierVars, shellVars>>,
         launches' \in launches .. MaxLaunches
  PROVE  Walks(w, "idle", 0) /\ Locks(w, "idle") /\ Barred("idle")
<1>1. 0 \in 0 .. launches' /\ my \in [Workers -> 0 .. launches']
  BY Records0 DEF IInv, TypeOK
<1>2. Walks(w, "idle", 0)
  BY <1>1, Types DEF IInv, Done, Goto, Carries, Walks, Stage, Carrying, barrierVars, shellVars
<1>3. Locks(w, "idle")
  BY Types DEF IInv, Done, Let, Locks, Holding, Following
<1> QED BY <1>2, <1>3 DEF Barred, HeldStages, ActiveStages, EndStages

LEMMA GotoWalks ==
  ASSUME IInv, NEW w \in Workers, NEW s \in Stage, NEW n \in 0 .. launches',
         n # 0 <=> s \in Carrying, Goto(w, s),
         Carries(w, n) \/ (UNCHANGED my /\ n = my[w]),
         UNCHANGED <<barrierVars, shellVars>>, launches' \in launches .. MaxLaunches
  PROVE  Walks(w, s, n)
<1>1. my \in [Workers -> 0 .. launches']
  BY Records0 DEF IInv
<1> QED BY <1>1, Types DEF IInv, Goto, Carries, Walks, barrierVars, shellVars

(* The worker keeps its launch, or still has none.                         *)
LEMMA KeepsLaunch ==
  ASSUME IInv, NEW w \in Workers, NEW s \in Stage, pc[w] \in Carrying <=> s \in Carrying,
         Goto(w, s), UNCHANGED <<my, barrierVars, shellVars>>,
         launches' \in launches .. MaxLaunches
  PROVE  Walks(w, s, my[w])
<1>1. my[w] \in 0 .. launches' /\ (my[w] # 0 <=> s \in Carrying)
  BY Records0, Types DEF IInv
<1> QED BY <1>1, GotoWalks

LEMMA KeepsLocks ==
  ASSUME IInv, NEW w \in Workers, NEW s \in Stage, pc[w] # "idle", UNCHANGED <<gate, admission>>,
         s \in Holding \/ (s = "window" /\ w \in Nested)
           => pc[w] \in Holding \/ (pc[w] = "window" /\ w \in Nested),
         s \in Following => w \in Tasks
  PROVE  Locks(w, s)
BY Types DEF IInv, Locks, Guarded, Admitted

LEMMA Same ==
  ASSUME IInv, NEW w \in Workers, NEW s, NEW n, UNCHANGED <<saved, waiters, processVars>>,
         s \in {"link", "carrying"} => saved.gen = n, s \in Starting => ~saved.removed
  PROVE  Records(w, s, n) /\ Runs(w)
<1>1. launches \in launches .. MaxLaunches /\ 0 .. launches = 0 .. launches'
  BY Constants DEF IInv, TypeOK, processVars
<1> QED BY <1>1, Types DEF IInv, Recording, Running, Records, Runs, processVars

LEMMA SameLaunches == IInv /\ UNCHANGED launches => launches' \in launches .. MaxLaunches
BY Constants DEF IInv, TypeOK

LEMMA SameWaits ==
  ASSUME IInv, UNCHANGED wait, launches' \in launches .. MaxLaunches
  PROVE  Waits
BY Records0 DEF IInv, Waits, Held, Exiting

LEMMA FewerWaits ==
  ASSUME IInv, launches' \in launches .. MaxLaunches, close.pc # "asked" \/ wait' = Forgotten,
         wait' \in [Tasks -> [life : {0}, again : BOOLEAN]]
         \/ \E t \in Tasks : \/ wait' = [wait EXCEPT ![t].life = 0]
                             \/ wait' = [wait EXCEPT ![t] = NoWait]
  PROVE  Waits
<1>1. 0 \in 0 .. launches' /\ wait \in [Tasks -> [life : 0 .. launches', again : BOOLEAN]]
  BY Records0 DEF IInv, TypeOK
<1>2. ASSUME NEW t \in Tasks, NEW r \in [life : {0}, again : BOOLEAN],
             wait' = [wait EXCEPT ![t] = r]
      PROVE  wait' \in [Tasks -> [life : 0 .. launches', again : BOOLEAN]]
             /\ \A u \in Tasks : wait'[u].life \in {0, wait[u].life}
  <2>1. r \in [life : 0 .. launches', again : BOOLEAN] /\ r.life = 0
    BY <1>1
  <2> QED BY <1>1, <1>2, <2>1
<1>3. ASSUME NEW t \in Tasks, wait' = [wait EXCEPT ![t].life = 0]
      PROVE  \E r \in [life : {0}, again : BOOLEAN] : wait' = [wait EXCEPT ![t] = r]
  <2>1. [wait[t] EXCEPT !.life = 0] \in [life : {0}, again : BOOLEAN]
    BY <1>1
  <2> QED BY <1>3, <2>1
<1>4. NoWait \in [life : {0}, again : BOOLEAN]
  BY DEF NoWait
<1>5. /\ wait' \in [Tasks -> [life : 0 .. launches', again : BOOLEAN]]
      /\ \A u \in Tasks : wait'[u].life \in {0, wait[u].life}
  <2>1. CASE wait' \in [Tasks -> [life : {0}, again : BOOLEAN]]
    BY <1>1, <2>1
  <2>2. CASE \E t \in Tasks : wait' = [wait EXCEPT ![t].life = 0]
    BY <1>2, <1>3, <2>2
  <2>3. CASE \E t \in Tasks : wait' = [wait EXCEPT ![t] = NoWait]
    BY <1>2, <1>4, <2>3
  <2> QED BY <2>1, <2>2, <2>3
<1> QED BY <1>5 DEF IInv, Waits, Held, Exiting

LEMMA ForgottenTyped == Forgotten \in [Tasks -> [life : {0}, again : BOOLEAN]]
BY DEF Forgotten, NoWait

(* While a request runs, no close asks for the hold.                       *)
LEMMA Excluded ==
  ASSUME IInv, NEW w \in Requests, pc[w] # "idle" \/ gate = Free
  PROVE  close.pc \notin {"asked", "removing", "writing"}
BY Constants DEF IInv, Guarded

(* Outside the barriers a task may wait again.                             *)
LEMMA MoreWaits ==
  ASSUME IInv, launches' \in launches .. MaxLaunches, ~hold, exit.pc # "swept",
         close.pc # "asked", wait' \in [Tasks -> [life : 0 .. launches', again : BOOLEAN]]
  PROVE  Waits
BY DEF Waits

----------------------------------------------------------------------------
(* The steps of a worker.                                                  *)

LEMMA JustDone ==
  ASSUME IInv, NEW w \in Workers, Done(w), Waits,
         UNCHANGED <<barrierVars, saved, waiters, processVars, shellVars>>
  PROVE  IInv'
<1>1. launches' \in launches .. MaxLaunches
  BY SameLaunches DEF processVars
<1>2. Records(w, "idle", 0) /\ Runs(w)
  BY Same DEF Starting
<1> QED BY <1>1, <1>2, DoneWalks, WorkerKeeps DEF Stage

(* The worker goes on with the launch it has, or none, under the same      *)
(* locks, and nothing else happens.                                        *)
LEMMA JustGoes ==
  ASSUME IInv, NEW w \in Workers, NEW s \in Stage, Goto(w, s),
         UNCHANGED <<my, gate, admission, wait, barrierVars, saved, waiters, processVars,
                     shellVars>>,
         pc[w] \in Carrying <=> s \in Carrying, pc[w] # "idle",
         s \in Holding => pc[w] \in Holding, s # "window",
         s \in Following => w \in Tasks,
         s \in {"link", "carrying"} => saved.gen = my[w], s \in Starting => ~saved.removed,
         Barred(s)
  PROVE  IInv'
<1>1. launches' \in launches .. MaxLaunches
  BY SameLaunches DEF processVars
<1>2. Records(w, s, my[w]) /\ Runs(w)
  BY Same
<1>3. Walks(w, s, my[w])
  BY <1>1, KeepsLaunch
<1>4. Locks(w, s)
  BY KeepsLocks
<1> QED BY <1>1, <1>2, <1>3, <1>4, SameWaits, WorkerKeeps

LEMMA BeginStep == ASSUME IInv, NEW w \in Workers, Begin(w) PROVE IInv'
<1>1. /\ pc[w] = "idle" /\ my[w] = 0
      /\ UNCHANGED <<my, admission, barrierVars, saved, waiters, processVars, shellVars>>
      /\ launches' \in launches .. MaxLaunches
  BY SameLaunches, Types DEF IInv, Begin, processVars, Carrying
<1>2. \A s : s \notin {"link", "carrying"} /\ s \notin Starting => Records(w, s, 0) /\ Runs(w)
  BY <1>1, Same
<1>3. CASE w \in Warmups /\ ~stopping /\ ~hold /\ Goto(w, "queued") /\ UNCHANGED <<wait, gate>>
  <2>1. Walks(w, "queued", 0)
    BY <1>1, <1>3, KeepsLaunch DEF Stage, Carrying
  <2>2. Locks(w, "queued")
    BY <1>1, <1>3, Constants, Types DEF IInv, Locks, Holding, Following
  <2>3. Barred("queued")
    BY <1>3 DEF IInv, Exiting, Barred
  <2> QED BY <1>1, <1>2, <1>3, <2>1, <2>2, <2>3, SameWaits, WorkerKeeps DEF Stage, Starting
<1>4. CASE /\ w \in Requests /\ gate = Free /\ gate' = w
           /\ \/ w \in Shows /\ ~stopping /\ ~hold /\ Goto(w, "queued") /\ wait' = Forgotten
              \/ w \in Nested /\ Goto(w, "outer")
                 /\ wait' = IF w \in Tasks THEN [wait EXCEPT ![w] = NoWait] ELSE Forgotten
  <2>1. Waits
    <3>1. CASE wait' = Forgotten
      BY <1>1, <3>1, FewerWaits, ForgottenTyped
    <3>2. CASE w \in Tasks /\ wait' = [wait EXCEPT ![w] = NoWait]
      BY <1>1, <1>4, <3>2, FewerWaits, Excluded
    <3> QED BY <1>4, <3>1, <3>2
  <2>2. PICK s \in {"queued", "outer"} : Goto(w, s) /\ (s = "queued" => ~stopping /\ ~hold)
    BY <1>4
  <2>3. Walks(w, s, 0)
    BY <1>1, <2>2, KeepsLaunch DEF Stage, Carrying
  <2>4. Locks(w, s)
    BY <1>1, <1>4, <2>2, Types DEF IInv, Locks, Holding, Following
  <2>5. Barred(s)
    BY <2>2 DEF IInv, Exiting, Barred, HeldStages, ActiveStages, EndStages
  <2> QED BY <1>1, <1>2, <2>1, <2>2, <2>3, <2>4, <2>5, WorkerKeeps DEF Stage, Starting
<1> QED BY <1>3, <1>4 DEF Begin, Requests, Nested

LEMMA OuterStep == ASSUME IInv, NEW w \in Workers, Outer(w) PROVE IInv'
<1>1. /\ pc[w] = "outer" /\ my[w] = 0 /\ admission = Free /\ admission' = w /\ Goto(w, "show")
      /\ UNCHANGED <<my, wait, gate, barrierVars, saved, waiters, processVars, shellVars>>
      /\ launches' \in launches .. MaxLaunches
  BY SameLaunches, Types DEF IInv, Outer, processVars, Carrying
<1>2. Walks(w, "show", 0)
  BY <1>1, KeepsLaunch DEF Stage, Carrying
<1>3. Locks(w, "show")
  BY <1>1, Types DEF IInv, Guarded, Locks, Following
<1>4. Records(w, "show", 0) /\ Runs(w)
  BY <1>1, Same DEF Starting
<1>5. Barred("show")
  BY DEF Barred, HeldStages, ActiveStages, EndStages
<1> QED BY <1>1, <1>2, <1>3, <1>4, <1>5, SameWaits, WorkerKeeps DEF Stage

LEMMA RefusedStep == ASSUME IInv, NEW w \in Workers, Refused(w) PROVE IInv'
BY JustDone, SameWaits, SameLaunches DEF Refused, processVars

LEMMA NavigateStep == ASSUME IInv, NEW w \in Workers, Navigate(w) PROVE IInv'
<1>1. /\ w \in Tasks /\ pc[w] = "idle" /\ wait[w].life # 0 /\ gate = Free /\ my[w] = 0
      /\ wait' = [wait EXCEPT ![w].life = 0]
      /\ UNCHANGED <<admission, barrierVars, saved, waiters, processVars, shellVars>>
      /\ launches' \in launches .. MaxLaunches
  BY SameLaunches, Types DEF IInv, Navigate, processVars, Carrying
<1>2. Waits
  BY <1>1, FewerWaits, Excluded, Constants
<1>3. CASE Goto(w, "resuming") /\ Carries(w, wait[w].life) /\ gate' = w
  <2>1. wait[w].life \in 0 .. launches'
    BY <1>1, Records0 DEF IInv
  <2>2. Walks(w, "resuming", wait[w].life)
    BY <1>1, <1>3, <2>1, GotoWalks DEF Stage, Carrying
  <2>3. Locks(w, "resuming")
    BY <1>1, <1>3, Constants, Types DEF IInv, Locks, Holding
  <2>4. Records(w, "resuming", wait[w].life) /\ Runs(w)
    BY <1>1, Same DEF Starting
  <2>5. Barred("resuming")
    BY <1>1 DEF IInv, Held, Exiting, Barred, ActiveStages
  <2> QED BY <1>1, <1>2, <2>2, <2>3, <2>4, <2>5, WorkerKeeps DEF Stage
<1>4. CASE UNCHANGED <<pc, my, gate>>
  <2>1. Walks(w, "idle", 0) /\ Barred("idle")
    BY <1>1, <1>4, Records0, Types DEF IInv, Walks, Stage, Carrying, Barred, HeldStages,
       ActiveStages, EndStages, barrierVars, shellVars
  <2>2. Locks(w, "idle")
    BY <1>1, <1>4, Types DEF IInv, Locks, Holding, Following
  <2>3. Records(w, "idle", 0) /\ Runs(w)
    BY <1>1, Same DEF Starting
  <2> QED BY <1>1, <1>2, <2>1, <2>2, <2>3, WorkerKeeps DEF Stage
<1> QED BY <1>3, <1>4 DEF Navigate

LEMMA ResumeStep == ASSUME IInv, NEW w \in Workers, Resume(w) PROVE IInv'
<1>1. /\ pc[w] = "resuming" /\ admission = Free /\ w \in Tasks /\ w \in Requests /\ gate = w
      /\ UNCHANGED <<barrierVars, saved, waiters, processVars, shellVars>>
      /\ launches' \in launches .. MaxLaunches
  BY SameLaunches, Constants DEF IInv, Resume, processVars, Guarded, Following
<1>2. /\ ~hold /\ exit.pc # "swept" /\ close.pc # "asked" /\ my[w] \in 0 .. launches'
      /\ wait \in [Tasks -> [life : 0 .. launches', again : BOOLEAN]]
  BY <1>1, Excluded, Records0 DEF IInv, Held, HeldStages, Exiting, EndStages
<1>3. CASE Done(w) /\ UNCHANGED wait
  BY <1>1, <1>3, JustDone, SameWaits
<1>4. CASE Done(w) /\ Keep(w, my[w])
  <2>1. wait' \in [Tasks -> [life : 0 .. launches', again : BOOLEAN]]
    BY <1>2, <1>4 DEF Keep
  <2> QED BY <1>1, <1>2, <1>4, <2>1, JustDone, MoreWaits
<1>5. CASE /\ saved.gen = my[w] /\ Goto(w, "link") /\ admission' = w
           /\ UNCHANGED <<my, wait, gate>>
  <2>1. Walks(w, "link", my[w])
    BY <1>1, <1>5, KeepsLaunch DEF Stage, Carrying
  <2>2. Locks(w, "link")
    BY <1>1, <1>5, Types DEF IInv, Locks
  <2>3. Records(w, "link", my[w]) /\ Runs(w)
    BY <1>1, <1>5, Same DEF Starting
  <2>4. Barred("link")
    BY <1>2 DEF Barred, ActiveStages
  <2> QED BY <1>1, <1>5, <2>1, <2>2, <2>3, <2>4, SameWaits, WorkerKeeps DEF Stage
<1>6. CASE /\ ~stopping /\ Goto(w, "admitted") /\ admission' = w
           /\ wait' = [wait EXCEPT ![w].again = TRUE] /\ Carries(w, 0) /\ UNCHANGED gate
  <2>1. Walks(w, "admitted", 0)
    BY <1>1, <1>2, <1>6, GotoWalks, Records0 DEF IInv, TypeOK, Stage, Carrying
  <2>2. Locks(w, "admitted")
    BY <1>1, <1>6, Types DEF IInv, Locks, Following
  <2>3. Records(w, "admitted", 0) /\ Runs(w)
    BY <1>1, Same DEF Starting
  <2>4. Barred("admitted")
    BY <1>2, <1>6 DEF IInv, Exiting, Barred
  <2>5. wait' \in [Tasks -> [life : 0 .. launches', again : BOOLEAN]]
    BY <1>2, <1>6
  <2>6. Waits
    BY <1>1, <1>2, <2>5, MoreWaits
  <2> QED BY <1>1, <2>1, <2>2, <2>3, <2>4, <2>6, WorkerKeeps DEF Stage
<1> QED BY <1>3, <1>4, <1>5, <1>6 DEF Resume

LEMMA ShowStep == ASSUME IInv, NEW w \in Workers, Show(w) PROVE IInv'
<1>1. /\ pc[w] = "show" /\ UNCHANGED <<wait, barrierVars, saved, waiters, processVars, shellVars>>
  BY DEF Show
<1>2. CASE Done(w)
  BY <1>1, <1>2, JustDone, SameWaits, SameLaunches DEF processVars
<1>3. CASE ~stopping /\ ~hold /\ Goto(w, "admitted") /\ UNCHANGED <<my, gate, admission>>
  <2>1. Barred("admitted")
    BY <1>3 DEF IInv, Exiting, Barred
  <2> QED BY <1>1, <1>3, <2>1, JustGoes DEF Stage, Carrying, Holding, Following, Starting
<1> QED BY <1>2, <1>3 DEF Show, Enter

LEMMA AdmitStep == ASSUME IInv, NEW w \in Workers, Admit(w) PROVE IInv'
<1>1. /\ pc[w] = "queued" /\ my[w] = 0 /\ admission = Free /\ admission' = w
      /\ Goto(w, "admitted")
      /\ UNCHANGED <<my, wait, gate, barrierVars, saved, waiters, processVars, shellVars>>
      /\ launches' \in launches .. MaxLaunches
  BY SameLaunches, Types DEF IInv, Admit, processVars, Carrying
<1>2. Walks(w, "admitted", 0)
  BY <1>1, KeepsLaunch DEF Stage, Carrying
<1>3. Locks(w, "admitted")
  BY <1>1, Types DEF IInv, Guarded, Locks, Following
<1>4. Records(w, "admitted", 0) /\ Runs(w)
  BY <1>1, Same DEF Starting
<1>5. Barred("admitted")
  BY <1>1 DEF IInv, Exiting, Barred, HeldStages, ActiveStages, EndStages
<1> QED BY <1>1, <1>2, <1>3, <1>4, <1>5, SameWaits, WorkerKeeps DEF Stage

(* A show that found or started launch n, of a process that is recorded.   *)
LEMMA ShownKeeps ==
  ASSUME IInv, NEW w \in Workers, NEW n \in 1 .. launches', Shown(w, n), saved'.gen = n,
         pc[w] \in {"admitted", "spawned"}, ~hold, exit.pc # "swept", exit.pc # "drained",
         UNCHANGED <<barrierVars, shellVars>>, Runs(w),
         Records(w, "idle", 0), Records(w, "link", n)
  PROVE  IInv'
<1>1. launches' \in launches .. MaxLaunches /\ n \in 0 .. launches' /\ n # 0
  <2>1. launches' \in launches .. MaxLaunches
    BY DEF Runs
  <2> QED BY <2>1, Constants DEF IInv, TypeOK
<1>2. CASE Done(w) /\ UNCHANGED wait
  BY <1>1, <1>2, DoneWalks, SameWaits, WorkerKeeps DEF Stage, Records
<1>3. CASE w \in Tasks /\ Done(w) /\ Keep(w, n)
  <2>1. wait' \in [Tasks -> [life : 0 .. launches', again : BOOLEAN]]
    BY <1>1, <1>3, Records0 DEF IInv, Keep
  <2>2. close.pc # "asked"
    BY <1>3, Excluded, Constants
  <2> QED BY <1>1, <1>3, <2>1, <2>2, DoneWalks, MoreWaits, WorkerKeeps DEF Stage, Records
<1>4. CASE w \in Tasks /\ Goto(w, "link") /\ Carries(w, n) /\ UNCHANGED <<wait, gate, admission>>
  <2>1. Walks(w, "link", n)
    BY <1>1, <1>4, GotoWalks DEF Stage, Carrying
  <2>2. Locks(w, "link")
    BY <1>4, KeepsLocks DEF Stage, Holding
  <2>3. Records(w, "link", n)
    BY DEF Records, Starting
  <2>4. Barred("link")
    BY DEF Barred
  <2> QED BY <1>1, <1>4, <2>1, <2>2, <2>3, <2>4, SameWaits, WorkerKeeps DEF Stage
<1> QED BY <1>2, <1>3, <1>4 DEF Shown

LEMMA LookStep == ASSUME IInv, NEW w \in Workers, Look(w) PROVE IInv'
<1>1. /\ pc[w] = "admitted" /\ UNCHANGED <<barrierVars, saved, waiters, owner, alive, shellVars>>
      /\ exit.pc # "swept" /\ exit.pc # "drained"
  BY DEF IInv, Look, Exiting, ActiveStages, EndStages
<1>2. CASE Done(w) /\ UNCHANGED <<wait, launches>>
  BY <1>1, <1>2, JustDone, SameWaits, SameLaunches DEF processVars
<1>3. CASE /\ ~hold /\ Running /\ Goto(w, "asking")
           /\ UNCHANGED <<my, wait, gate, admission, launches>>
  <2>1. Barred("asking")
    BY <1>1, <1>3 DEF Barred
  <2> QED BY <1>1, <1>3, <2>1, JustGoes DEF Stage, Carrying, Holding, Following, Starting, processVars
<1>4. CASE ~hold /\ Running /\ Shown(w, saved.gen) /\ UNCHANGED launches
  <2>1. saved.gen \in 1 .. launches' /\ launches' \in launches .. MaxLaunches
    BY <1>4, SameLaunches DEF IInv, TypeOK, Running, Recording
  <2>2. Records(w, "idle", 0) /\ Records(w, "link", saved.gen) /\ Runs(w)
    BY <1>1, <1>4, Same DEF Starting, processVars
  <2> QED BY <1>1, <1>4, <2>1, <2>2, ShownKeeps
<1>5. CASE /\ ~hold /\ ~saved.removed /\ ~Running /\ launches' = launches + 1
           /\ launches < MaxLaunches /\ UNCHANGED wait
           /\ Goto(w, "prepared") /\ Carries(w, launches') /\ UNCHANGED <<gate, admission>>
  <2>1. launches \in Nat /\ launches' \in launches .. MaxLaunches /\ launches' # 0
        /\ launches' \in 0 .. launches'
    BY <1>5, Constants DEF IInv, TypeOK
  <2>2. Walks(w, "prepared", launches')
    BY <1>1, <1>5, <2>1, GotoWalks DEF Stage, Carrying
  <2>3. Locks(w, "prepared")
    BY <1>1, <1>5, KeepsLocks DEF Stage, Holding, Following
  <2>4. Records(w, "prepared", launches')
    BY <1>1, <1>5, <2>1, Records0 DEF IInv, Recording, Records
  <2>5. Runs(w)
    <3>1. /\ owner' \in 0 .. launches' /\ alive' \subseteq 1 .. launches'
          /\ waiters' \subseteq 1 .. launches'
      BY <1>1, <2>1, Records0 DEF IInv, TypeOK
    <3> QED BY <1>1, <1>5, <2>1, <3>1 DEF IInv, Recording, Running, Runs
  <2>6. Barred("prepared")
    BY <1>1, <1>5 DEF Barred
  <2> QED BY <1>5, <2>1, <2>2, <2>3, <2>4, <2>5, <2>6, SameWaits, WorkerKeeps DEF Stage
<1> QED BY <1>1, <1>2, <1>3, <1>4, <1>5 DEF Look

LEMMA CheckStep ==
  ASSUME IInv, NEW w \in Workers,
         Check(w, "prepared", "checked") \/ Check(w, "asking", "reopening")
  PROVE  IInv'
<1>1. PICK from \in {"prepared", "asking"}, next \in {"checked", "reopening"} :
        /\ from = "prepared" <=> next = "checked"
        /\ Check(w, from, next)
  OBVIOUS
<1>2. /\ pc[w] = from
      /\ UNCHANGED <<wait, barrierVars, saved, waiters, processVars, shellVars>>
  BY <1>1 DEF Check
<1>3. CASE Done(w)
  BY <1>2, <1>3, JustDone, SameWaits, SameLaunches DEF processVars
<1>4. CASE ~stopping /\ ~hold /\ Goto(w, next) /\ UNCHANGED <<my, gate, admission>>
  <2>1. Barred(next)
    BY <1>4 DEF IInv, Exiting, Barred
  <2>2. next \in Starting => ~saved.removed
    BY <1>1, <1>2 DEF IInv, Recording, Starting
  <2> QED BY <1>1, <1>2, <1>4, <2>1, <2>2, JustGoes DEF Stage, Carrying, Holding, Following
<1> QED BY <1>1, <1>3, <1>4 DEF Check, Enter

LEMMA SpawnStep == ASSUME IInv, NEW w \in Workers, Spawn(w) PROVE IInv'
<1>1. /\ pc[w] = "checked" /\ my[w] \in 1 .. launches /\ ~saved.removed
      /\ UNCHANGED <<wait, barrierVars, saved, waiters, launches, shellVars>>
      /\ launches' \in launches .. MaxLaunches
  BY SameLaunches, Types DEF IInv, Spawn, Recording, Starting, Carrying
<1>2. close.pc # "writing"
  BY <1>1, Constants DEF IInv, Admitted, Holding
<1>3. ~hold /\ exit.pc # "swept" /\ exit.pc # "drained"
  BY <1>1 DEF IInv, Held, HeldStages, Exiting, ActiveStages, EndStages
<1>4. alive' \subseteq alive \cup {my[w]} /\ owner' \in {owner, my[w]}
  BY DEF Spawn
<1>5. Runs(w)
  BY <1>1, <1>2, <1>4 DEF IInv, TypeOK, Runs
<1>6. \A s, n : s \notin {"link", "carrying"} => Records(w, s, n)
  BY <1>1, Records0 DEF IInv, Recording, Records
<1>7. CASE Done(w)
  BY <1>1, <1>5, <1>6, <1>7, DoneWalks, SameWaits, WorkerKeeps DEF Stage
<1>8. CASE Goto(w, "spawned") /\ UNCHANGED <<my, gate, admission>>
  <2>1. Walks(w, "spawned", my[w])
    BY <1>1, <1>8, KeepsLaunch DEF Stage, Carrying
  <2>2. Locks(w, "spawned")
    BY <1>1, <1>8, KeepsLocks DEF Stage, Holding, Following
  <2>3. Barred("spawned")
    BY <1>3 DEF Barred
  <2> QED BY <1>1, <1>5, <1>6, <2>1, <2>2, <2>3, SameWaits, WorkerKeeps DEF Stage
<1> QED BY <1>7, <1>8 DEF Spawn

(* A process that nothing records: its number is new.                      *)
LEMMA Unrecorded ==
  ASSUME IInv, NEW w \in Workers, pc[w] \in {"reopening", "carrying"},
         UNCHANGED <<saved, waiters, owner>>,
         \/ UNCHANGED <<alive, launches>>
         \/ launches < MaxLaunches /\ launches' = launches + 1 /\ alive' = {launches'}
  PROVE  Runs(w) /\ Records(w, "idle", 0)
<1>1. launches \in Nat /\ launches' \in launches .. MaxLaunches /\ 0 \in 0 .. launches'
  BY Constants DEF IInv, TypeOK
<1>2. /\ owner' \in 0 .. launches' /\ alive' \subseteq 1 .. launches'
      /\ waiters' \subseteq 1 .. launches'
  <2>1. owner \in 0 .. launches' /\ alive \subseteq 1 .. launches' /\ waiters \subseteq 1 .. launches'
    BY <1>1, Records0 DEF IInv, TypeOK
  <2>2. launches' = launches + 1 => launches' \in 1 .. launches'
    BY <1>1
  <2> QED BY <2>1, <2>2
<1>3. close.pc = "writing" \/ saved.removed => saved'.proc \notin alive'
  <2>1. saved.proc \in 0 .. launches
    BY DEF IInv, TypeOK
  <2> QED BY <1>1, <2>1 DEF IInv, Recording, Running
<1>4. Records(w, "idle", 0)
  BY <1>1, Records0 DEF IInv, Recording, Records, Starting
<1> QED BY <1>1, <1>2, <1>3, <1>4 DEF Runs

LEMMA ReopenStep == ASSUME IInv, NEW w \in Workers, Reopen(w) PROVE IInv'
<1>1. Runs(w) /\ Records(w, "idle", 0)
  BY Unrecorded DEF Reopen
<1>2. launches' \in launches .. MaxLaunches
  BY <1>1 DEF Runs
<1> QED BY <1>1, <1>2, DoneWalks, SameWaits, WorkerKeeps DEF Reopen, Stage

LEMMA CarryStep == ASSUME IInv, NEW w \in Workers, Carry(w) PROVE IInv'
<1>1. Runs(w) /\ Records(w, "idle", 0)
  BY Unrecorded DEF Carry
<1>2. launches' \in launches .. MaxLaunches
  BY <1>1 DEF Runs
<1> QED BY <1>1, <1>2, DoneWalks, SameWaits, WorkerKeeps DEF Carry, Stage

(* The launch in hand is the only one that may be recorded now, and is     *)
(* recorded with its process.                                              *)
LEMMA RecordedKeeps ==
  ASSUME IInv, NEW w \in Workers, pc[w] = "spawned", Recorded(my[w]) \/ UNCHANGED saved,
         UNCHANGED <<owner, launches>>, alive' \subseteq alive,
         waiters' \subseteq waiters \cup {my[w]}
  PROVE  /\ launches' \in launches .. MaxLaunches /\ my[w] \in 1 .. launches'
         /\ ~hold /\ exit.pc # "swept" /\ exit.pc # "drained" /\ Runs(w)
         /\ \A s, n : s \notin Starting /\ (s \in {"link", "carrying"} => saved'.gen = n)
              => Records(w, s, n)
<1>1. my[w] \in 1 .. launches /\ ~saved.removed
  BY Types DEF IInv, Recording, Starting, Carrying
<1>2. launches' \in launches .. MaxLaunches /\ launches' = launches
  BY SameLaunches
<1>3. close.pc # "writing"
  BY Constants DEF IInv, Admitted, Holding
<1>4. ~hold /\ exit.pc # "swept" /\ exit.pc # "drained"
  BY DEF IInv, Held, HeldStages, Exiting, ActiveStages, EndStages
<1>5. /\ saved' \in [gen : 0 .. launches', proc : 0 .. launches', window : 0 .. launches',
                     removed : BOOLEAN]
      /\ saved'.gen = saved'.proc /\ saved'.removed = saved.removed
  BY <1>1, <1>2 DEF IInv, TypeOK, Recording, Recorded
<1>6. Runs(w)
  BY <1>1, <1>2, <1>3 DEF IInv, TypeOK, Runs
<1> QED BY <1>1, <1>2, <1>4, <1>5, <1>6 DEF Records

LEMMA SaveStep == ASSUME IInv, NEW w \in Workers, Save(w) PROVE IInv'
<1>1. /\ pc[w] = "spawned" /\ Recorded(my[w]) /\ UNCHANGED <<barrierVars, processVars, shellVars>>
      /\ waiters' = waiters \cup {my[w]} /\ UNCHANGED <<owner, alive, launches>>
  BY DEF Save, processVars
<1>2. saved'.gen = my[w]
  BY <1>1 DEF IInv, TypeOK, Recorded
<1>3. CASE Shown(w, my[w])
  <2>1. Records(w, "idle", 0) /\ Records(w, "link", my[w])
    BY <1>1, <1>2, RecordedKeeps DEF Starting
  <2> QED BY <1>1, <1>2, <1>3, <2>1, RecordedKeeps, ShownKeeps
<1>4. CASE /\ w \notin Tasks /\ Goto(w, "window") /\ UNCHANGED <<my, wait, gate>>
           /\ admission' = IF w \in Nested THEN admission ELSE Free
  <2>1. Walks(w, "window", my[w])
    BY <1>1, <1>4, KeepsLaunch, RecordedKeeps DEF Stage, Carrying
  <2>2. Locks(w, "window")
    BY <1>1, <1>4, Types DEF IInv, Guarded, Admitted, Locks, Holding, Following
  <2>3. Records(w, "window", my[w]) /\ Runs(w)
    BY <1>1, RecordedKeeps DEF Starting
  <2>4. Barred("window")
    BY <1>1, RecordedKeeps DEF Barred
  <2> QED BY <1>1, <1>4, <2>1, <2>2, <2>3, <2>4, RecordedKeeps, SameWaits, WorkerKeeps DEF Stage
<1> QED BY <1>3, <1>4 DEF Save

LEMMA AbortStep == ASSUME IInv, NEW w \in Workers, Abort(w) PROVE IInv'
<1>1. /\ UNCHANGED saved \/ Recorded(my[w])
      /\ alive' \subseteq alive /\ Done(w)
      /\ UNCHANGED <<wait, barrierVars, waiters, owner, launches, shellVars>>
  BY DEF Abort
<1>2. pc[w] = "spawned"
  BY DEF Abort
<1>3. launches' \in launches .. MaxLaunches /\ Records(w, "idle", 0) /\ Runs(w)
  BY <1>1, <1>2, RecordedKeeps DEF Starting
<1> QED BY <1>1, <1>3, DoneWalks, SameWaits, WorkerKeeps DEF Stage

LEMMA WindowReadyStep == ASSUME IInv, NEW w \in Workers, WindowReady(w) PROVE IInv'
BY JustDone, SameWaits, SameLaunches DEF WindowReady, processVars

LEMMA LinkStep == ASSUME IInv, NEW w \in Workers, Link(w) PROVE IInv'
<1>1. /\ pc[w] = "link" /\ w \in Tasks /\ w \in Requests /\ my[w] \in 0 .. launches
      /\ UNCHANGED <<barrierVars, saved, waiters, processVars, shellVars>>
      /\ launches' \in launches .. MaxLaunches /\ launches' = launches
  BY SameLaunches, Types, Constants DEF IInv, Link, Guarded, Following, processVars
<1>2. ~hold /\ exit.pc # "swept" /\ close.pc # "asked"
  BY <1>1, Excluded DEF IInv, Held, HeldStages, Exiting, EndStages
<1>3. CASE Done(w) /\ UNCHANGED wait
  BY <1>1, <1>3, JustDone, SameWaits
<1>4. CASE /\ Done(w)
           /\ wait' = [t \in Tasks |-> IF t = w THEN [wait[w] EXCEPT !.life = my[w]] ELSE NoWait]
  <2>1. /\ [wait[w] EXCEPT !.life = my[w]] \in [life : 0 .. launches', again : BOOLEAN]
        /\ NoWait \in [life : 0 .. launches', again : BOOLEAN]
    BY <1>1, Records0 DEF IInv, TypeOK, NoWait
  <2>2. wait' \in [Tasks -> [life : 0 .. launches', again : BOOLEAN]]
    BY <1>4, <2>1
  <2> QED BY <1>1, <1>2, <1>4, <2>2, JustDone, MoreWaits
<1>5. CASE Running /\ Goto(w, "carrying") /\ UNCHANGED <<my, wait, gate, admission>>
  <2>1. saved.gen = my[w]
    BY <1>1 DEF IInv, LinkToAwaited
  <2>2. Barred("carrying")
    BY <1>2 DEF Barred, ActiveStages
  <2> QED BY <1>1, <1>5, <2>1, <2>2, JustGoes DEF Stage, Carrying, Holding, Starting
<1> QED BY <1>3, <1>4, <1>5 DEF Link

LEMMA WorkerStep == ASSUME IInv, NEW w \in Workers, Worker(w) PROVE IInv'
BY BeginStep, OuterStep, RefusedStep, NavigateStep, ResumeStep, ShowStep, AdmitStep, LookStep,
   CheckStep, SpawnStep, ReopenStep, SaveStep, AbortStep, WindowReadyStep, LinkStep, CarryStep
DEF Worker

----------------------------------------------------------------------------
(* The close, the removal and the exit.  None of them moves a worker,      *)
(* starts a process or takes a lock that a worker has.                     *)

Manages ==
  /\ UNCHANGED <<pc, my, owner, launches>>
  /\ alive' \subseteq alive /\ waiters' \subseteq waiters /\ wait' \in {wait, Forgotten}
  /\ gate' \in {gate, Closer, Free} /\ (gate' # gate => gate \in {Free, Closer})
  /\ admission' \in {admission, Closer, Free}
  /\ admission' # admission => admission \in {Free, Closer}
  /\ saved' \in [gen : 0 .. launches, proc : 0 .. launches, window : 0 .. launches,
                 removed : BOOLEAN]
  /\ saved'.gen = saved.gen /\ saved'.proc = saved.proc
  /\ saved'.removed => saved.removed \/ close.pc = "writing"

CloseStates ==
  [pc : {"idle", "asked", "held", "remote", "ending", "removing", "writing"},
   remove : BOOLEAN, plain : BOOLEAN, gen : 0 .. launches,
   seen : BOOLEAN, swept : BOOLEAN, abandoned : BOOLEAN]

Closes ==
  /\ close' \in CloseStates
  /\ hold' \in BOOLEAN /\ closes' \in 0 .. MaxCloses /\ crashes' \in 0 .. MaxCrashes
  /\ close'.pc \in {"asked", "removing", "writing"} => gate' = Closer
  /\ close'.pc = "writing" => admission' = Closer /\ (close.pc = "writing" \/ ~Running)
  /\ close'.pc = "asked" => wait' = Forgotten /\ ~close'.swept
  /\ hold' => hold \/ (close.pc = "asked" /\ admission = Free)
  /\ close'.swept /\ hold' => (close.swept /\ hold) \/ alive' = {}

Exits ==
  /\ exit' \in [pc : {"none", "stopping", "drained", "swept"}, gen : 0 .. launches]
  /\ stopping' \in BOOLEAN /\ exits' \in 0 .. MaxExits
  /\ exit'.pc # "none" => stopping'
  /\ exit'.pc = "drained" => exit.pc = "drained" \/ Active = {}
  /\ exit'.pc = "swept" =>
       \/ exit.pc = "swept"
       \/ exit.pc = "drained" /\ gate = Free /\ wait' = Forgotten /\ alive' = {}

LEMMA ForgottenLife == \A t \in Tasks : Forgotten[t].life = 0
BY DEF Forgotten, NoWait

LEMMA ManagerKeeps == ASSUME IInv, Manages, Closes, Exits PROVE IInv'
<1> USE DEF IInv, Manages
<1>1. TypeOK'
  <2>1. wait' \in [Tasks -> [life : 0 .. launches, again : BOOLEAN]]
    <3>1. 0 \in 0 .. launches
      BY DEF TypeOK
    <3>2. Forgotten \in [Tasks -> [life : 0 .. launches, again : BOOLEAN]]
      BY <3>1 DEF Forgotten, NoWait
    <3> QED BY <3>2 DEF TypeOK
  <2> QED BY <2>1 DEF TypeOK, Closes, CloseStates, Exits
<1>2. Guarded'
  BY Constants DEF Guarded, Closes
<1>3. Admitted'
  BY Constants DEF Admitted, Closes
<1>4. Recording'
  <2>1. close.pc = "writing" => \A w \in Workers : pc[w] \notin Starting
    BY Constants DEF Admitted, Holding, Starting
  <2> QED BY <2>1 DEF Recording, Running, Closes
<1>5. Held'
  <2>1. ASSUME close.pc = "asked", admission = Free, NEW w \in Workers
        PROVE  pc[w] \in HeldStages
    <3>1. pc[w] \notin Holding /\ (w \in Requests => pc[w] = "idle")
      BY <2>1, Constants DEF Guarded, Admitted
    <3>2. pc[w] \notin Following /\ pc[w] \in Stage
      <4>1. pc[w] \in Stage
        BY Types
      <4>2. pc[w] \in Following => w \in Requests
        BY Constants DEF Guarded
      <4> QED BY <3>1, <4>1, <4>2 DEF Following
    <3> QED BY <3>1, <3>2 DEF Holding, Following, Stage, HeldStages
  <2>2. hold' => \A t \in Tasks : wait'[t].life = 0
    BY ForgottenLife DEF Held, Closes
  <2> QED BY <2>1, <2>2 DEF Held, Closes
<1>6. Exiting'
  <2>1. ASSUME exit.pc = "drained", gate = Free, NEW w \in Workers
        PROVE  pc[w] \in EndStages
    <3>1. pc[w] \notin ActiveStages /\ (w \in Requests => pc[w] = "idle") /\ pc[w] \in Stage
      BY <2>1, Types, Constants DEF Guarded, Exiting
    <3>2. pc[w] \notin Following
      BY <3>1, Constants DEF Guarded, Following
    <3> QED BY <3>1, <3>2 DEF ActiveStages, Following, Stage, EndStages
  <2>2. Active = {} => \A w \in Workers : pc[w] \notin ActiveStages
    BY DEF Active, ActiveStages
  <2>3. exit'.pc = "swept" => \A t \in Tasks : wait'[t].life = 0
    BY ForgottenLife DEF Exiting, Exits
  <2> QED BY <2>1, <2>2, <2>3 DEF Exiting, Exits
<1>7. LinkToAwaited' /\ ClosedStaysClosed' /\ ExitLeavesNothing'
  BY DEF LinkToAwaited, ClosedStaysClosed, ExitLeavesNothing, Closes, Exits
<1> QED BY <1>1, <1>2, <1>3, <1>4, <1>5, <1>6, <1>7

(* What each of them leaves alone.                                         *)
LEMMA NoClosing ==
  IInv /\ UNCHANGED <<gate, admission, hold, close, closes, crashes>> /\ alive' \subseteq alive
    /\ (wait' = wait \/ wait' = Forgotten) => Closes
BY DEF IInv, TypeOK, Guarded, Admitted, Held, ClosedStaysClosed, Closes, CloseStates

LEMMA NoExiting == IInv /\ UNCHANGED <<exit, stopping, exits>> => Exits
BY DEF IInv, TypeOK, Exiting, Exits

LEMMA NoProcess ==
  IInv /\ UNCHANGED <<pc, my, wait, gate, admission, saved, waiters, processVars>> => Manages
BY DEF IInv, TypeOK, Manages, processVars

LEMMA AppExitsStep == ASSUME IInv, NEW p \in Launches, AppExits(p) PROVE IInv'
<1>1. /\ UNCHANGED <<workerVars, barrierVars, saved, owner, waiters, launches, shellVars>>
      /\ alive' \subseteq alive
  BY DEF AppExits
<1>2. Manages
  BY <1>1 DEF IInv, TypeOK, Manages, workerVars
<1> QED BY <1>1, <1>2, NoClosing, NoExiting, ManagerKeeps DEF workerVars, barrierVars, shellVars

LEMMA PublishStep == ASSUME IInv, NEW n \in Launches, Publish(n) PROVE IInv'
<1>1. /\ UNCHANGED <<workerVars, barrierVars, processVars, shellVars>>
      /\ waiters' \subseteq waiters /\ n \in 0 .. launches
      /\ saved' = saved \/ saved' = [saved EXCEPT !.window = n]
  BY DEF IInv, TypeOK, Publish
<1>2. /\ saved' \in [gen : 0 .. launches, proc : 0 .. launches, window : 0 .. launches,
                     removed : BOOLEAN]
      /\ saved'.gen = saved.gen /\ saved'.proc = saved.proc /\ saved'.removed = saved.removed
  BY <1>1 DEF IInv, TypeOK
<1>3. Manages
  BY <1>1, <1>2 DEF Manages, workerVars, processVars
<1> QED BY <1>1, <1>3, NoClosing, NoExiting, ManagerKeeps
    DEF workerVars, barrierVars, processVars, shellVars

LEMMA RestoreStep == ASSUME IInv, Restore PROVE IInv'
<1>1. /\ UNCHANGED <<workerVars, barrierVars, waiters, processVars, shellVars>>
      /\ saved' = [saved EXCEPT !.removed = FALSE]
  BY DEF Restore
<1>2. /\ saved' \in [gen : 0 .. launches, proc : 0 .. launches, window : 0 .. launches,
                     removed : BOOLEAN]
      /\ saved'.gen = saved.gen /\ saved'.proc = saved.proc /\ saved'.removed = FALSE
  BY <1>1 DEF IInv, TypeOK
<1>3. Manages
  BY <1>1, <1>2 DEF Manages, workerVars, processVars
<1> QED BY <1>1, <1>3, NoClosing, NoExiting, ManagerKeeps
    DEF workerVars, barrierVars, processVars, shellVars

LEMMA NoCloseFields == IInv => NoClose \in CloseStates /\ NoClose.pc = "idle" /\ ~NoClose.swept
<1> SUFFICES ASSUME IInv PROVE NoClose \in CloseStates /\ NoClose.pc = "idle" /\ ~NoClose.swept
  OBVIOUS
<1>1. 0 \in 0 .. launches
  BY DEF IInv, TypeOK
<1> QED BY <1>1 DEF NoClose, CloseStates

LEMMA CloseBeginStep == ASSUME IInv, CloseBegin PROVE IInv'
<1>1. /\ UNCHANGED <<pc, my, admission, barrierVars, saved, waiters, processVars, exit, exits,
                     crashes>>
      /\ close.pc = "idle" /\ closes < MaxCloses /\ closes' = closes + 1
      /\ \/ /\ gate = Free /\ gate' = Closer /\ wait' = Forgotten
            /\ \E remove \in BOOLEAN :
                 close' = [NoClose EXCEPT !.pc = "asked", !.remove = remove]
         \/ /\ UNCHANGED <<gate, wait>>
            /\ close' = [NoClose EXCEPT !.pc = "ending", !.remove = TRUE, !.plain = TRUE]
  BY DEF CloseBegin
<1>2. closes' \in 0 .. MaxCloses /\ 0 \in 0 .. launches
  <2>1. closes \in 0 .. MaxCloses /\ MaxCloses \in Nat /\ closes < MaxCloses /\ closes' = closes + 1
    BY <1>1, Constants DEF IInv, TypeOK
  <2>2. 0 \in 0 .. launches
    BY DEF IInv, TypeOK
  <2> QED BY <2>1, <2>2
<1>3. /\ close' \in CloseStates /\ ~close'.swept
      /\ \/ close'.pc = "ending" /\ UNCHANGED <<gate, wait>>
         \/ close'.pc = "asked" /\ gate = Free /\ gate' = Closer /\ wait' = Forgotten
  BY <1>1, <1>2 DEF NoClose, CloseStates
<1>4. Manages
  BY <1>1, <1>3 DEF IInv, TypeOK, Manages, processVars
<1>5. Closes
  <2>1. /\ hold' \in BOOLEAN /\ crashes' \in 0 .. MaxCrashes /\ hold' = hold
        /\ close'.pc \in {"asked", "removing", "writing"} => gate' = Closer
        /\ close'.pc = "writing" => admission' = Closer /\ (close.pc = "writing" \/ ~Running)
        /\ close'.pc = "asked" => wait' = Forgotten /\ ~close'.swept
    BY <1>1, <1>3 DEF IInv, TypeOK, barrierVars
  <2> QED BY <1>2, <1>3, <2>1 DEF Closes
<1> QED BY <1>1, <1>4, <1>5, NoExiting, ManagerKeeps DEF barrierVars

LEMMA CloseHoldStep == ASSUME IInv, CloseHold PROVE IInv'
<1>1. /\ UNCHANGED <<pc, my, wait, admission, stopping, saved, waiters, processVars, exit, closes,
                     exits, crashes>>
      /\ close.pc = "asked" /\ admission = Free /\ hold' = TRUE /\ gate' = Free
      /\ \/ close' = NoClose
         \/ close' = [close EXCEPT !.pc = "held", !.gen = saved.gen, !.seen = Running]
  BY DEF CloseHold
<1>2. gate = Closer /\ ~close.swept /\ Running \in BOOLEAN /\ 0 \in 0 .. launches
  BY <1>1 DEF IInv, TypeOK, Guarded, Held, Running
<1>3. /\ close' \in CloseStates
      /\ close'.pc \in {"idle", "held"} /\ ~close'.swept
  <2>1. CASE close' = NoClose
    BY <1>2, <2>1, NoCloseFields
  <2>2. CASE close' = [close EXCEPT !.pc = "held", !.gen = saved.gen, !.seen = Running]
    BY <1>2, <2>2 DEF IInv, TypeOK, CloseStates
  <2> QED BY <1>1, <2>1, <2>2
<1>4. Manages
  BY <1>1, <1>2 DEF IInv, TypeOK, Manages, processVars
<1>5. Closes
  BY <1>1, <1>3 DEF IInv, TypeOK, Closes
<1> QED BY <1>1, <1>4, <1>5, NoExiting, ManagerKeeps

LEMMA CleanupStep == ASSUME IInv, Cleanup PROVE IInv'
<1>1. /\ UNCHANGED <<pc, my, gate, admission, barrierVars, saved, waiters, owner, launches, exit,
                     closes, exits, crashes>>
      /\ close.pc = "held" /\ wait' = Forgotten /\ alive' \subseteq alive
      /\ \/ alive' = {} /\ close' = [close EXCEPT !.pc = "remote", !.swept = TRUE]
         \/ close' = [close EXCEPT !.pc = "ending", !.remove = FALSE]
         \/ close' = [close EXCEPT !.pc = "remote"]
  BY DEF Cleanup, Swept, NotSwept
<1>2. /\ close' \in CloseStates
      /\ close'.pc \in {"remote", "ending"} /\ (alive' = {} \/ close'.swept = close.swept)
  BY <1>1 DEF IInv, TypeOK, CloseStates
<1>3. Manages
  BY <1>1 DEF IInv, TypeOK, Manages
<1>4. Closes
  BY <1>1, <1>2 DEF IInv, TypeOK, ClosedStaysClosed, Closes, barrierVars
<1> QED BY <1>1, <1>3, <1>4, NoExiting, ManagerKeeps DEF barrierVars

LEMMA CloseSettlesStep == ASSUME IInv, CloseSettles PROVE IInv'
<1>1. /\ UNCHANGED <<workerVars, barrierVars, saved, waiters, processVars, exit, closes, exits,
                     crashes>>
      /\ \/ close' = [close EXCEPT !.pc = "ending"]
         \/ close' = [close EXCEPT !.pc = "ending", !.remove = FALSE]
  BY DEF CloseSettles
<1>2. /\ close' \in CloseStates
      /\ close'.pc = "ending" /\ close'.swept = close.swept
  BY <1>1 DEF IInv, TypeOK, CloseStates
<1>3. Manages
  BY <1>1, NoProcess DEF workerVars
<1>4. Closes
  BY <1>1, <1>2 DEF IInv, TypeOK, ClosedStaysClosed, Closes, barrierVars, processVars
<1> QED BY <1>1, <1>3, <1>4, NoExiting, ManagerKeeps DEF barrierVars

LEMMA CloseEndStep == ASSUME IInv, CloseEnd PROVE IInv'
<1>1. /\ UNCHANGED <<pc, my, admission, stopping, saved, waiters, processVars, exit, closes, exits,
                     crashes>>
      /\ gate = Free /\ wait' \in {wait, Forgotten} /\ close.pc = "ending"
      /\ \/ /\ gate' = Closer /\ close' = [close EXCEPT !.pc = "removing"] /\ UNCHANGED hold
         \/ gate' = Free /\ close' = NoClose /\ hold' = FALSE
  BY DEF CloseEnd
<1>2. /\ close' \in CloseStates /\ close'.pc \in {"idle", "removing"}
      /\ close'.pc = "removing" => gate' = Closer
      /\ hold' => hold /\ close'.swept = close.swept
      /\ hold' \in BOOLEAN
  <2>1. CASE close' = NoClose /\ hold' = FALSE
    BY <2>1, NoCloseFields
  <2>2. CASE close' = [close EXCEPT !.pc = "removing"] /\ gate' = Closer /\ UNCHANGED hold
    BY <2>2 DEF IInv, TypeOK, CloseStates
  <2> QED BY <1>1, <2>1, <2>2
<1>3. Manages
  BY <1>1 DEF IInv, TypeOK, Manages, processVars
<1>4. Closes
  BY <1>1, <1>2 DEF IInv, TypeOK, Held, Closes, processVars
<1> QED BY <1>1, <1>3, <1>4, NoExiting, ManagerKeeps

(* The end of a removal, with or without the admission.                    *)
LEMMA EndRemovalKeeps ==
  ASSUME IInv, close.pc \in {"asked", "removing", "writing"}, close' = NoClose, gate' = Free,
         hold' \in BOOLEAN, hold' => hold,
         UNCHANGED <<pc, my, wait, stopping, waiters, processVars, exit, closes, exits, crashes>>,
         admission' = admission \/ (close.pc = "writing" /\ admission' = Free),
         saved' = saved \/ (close.pc = "writing" /\ saved' = [saved EXCEPT !.removed = TRUE])
  PROVE  IInv'
<1>1. /\ saved' \in [gen : 0 .. launches, proc : 0 .. launches, window : 0 .. launches,
                     removed : BOOLEAN]
      /\ saved'.gen = saved.gen /\ saved'.proc = saved.proc
      /\ saved'.removed => saved.removed \/ close.pc = "writing"
  BY DEF IInv, TypeOK
<1>2. gate = Closer /\ (close.pc = "writing" => admission = Closer)
  BY DEF IInv, Guarded, Admitted
<1>3. Manages
  BY <1>1, <1>2 DEF Manages, processVars
<1>4. Closes
  BY NoCloseFields DEF IInv, TypeOK, Closes, processVars
<1> QED BY <1>3, <1>4, NoExiting, ManagerKeeps

LEMMA CloseRefusedStep == ASSUME IInv, CloseRefused PROVE IInv'
<1>1. /\ close.pc \in {"asked", "removing"} /\ close' = NoClose /\ gate' = Free
      /\ hold' = hold \/ hold' = (hold /\ close.plain)
      /\ UNCHANGED <<pc, my, wait, admission, stopping, saved, waiters, processVars, exit, closes,
                     exits, crashes>>
  BY DEF CloseRefused, EndRemoval
<1>2. hold' \in BOOLEAN /\ (hold' => hold)
  BY <1>1 DEF IInv, TypeOK
<1> QED BY <1>1, <1>2, EndRemovalKeeps

LEMMA RemoveWriteStep == ASSUME IInv, RemoveWrite PROVE IInv'
<1>1. /\ close.pc = "writing" /\ close' = NoClose /\ gate' = Free
      /\ hold' = (hold /\ close.plain) /\ admission' = Let(admission, Closer)
      /\ saved' = saved \/ saved' = [saved EXCEPT !.removed = TRUE]
      /\ UNCHANGED <<pc, my, wait, stopping, waiters, processVars, exit, closes, exits, crashes>>
  BY DEF RemoveWrite, EndRemoval
<1>2. hold' \in BOOLEAN /\ (hold' => hold) /\ admission' = Free
  BY <1>1 DEF IInv, TypeOK, Admitted, Let
<1> QED BY <1>1, <1>2, EndRemovalKeeps

LEMMA RemoveLookStep == ASSUME IInv, RemoveLook PROVE IInv'
<1>1. /\ UNCHANGED <<pc, my, wait, stopping, saved, waiters, processVars, exit, closes, exits,
                     crashes>>
      /\ close.pc = "removing" /\ admission = Free
      /\ \/ /\ Running /\ close' = NoClose /\ gate' = Free /\ hold' = (hold /\ close.plain)
            /\ UNCHANGED admission
         \/ /\ ~Running /\ close' = [close EXCEPT !.pc = "writing"] /\ admission' = Closer
            /\ UNCHANGED <<hold, gate>>
  BY DEF RemoveLook, EndRemoval
<1>2. CASE ~Running /\ close' = [close EXCEPT !.pc = "writing"] /\ admission' = Closer
           /\ UNCHANGED <<hold, gate>>
  <2>1. close' \in CloseStates /\ close'.pc = "writing" /\ close'.swept = close.swept
    BY <1>2 DEF IInv, TypeOK, CloseStates
  <2>2. Manages
    BY <1>1, <1>2 DEF IInv, TypeOK, Manages, processVars
  <2>3. Closes
    BY <1>1, <1>2, <2>1 DEF IInv, TypeOK, Guarded, ClosedStaysClosed, Closes, processVars
  <2> QED BY <1>1, <2>2, <2>3, NoExiting, ManagerKeeps
<1>3. CASE close' = NoClose /\ gate' = Free /\ hold' = (hold /\ close.plain)
           /\ UNCHANGED admission
  <2>1. hold' \in BOOLEAN /\ (hold' => hold)
    BY <1>3 DEF IInv, TypeOK
  <2> QED BY <1>1, <1>3, <2>1, EndRemovalKeeps
<1> QED BY <1>1, <1>2, <1>3

LEMMA AbandonStep == ASSUME IInv, Abandon PROVE IInv'
<1>1. /\ UNCHANGED <<workerVars, barrierVars, saved, waiters, processVars, exit, closes, exits,
                     crashes>>
      /\ \/ close.pc = "asked" /\ close' = [close EXCEPT !.abandoned = TRUE]
         \/ close' = NoClose
  BY DEF Abandon
<1>2. /\ close' \in CloseStates
      /\ \/ close'.pc = "idle" /\ ~close'.swept
         \/ close'.pc = "asked" /\ close.pc = "asked" /\ close'.swept = close.swept
  <2>1. CASE close' = NoClose
    BY <2>1, NoCloseFields
  <2>2. CASE close.pc = "asked" /\ close' = [close EXCEPT !.abandoned = TRUE]
    BY <2>2 DEF IInv, TypeOK, CloseStates
  <2> QED BY <1>1, <2>1, <2>2
<1>3. Manages
  BY <1>1, NoProcess DEF workerVars
<1>4. Closes
  BY <1>1, <1>2 DEF IInv, TypeOK, Guarded, Held, Closes, workerVars, barrierVars, processVars
<1> QED BY <1>1, <1>3, <1>4, NoExiting, ManagerKeeps DEF barrierVars

LEMMA ExpireStep == ASSUME IInv, Expire PROVE IInv'
<1>1. /\ UNCHANGED <<workerVars, stopping, saved, waiters, processVars, shellVars>>
      /\ hold' = FALSE
  BY DEF Expire
<1>2. Manages
  BY <1>1, NoProcess DEF workerVars
<1>3. Closes
  BY <1>1 DEF IInv, TypeOK, Guarded, Admitted, Held, Closes, CloseStates, workerVars, shellVars
<1> QED BY <1>1, <1>2, <1>3, NoExiting, ManagerKeeps DEF shellVars

LEMMA RecoverStep == ASSUME IInv, Recover PROVE IInv'
<1>1. /\ UNCHANGED <<pc, my, gate, admission, barrierVars, saved, waiters, owner, launches,
                     shellVars>>
      /\ wait' = Forgotten /\ alive' = {}
  BY DEF Recover, Swept
<1>2. Manages
  BY <1>1 DEF IInv, TypeOK, Manages
<1> QED BY <1>1, <1>2, NoClosing, NoExiting, ManagerKeeps DEF barrierVars, shellVars

LEMMA ExitBeginStep == ASSUME IInv, ExitBegin PROVE IInv'
<1>1. /\ UNCHANGED <<workerVars, hold, saved, waiters, processVars, close, closes, crashes>>
      /\ exits < MaxExits /\ exits' = exits + 1 /\ stopping' = TRUE
      /\ exit' = [NoExit EXCEPT !.pc = "stopping"]
  BY DEF ExitBegin
<1>2. /\ exits' \in 0 .. MaxExits /\ exit'.pc = "stopping"
      /\ exit' \in [pc : {"none", "stopping", "drained", "swept"}, gen : 0 .. launches]
  <2>1. 0 \in 0 .. launches
    BY DEF IInv, TypeOK
  <2> QED BY <1>1, <2>1, Constants DEF IInv, TypeOK, NoExit
<1>3. Manages
  BY <1>1, NoProcess DEF workerVars
<1>4. Exits
  BY <1>1, <1>2 DEF Exits
<1> QED BY <1>1, <1>3, <1>4, NoClosing, ManagerKeeps DEF workerVars, processVars

LEMMA ExitDrainedStep == ASSUME IInv, ExitDrained PROVE IInv'
<1>1. /\ UNCHANGED <<workerVars, barrierVars, saved, waiters, processVars, close, closes, exits,
                     crashes>>
      /\ exit.pc = "stopping" /\ Active = {} /\ exit' = [pc |-> "drained", gen |-> saved.gen]
  BY DEF ExitDrained
<1>2. /\ exit'.pc = "drained"
      /\ exit' \in [pc : {"none", "stopping", "drained", "swept"}, gen : 0 .. launches]
  BY <1>1 DEF IInv, TypeOK
<1>3. Manages
  BY <1>1, NoProcess DEF workerVars
<1>4. Exits
  BY <1>1, <1>2 DEF IInv, TypeOK, Exiting, Exits, barrierVars
<1> QED BY <1>1, <1>3, <1>4, NoClosing, ManagerKeeps DEF workerVars, barrierVars, processVars

LEMMA ExitSweepStep == ASSUME IInv, ExitSweep PROVE IInv'
<1>1. /\ UNCHANGED <<pc, my, gate, admission, barrierVars, saved, waiters, owner, launches, close,
                     closes, exits, crashes>>
      /\ exit.pc = "drained" /\ gate = Free /\ alive' = {} /\ wait' = Forgotten
      /\ exit' = [exit EXCEPT !.pc = "swept"]
  BY DEF ExitSweep, Swept
<1>2. /\ exit'.pc = "swept"
      /\ exit' \in [pc : {"none", "stopping", "drained", "swept"}, gen : 0 .. launches]
  BY <1>1 DEF IInv, TypeOK
<1>3. Manages
  BY <1>1 DEF IInv, TypeOK, Manages
<1>4. Exits
  BY <1>1, <1>2 DEF IInv, TypeOK, Exiting, Exits, barrierVars
<1> QED BY <1>1, <1>3, <1>4, NoClosing, ManagerKeeps DEF barrierVars

LEMMA ExitFailsStep == ASSUME IInv, ExitFails PROVE IInv'
<1>1. /\ UNCHANGED <<workerVars, hold, saved, waiters, owner, launches, close, closes, exits,
                     crashes>>
      /\ exit' = NoExit /\ stopping' = FALSE /\ alive' \subseteq alive
  BY DEF ExitFails, NotSwept
<1>2. /\ exit'.pc = "none"
      /\ exit' \in [pc : {"none", "stopping", "drained", "swept"}, gen : 0 .. launches]
  <2>1. 0 \in 0 .. launches
    BY DEF IInv, TypeOK
  <2> QED BY <1>1, <2>1 DEF NoExit
<1>3. Manages
  BY <1>1 DEF IInv, TypeOK, Manages, workerVars
<1>4. Exits
  BY <1>1, <1>2 DEF IInv, TypeOK, Exits
<1> QED BY <1>1, <1>3, <1>4, NoClosing, ManagerKeeps DEF workerVars

(* The adapter dies: nobody is under way, and nothing is held.             *)
LEMMA CrashStep == ASSUME IInv, Crash PROVE IInv'
<1>1. /\ pc' = [w \in Workers |-> "idle"] /\ my' = [w \in Workers |-> 0]
      /\ wait' = Forgotten /\ gate' = Free /\ admission' = Free
      /\ hold' = FALSE /\ stopping' = FALSE /\ waiters' = {}
      /\ close' = NoClose /\ exit' = NoExit
      /\ crashes < MaxCrashes /\ crashes' = crashes + 1
      /\ UNCHANGED <<saved, owner, alive, launches, closes, exits>>
  BY DEF Crash, processVars
<1>2. close'.pc = "idle" /\ ~close'.swept /\ exit'.pc = "none" /\ Running' = Running
  BY <1>1, NoCloseFields DEF NoExit, Running
<1>3. TypeOK'
  <2>1. 0 \in 0 .. launches
    BY DEF IInv, TypeOK
  <2>2. /\ pc' \in [Workers -> Stage] /\ my' \in [Workers -> 0 .. launches']
        /\ \A w \in Workers : my'[w] = 0 /\ pc'[w] \notin Carrying
    BY <1>1, <2>1 DEF Stage, Carrying
  <2>3. /\ wait' \in [Tasks -> [life : 0 .. launches', again : BOOLEAN]]
        /\ exit' \in [pc : {"none", "stopping", "drained", "swept"}, gen : 0 .. launches']
    BY <1>1, <2>1 DEF Forgotten, NoWait, NoExit
  <2>4. close' \in [pc : {"idle", "asked", "held", "remote", "ending", "removing", "writing"},
                    remove : BOOLEAN, plain : BOOLEAN, gen : 0 .. launches',
                    seen : BOOLEAN, swept : BOOLEAN, abandoned : BOOLEAN]
    BY <1>1, <2>1 DEF NoClose
  <2>5. crashes' \in 0 .. MaxCrashes
    BY <1>1, Constants DEF IInv, TypeOK
  <2> QED BY <1>1, <2>2, <2>3, <2>4, <2>5 DEF IInv, TypeOK, Stage, Carrying
<1>4. Guarded' /\ Admitted' /\ Recording'
  BY <1>1, <1>2, Constants DEF IInv, Guarded, Admitted, Recording, Following, Holding, Starting
<1>5. Held' /\ Exiting' /\ LinkToAwaited' /\ ClosedStaysClosed' /\ ExitLeavesNothing'
  BY <1>1, <1>2, Constants DEF Held, Exiting, LinkToAwaited, ClosedStaysClosed, ExitLeavesNothing
<1> QED BY <1>3, <1>4, <1>5 DEF IInv

----------------------------------------------------------------------------
LEMMA StutterInv == ASSUME IInv, UNCHANGED vars PROVE IInv'
BY DEF IInv, TypeOK, Guarded, Admitted, Recording, Running, Held, Exiting, LinkToAwaited,
       ClosedStaysClosed, ExitLeavesNothing, vars

LEMMA NextInv == IInv /\ [Next]_vars => IInv'
<1> SUFFICES ASSUME IInv, [Next]_vars PROVE IInv'
  OBVIOUS
<1>1. CASE UNCHANGED vars
  BY <1>1, StutterInv
<1>2. CASE \E w \in Workers : Worker(w)
  BY <1>2, WorkerStep
<1>3. CASE \E n \in Launches : Publish(n) \/ AppExits(n)
  BY <1>3, PublishStep, AppExitsStep
<1>4. CASE CloseBegin \/ CloseHold \/ Cleanup \/ CloseSettles \/ CloseEnd \/ CloseRefused
  BY <1>4, CloseBeginStep, CloseHoldStep, CleanupStep, CloseSettlesStep, CloseEndStep,
     CloseRefusedStep
<1>5. CASE RemoveLook \/ RemoveWrite \/ Restore \/ Abandon \/ Expire \/ Recover
  BY <1>5, RemoveLookStep, RemoveWriteStep, RestoreStep, AbandonStep, ExpireStep, RecoverStep
<1>6. CASE ExitBegin \/ ExitDrained \/ ExitSweep \/ ExitFails \/ Crash
  BY <1>6, ExitBeginStep, ExitDrainedStep, ExitSweepStep, ExitFailsStep, CrashStep
<1> QED BY <1>1, <1>2, <1>3, <1>4, <1>5, <1>6 DEF Next

(* The stages, the locks and the two barriers agree at every step.         *)
THEOREM Inductive == Spec => []IInv
BY InitInv, NextInv, PTL DEF Spec

(* Stages, locks and records are what they should be, and a worker carries *)
(* a launch exactly while it has one in hand.                              *)
THEOREM TypeCorrect == Spec => []TypeOK
<1>1. IInv => TypeOK
  BY DEF IInv
<1> QED BY Inductive, <1>1, PTL

(* A profile whose folder was swept under a hold stays closed as long as   *)
(* the hold lasts, whatever was queued, prepared or waited for before it.  *)
THEOREM StaysClosed == Spec => []ClosedStaysClosed
<1>1. IInv => ClosedStaysClosed
  BY DEF IInv
<1> QED BY Inductive, <1>1, PTL

(* A full exit that swept the folder leaves no process, and none comes.    *)
THEOREM NothingLeft == Spec => []ExitLeavesNothing
<1>1. IInv => ExitLeavesNothing
  BY DEF IInv
<1> QED BY Inductive, <1>1, PTL

(* A removed profile records no running application.                       *)
THEOREM RemovedStopped == Spec => []RemovedNotRunning
<1>1. IInv => RemovedNotRunning
  BY DEF IInv, Recording, RemovedNotRunning
<1> QED BY Inductive, <1>1, PTL

(* A task's link goes to the launch its open waited for.                   *)
THEOREM LinkFollowsLaunch == Spec => []LinkToAwaited
<1>1. IInv => LinkToAwaited
  BY DEF IInv
<1> QED BY Inductive, <1>1, PTL

(* No open waits for a profile that is held closed, or resumes on it.      *)
THEOREM WaitsEnd == Spec => []WaitsEndWithClose
<1>1. IInv => WaitsEndWithClose
  BY Constants DEF IInv, Held, HeldStages, WaitsEndWithClose
<1> QED BY Inductive, <1>1, PTL

=============================================================================

---------------------------- MODULE ProfileLaunch ----------------------------
(***************************************************************************)
(* The desktop application of one profile: its launches                    *)
(* (manager_core/instances.py), the close and the removal of the profile   *)
(* (control_center.py, profile_lifecycle.py, Shell/MainWindow.ProfileClose) *)
(* and the full exit of the manager, which all start and end the same      *)
(* processes. The broker that starts and ends them is service/processes.rs. *)
(* A task opened in the profile (conversation_open.py) waits for its runtime *)
(* (pending_navigation.py) and is sent as a link (app_transport.py).        *)
(*                                                                         *)
(* A launch is named by a number, which is also the generation it writes   *)
(* and the process it starts: all are fresh with every launch. Several     *)
(* processes may use the folder of the profile: a process started while    *)
(* another one runs hands over to it and exits, which is an exit like any  *)
(* other here. The launch admission of the profile is the lock that        *)
(* LaunchQueue models in full. What a launch prepares besides its process  *)
(* (settings, plugins, the desktop copy) is one step that may fail.        *)
(***************************************************************************)
EXTENDS Integers, FiniteSets

CONSTANTS
  Warmups,     \* workers that show the profile outside the requests
  Shows,       \* requests that show it (profile.show)
  Logins,      \* requests that show it under an admission of their own, and
               \* ask a running application to show itself
  Tasks,       \* requests that open a task: they show it, then send the link
  Closer,      \* the shell's close and removal of the profile
  Free,        \* nobody
  MaxLaunches, \* bound: processes started
  MaxCloses,   \* bound: closes and removals
  MaxExits,    \* bound: full exits
  MaxCrashes   \* bound: times the adapter dies

Requests == Shows \cup Logins \cup Tasks
Workers == Warmups \cup Requests
Nested == Logins \cup Tasks      \* their own admission surrounds the show

ASSUME WorkersAssumption ==
  /\ IsFiniteSet(Workers)
  /\ Closer \notin Workers /\ Free \notin Workers \cup {Closer}
  /\ Warmups \cap Requests = {} /\ Shows \cap Nested = {} /\ Logins \cap Tasks = {}
ASSUME BoundsAssumption ==
  {MaxLaunches, MaxCloses, MaxExits, MaxCrashes} \subseteq Nat

VARIABLES
  pc,         \* how far each worker is
  my,         \* the launch a worker carries out or sends its link to, or 0
  wait,       \* the launch a task's open waits for, 0 for none, and whether
              \* it already started the application again (PendingNavigations)
  gate,       \* who holds the profile's request gate
  admission,  \* who holds its launch admission
  hold,       \* the profile is held closed (_close_holds)
  stopping,   \* no new launch at all (_launch_stopping)
  saved,      \* the profile's record in state.json
  owner,      \* the launch named by process-owner.json
  alive,      \* the processes that run on the profile's folder
  waiters,    \* launches whose window is awaited
  launches,   \* numbers given out
  close,      \* the close in progress
  exit,       \* the full exit in progress
  closes, exits, crashes

vars == <<pc, my, wait, gate, admission, hold, stopping, saved, owner, alive, waiters,
          launches, close, exit, closes, exits, crashes>>
workerVars == <<pc, my, wait, gate, admission>>
barrierVars == <<hold, stopping>>
processVars == <<owner, alive, launches>>
shellVars == <<close, exit, closes, exits, crashes>>

-----------------------------------------------------------------------------
Launches == 1 .. MaxLaunches
Running == saved.proc \in alive      \* Instances.observe

(* Between the two ends of show: what launch_status reports as active.     *)
Active == {w \in Workers : pc[w] \in
             {"queued", "admitted", "prepared", "checked", "spawned", "asking",
              "reopening", "window"}}

NoWait == [life |-> 0, again |-> FALSE]
Forgotten == [t \in Tasks |-> NoWait]
NoClose == [pc |-> "idle", remove |-> FALSE, plain |-> FALSE, gen |-> 0,
            seen |-> FALSE, swept |-> FALSE, abandoned |-> FALSE]
NoExit == [pc |-> "none", gen |-> 0]

Init ==
  /\ pc = [w \in Workers |-> "idle"] /\ my = [w \in Workers |-> 0]
  /\ wait = Forgotten /\ gate = Free /\ admission = Free
  /\ hold = FALSE /\ stopping = FALSE
  /\ saved = [gen |-> 0, proc |-> 0, window |-> 0, removed |-> FALSE]
  /\ owner = 0 /\ alive = {} /\ waiters = {} /\ launches = 0
  /\ close = NoClose /\ exit = NoExit
  /\ closes = 0 /\ exits = 0 /\ crashes = 0

Goto(w, stage) == pc' = [pc EXCEPT ![w] = stage]
Carries(w, n) == my' = [my EXCEPT ![w] = n]
Let(lock, w) == IF lock = w THEN Free ELSE lock

(* Mutant: a request that ends still names its launch.                     *)
DoneCarrying(w) ==
  /\ Goto(w, "idle") /\ UNCHANGED my
  /\ gate' = Let(gate, w) /\ admission' = Let(admission, w)

(* The request, or the thread, ends: whatever it holds is let go.          *)
Done(w) ==
  /\ Goto(w, "idle") /\ Carries(w, 0)
  /\ gate' = Let(gate, w) /\ admission' = Let(admission, w)

-----------------------------------------------------------------------------
(* Showing the profile.                                                    *)

(* Mutant: a show heeds the hold of its profile only.                      *)
EnterUnlessHeld(w, next) ==
  IF hold THEN Done(w)
  ELSE Goto(w, next) /\ UNCHANGED <<my, gate, admission>>

(* show begins by counting the launch, unless it is refused.               *)
Enter(w, next) ==
  IF stopping \/ hold THEN Done(w)
  ELSE Goto(w, next) /\ UNCHANGED <<my, gate, admission>>

(* A thread of the warmup pass, or a request once it has the gate of the   *)
(* profile, shows it; a nested request asks for its own admission first.   *)
(* profile.show and profile.login end the waits of the profile's tasks.    *)
Begin(w) ==
  /\ pc[w] = "idle"
  /\ \/ /\ w \in Warmups
        /\ ~stopping /\ ~hold
        /\ Goto(w, "queued") /\ UNCHANGED <<my, wait, gate, admission>>
     \/ /\ w \in Shows
        /\ gate = Free /\ ~stopping /\ ~hold
        /\ Goto(w, "queued") /\ gate' = w /\ wait' = Forgotten /\ UNCHANGED <<my, admission>>
     \/ /\ w \in Nested
        /\ gate = Free /\ (w \in Tasks => wait[w].life = 0)
        /\ Goto(w, "outer") /\ gate' = w /\ UNCHANGED <<my, admission>>
        /\ wait' = IF w \in Tasks THEN [wait EXCEPT ![w] = NoWait] ELSE Forgotten
  /\ UNCHANGED <<barrierVars, saved, waiters, processVars, shellVars>>

Outer(w) ==
  /\ pc[w] = "outer" /\ admission = Free
  /\ admission' = w /\ Goto(w, "show") /\ UNCHANGED <<my, wait, gate>>
  /\ UNCHANGED <<barrierVars, saved, waiters, processVars, shellVars>>

(* launch_admission refuses while an update or a restart has the profile.  *)
Refused(w) ==
  /\ pc[w] \in {"outer", "queued", "resuming"}
  /\ Done(w)
  /\ UNCHANGED <<wait, barrierVars, saved, waiters, processVars, shellVars>>

(* conversation.navigate: the wait is taken off the table, for good if it  *)
(* has expired.                                                            *)
Navigate(w) ==
  /\ w \in Tasks /\ pc[w] = "idle" /\ wait[w].life # 0 /\ gate = Free
  /\ wait' = [wait EXCEPT ![w].life = 0]
  /\ \/ Goto(w, "resuming") /\ Carries(w, wait[w].life) /\ gate' = w
     \/ UNCHANGED <<pc, my, gate>>
  /\ UNCHANGED <<admission, barrierVars, saved, waiters, processVars, shellVars>>

Keep(w, n) == wait' = [wait EXCEPT ![w].life = n]

(* Mutant: any launch of the profile will do.                              *)
ResumeAny(w) ==
  /\ pc[w] = "resuming" /\ admission = Free
  /\ \/ saved.removed /\ Done(w) /\ UNCHANGED wait
     \/ /\ ~saved.removed /\ Running
        /\ \/ Done(w) /\ Keep(w, my[w])
           \/ Goto(w, "link") /\ admission' = w /\ UNCHANGED <<my, wait, gate>>
     \/ /\ ~saved.removed /\ ~Running
        /\ Done(w) /\ UNCHANGED wait
  /\ UNCHANGED <<barrierVars, saved, waiters, processVars, shellVars>>

(* resume, under the admission: the wait ends with the launch it follows.  *)
(* It goes on while the runtime is not ready, and starts an application    *)
(* that has exited once more (_relaunch).                                  *)
Resume(w) ==
  /\ pc[w] = "resuming" /\ admission = Free
  /\ IF saved.removed \/ saved.gen # my[w]
     THEN Done(w) /\ UNCHANGED wait
     ELSE \/ /\ Running
             /\ \/ Done(w) /\ Keep(w, my[w])
                \/ Goto(w, "link") /\ admission' = w /\ UNCHANGED <<my, wait, gate>>
          \/ /\ ~Running
             /\ IF wait[w].again \/ stopping \/ hold THEN Done(w) /\ UNCHANGED wait
                ELSE /\ Goto(w, "admitted") /\ admission' = w
                     /\ wait' = [wait EXCEPT ![w].again = TRUE]
                     /\ Carries(w, 0) /\ UNCHANGED gate
  /\ UNCHANGED <<barrierVars, saved, waiters, processVars, shellVars>>

Show(w) ==
  /\ pc[w] = "show"
  /\ Enter(w, "admitted")
  /\ UNCHANGED <<wait, barrierVars, saved, waiters, processVars, shellVars>>

Admit(w) ==
  /\ pc[w] = "queued" /\ admission = Free
  /\ admission' = w /\ Goto(w, "admitted") /\ UNCHANGED <<my, gate>>
  /\ UNCHANGED <<wait, barrierVars, saved, waiters, processVars, shellVars>>

(* A show that found or started launch n: a login is over, a task goes on  *)
(* to its link, or to its wait again, the others are done.                 *)
Shown(w, n) ==
  IF w \notin Tasks THEN Done(w) /\ UNCHANGED wait
  ELSE IF wait[w].again THEN Done(w) /\ Keep(w, n)
  ELSE Goto(w, "link") /\ Carries(w, n) /\ UNCHANGED <<wait, gate, admission>>

(* _show, up to the first check: a held or removed profile is refused, a   *)
(* running one is left as it is, or asked to show itself; otherwise the    *)
(* launch is prepared and takes its generation, or fails.                  *)
Look(w) ==
  /\ pc[w] = "admitted"
  /\ \/ /\ hold \/ saved.removed
        /\ Done(w) /\ UNCHANGED <<wait, launches>>
     \/ /\ ~hold /\ ~saved.removed /\ Running
        /\ IF w \in Logins THEN Goto(w, "asking") /\ UNCHANGED <<my, wait, gate, admission>>
           ELSE Shown(w, saved.gen)
        /\ UNCHANGED launches
     \/ /\ ~hold /\ ~saved.removed /\ ~Running
        /\ UNCHANGED wait
        /\ \/ Done(w) /\ UNCHANGED launches
           \/ /\ launches < MaxLaunches
              /\ launches' = launches + 1
              /\ Goto(w, "prepared") /\ Carries(w, launches') /\ UNCHANGED <<gate, admission>>
  /\ UNCHANGED <<barrierVars, saved, waiters, owner, alive, shellVars>>

(* _require_launch_open: the last look before a process is started.        *)
Check(w, from, next) ==
  /\ pc[w] = from
  /\ Enter(w, next)
  /\ UNCHANGED <<wait, barrierVars, saved, waiters, processVars, shellVars>>

(* process.launch: it fails before the process or once it runs, with its   *)
(* owner record unwritten or only its answer lost; or it answers.          *)
Spawn(w) ==
  /\ pc[w] = "checked"
  /\ \/ Done(w) /\ UNCHANGED <<alive, owner>>
     \/ /\ alive' = alive \cup {my[w]}
        /\ \/ Done(w) /\ owner' \in {owner, my[w]}
           \/ /\ owner' = my[w]
              /\ Goto(w, "spawned") /\ UNCHANGED <<my, gate, admission>>
  /\ UNCHANGED <<wait, barrierVars, saved, waiters, launches, shellVars>>

(* Asked to show itself, an application that exited meanwhile is replaced  *)
(* by the process that carried the request, which nothing records.         *)
Reopen(w) ==
  /\ pc[w] = "reopening"
  /\ \/ UNCHANGED <<alive, launches>>
     \/ /\ alive = {} /\ launches < MaxLaunches
        /\ launches' = launches + 1 /\ alive' = {launches'}
  /\ Done(w)
  /\ UNCHANGED <<wait, barrierVars, saved, waiters, owner, shellVars>>

Recorded(n) ==
  saved' = [saved EXCEPT !.gen = n, !.proc = n]

(* The identity of the process is saved and the window awaited, which only *)
(* a task leaves to a thread of its own.                                   *)
Save(w) ==
  /\ pc[w] = "spawned" /\ my[w] \in alive
  /\ Recorded(my[w]) /\ waiters' = waiters \cup {my[w]}
  /\ IF w \in Tasks THEN Shown(w, my[w])
     ELSE /\ Goto(w, "window") /\ UNCHANGED <<my, wait, gate>>
          /\ admission' = IF w \in Nested THEN admission ELSE Free
  /\ UNCHANGED <<barrierVars, processVars, shellVars>>

(* abort_launch: the record names this launch, and the profile another.    *)
Abortable(n) == owner = n /\ saved'.gen # n

(* The identity is gone, or could not be saved, or was saved by a write    *)
(* that then failed to let its lock go: the launch is aborted, if it can.  *)
Abort(w) ==
  /\ pc[w] = "spawned"
  /\ \/ UNCHANGED saved
     \/ Recorded(my[w])
  /\ \/ Abortable(my[w]) /\ alive' = alive \ {my[w]}
     \/ UNCHANGED alive
  /\ Done(w)
  /\ UNCHANGED <<wait, barrierVars, waiters, owner, launches, shellVars>>

(* _finish_show: a window that appeared, of a process that may have exited *)
(* since, is published under the store's lock if the profile still records *)
(* this launch.                                                            *)
Publish(n) ==
  /\ n \in waiters /\ waiters' = waiters \ {n}
  /\ \/ /\ saved.gen = n /\ saved.proc = n /\ ~saved.removed
        /\ saved' = [saved EXCEPT !.window = n]
     \/ UNCHANGED saved
  /\ UNCHANGED <<workerVars, barrierVars, processVars, shellVars>>

WindowReady(w) ==
  /\ pc[w] = "window" /\ my[w] \notin waiters
  /\ Done(w)
  /\ UNCHANGED <<wait, barrierVars, saved, waiters, processVars, shellVars>>

(* The link of a task: delivered, refused or superseded, or kept for later *)
(* in place of every other wait of the profile; or, to an application seen *)
(* running, handed to a second process.                                    *)
Link(w) ==
  /\ pc[w] = "link"
  /\ \/ Done(w) /\ UNCHANGED wait
     \/ Done(w) /\ wait' = [t \in Tasks |-> IF t = w THEN [wait[w] EXCEPT !.life = my[w]] ELSE NoWait]
     \/ Running /\ Goto(w, "carrying") /\ UNCHANGED <<my, wait, gate, admission>>
  /\ UNCHANGED <<barrierVars, saved, waiters, processVars, shellVars>>

(* The second process: when the application exits first it stays itself.   *)
Carry(w) ==
  /\ pc[w] = "carrying"
  /\ \/ UNCHANGED <<alive, launches>>
     \/ /\ alive = {} /\ launches < MaxLaunches
        /\ launches' = launches + 1 /\ alive' = {launches'}
  /\ Done(w)
  /\ UNCHANGED <<wait, barrierVars, saved, waiters, owner, shellVars>>

-----------------------------------------------------------------------------
(* Closing and removing the profile.                                       *)

(* Mutant: profile.close_begin leaves the waits of the profile alone.      *)
CloseBeginForgetsNone ==
  /\ close.pc = "idle" /\ closes < MaxCloses /\ closes' = closes + 1
  /\ \/ /\ gate = Free /\ ~saved.removed /\ gate' = Closer
        /\ \E remove \in BOOLEAN :
             close' = [NoClose EXCEPT !.pc = "asked", !.remove = remove]
     \/ /\ UNCHANGED gate
        /\ close' = [NoClose EXCEPT !.pc = "ending", !.remove = TRUE, !.plain = TRUE]
  /\ UNCHANGED <<pc, my, wait, admission, barrierVars, saved, waiters, processVars,
                 exit, exits, crashes>>

(* profile.close_begin has the gate, and ends the waits of the profile's   *)
(* tasks; what it refuses beforehand changes nothing else. A plain         *)
(* profile.remove only ends.                                               *)
CloseBegin ==
  /\ close.pc = "idle" /\ closes < MaxCloses /\ closes' = closes + 1
  /\ \/ /\ gate = Free /\ ~saved.removed /\ gate' = Closer
        /\ wait' = Forgotten
        /\ \E remove \in BOOLEAN :
             close' = [NoClose EXCEPT !.pc = "asked", !.remove = remove]
     \/ /\ UNCHANGED <<gate, wait>>
        /\ close' = [NoClose EXCEPT !.pc = "ending", !.remove = TRUE, !.plain = TRUE]
  /\ UNCHANGED <<pc, my, admission, barrierVars, saved, waiters, processVars,
                 exit, exits, crashes>>

(* Mutant: the hold does not wait for a launch already admitted.           *)
CloseHoldAtOnce ==
  /\ close.pc = "asked"
  /\ hold' = TRUE
  /\ close' = IF close.abandoned THEN NoClose
              ELSE [close EXCEPT !.pc = "held", !.gen = saved.gen, !.seen = Running]
  /\ gate' = Free
  /\ UNCHANGED <<pc, my, wait, admission, stopping, saved, waiters, processVars,
                 exit, closes, exits, crashes>>

(* Under the admission the profile is held closed; then it is observed.    *)
CloseHold ==
  /\ close.pc = "asked" /\ admission = Free
  /\ hold' = TRUE
  /\ close' = IF close.abandoned THEN NoClose
              ELSE [close EXCEPT !.pc = "held", !.gen = saved.gen, !.seen = Running]
  /\ gate' = Free
  /\ UNCHANGED <<pc, my, wait, admission, stopping, saved, waiters, processVars,
                 exit, closes, exits, crashes>>

(* process.stop: every process on the folder of the recorded launch ends,  *)
(* or the sweep fails after some of them.                                  *)
Swept(gen) == gen = saved.gen /\ gen # 0 /\ alive' = {}
NotSwept(gen) == alive' \in IF gen = saved.gen /\ gen # 0 THEN SUBSET alive ELSE {alive}

(* The application was asked to quit, and did or did not; profile.cleanup  *)
(* ends what is left. Its failure matters only if the close saw it run.    *)
Cleanup ==
  /\ close.pc = "held" /\ gate = Free
  /\ \/ Swept(close.gen) /\ close' = [close EXCEPT !.pc = "remote", !.swept = TRUE]
     \/ /\ NotSwept(close.gen)
        /\ close' = IF close.seen THEN [close EXCEPT !.pc = "ending", !.remove = FALSE]
                    ELSE [close EXCEPT !.pc = "remote"]
  /\ wait' = Forgotten
  /\ UNCHANGED <<pc, my, gate, admission, barrierVars, saved, waiters, owner, launches,
                 exit, closes, exits, crashes>>

(* The SSH runtimes were stopped, or left; or anything failed and the      *)
(* close ends without a removal.                                           *)
CloseSettles ==
  /\ \/ close.pc = "remote" /\ close' = [close EXCEPT !.pc = "ending"]
     \/ close.pc \in {"held", "remote"}
        /\ close' = [close EXCEPT !.pc = "ending", !.remove = FALSE]
  /\ UNCHANGED <<workerVars, barrierVars, saved, waiters, processVars,
                 exit, closes, exits, crashes>>

(* profile.close_end, or profile.remove, has the gate.                     *)
CloseEnd ==
  /\ close.pc = "ending" /\ gate = Free
  /\ IF close.remove
     THEN /\ gate' = Closer /\ close' = [close EXCEPT !.pc = "removing"]
          /\ wait' = (IF close.plain THEN Forgotten ELSE wait) /\ UNCHANGED hold
     ELSE close' = NoClose /\ hold' = FALSE /\ UNCHANGED <<gate, wait>>
  /\ UNCHANGED <<pc, my, admission, stopping, saved, waiters, processVars,
                 exit, closes, exits, crashes>>

EndRemoval ==
  /\ close' = NoClose /\ gate' = Free
  /\ hold' = (hold /\ close.plain)

(* Mutant: the removal does not wait for the profile's launch admission.   *)
RemoveLookAtOnce ==
  /\ close.pc = "removing"
  /\ IF Running THEN EndRemoval
     ELSE close' = [close EXCEPT !.pc = "writing"] /\ UNCHANGED <<hold, gate>>
  /\ UNCHANGED <<pc, my, wait, admission, stopping, saved, waiters, processVars,
                 exit, closes, exits, crashes>>

(* ProfileLifecycle.remove, under the admission: a running profile stays.  *)
RemoveLook ==
  /\ close.pc = "removing" /\ admission = Free
  /\ IF Running THEN EndRemoval /\ UNCHANGED admission
     ELSE /\ close' = [close EXCEPT !.pc = "writing"] /\ admission' = Closer
          /\ UNCHANGED <<hold, gate>>
  /\ UNCHANGED <<pc, my, wait, stopping, saved, waiters, processVars,
                 exit, closes, exits, crashes>>

(* As for the workers, the admission may be refused.                       *)
CloseRefused ==
  /\ \/ close.pc = "asked" /\ close' = NoClose /\ gate' = Free /\ UNCHANGED hold
     \/ close.pc = "removing" /\ EndRemoval
  /\ UNCHANGED <<pc, my, wait, admission, stopping, saved, waiters, processVars,
                 exit, closes, exits, crashes>>

(* Linked tasks keep it as well.                                           *)
RemoveWrite ==
  /\ close.pc = "writing"
  /\ saved' \in {saved, [saved EXCEPT !.removed = TRUE]}
  /\ EndRemoval /\ admission' = Let(admission, Closer)
  /\ UNCHANGED <<pc, my, wait, stopping, waiters, processVars, exit, closes, exits, crashes>>

Restore ==
  /\ saved.removed /\ gate = Free
  /\ saved' = [saved EXCEPT !.removed = FALSE]
  /\ UNCHANGED <<workerVars, barrierVars, waiters, processVars, shellVars>>

(* The shell dies, or gives the request up after its time: a hold already  *)
(* asked for is taken all the same, and nobody will release it.            *)
Abandon ==
  /\ \/ close.pc = "asked" /\ ~close.abandoned
        /\ close' = [close EXCEPT !.abandoned = TRUE]
     \/ close.pc \in {"held", "remote"} /\ close' = NoClose
  /\ UNCHANGED <<workerVars, barrierVars, saved, waiters, processVars,
                 exit, closes, exits, crashes>>

(* CLOSE_HOLD_SECONDS have passed, whatever the close is doing.            *)
Expire ==
  /\ hold /\ hold' = FALSE
  /\ UNCHANGED <<workerVars, stopping, saved, waiters, processVars, shellVars>>

(* profile.recover: a frozen application is ended under the admission.     *)
Recover ==
  /\ gate = Free /\ admission = Free /\ ~saved.removed
  /\ alive # {} /\ Swept(saved.gen)
  /\ wait' = Forgotten
  /\ UNCHANGED <<pc, my, gate, admission, barrierVars, saved, waiters, owner, launches, shellVars>>

-----------------------------------------------------------------------------
(* The full exit, and what else may happen.                                *)

ExitBegin ==
  /\ exit.pc = "none" /\ exits < MaxExits /\ exits' = exits + 1
  /\ stopping' = TRUE /\ exit' = [NoExit EXCEPT !.pc = "stopping"]
  /\ UNCHANGED <<workerVars, hold, saved, waiters, processVars, close, closes, crashes>>

(* No launch is active: the snapshot taken now is the last one.            *)
ExitDrained ==
  /\ exit.pc = "stopping" /\ Active = {}
  /\ exit' = [pc |-> "drained", gen |-> saved.gen]
  /\ UNCHANGED <<workerVars, barrierVars, saved, waiters, processVars,
                 close, closes, exits, crashes>>

ExitSweep ==
  /\ exit.pc = "drained" /\ gate = Free
  /\ Swept(exit.gen) /\ exit' = [exit EXCEPT !.pc = "swept"]
  /\ wait' = Forgotten
  /\ UNCHANGED <<pc, my, gate, admission, barrierVars, saved, waiters, owner, launches,
                 close, closes, exits, crashes>>

(* A step of the exit fails, and the launches resume.                      *)
ExitFails ==
  /\ exit.pc # "none" /\ exit' = NoExit /\ stopping' = FALSE
  /\ \/ exit.pc = "drained" /\ NotSwept(exit.gen)
     \/ UNCHANGED alive
  /\ UNCHANGED <<workerVars, hold, saved, waiters, owner, launches,
                 close, closes, exits, crashes>>

(* An application quits, crashes, or handed over to another one.           *)
AppExits(p) ==
  /\ p \in alive /\ alive' = alive \ {p}
  /\ UNCHANGED <<workerVars, barrierVars, saved, owner, waiters, launches, shellVars>>

(* The adapter dies: locks, hold and barrier were in its memory only. The  *)
(* requests of a close or an exit fail.                                    *)
Crash ==
  /\ crashes < MaxCrashes /\ crashes' = crashes + 1
  /\ pc' = [w \in Workers |-> "idle"] /\ my' = [w \in Workers |-> 0]
  /\ wait' = Forgotten /\ gate' = Free /\ admission' = Free
  /\ hold' = FALSE /\ stopping' = FALSE /\ waiters' = {}
  /\ close' = NoClose /\ exit' = NoExit
  /\ UNCHANGED <<saved, processVars, closes, exits>>

Worker(w) ==
  \/ Begin(w) \/ Outer(w) \/ Refused(w) \/ Navigate(w) \/ Resume(w) \/ Show(w) \/ Admit(w) \/ Look(w)
  \/ Check(w, "prepared", "checked") \/ Check(w, "asking", "reopening")
  \/ Spawn(w) \/ Reopen(w) \/ Save(w) \/ Abort(w) \/ WindowReady(w)
  \/ Link(w) \/ Carry(w)

Next ==
  \/ \E w \in Workers : Worker(w)
  \/ \E n \in Launches : Publish(n) \/ AppExits(n)
  \/ CloseBegin \/ CloseHold \/ Cleanup \/ CloseSettles \/ CloseEnd \/ CloseRefused
  \/ RemoveLook \/ RemoveWrite \/ Restore \/ Abandon \/ Expire \/ Recover
  \/ ExitBegin \/ ExitDrained \/ ExitSweep \/ ExitFails
  \/ Crash

Spec == Init /\ [][Next]_vars

-----------------------------------------------------------------------------
(* Stages, locks and records are what they should be, and a worker carries *)
(* a launch exactly while it has one in hand.                              *)
TypeOK ==
  /\ pc \in [Workers -> {"idle", "outer", "show", "queued", "admitted", "prepared",
                         "checked", "spawned", "asking", "reopening", "window",
                         "link", "carrying", "resuming"}]
  /\ my \in [Workers -> 0 .. launches]
  /\ \A w \in Workers :
       my[w] # 0 <=> pc[w] \in {"prepared", "checked", "spawned", "window", "link",
                                "carrying", "resuming"}
  /\ wait \in [Tasks -> [life : 0 .. launches, again : BOOLEAN]]
  /\ gate \in Requests \cup {Closer, Free}
  /\ admission \in Workers \cup {Closer, Free}
  /\ hold \in BOOLEAN /\ stopping \in BOOLEAN
  /\ saved \in [gen : 0 .. launches, proc : 0 .. launches, window : 0 .. launches,
                removed : BOOLEAN]
  /\ owner \in 0 .. launches /\ launches \in 0 .. MaxLaunches
  /\ alive \subseteq 1 .. launches /\ waiters \subseteq 1 .. launches
  /\ close \in [pc : {"idle", "asked", "held", "remote", "ending", "removing", "writing"},
                remove : BOOLEAN, plain : BOOLEAN, gen : 0 .. launches,
                seen : BOOLEAN, swept : BOOLEAN, abandoned : BOOLEAN]
  /\ exit \in [pc : {"none", "stopping", "drained", "swept"}, gen : 0 .. launches]
  /\ closes \in 0 .. MaxCloses /\ exits \in 0 .. MaxExits /\ crashes \in 0 .. MaxCrashes

(* A close that swept the profile's folder finds it empty for as long as   *)
(* its hold lasts: neither a launch that was queued, prepared or about to  *)
(* start its process when the hold was taken, nor the link of a task or a  *)
(* request to reopen, brings the application back                          *)
(* (hold_launches, _require_launch_open, the request gate).                *)
ClosedStaysClosed == close.swept /\ hold => alive = {}

(* Once the full exit has seen no active launch and swept the folder, no   *)
(* process of the profile is left or comes back: stop_launches refuses     *)
(* every later show, the ones still waiting were counted, and a task holds *)
(* the gate that the sweep waits for.                                      *)
ExitLeavesNothing == exit.pc = "swept" => alive = {}

(* A profile taken off the list records no running application: the        *)
(* removal and the launches exclude each other (ProfileLifecycle.remove    *)
(* under the launch admission).                                            *)
RemovedNotRunning == saved.removed => ~Running

(* The link of a task is sent to the launch its open waited for, however   *)
(* long that took and whatever was closed and started in between.          *)
LinkToAwaited == \A w \in Tasks : pc[w] \in {"link", "carrying"} => saved.gen = my[w]

(* A profile held closed is not waited for: no open that waited when the   *)
(* close began starts its application again, then or after the hold        *)
(* (ENDS_WAITING_OPENS, the request gate).                                 *)
WaitsEndWithClose ==
  hold => \A w \in Tasks : wait[w].life = 0 /\ pc[w] # "resuming"

=============================================================================

------------------------------- MODULE Warmup -------------------------------
(***************************************************************************)
(* The startup pass that opens every profile once                          *)
(* (manager_core/profile_warmup.py): a bounded set of workers take queued  *)
(* profiles under one condition, while a gate keeps them off all but the   *)
(* leaders (the profile the shell restores and those the user clicks), a   *)
(* click on a task holds every new launch, and a full exit stops the pass. *)
(* What a launch itself does is the launch queue's (LaunchQueue); here it  *)
(* returns ready or not, some time later.                                  *)
(*                                                                         *)
(* The clock counts from the profile scan, so gate_started is 0 and a      *)
(* promotion time, kept for the metrics only, is left out.                 *)
(***************************************************************************)
EXTENDS Integers, Sequences, FiniteSets, SequencesExt

CONSTANTS
  Profiles,    \* the ids a scan may find and a user may click
  Workers,     \* as many as drain at once: the scan's own thread is one
  NoProfile,
  HeadStart,   \* LEADER_HEAD_START_SECONDS
  Cap,         \* LEADER_GATE_CAP_SECONDS
  HoldCap,     \* HOLD_CAP_SECONDS
  Poll,        \* how long a worker kept by the launch limit sleeps
  MaxTime,     \* bound: the clock stops here
  MaxClicks,   \* bound: clicks of the user (prioritize, promote, hold)
  MaxStops     \* bound: shutdowns

ASSUME TimesAssumption ==
  /\ {HeadStart, Cap, HoldCap, Poll} \subseteq Nat \ {0}
  /\ MaxTime \in Nat /\ Cap <= MaxTime /\ HoldCap <= MaxTime
ASSUME BoundsAssumption == MaxClicks \in Nat /\ MaxStops \in Nat
ASSUME NamesAssumption ==
  /\ NoProfile \notin Profiles
  /\ IsFiniteSet(Profiles) /\ IsFiniteSet(Workers) /\ Workers # {}

VARIABLES
  now,          \* time.monotonic, from the scan on
  phase,        \* how far _run is: new, starting, scanned, running, ended
  failed,       \* the pass ended with profile_scan_failed
  stopping,     \* the event a full exit sets
  resumeLater,  \* resume_after_drain
  entry,        \* the state of each profile's entry, none before the scan
  pending,      \* the queued profiles, in the store's order
  priority,     \* the profile clicked last, taken next
  leaders,      \* in the order they were selected: the last one is the newest
  admitted,     \* leader -> when a worker took its launch
  gate,         \* waiting with its deadline, or released: when and by what
  holds,        \* token -> expiry
  job,          \* what each worker is doing
  clicks, stops

vars == <<now, phase, failed, stopping, resumeLater, entry, pending, priority,
          leaders, admitted, gate, holds, job, clicks, stops>>
queueVars == <<entry, pending, priority>>
gateVars == <<leaders, admitted, gate>>
stopVars == <<stopping, resumeLater, stops>>
runVars == <<now, phase, failed>>

-----------------------------------------------------------------------------
Launching == {"queued", "checking", "opening"}
Taken == {"checking", "opening"}

Gate(state, at, code) == [state |-> state, at |-> at, code |-> code]
NoGate == Gate("none", 0, "none")

Job(state, p, wake) == [state |-> state, profile |-> p, wake |-> wake]
Idle == Job("idle", NoProfile, 0)      \* its thread has not started
Looking == Job("looking", NoProfile, 0)
Done == Job("done", NoProfile, 0)

Known == {p \in Profiles : entry[p] # "none"}
Active == phase \in {"starting", "scanned", "running"}   \* worker_active
Busy == Cardinality({p \in Profiles : entry[p] \in Taken})
Leading(p) == Contains(leaders, p)
(* Mutant: a hold that is not released lasts.                              *)
LiveHoldsForever == DOMAIN holds

LiveHolds == {t \in DOMAIN holds : holds[t] > now}

When(condition, x) == IF condition THEN {x} ELSE {}

(* free_commit() is unknown, or below one of the two marks or neither.     *)
ParallelLimits ==
  LET most == Cardinality(Workers)
  IN {most} \cup {Min({most, n}) : n \in {2, 3}}

(* notify_all: whoever sleeps looks again.                                 *)
Woken(jobs) ==
  [w \in Workers |-> IF jobs[w].state = "asleep" THEN Looking ELSE jobs[w]]

WokenBy(g, jobs) == IF g # gate THEN Woken(jobs) ELSE jobs

-----------------------------------------------------------------------------
(* Mutant: the opening is dated and named by whoever observes it.          *)
ReleasedWhenSeen(g, reason) ==
  IF g.state # "waiting" THEN g ELSE Gate("released", now, reason)

(* Opens a waiting gate. Observed after its deadline it opened then, for   *)
(* that deadline's reason, unless the pass is being stopped.               *)
Released(g, reason) ==
  IF g.state # "waiting" THEN g
  ELSE IF reason # "stopped" /\ now >= g.at THEN Gate("released", g.at, g.code)
  ELSE Gate("released", now, reason)

Observed(g) == IF now >= g.at THEN Released(g, g.code) ELSE g

(* The newest of the leaders ls whose launch is out, if there is one.      *)
NewestOut(states, ls) ==
  {ls[i] : i \in {k \in DOMAIN ls :
                    /\ states[ls[k]] \in Launching
                    /\ \A j \in k + 1 .. Len(ls) : states[ls[j]] \notin Launching}}

(* Mutant: a head start may run past the cap.                              *)
ScheduledUncapped(states, ls, since, spent) ==
  LET own == {since[p] + HeadStart : p \in NewestOut(states, ls) \cap DOMAIN since}
      at == Min(IF own = {} THEN {Cap} ELSE own)
  IN IF at <= now
     THEN Gate("released", now, IF spent = "none" THEN "timeout" ELSE spent)
     ELSE Gate("waiting", at, "timeout")

(* Re-arms a waiting gate for the newest leader still launching. A deadline *)
(* already past never held anyone: the gate opens now, for spent if given. *)
Scheduled(states, ls, since, spent) ==
  LET own == {since[p] + HeadStart : p \in NewestOut(states, ls) \cap DOMAIN since}
      at == Min(own \cup {Cap})
      code == IF at < Cap THEN "timeout" ELSE "cap"
  IN IF at <= now
     THEN Gate("released", now, IF spent = "none" THEN code ELSE spent)
     ELSE Gate("waiting", at, code)

(* Mutant: the failure of the last leader leaves the others to the deadline. *)
SettledByReadyOnly(g) ==
  IF \E i \in DOMAIN leaders : entry[leaders[i]] = "ready"
  THEN Released(g, "leader_ready")
  ELSE Scheduled(entry, leaders, admitted, "none")

(* What a waiting gate does when the launch of a leader has returned.      *)
Settled(g) ==
  LET state(i) == entry[leaders[i]]
      newest == state(Len(leaders))
      some(states) == \E i \in DOMAIN leaders : state(i) \in states
  IN IF newest = "ready" \/ (newest \notin Launching /\ some({"ready"}))
     THEN Released(g, "leader_ready")
     ELSE IF newest \in Launching THEN Scheduled(entry, leaders, admitted, "none")
     ELSE IF some(Launching) THEN Scheduled(entry, leaders, admitted, "leader_failed")
     ELSE Released(g, "leader_failed")

-----------------------------------------------------------------------------
Init ==
  /\ now = 0 /\ phase = "new" /\ failed = FALSE
  /\ stopping = FALSE /\ resumeLater = FALSE /\ stops = 0 /\ clicks = 0
  /\ entry = [p \in Profiles |-> "none"] /\ pending = <<>> /\ priority = NoProfile
  /\ leaders = <<>> /\ admitted = <<>> /\ gate = NoGate /\ holds = <<>>
  /\ job = [w \in Workers |-> Idle]

(* The shell asks for the pass once; its thread may fail to start.         *)
Start(leader) ==
  /\ phase = "new" /\ ~stopping
  /\ leaders' = IF leader = NoProfile THEN leaders ELSE <<leader>>
  /\ phase' \in {"starting", "ended"}
  /\ failed' = (phase' = "ended")
  /\ UNCHANGED <<now, stopVars, queueVars, admitted, gate, holds, job, clicks>>

InOrder(s, t) ==
  \A i, j \in DOMAIN s : i < j =>
    \E k, m \in DOMAIN t : k < m /\ t[k] = s[i] /\ t[m] = s[j]

(* The profiles the store names, in its order. A stop that follows the     *)
(* check of line 381 finds them queued, with no gate.                      *)
Scan ==
  /\ phase = "starting"
  /\ \E known \in SUBSET Profiles :
       /\ pending' \in SetToSeqs(known)
       /\ entry' = [p \in Profiles |-> IF p \in known THEN "queued" ELSE "none"]
       /\ leaders' \in {kept \in SetToSeqs(known \cap Range(leaders)) : InOrder(kept, leaders)}
  /\ gate' = IF leaders' # <<>> /\ ~stopping
             THEN Scheduled(entry', leaders', admitted, "none") ELSE gate
  /\ phase' = "scanned"
  /\ \* how long the scan took is how much of each hold is gone
     holds' \in {h \in [DOMAIN holds -> 0 .. HoldCap] :
                   \A t \in DOMAIN holds : h[t] <= holds[t]}
  /\ UNCHANGED <<now, failed, stopVars, priority, admitted, job, clicks>>

(* One drain per worker, no more than profiles, the scan's own thread being *)
(* one; when a thread does not start, the scan's drains nothing itself and *)
(* waits for those that did.                                               *)
StartWorkers ==
  /\ phase = "scanned"
  /\ LET drains == IF Known = {} THEN 1
                  ELSE Min({Cardinality(Workers), Cardinality(Known)})
     IN \E up \in SUBSET Workers :
          /\ Cardinality(up) \in {drains} \cup 0 .. drains - 2
          /\ job' = [w \in Workers |-> IF w \in up THEN Looking ELSE Done]
          /\ failed' = (Cardinality(up) < drains)
  /\ phase' = "running"
  /\ UNCHANGED <<now, stopVars, queueVars, gateVars, holds, clicks>>

(* Takes a profile the gate lets through, the clicked one first.           *)
Take(w, g, waiting, leading) ==
  LET choices == IF waiting THEN leading ELSE Range(pending)
      first(S) == pending[Min({i \in DOMAIN pending : pending[i] \in S})]
      p == IF priority \in choices THEN priority
           ELSE first(IF leading # {} THEN leading ELSE Range(pending))
      leads == g.state # "none" /\ Leading(p)
      jobs == [job EXCEPT ![w] = Job("preparing", p, 0)]
  IN /\ pending' = RemoveFirst(pending, p) /\ priority' = NoProfile
     /\ entry' = [entry EXCEPT ![p] = "checking"]
     /\ admitted' = IF leads THEN [q \in DOMAIN admitted \cup {p} |->
                                     IF q = p THEN now ELSE admitted[q]]
                    ELSE admitted
     /\ IF leads /\ waiting
        THEN gate' = Scheduled(entry, leaders, admitted', "none") /\ job' = Woken(jobs)
        ELSE gate' = g /\ job' = WokenBy(g, jobs)

(* One round of _next: the worker ends, takes a profile, or sleeps until   *)
(* the earliest thing it waits for. A limited worker polls the free commit. *)
Look(w) ==
  /\ job[w].state = "looking" \/ (job[w].state = "asleep" /\ now >= job[w].wake)
  /\ IF stopping \/ pending = <<>>
     THEN /\ job' = [job EXCEPT ![w] = Done]
          /\ UNCHANGED <<queueVars, gateVars, holds>>
     ELSE \E limit \in ParallelLimits :
       LET g == Observed(gate)
           waiting == g.state = "waiting"
           leading == {p \in Range(pending) : Leading(p)}
           limited == Busy >= limit /\ ~(waiting /\ leading # {})
           until == When(LiveHolds # {}, Max({holds[t] : t \in LiveHolds}))
                      \cup When(waiting /\ leading = {}, g.at)
                      \cup When(limited, now + Poll)
       IN /\ holds' = [t \in LiveHolds |-> holds[t]]
          /\ \/ /\ until = {}
                /\ Take(w, g, waiting, leading)
             \/ /\ until # {}
                /\ job' = WokenBy(g, [job EXCEPT ![w] =
                                        Job("asleep", NoProfile, Min(until))])
                /\ gate' = g
                /\ UNCHANGED <<queueVars, admitted>>
          /\ UNCHANGED leaders
  /\ UNCHANGED <<runVars, stopVars, clicks>>

(* The profile is not to be opened, or runs already, or observing it fails. *)
Refuse(w) ==
  /\ job[w].state = "preparing"
  /\ \E state \in {"ready", "failed"} : entry' = [entry EXCEPT ![job[w].profile] = state]
  /\ job' = [job EXCEPT ![w].state = "returned"]
  /\ UNCHANGED <<runVars, stopVars, pending, priority, gateVars, holds, clicks>>

(* A stop is seen here for the last time before the launch.                *)
Open(w) ==
  /\ job[w].state = "preparing"
  /\ entry' = [entry EXCEPT ![job[w].profile] = IF stopping THEN "cancelled" ELSE "opening"]
  /\ job' = [job EXCEPT ![w].state = IF stopping THEN "returned" ELSE "opening"]
  /\ UNCHANGED <<runVars, stopVars, pending, priority, gateVars, holds, clicks>>

(* The launch callback returns: a window, a pending window, or neither.    *)
Launched(w) ==
  /\ job[w].state = "opening"
  /\ \E state \in {"ready", "failed"} : entry' = [entry EXCEPT ![job[w].profile] = state]
  /\ job' = [job EXCEPT ![w].state = "returned"]
  /\ UNCHANGED <<runVars, stopVars, pending, priority, gateVars, holds, clicks>>

(* The finally of _drain: the deadline in force is applied before a        *)
(* leader's return may re-arm it, and everyone looks again.                *)
Return(w) ==
  /\ job[w].state = "returned"
  /\ gate' = IF ~Leading(job[w].profile) THEN gate
             ELSE IF Observed(gate).state = "waiting" THEN Settled(gate)
             ELSE Observed(gate)
  /\ job' = Woken([job EXCEPT ![w] = Looking])
  /\ UNCHANGED <<runVars, stopVars, queueVars, leaders, admitted, holds, clicks>>

(* Mutant: the end of a stopped pass cancels nothing.                      *)
EndPassAsIs ==
  /\ \/ phase = "starting" /\ stopping /\ failed' = failed
     \/ phase = "starting" /\ failed' = TRUE
     \/ /\ phase = "running" /\ failed' = failed
        /\ \A w \in Workers : job[w] = Done
  /\ phase' = "ended"
  /\ pending' = <<>> /\ priority' = NoProfile
  /\ gate' = Released(gate, IF stopping THEN "stopped" ELSE "leader_failed")
  /\ stopping' = (stopping /\ ~resumeLater)
  /\ resumeLater' = FALSE
  /\ UNCHANGED <<now, stops, entry, leaders, admitted, holds, job, clicks>>

(* The finally of _run: a stop seen before the scan, a scan that fails, or *)
(* every worker done.                                                      *)
EndPass ==
  /\ \/ phase = "starting" /\ stopping /\ failed' = failed
     \/ phase = "starting" /\ failed' = TRUE
     \/ /\ phase = "running" /\ failed' = failed
        /\ \A w \in Workers : job[w] = Done
  /\ phase' = "ended"
  /\ entry' = [p \in Profiles |->
                 IF stopping /\ entry[p] \in {"queued", "checking"} THEN "cancelled"
                 ELSE entry[p]]
  /\ pending' = <<>> /\ priority' = NoProfile
  /\ gate' = Released(gate, IF stopping THEN "stopped" ELSE "leader_failed")
  /\ stopping' = (stopping /\ ~resumeLater)
  /\ resumeLater' = FALSE
  /\ UNCHANGED <<now, stops, leaders, admitted, holds, job, clicks>>

-----------------------------------------------------------------------------
(* Mutant: a new leader starts under the deadline of the one before it.    *)
LeadUnarmed(p) ==
  LET g == Observed(gate)
  IN IF Known = {} \/ (entry[p] \in Launching /\ g.state = "waiting")
     THEN leaders' = Append(RemoveFirst(leaders, p), p) /\ job' = Woken(job) /\ UNCHANGED gate
     ELSE gate' = g /\ job' = WokenBy(g, job) /\ UNCHANGED leaders

(* A profile becomes the newest leader while the gate waits, or before the *)
(* scan; one that leads already only while its launch has not returned.    *)
Lead(p) ==
  LET newest == Append(RemoveFirst(leaders, p), p)
      g == Observed(gate)
  IN IF Known = {}
     THEN leaders' = newest /\ UNCHANGED <<gate, job>>
     ELSE IF entry[p] \notin Launching  \* a leader whose launch has returned
     THEN UNCHANGED <<leaders, gate, job>>
     ELSE IF g.state # "waiting"
     THEN gate' = g /\ job' = WokenBy(g, job) /\ UNCHANGED leaders
     ELSE /\ leaders' = newest
          /\ gate' = Scheduled(entry, newest, admitted, "none")
          /\ job' = Woken(job)

Click ==
  /\ clicks < MaxClicks
  /\ clicks' = clicks + 1
  /\ ~stopping

(* The user selects a profile while the pass runs.                         *)
Prioritize(p) ==
  /\ Click /\ Active
  /\ LET queued == Known = {} \/ Contains(pending, p)
     IN /\ priority' = IF queued THEN p ELSE priority
        /\ IF queued \/ Leading(p) THEN Lead(p) ELSE UNCHANGED <<leaders, gate, job>>
  /\ UNCHANGED <<runVars, stopVars, entry, pending, admitted, holds>>

(* The user opened a queued profile elsewhere.                             *)
Promote(p) ==
  /\ Click /\ Contains(pending, p) /\ ~Leading(p)
  /\ Lead(p)
  /\ UNCHANGED <<runVars, stopVars, queueVars, admitted, holds>>

(* A click on a task whose profile does not run holds the pass, until the  *)
(* launch of that profile has started. The click numbers the token.        *)
Hold ==
  /\ Click /\ Active
  /\ now + HoldCap <= MaxTime  \* bound
  /\ holds' = [t \in DOMAIN holds \cup {clicks'} |->
                 IF t = clicks' THEN now + HoldCap ELSE holds[t]]
  /\ UNCHANGED <<runVars, stopVars, queueVars, gateVars, job>>

(* Mutant: the end of a hold wakes nobody.                                 *)
ReleaseHoldQuietly(t) ==
  /\ t \in DOMAIN holds
  /\ holds' = [u \in DOMAIN holds \ {t} |-> holds[u]]
  /\ UNCHANGED <<runVars, stopVars, queueVars, gateVars, job, clicks>>

ReleaseHold(t) ==
  /\ t \in DOMAIN holds
  /\ holds' = [u \in DOMAIN holds \ {t} |-> holds[u]]
  /\ job' = Woken(job)
  /\ UNCHANGED <<runVars, stopVars, queueVars, gateVars, clicks>>

(* A full exit begins, and is undone when it fails.                        *)
Shutdown ==
  /\ stops < MaxStops  \* bound
  /\ stops' = stops + 1
  /\ stopping' = TRUE /\ resumeLater' = FALSE
  /\ gate' = Released(gate, "stopped")
  /\ entry' = [p \in Profiles |-> IF entry[p] = "queued" THEN "cancelled" ELSE entry[p]]
  /\ job' = Woken(job)
  /\ UNCHANGED <<runVars, pending, priority, leaders, admitted, holds, clicks>>

Resume ==
  /\ stops > 0  \* the shell sends it after a stop only
  /\ resumeLater' = (resumeLater \/ Active)
  /\ stopping' = (stopping /\ Active)
  /\ UNCHANGED <<runVars, stops, queueVars, gateVars, holds, job, clicks>>

Tick ==
  /\ phase \in {"scanned", "running"}
  /\ now < MaxTime  \* bound
  /\ now' = now + 1
  /\ UNCHANGED <<phase, failed, stopVars, queueVars, gateVars, holds, job, clicks>>

Work(w) == Look(w) \/ Refuse(w) \/ Open(w) \/ Launched(w) \/ Return(w)
Pass == Scan \/ StartWorkers \/ EndPass

Next ==
  \/ \E p \in Profiles \cup {NoProfile} : Start(p)
  \/ Pass \/ Hold \/ Shutdown \/ Resume \/ Tick
  \/ \E w \in Workers : Work(w)
  \/ \E p \in Profiles : Prioritize(p) \/ Promote(p)
  \/ \E t \in 1 .. MaxClicks : ReleaseHold(t)

(* Threads run, launches return (each has its own time limits) and the     *)
(* clock goes on; the user need not do anything.                           *)
Fairness ==
  /\ WF_vars(Pass) /\ WF_vars(Tick)
  /\ \A w \in Workers : WF_vars(Work(w))

Spec == Init /\ [][Next]_vars /\ Fairness

-----------------------------------------------------------------------------
(* The values the variables take.                                          *)
TypeOK ==
  /\ now \in 0 .. MaxTime /\ clicks \in 0 .. MaxClicks /\ stops \in 0 .. MaxStops
  /\ phase \in {"new", "starting", "scanned", "running", "ended"}
  /\ {failed, stopping, resumeLater} \subseteq BOOLEAN
  /\ entry \in [Profiles -> Launching \cup {"none", "ready", "failed", "cancelled"}]
  /\ pending \in Seq(Profiles) /\ leaders \in Seq(Profiles)
  /\ priority \in Profiles \cup {NoProfile}
  /\ DOMAIN admitted \subseteq Profiles /\ \A p \in DOMAIN admitted : admitted[p] \in 0 .. now
  /\ gate.state \in {"none", "waiting", "released"} /\ gate.at \in 0 .. MaxTime
  /\ gate.state = "waiting" => gate.at <= Cap
  /\ gate.code \in {"none", "timeout", "cap", "stopped", "leader_ready", "leader_failed"}
  /\ DOMAIN holds \subseteq 1 .. clicks /\ \A t \in DOMAIN holds : holds[t] \in 0 .. MaxTime
  /\ job \in [Workers ->
        [state : {"idle", "looking", "asleep", "preparing", "opening", "returned", "done"},
         profile : Profiles \cup {NoProfile}, wake : 0 .. MaxTime + Poll]]

(* What a worker could take now, whatever free commit allows beyond the    *)
(* strictest limit.                                                        *)
Takeable ==
  LET waiting == gate.state = "waiting" /\ now < gate.at
      leading == \E p \in Range(pending) : Leading(p)
  IN /\ pending # <<>> /\ LiveHolds = {}
     /\ leading \/ ~waiting
     /\ (\A limit \in ParallelLimits : Busy < limit) \/ (waiting /\ leading)

(* No lost wake-up: a worker is not asleep past the moment it could take a *)
(* profile, nor through a stop, except while another's return, which will  *)
(* wake it, is on its way (_next waits with no other signal than its own   *)
(* timeout, and hold does not notify).                                     *)
NoLostWakeup ==
  stopping \/ (Takeable /\ \A w \in Workers : job[w].state # "returned") =>
    \A w \in Workers : ~(job[w].state = "asleep" /\ now < job[w].wake)

(* The others are kept back for the sake of a leader: while the gate holds *)
(* them, the newest leader's launch is out, or it failed and another's is, *)
(* or the return that opens the gate is on its way (_settle, _schedule).   *)
HeldForLeader ==
  gate.state = "waiting" /\ now < gate.at /\ ~failed =>
    \/ \E w \in Workers : job[w].state = "returned" /\ Leading(job[w].profile)
    \/ entry[Last(leaders)] \in Launching
    \/ /\ \A i \in DOMAIN leaders : entry[leaders[i]] # "ready"
       /\ \E i \in DOMAIN leaders : entry[leaders[i]] \in Launching

(* The comment of line 421: every leader has opened the gate by the time   *)
(* the workers are done, and a pass whose threads started leaves no entry  *)
(* unfinished, stopped or not, resumed or not.                             *)
PassSettled ==
  /\ phase = "running" /\ ~failed /\ (\A w \in Workers : job[w] = Done) =>
       gate.state # "waiting"
  /\ phase = "ended" /\ ~failed => \A p \in Profiles : entry[p] \notin Launching

(* A step takes no other profile while the newest leader has its start.    *)
OthersWait ==
  LET newest == Last(leaders)
      spent == newest \in DOMAIN admitted /\ admitted[newest] + HeadStart <= now
  IN leaders # <<>> /\ entry[newest] \in Launching /\ now < Cap /\ ~spent =>
       \A p \in Profiles :
         entry[p] = "queued" /\ entry'[p] = "checking" => Leading(p)

(* The promise to the profile the user waits for, without the gate: no     *)
(* other profile is taken while the launch of the newest leader is out and *)
(* neither its head start nor the cap has passed (class docstring, 118).   *)
OthersWaitForNewest == [][OthersWait]_vars

(* What each reason for opening says of the leaders.                       *)
OpensForReason ==
  LET last == Len(leaders)
      state(i) == entry[leaders[i]]
      noneNewer(i) == \A j \in i + 1 .. last : state(j) \notin Launching
      spentAt(i, at) == leaders[i] \in DOMAIN admitted /\ admitted[leaders[i]] + HeadStart <= at
  IN gate'.state = "released" =>
       /\ gate'.at <= now /\ (gate'.code # "stopped" => gate'.at <= gate.at)
       /\ gate'.code = "stopped" => stopping'
       /\ gate'.code = "cap" => gate'.at = Cap
       /\ gate'.code = "leader_ready" =>
            state(last) \notin Launching /\ \E i \in 1 .. last : state(i) = "ready"
       /\ gate'.code = "leader_failed" /\ ~failed =>
            /\ \A i \in 1 .. last : state(i) # "ready"
            /\ \A i \in 1 .. last : state(i) \in Launching /\ noneNewer(i) => spentAt(i, now)
       /\ gate'.code = "timeout" =>
            \E i \in DOMAIN leaders' :
              /\ leaders'[i] \in DOMAIN admitted
              /\ admitted[leaders'[i]] + HeadStart <= gate'.at
              /\ \A j \in i + 1 .. Len(leaders') : entry[leaders'[j]] \notin Launching

(* The gate opens for the reason it reports and at the time it reports,    *)
(* never after the deadline in force: a stop; the newest leader, or with   *)
(* that one failed another, being ready; nobody left to wait for; or a     *)
(* head start that is over, of a leader with no newer one still launching  *)
(* (_release and its backdating, _schedule).                               *)
GateReported == [][gate.state = "waiting" => OpensForReason]_vars

(* Whatever is held, limited, stopped, failing or late, the pass ends.     *)
PassEnds == phase = "starting" ~> phase = "ended"

=============================================================================

--------------------------- MODULE ProfileRestart ---------------------------
(***************************************************************************)
(* The restart of one profile that applies its new settings                *)
(* (profile_restart.py) and the maintenance of the update hooks it runs    *)
(* under (update_hooks.py).  A job waits until the tasks of the profile    *)
(* end, takes the gate that keeps everybody else from launching the        *)
(* profile, has the runtime refuse new work, closes the application,       *)
(* launches it again and gives gate and runtime back.  The gate, the       *)
(* journal of the maintenance ("lease") and the job are durable, and each  *)
(* write of one of them is a step: the manager may die between any two.    *)
(* A job whose worker died is taken up only when the user asks again.      *)
(*                                                                         *)
(* A runtime and its proxy are one process here, and one generation of the *)
(* profile may have several of them, one after the other: they may end and *)
(* be replaced while the application lives.                                *)
(*                                                                         *)
(* The profile has no SSH hosts.  The updates of the application are there *)
(* as the gate they hold on every profile.                                 *)
(***************************************************************************)
EXTENDS Naturals, FiniteSets

CONSTANTS
  MaxTx,          \* maintenance transactions a restart begins
  MaxGen,         \* launches of the profile
  MaxRuntimes,    \* runtimes that are started for it
  MaxRevision,    \* revisions of its settings
  MaxUpdates,     \* updates of the application
  MaxCrashes,     \* deaths of the manager
  MaxFailures     \* requests that fail or whose answer is lost

ASSUME BoundsAssumption ==
  /\ MaxTx \in Nat \ {0} /\ MaxGen \in Nat \ {0} /\ MaxRuntimes \in Nat \ {0}
  /\ MaxRevision \in Nat \ {0} /\ MaxUpdates \in Nat
  /\ MaxCrashes \in Nat /\ MaxFailures \in Nat

VARIABLES
  job,        \* profile_restarts of the profile
  worker,     \* the thread of the job and what it remembers
  gate,       \* profile_maintenance of the profile: whose, and whether held
  update,     \* update_maintenance: "none", "held" or "released"
  lease,      \* the journals, by transaction
  profile,    \* the settings desired and launched, the generation, its newest runtime
  app,        \* the application of the generation runs
  runtimes,   \* the runtimes that run with their proxies, of any generation
  work,       \* what the newest runtime has: "none", "loaded" or "busy"
  hold,       \* the transaction for which its proxy refuses new work
  closes,     \* how often WM_CLOSE was sent to the application and its newest runtime
  spent       \* transactions, updates, crashes and failures so far

vars == <<job, worker, gate, update, lease, profile, app, runtimes, work, hold, closes, spent>>
machine == <<profile, app, runtimes, work, hold, closes>>

Tx == 1..MaxTx
NoTx == 0
UpdateTx == MaxTx + 1
Gens == 1..MaxGen
Runtimes == 1..MaxRuntimes

\* "rev" is what a recovery has to find: the revision of the last launch it
\* attempted, or else the one it recovers, or else the one requested.
NoJob == [phase |-> "none", tx |-> NoTx, rec |-> NoTx, rev |-> 0, gen |-> 0]
NoWorker == [pc |-> "none", mode |-> "attempt", tx |-> NoTx, gen |-> 0,
             owner |-> NoTx, next |-> "attention", lease |-> FALSE]
\* An entry that is "held" has its token; "verified" is the flag of the journal.
NoEntry == [state |-> "none", gen |-> 0, runtime |-> 0, closed |-> FALSE]
NoLease == [saved |-> FALSE, entry |-> NoEntry]

Terminal == {"none", "complete", "attention", "superseded"}

----------------------------------------------------------------------------
\* The gates and the processes

GateBars(owner) == (gate.held /\ gate.tx # owner) \/ (update = "held" /\ owner # UpdateTx)

MaintenanceOwner ==
  IF gate.held THEN gate.tx ELSE IF update = "none" THEN NoTx ELSE UpdateTx

Authorized(owner) ==
  owner = NoTx \/ (IF gate.held THEN gate.tx = owner ELSE update = "held" /\ owner = UpdateTx)

AppOf(g) == app /\ profile.gen = g
Serving == profile.runtime \in runtimes
Answers(g) == Serving /\ profile.gen = g

Entry(tx) == IF tx = NoTx THEN NoEntry ELSE lease[tx].entry
SaveEntry(tx, e) == lease' = [lease EXCEPT ![tx].entry = e]

Spend(what) == spent' = [spent EXCEPT ![what] = @ + 1]
MayFail == spent.failures < MaxFailures

At(pc) == worker.pc = pc
Goto(pc) == worker' = [worker EXCEPT !.pc = pc]

\* An exception: a lease in hand is released first, then the job wants attention.
Fails ==
  worker' = [worker EXCEPT !.pc = IF worker.lease THEN "release" ELSE "attention",
                           !.owner = NoTx, !.next = "attention"]

Phase(p) == job' = [job EXCEPT !.phase = p]

----------------------------------------------------------------------------
Init ==
  /\ job = NoJob /\ worker = NoWorker
  /\ gate = [tx |-> NoTx, held |-> FALSE] /\ update = "none"
  /\ lease = [tx \in Tx |-> NoLease]
  /\ profile = [desired |-> 1, launched |-> 1, gen |-> 1, runtime |-> 1]
  /\ app = TRUE /\ runtimes = {1} /\ work = "none" /\ hold = NoTx
  /\ closes = 0
  /\ spent = [txs |-> 0, updates |-> 0, crashes |-> 0, failures |-> 0]

----------------------------------------------------------------------------
\* The user, the application and the updates

SetPolicy ==
  /\ profile.desired < MaxRevision
  /\ profile' = [profile EXCEPT !.desired = @ + 1]
  /\ UNCHANGED <<job, worker, gate, update, lease, app, runtimes, work, hold, closes, spent>>

\* The application ends with its runtime, which may take a moment longer.
AppExits ==
  /\ app
  /\ app' = FALSE /\ work' = "none"
  /\ UNCHANGED <<job, worker, gate, update, lease, profile, runtimes, hold, closes, spent>>

Ends(r) == runtimes' = runtimes \ {r} /\ hold' = IF r = profile.runtime THEN NoTx ELSE hold

RuntimeExits ==
  /\ \E r \in runtimes : ~(app /\ r = profile.runtime) /\ Ends(r)
  /\ UNCHANGED <<job, worker, gate, update, lease, profile, app, work, closes, spent>>

\* Runtime or proxy fail, and both end, while the application stays.
RuntimeDies ==
  /\ app /\ Serving
  /\ Ends(profile.runtime) /\ work' = "none"
  /\ UNCHANGED <<job, worker, gate, update, lease, profile, app, closes, spent>>

\* The application starts them anew: a replacement proxy has no hold.
RuntimeReplaced ==
  /\ app /\ ~Serving /\ profile.runtime < MaxRuntimes
  /\ profile' = [profile EXCEPT !.runtime = @ + 1]
  /\ runtimes' = runtimes \cup {profile.runtime + 1}
  /\ work' = "none" /\ hold' = NoTx /\ closes' = 0
  /\ UNCHANGED <<job, worker, gate, update, lease, app, spent>>

\* Mutant: the barrier of the proxy lets a new request pass.
WorkBeginsHeld ==
  /\ app /\ Serving /\ work # "busy"
  /\ work' = "busy"
  /\ UNCHANGED <<job, worker, gate, update, lease, profile, app, runtimes, hold, closes, spent>>

\* The proxy takes no new work while it is held; what runs may end.
WorkBegins ==
  /\ app /\ Serving /\ hold = NoTx /\ work # "busy"
  /\ work' = "busy"
  /\ UNCHANGED <<job, worker, gate, update, lease, profile, app, runtimes, hold, closes, spent>>

WorkEnds ==
  /\ work = "busy"
  /\ work' = "loaded"
  /\ UNCHANGED <<job, worker, gate, update, lease, profile, app, runtimes, hold, closes, spent>>

\* The application of a new generation; its proxy starts with no hold.  The
\* notice of a job that failed for an earlier generation is retired.
Launched(j) ==
  /\ ~app /\ profile.gen < MaxGen /\ profile.runtime < MaxRuntimes
  /\ profile' = [profile EXCEPT !.gen = @ + 1, !.runtime = @ + 1, !.launched = profile.desired]
  /\ app' = TRUE /\ runtimes' = runtimes \cup {profile.runtime + 1}
  /\ work' = "none" /\ hold' = NoTx /\ closes' = 0
  /\ job' = IF j.phase = "attention" /\ j.gen # profile.gen + 1
            THEN [j EXCEPT !.phase = "superseded"] ELSE j

UserLaunch ==
  /\ ~GateBars(NoTx)
  /\ Launched(job)
  /\ UNCHANGED <<worker, gate, update, lease, spent>>

UpdateBegins ==
  /\ spent.updates < MaxUpdates
  /\ update # "held" /\ ~gate.held
  /\ update' = "held" /\ Spend("updates")
  /\ UNCHANGED <<job, worker, gate, lease, machine>>

UpdateEnds ==
  /\ update = "held"
  /\ update' = "released"
  /\ UNCHANGED <<job, worker, gate, lease, machine, spent>>

\* The manager dies: the worker is gone, what is on disk stays.
Crash ==
  /\ spent.crashes < MaxCrashes /\ ~At("none")
  /\ worker' = NoWorker /\ Spend("crashes")
  /\ UNCHANGED <<job, gate, update, lease, machine>>

----------------------------------------------------------------------------
\* The job

\* A request while a worker runs returns its job.
ScheduleAs(recovers) ==
  /\ At("none")
  /\ LET fresh == [NoJob EXCEPT !.phase = "waiting", !.rev = profile.desired, !.gen = profile.gen]
     IN job' = IF recovers
               THEN [fresh EXCEPT !.tx = job.tx, !.rec = job.tx, !.rev = job.rev]
               ELSE fresh
  /\ worker' = [NoWorker EXCEPT !.pc = "step"]
  /\ UNCHANGED <<gate, update, lease, machine, spent>>

\* Mutant: the job of a dead worker is replaced, not recovered.
ScheduleAnew == ScheduleAs(job.phase = "attention" /\ job.tx # NoTx)

\* A job whose worker died counts as one that wants attention; such a job is
\* recovered when it had begun a transaction.
Schedule == ScheduleAs(job.phase \notin {"none", "complete", "superseded"} /\ job.tx # NoTx)

Step ==
  /\ At("step")
  /\ IF job.rec # NoTx
     THEN /\ Phase("recovering")
          /\ worker' = [NoWorker EXCEPT !.pc = "recover", !.mode = "recovery", !.tx = job.rec]
     ELSE /\ worker' = [NoWorker EXCEPT !.pc = "guard"]
          /\ UNCHANGED job
  /\ UNCHANGED <<gate, update, lease, machine, spent>>

\* While another transaction holds the profile the job waits.
Guard ==
  /\ At("guard")
  /\ IF GateBars(NoTx) THEN Goto("step") /\ Phase("waiting")
                       ELSE Goto("observe") /\ UNCHANGED job
  /\ UNCHANGED <<gate, update, lease, machine, spent>>

\* A profile that does not run is launched at once; one whose tasks run waits,
\* one without a runtime wants attention, and one that cannot be seen to be idle
\* does either.
Observe ==
  /\ At("observe")
  /\ \/ /\ ~app
        /\ Goto("opening") /\ UNCHANGED <<job, spent>>
     \/ /\ app /\ work = "busy"
        /\ Goto("step") /\ Phase("waiting") /\ UNCHANGED spent
     \/ /\ app /\ ~Serving
        /\ Goto("attention") /\ UNCHANGED <<job, spent>>
     \/ /\ app /\ Serving /\ work # "busy" /\ spent.txs < MaxTx
        /\ Spend("txs")
        /\ job' = [job EXCEPT !.phase = "acquiring", !.tx = spent.txs + 1]
        /\ worker' = [worker EXCEPT !.pc = "begin", !.tx = spent.txs + 1, !.gen = profile.gen]
     \/ /\ MayFail /\ Spend("failures")
        /\ \/ Goto("attention") /\ UNCHANGED job
           \/ app /\ Goto("step") /\ Phase("waiting")
  /\ UNCHANGED <<gate, update, lease, machine>>

----------------------------------------------------------------------------
\* acquire_maintenance

\* Mutant: the gate is taken for the transaction to recover, even where there
\* is none.
TakeGateForOld(pc, refused) ==
  /\ IF GateBars(worker.tx)
     THEN Goto(refused) /\ UNCHANGED gate
     ELSE Goto(pc) /\ gate' = [tx |-> job.rec, held |-> TRUE]
  /\ UNCHANGED <<job, update, lease, machine, spent>>

\* The gate is taken unless somebody else holds it or every profile.
TakeGate(pc, refused) ==
  /\ IF GateBars(worker.tx)
     THEN Goto(refused) /\ UNCHANGED gate
     ELSE Goto(pc) /\ gate' = [tx |-> worker.tx, held |-> TRUE]
  /\ UNCHANGED <<job, update, lease, machine, spent>>

Begin == At("begin") /\ TakeGate("journal", "attention")

Journal ==
  /\ At("journal")
  /\ lease' = [lease EXCEPT ![worker.tx] = [NoLease EXCEPT !.saved = TRUE]]
  /\ worker' = [worker EXCEPT !.pc = "pin", !.lease = TRUE]
  /\ UNCHANGED <<job, gate, update, machine, spent>>

\* The entry names the processes that were seen idle, and no others.
Pin ==
  /\ At("pin")
  /\ \/ /\ AppOf(worker.gen) /\ Serving
        /\ SaveEntry(worker.tx, [NoEntry EXCEPT !.state = "acquire_requested",
                                   !.gen = worker.gen, !.runtime = profile.runtime])
        /\ Goto("ask") /\ UNCHANGED spent
     \/ /\ ~(AppOf(worker.gen) /\ Serving) /\ Fails /\ UNCHANGED <<lease, spent>>
     \/ /\ MayFail /\ Spend("failures") /\ Fails /\ UNCHANGED lease
  /\ UNCHANGED <<job, gate, update, machine>>

\* The proxy, or the one that replaced it, refuses when it is held for another;
\* an answer may be lost.
Ask ==
  /\ At("ask")
  /\ LET grants == Answers(worker.gen) /\ hold \in {NoTx, worker.tx}
     IN \/ /\ grants
           /\ hold' = worker.tx
           /\ \/ Goto("token") /\ UNCHANGED spent
              \/ MayFail /\ Spend("failures") /\ Fails
           /\ UNCHANGED lease
        \/ /\ ~grants \/ MayFail
           /\ IF grants THEN Spend("failures") ELSE UNCHANGED spent
           /\ \/ SaveEntry(worker.tx, [Entry(worker.tx) EXCEPT !.state = "rejected"])
              \/ UNCHANGED lease
           /\ Fails /\ UNCHANGED hold
  /\ UNCHANGED <<job, gate, update, profile, app, runtimes, work, closes>>

Token ==
  /\ At("token")
  /\ SaveEntry(worker.tx, [Entry(worker.tx) EXCEPT !.state = "held"])
  /\ Goto("verify")
  /\ UNCHANGED <<job, gate, update, machine, spent>>

\* Work that began before the hold is still there to be seen.
Verify ==
  /\ At("verify")
  /\ \/ /\ Answers(worker.gen) /\ work # "busy"
        /\ SaveEntry(worker.tx, [Entry(worker.tx) EXCEPT !.state = "verified"])
        /\ Goto("closing") /\ UNCHANGED spent
     \/ /\ ~Answers(worker.gen) \/ work = "busy"
        /\ Fails /\ UNCHANGED <<lease, spent>>
     \/ /\ MayFail /\ Spend("failures") /\ Fails /\ UNCHANGED lease
  /\ UNCHANGED <<job, gate, update, machine>>

Closing ==
  /\ At("closing")
  /\ Phase("closing") /\ Goto("drain")
  /\ UNCHANGED <<gate, update, lease, machine, spent>>

----------------------------------------------------------------------------
\* close_instance

HeldFor(tx) == gate.held /\ gate.tx = tx

\* The loaded tasks are closed with the proof that their writers let go, and
\* only then is the close noted in the journal.
Drain ==
  /\ At("drain")
  /\ LET e == Entry(worker.tx)
         holds == HeldFor(worker.tx) /\ e.state = "verified"
                  /\ AppOf(e.gen) /\ hold = worker.tx /\ work # "busy"
     IN \/ /\ holds /\ work' = "none"
           /\ SaveEntry(worker.tx, [e EXCEPT !.state = "close_requested"])
           /\ Goto("send") /\ UNCHANGED spent
        \/ /\ ~holds /\ Fails /\ UNCHANGED <<work, lease, spent>>
        \/ /\ holds /\ MayFail /\ Spend("failures")
           /\ work' \in {work, "none"} /\ Fails /\ UNCHANGED lease
  /\ UNCHANGED <<job, gate, update, profile, app, runtimes, hold, closes>>

SendClose ==
  /\ At("send")
  /\ \/ /\ closes' = IF Entry(worker.tx).runtime = profile.runtime THEN closes + 1 ELSE closes
        /\ Goto("await") /\ UNCHANGED spent
     \/ /\ MayFail /\ Spend("failures") /\ Fails /\ UNCHANGED closes
  /\ UNCHANGED <<job, gate, update, lease, profile, app, runtimes, work, hold>>

Closed(tx) == SaveEntry(tx, [Entry(tx) EXCEPT !.state = "closed", !.closed = TRUE])

\* The application may stay resident: then the wait times out.
AwaitExit ==
  /\ At("await")
  /\ LET e == Entry(worker.tx)
     IN IF ~AppOf(e.gen) /\ e.runtime \notin runtimes
        THEN Closed(worker.tx) /\ Goto("opening")
        ELSE Goto("finish") /\ UNCHANGED lease
  /\ UNCHANGED <<job, gate, update, machine, spent>>

\* The lifetimes, the gate, the hold and the empty runtime are looked at
\* again in the operation that stops the process.
Finish ==
  /\ At("finish")
  /\ LET e == Entry(worker.tx)
         proven == HeldFor(worker.tx) /\ e.state = "close_requested" /\ AppOf(e.gen)
                   /\ Serving /\ e.runtime = profile.runtime
                   /\ hold = worker.tx /\ work = "none"
     IN \/ /\ proven
           /\ app' = FALSE /\ Ends(e.runtime)
           /\ Goto("exited") /\ UNCHANGED spent
        \/ /\ ~proven /\ Fails
           /\ UNCHANGED <<app, runtimes, hold, spent>>
        \/ /\ proven /\ MayFail /\ Spend("failures") /\ Fails
           /\ UNCHANGED <<app, runtimes, hold>>
  /\ UNCHANGED <<job, gate, update, lease, profile, work, closes>>

Exited ==
  /\ At("exited")
  /\ Closed(worker.tx)
  /\ Goto(IF worker.mode = "recovery" THEN "decide" ELSE "opening")
  /\ UNCHANGED <<job, gate, update, machine, spent>>

----------------------------------------------------------------------------
\* restore_instance

Opening ==
  /\ At("opening")
  /\ job' = [job EXCEPT !.phase = "opening", !.rev = profile.desired]
  /\ Goto("restore")
  /\ UNCHANGED <<gate, update, lease, machine, spent>>

\* The launch is made in the name of the transaction that holds the profile,
\* whichever that is.
Restore ==
  /\ At("restore")
  /\ worker' = [worker EXCEPT !.pc = "show", !.owner = MaintenanceOwner]
  /\ UNCHANGED <<job, gate, update, lease, machine, spent>>

Shown(g) == worker' = [worker EXCEPT !.pc = "ready", !.owner = NoTx, !.gen = g]

Show ==
  /\ At("show")
  /\ \/ /\ ~GateBars(worker.owner) /\ app
        /\ Shown(profile.gen) /\ UNCHANGED <<job, machine, spent>>
     \/ /\ ~GateBars(worker.owner) /\ Authorized(worker.owner)
        /\ Launched(job)
        /\ Shown(profile.gen + 1)
        /\ UNCHANGED spent
     \/ /\ GateBars(worker.owner) \/ (~app /\ ~Authorized(worker.owner))
        /\ Fails /\ UNCHANGED <<job, machine, spent>>
     \/ /\ \/ MayFail /\ Spend("failures")
           \/ /\ ~app /\ (profile.gen = MaxGen \/ profile.runtime = MaxRuntimes)
              /\ UNCHANGED spent
        /\ Fails /\ UNCHANGED <<job, machine>>
  /\ UNCHANGED <<gate, update, lease>>

\* The wait for the runtime of the generation shown, which must be up and not
\* held; then the release.
Ready ==
  /\ At("ready")
  /\ \/ /\ app /\ Answers(worker.gen) /\ hold = NoTx
        /\ worker' = [worker EXCEPT !.next = "settle",
                                   !.pc = IF worker.lease THEN "release" ELSE "settle"]
        /\ job' = IF worker.mode = "recovery" THEN job ELSE [job EXCEPT !.gen = profile.gen]
        /\ UNCHANGED spent
     \/ /\ ~(app /\ Answers(worker.gen) /\ hold = NoTx)
        /\ Fails /\ UNCHANGED <<job, spent>>
     \/ /\ MayFail /\ Spend("failures") /\ Fails /\ UNCHANGED job
  /\ UNCHANGED <<gate, update, lease, machine>>

----------------------------------------------------------------------------
\* release_maintenance: the hold of the runtime, the entry, then the gate

\* Mutant: a runtime that is gone is asked all the same.
SettledWhenTold(e) == e.state \in {"none", "released", "rejected"}

\* Nothing is left to ask: no entry, one settled or refused, or a dead runtime,
\* whether the application lives or not.
Settled(e) == e.state \in {"none", "released", "rejected"} \/ e.runtime \notin runtimes

\* Mutant: a close that may still happen does not keep the hold.
UnresolvedTokenless(e) == e.state = "acquire_requested"

\* The runtime cannot be asked: no token, or a close that may still happen.
Unresolved(e) == e.state = "acquire_requested" \/ (e.state = "close_requested" /\ AppOf(e.gen))

ReleaseSettled ==
  /\ At("release")
  /\ LET e == Entry(worker.tx)
     IN /\ Settled(e)
        /\ SaveEntry(worker.tx, IF e = NoEntry THEN e ELSE [e EXCEPT !.state = "released"])
  /\ Goto("free")
  /\ UNCHANGED <<job, gate, update, machine, spent>>

ReleaseStays ==
  /\ At("release")
  /\ LET e == Entry(worker.tx) IN ~Settled(e) /\ Unresolved(e)
  /\ Goto("attention")
  /\ UNCHANGED <<job, gate, update, lease, machine, spent>>

\* The proxy knows the transaction only while it is held for it: a release
\* that was carried out already is answered as stale.
ReleaseAsk ==
  /\ At("release")
  /\ LET e == Entry(worker.tx)
         known == profile.gen = e.gen /\ hold = worker.tx
     IN /\ ~Settled(e) /\ ~Unresolved(e)
        /\ \/ /\ known /\ hold' = NoTx
              /\ Goto("released") /\ UNCHANGED spent
           \/ /\ known /\ MayFail /\ Spend("failures")
              /\ hold' \in {hold, NoTx} /\ Goto("attention")
           \/ /\ ~known /\ Goto("attention") /\ UNCHANGED <<hold, spent>>
  /\ UNCHANGED <<job, gate, update, lease, profile, app, runtimes, work, closes>>

Released ==
  /\ At("released")
  /\ SaveEntry(worker.tx, [Entry(worker.tx) EXCEPT !.state = "released"])
  /\ Goto("free")
  /\ UNCHANGED <<job, gate, update, machine, spent>>

Free ==
  /\ At("free")
  /\ gate' = IF gate.tx = worker.tx THEN [gate EXCEPT !.held = FALSE] ELSE gate
  /\ Goto(IF worker.mode = "recovery" /\ worker.next # "attention" THEN "forget" ELSE worker.next)
  /\ UNCHANGED <<job, update, lease, machine, spent>>

----------------------------------------------------------------------------
\* recover_profile_restart

\* Without a journal there is nothing to recover, but the gate still counts; a
\* journal that names no profile is refused.  An application asked to close
\* and still there is finished, never asked again.
Recover ==
  /\ At("recover")
  /\ LET e == Entry(worker.tx)
         resident == e.state = "close_requested" /\ AppOf(e.gen)
     IN \/ /\ ~lease[worker.tx].saved
           /\ Goto(IF GateBars(NoTx) THEN "attention" ELSE "forget")
           /\ UNCHANGED gate
        \/ /\ lease[worker.tx].saved /\ e = NoEntry
           /\ Goto("attention") /\ UNCHANGED gate
        \/ resident /\ TakeGate("finish", "attention")
        \/ /\ lease[worker.tx].saved /\ e # NoEntry /\ ~resident
           /\ Goto("decide") /\ UNCHANGED gate
  /\ UNCHANGED <<job, update, lease, machine, spent>>

\* Only a proven close under the settings still wanted is carried on.
Decide ==
  /\ At("decide")
  /\ worker' = IF Entry(worker.tx).closed /\ profile.desired = job.rev
               THEN [worker EXCEPT !.pc = "resume"]
               ELSE [worker EXCEPT !.pc = "release", !.next = "guard"]
  /\ UNCHANGED <<job, gate, update, lease, machine, spent>>

Resume == At("resume") /\ TakeGate("recheck", "attention")

Recheck ==
  /\ At("recheck")
  /\ LET e == Entry(worker.tx)
         same == /\ profile.desired = job.rev
                 /\ ~AppOf(e.gen) /\ e.runtime \notin runtimes
                 /\ app => profile.gen # e.gen /\ profile.launched = job.rev
     IN worker' = [worker EXCEPT !.lease = TRUE, !.next = "attention",
                                 !.pc = IF same THEN "restore" ELSE "release"]
  /\ UNCHANGED <<job, gate, update, lease, machine, spent>>

Forget ==
  /\ At("forget")
  /\ job' = [job EXCEPT !.rec = NoTx, !.tx = NoTx]
  /\ worker' = [NoWorker EXCEPT !.pc = IF worker.next = "settle" THEN "settle" ELSE "guard"]
  /\ UNCHANGED <<gate, update, lease, machine, spent>>

----------------------------------------------------------------------------
\* The end of a step

\* Settings changed during the launch are applied by another round.
Settle ==
  /\ At("settle")
  /\ IF profile.launched = profile.desired
     THEN Goto("complete") /\ UNCHANGED job
     ELSE Goto("step") /\ Phase("waiting")
  /\ UNCHANGED <<gate, update, lease, machine, spent>>

Complete ==
  /\ At("complete")
  /\ Phase("complete") /\ worker' = NoWorker
  /\ UNCHANGED <<gate, update, lease, machine, spent>>

Attention ==
  /\ At("attention")
  /\ Phase("attention") /\ worker' = NoWorker
  /\ UNCHANGED <<gate, update, lease, machine, spent>>

----------------------------------------------------------------------------
Acquire == Begin \/ Journal \/ Pin \/ Ask \/ Token \/ Verify
Close == Closing \/ Drain \/ SendClose \/ AwaitExit \/ Finish \/ Exited
Reopen == Opening \/ Restore \/ Show \/ Ready
Release == ReleaseSettled \/ ReleaseStays \/ ReleaseAsk \/ Released \/ Free
Recovery == Recover \/ Decide \/ Resume \/ Recheck \/ Forget
Work == Step \/ Guard \/ Observe \/ Acquire \/ Close \/ Reopen \/ Release \/ Recovery
        \/ Settle \/ Complete \/ Attention

Environment ==
  \/ SetPolicy \/ AppExits \/ RuntimeExits \/ RuntimeDies \/ RuntimeReplaced
  \/ WorkBegins \/ WorkEnds \/ UserLaunch \/ UpdateBegins \/ UpdateEnds \/ Crash

Next == Schedule \/ Work \/ Environment

\* A worker that runs goes on, and when it has ended the user asks again.
Fairness == WF_worker(Schedule \/ Work)

Spec == Init /\ [][Next]_vars /\ Fairness

----------------------------------------------------------------------------
\* Properties

\* The types of the state; a gate that is held has an owner (_begin_global).
TypeOK ==
  /\ job \in [phase : Terminal \cup {"waiting", "recovering", "acquiring", "closing", "opening"},
              tx : Tx \cup {NoTx}, rec : Tx \cup {NoTx}, rev : 0..MaxRevision, gen : 0..MaxGen]
  /\ gate \in [tx : Tx \cup {NoTx}, held : BOOLEAN] /\ (gate.held => gate.tx # NoTx)
  /\ update \in {"none", "held", "released"}
  /\ profile \in [desired : 1..MaxRevision, launched : 1..MaxRevision,
                  gen : Gens, runtime : Runtimes]
  /\ app \in BOOLEAN /\ runtimes \subseteq Runtimes /\ work \in {"none", "loaded", "busy"}
  /\ hold \in Tx \cup {NoTx}

\* WM_CLOSE is not sent again while the runtime lives that the first was proven
\* against, whoever dies and however often the restart is asked for again
\* (recover_profile_restart never replays a close).  An application that stays
\* when its runtime dies may be asked once more, by a restart that proves the
\* replacement idle and names it in its journal (release_maintenance).
CloseSentOnce == closes <= 1

\* No gate, hold or closed application is ever forgotten, whoever dies and
\* however often the restart is asked for again: a held gate belongs to a job
\* that the next request recovers (schedule, supersede_previous_notice); a
\* proxy that its holder's journal names refuses new work for the holder of the
\* gate (release_maintenance); and a job is complete only when what a restart
\* closed was launched again (_complete_or_wait).
NothingForgotten ==
  /\ gate.held => /\ gate.tx \in {job.tx, job.rec}
                  /\ job.phase \notin {"none", "complete", "superseded"}
  /\ hold # NoTx /\ Entry(hold).runtime = profile.runtime => gate.held /\ gate.tx = hold
  /\ job.phase = "complete" =>
       \A tx \in Tx : Entry(tx).closed => Entry(tx).gen < profile.gen

\* A restart asks an application to close, or stops it, only while nothing is
\* loaded in its runtime, new work is refused and the gate is its own, though
\* tasks begin and end at any time and the manager may have died in between
\* (close_instance, _finish_requested_idle_exit).  Only a runtime that dies
\* after the last look at it does not keep the close from being sent.
EndsIdleOnly ==
  [][ LET e == Entry(worker.tx)
          asks == At("send") /\ closes' > closes /\ e.runtime \in runtimes
          stops == At("finish") /\ worker'.pc = "exited"
      IN (asks \/ stops) /\ AppOf(e.gen)
           => work = "none" /\ hold = worker.tx /\ HeldFor(worker.tx) ]_vars

GoneUnderGate ==
  LET e == Entry(gate.tx)
  IN gate.held /\ e # NoEntry /\ ~AppOf(e.gen) /\ e.runtime \notin runtimes

\* Once the application and the runtime of a restart are gone, the gate comes
\* free, whatever died or failed on the way, if the user asks again
\* (recover_profile_restart, release_maintenance).
GateComesFree == GoneUnderGate ~> ~gate.held

\* Nobody launches the profile while the gate or an update is another's
\* ("updates and maintenance wait for all of them and then exclude new
\* launches", launch_admission).
LaunchHonoursGate ==
  [][ profile'.gen # profile.gen => /\ update # "held"
                                    /\ gate.held => gate.tx = worker.tx ]_vars
============================================================================

# Verification of Codex Control Center

TLA+ models of the manager of this repository (`scripts/control_center.py`,
`scripts/manager_core/`), of the runtime it patches (`patches/`) as far as the
two share state, their model-checking configurations for TLC, and proofs for
TLAPS. Paths below are relative to the repository; file names without a
directory are in `scripts/manager_core/`.

## The system

The manager runs several accounts ("profiles") of one desktop application side
by side on one Windows machine. Every profile has its own home, its own runtime
process (a patched Codex app-server) and its own window. Conversations can be
handed from one account to another; records, notes and settings are shared.

| Component | State | Operations | Talks to |
|---|---|---|---|
| Launch admission (`launch_queue.py`; `update_hooks.py` 182-279, 802-826) | tickets, rows held per worker thread, the selected profile, a maintenance lock file | acquire, release, prefer, launch_admission | every open of a profile, maintenance, warmup |
| Execution ownership (`authority.py`) | one owner record per conversation, lock directories, guard files, writer locks | read, transfer, transfer_many | hand-over; the runtimes take the same locks |
| Conversation hand-over (`handoff.py`, `remote_handoff.py`) | a journal file per attempt, a guard file per root | preview, continue_conversation, recovery_status | both runtimes through `runtime_admin.py`, ownership |
| Managed runtime (`patches/codex-0.153.4-cross-provider.patch`) | loaded actors, request gates, bindings, recorders | begin, close_idle, reload_binding, for_new_child | owner records, writer locks |
| Usage continuation (`usage_continuation.py`) | inbox files, a table of stops and its saved copy | record_stops, ingest, tick, send | runtime proxies (observers), runtimes (turn/start) |
| Profile warmup (`profile_warmup.py`) | pending profiles, leaders, a gate with its deadline, holds | start, prioritize, hold, release, shutdown, resume | launch admission, instances |
| Launch and close of profiles (`instances.py`, `control_center.py` 108-199, `profile_lifecycle.py`) | close holds, shared checks of the application copy, processes | show, finish_show, hold_launches, close begin and end, remove | admission, the window, warmup |
| Maintenance (`update_hooks.py`) | lock files, the list of closed instances | acquire_maintenance, close_instance, restore_instance, remote reconcile | updates, restarts |
| Restart jobs (`profile_restart.py`) | one persisted job per profile | schedule, step, pause, resume, finish | maintenance, remote maintenance |
| Store (`store.py`) | one JSON file, a lock file | read, mutate | everything |
| Conversation opening (`conversation_open.py`, `pending_navigation.py`) | a pending navigation per profile | open, resume, relaunch | admission, instances |
| Canonical storage and publication (`canonical_storage.py`, `desktop_publication.py`, bundles) | versioned copies, publication markers | prepare, publish, collect | launches |
| Updates (`updates.py`, `update_jobs.py`, `startup_updates.py`, package installers) | jobs and their phases | plan, start, apply, finish | maintenance |
| Remote hosts (`remote*.py`, `ssh_*.py`, `scripts/remote_helpers/`) | leases and inventories on the host | launch, maintain, update, hand over | SSH |
| Runtime proxy and administration (`runtime_proxy.py`, `runtime_admin.py`, `pipe_writer.py`) | pending requests, bounded buffers | forward, request | runtimes, windows |
| Record hub and service (`manager/service/src`) | record generations, processes, notes | named pipe protocol | backend, windows |
| Shell and supervisor (`manager/Shell`, `manager/Supervisor`) | windows | start, embed, exit | service |
| Presets, Claude accounts and runner, skills, plugins, catalogs, desktop adapters, packaging | configuration and projections | - | external programs |

What is hard in it, and where:

- *Worker threads* of one backend open profiles in parallel, some of them from
  inside the admission of another open; maintenance has to run alone.
- *Several processes* (two managers, the runtimes, an SSH host) agree on the
  owner of a conversation only through files and locks, and any of them may die.
- *Requests of unknown outcome*: an answer that times out does not undo the
  request, which a runtime may still execute minutes later.
- *Persistence in steps*: a file is removed before the table is saved, a
  journal is written before a step is taken.
- *Deadlines and retries* in warmup, restarts, continuations and maintenance.

What makes each modelled component correct:

- Admission: exclusive work is alone; a profile is opened by one worker; nothing
  passes queued maintenance, and it is admitted in the end; nested opens do not
  deadlock.
- Ownership: writes only under the current grant; at most one recorder; a move
  only while none is open; a crash freezes instead of letting others in; an
  answer tells what changed.
- Hand-over: nothing moves without the runtime's proof of release; a failed
  attempt is reported as untouched only if it is; a split tree is visible; a
  journaled attempt is not replayed.
- Continuation: at most one message per stop; every stop is decided, and once.
- Warmup: no worker sleeps through work it may take; the others wait for the
  newest leader, for as long as promised and never for nobody; what a finished
  pass leaves is settled; every pass ends.
- Launch and close: a closed profile stays closed while it is held, nothing
  runs after the full exit, a removed profile does not run, a task reaches the
  launch it waited for or none.
- Restarts: a close is sent once under the runtime it was proven against; no
  gate, hold or closed application is forgotten by whoever dies; nothing is ended
  while it works; the gate comes free; and nobody launches under a gate that is
  another's.

The hazards found while reading are listed with their lines in `PROJECT.json`.

## Modules

| Module | Models | Role |
|---|---|---|
| `AdmissionLock` | the promise of admission | abstract specification |
| `LaunchQueue` | `launch_queue.py` and its callers' nesting | implements `AdmissionLock` |
| `MCLaunchQueue`, `LaunchQueueProofs` | | instance; proofs |
| `Ownership` | the promise of the owner records | abstract specification |
| `Authority` | `authority.py` and the runtime's side of its locks | implements `Ownership` |
| `MCAuthority`, `AuthorityProofs` | | instance; proofs |
| `Handoff` | `handoff.py`, close and activation in the runtime | works on records at the level of `Ownership`, and implements it |
| `MCHandoff`, `HandoffProofs` | | instance; proofs |
| `UsageContinuation`, `MCUsageContinuation` | `usage_continuation.py` | |
| `UsageContinuationProofs` | | proofs |
| `Warmup`, `MCWarmup` | `profile_warmup.py` | what happens in front of the launches that `LaunchQueue` orders |
| `WarmupProofs` | | proofs |
| `ProfileLaunch`, `MCProfileLaunch` | `instances.py`, `control_center.py`, `conversation_open.py`, `pending_navigation.py`, `app_transport.py`, `profile_lifecycle.py`, `manager/service/src/processes.rs`, `manager/Shell/MainWindow*.cs` | launches, tasks, close, removal and full exit composed over one profile |
| `ProfileLaunchProofs` | | proofs |
| `ProfileRestart` | `profile_restart.py` and the maintenance of `update_hooks.py`, the barrier of `runtime_admin.py` | restart jobs composed with gate, journal and runtime |
| `ProfileRestartProofs` | | proofs |

`Handoff` composes with `Authority` through `Ownership`: `Authority` shows that
the three locks with their crashes implement the abstract records, and `Handoff`
uses only what the abstract records offer, plus the lock directories that a
crash leaves behind. `ProfileLaunch` takes the admission of its one profile as
the lock that `LaunchQueue` implements.

### LaunchQueue

`waiting` is the list of tickets, `held` the dictionary of stacks, `preferred`
the selection. Every method runs under one condition variable and is one action;
a `wait_for` whose predicate is false is a state (`waiting`, or `nesting` for a
nested request), and the wake-up that finds it true is an action of its own
(`Admit`, `ResumeNested`). `Nests` is the set of pairs "work admitted for p may
open q": the profile itself, and its record viewer (`conversation_open.py` 113),
and anything from within maintenance. `opened` and `clicks` only bound the
nested requests per admission and the selections.

Run `LaunchQueue`: three workers, two profiles and maintenance, one nested
request per admission, two selections. Three workers are the least number that
has one holder, one waiter and one that overtakes; two profiles tell launches of
the same profile from others; the second selection replaces an earlier one.
Fairness: weak for `Admit`, `ResumeNested` and `Release` of every worker,
because every change calls `notify_all` and every admission is the body of a
`with` statement. `MaintenanceFence` and `OnlySelectionOvertakes` speak of every
worker that enters with the step (`Enters`): for one with a ticket, of the
tickets in front of its own, for one that is admitted on arrival, of all tickets
there are (`ArrivedBefore`). With a cyclic `Nests` (the viewer opening its profile) TLC
reports a deadlock: two workers wait for each other's profile.

### Authority

`record` is the owner and epoch of a conversation (epoch and revision move
together and are one number), `dir`, `guard` and `writerLock` its three locks:
a directory made with `mkdir`, which survives its maker; the guard file, shared
by runtimes for the length of a write permit (`writing`) and exclusive for a
transfer; the writer lock of the recorder. `call` is a transfer in progress; it
reads its grants long before it takes the first lock. An error while records are
replaced (`ReplaceFails`) can come before or after the rename, and reading back
for the report can fail for any of them. `MoverExit` and `RuntimeExit` end a
process anywhere.

Run `Authority`: two conversations, two accounts, two managers, every record may
move twice (`MaxEpoch` 3), symmetric in all three. Two of each is enough for an
overlap of batches and for a stale grant; the third epoch lets a conversation
come back to its first owner.

### Handoff

An attempt goes through the journal's states; `stage` is where its code is (lost
with the process), `journal` what is on disk. The runtime's close and activation
are three and two outcomes of a request that was sent, and stay possible after
the attempt ended, until the runtime is replaced. `fence` is the request gate:
open, released by a proven close, or uncertain. `tree` may grow while a runtime
has the root loaded with its gate open. Plan and guard are separate steps in the
code and one here, because the plan is made again under the guard.

Run `Handoff`: a root and one child (there from the start or spawned on the
way), two accounts, three attempts, three epochs: a failed attempt, one that
succeeds and one that moves back. Run `HandoffReplay` (two attempts) shows the
finding below.

A completed hand-over can be disturbed by the late close of an unfinished
attempt (`CompleteMeansHandedOver` names that exception): the close request
carries no epoch, so a runtime that becomes the owner again executes it.

### UsageContinuation

One task whose turns are numbered, so that a stop is known by the number of its
turn. `inbox` are the files, `entries` the table in memory, `disk` the table as
saved, `job` the scheduler's thread, `flight` the messages on their way,
`ingest` the state of the pass over the inbox, which another thread may run. Due
times, the profile's switches and the usage windows are left open, so every
decision is possible at every time. A save prunes the table and may fail.
Assumptions: a message on its way arrives or is lost before the backend is
started again and before its entry is dropped from the table; a message that
reaches a running task is lost; a chain stops within `CHAIN_WINDOW`; entries are
taken from the table one at a time; retention drops all decided entries or none.

Runs: `UsageContinuation` (three turns, two entries, one restart) for safety,
`UsageContinuationLive` (two turns, two entries, one restart, one failing save)
for what is decided and that it is. Deadlock is not checked because the turns
are bounded and the task may just end. Three turns are a stop, its continuation
that stops again, and one more; a table of two entries has to evict. With only
two turns `UsageContinuationLive` never evicts a scheduled entry: `EveryStopDecided`
is about retries and absent runtimes, eviction is left to `ContinuedOnce`.
Fairness: strong, for each stop by itself, for the processing of its entry when
it is due, for sending or giving up and for an answer or its absence, because
the thread passes over the whole table every 15 seconds as long as the process
lives (`usage_continuation.py` 420-427), so no entry is passed over for
another; every request has a time limit, and the lock is held by others only
briefly. Weak for the end of an ingest. `Wait` alone is not fair:
`CLOSED_GRACE` ends it.

### Warmup

One condition variable guards the whole state, so every stretch of code under
the lock is one action: `Look` is one round of `_next` with the take that ends
it (`Take`) or the sleep it computes, `Open`, `Refuse` and `Launched` are the
updates of `_prepare`, `Return` the `finally` of `_drain`. A worker asleep
carries the time its `wait` ends; `notify_all` is `Woken`, and only the methods
that call it do so (`hold` does not). `gate` is the gate with the deadline in
force, or when and why it opened; `Scheduled`, `Settled` and `Released` are
`_schedule`, `_settle` and `_release`. `admitted` and `leaders` are the two
dictionaries of leaders, the latter as the order it keeps. `job`, `phase` and
`failed` say where the threads are. The clock counts from the scan; a hold taken
before it may have lost any part of its time. What a launch does, and how long
it takes, is open; free commit may have any level at any round. The promotion
times and `held_for` serve display only and are left out, and so is the status
text: `ready` stands for ready and started, `failed` for skipped and attention.

Run `Warmup`: three workers and three profiles, of which the scan finds any and
in any order, two clicks, one stop. Three profiles are a leader, a second leader
or launch, and one kept back; three workers are the least at which the launch
limit of two matters. A unit is 15 seconds: a head start of two and a cap of
three let one head start end before the cap and the next be cut by it, and leave
a unit in which a deadline is noticed late; the clock stops at the cap. A hold
takes two units, so that it ends within the run. Two clicks on top of the
restored profile are enough to select A, then B, then A again.
Run `WarmupEnds`: two of each and one click, without symmetry; two workers never
meet the launch limit, so what keeps a worker there is the gate or a hold. Fairness: weak
for every worker, the steps of the pass and the clock: threads run, launches
have time limits of their own, and time passes. No click, release of a hold,
stop or resume is fair, so a pass ends though nobody releases a hold.

`PassSettled` and two others except a pass whose threads did not all start
(`failed`): when none did, nobody drains, the entries stay queued and the gate
is opened by the end of the pass only.

### ProfileLaunch

One profile. A worker is a thread of the warmup pass or a request (`show`,
`login`, the opening of a task); `pc` says how far it is, `my` which launch it
has in hand. A launch, its generation and its process have one number. `gate`
is the request gate of the profile (`control_center.py` 1026-1046), `admission`
its launch admission, `hold` the close hold, `stopping` the exit barrier, `wait`
the tasks kept until their runtime is ready, `saved` the record in `state.json`,
`owner` the launch that `process-owner.json` names, `alive` what really runs,
which nobody can see in one look together with the rest. Every look (`Look`,
`Check`), the spawn, the save of the identity and the publication of the window
are separate steps; a launch may fail at each, and be aborted. The close, the
removal and the full exit are the requests of the shell, in its order; a hold
may expire (`CLOSE_HOLD_SECONDS`, 15 minutes) and the shell may die with a
request still on its way (`Abandon`). The docstring of `_close_begin` says the
hold lasts until close_end; it lasts until then or 15 minutes, and the
properties speak of the time it lasts. `Crash` is the death of the backend,
which takes locks, holds and waits with it and leaves the processes.

Run `ProfileLaunch`: one worker of each kind, two processes (one that ran and
one that follows), one close, one full exit, one death: the least with which
every pair of an opener and an ender meets. Deadlock is not checked: the bounds
stop launches, closes and exits.

### ProfileRestart

One profile and its restart job. Every write of the job, the gate, the journal
and the runtime's hold is a step (the hold and the note of its token, the proof
of the idle runtime and the phase that follows it are two each), so the manager
may die (`Crash`) between any two, the application may exit and tasks may begin
and end between any two, and any request may fail or lose its answer
(`MayFail`). `worker` is the thread with what it remembers, `lease[tx]` the
journal of a transaction with the one entry of the profile, `hold` the
transaction for which the newest proxy refuses new work. `next` is what follows
the release: for a job that fails, its attention; for a recovery, another
attempt. An update is only the gate it holds on all profiles (`UpdateBegins`,
`UpdateEnds`); the user's launches go through the same guard.

Application and runtime live and die by themselves. A runtime and its proxy are
one process here; `runtimes` are those that run, `profile.runtime` is the newest,
and a generation may have several, one after the other: while its application
lives a runtime may end (`RuntimeDies`: `runtime_proxy.py` 701-783) and be
replaced by one whose proxy has no hold (`RuntimeReplaced`: `runtime_admin.py`
455). Each entry of a journal names the runtime it was made for, and `closes`
counts the closes proven against the newest runtime and sent to the application
that runs with it: it starts anew with each runtime.

Some fields of the code are one here. An entry that is "held" has its token, and
"verified" follows it where the journal of the one profile is flagged. The job
keeps one revision, `rev`, for the three the code keeps (attempted, recovered,
requested): what a recovery reads of them is the last that was written.

Run `ProfileRestart`: two transactions (the failed one and the next), two
launches, three runtimes (one for each launch, and a replacement of either), two
revisions of the settings (a change between the request and the launch), one
update, one death, one failure. A restart needs both launches; a crash after the
failure is the rarest path that still ends. At the last generation, or the last
runtime, a launch fails without counting as a failure. Deadlock is not checked:
the bounds stop the system.
Fairness: weak for the steps of the job and nothing else: those of the worker (a
thread that runs), and, where it has ended or died, the next request of the user,
because a job whose worker died is taken up on request only: the promise of
`GateComesFree` is one to a user who asks again. Applications, runtimes and
updates owe no step.
Run `ProfileRestartGate`: the finding below.

What the model shows the code not to promise, and no property states:

- A manager that dies between taking the gate and saving the journal with its
  first entry leaves a gate that no retry frees: `recover_profile_restart`
  refuses the missing journal (line 1440, its own gate bars it) and the empty one
  (line 1450).
- A release that was carried out but not noted (line 1403 to 1411) is answered as
  stale when it is repeated, and an acquire whose answer was lost has no token;
  either gate stays until the application and its runtime have exited.
- An application asked to close that stays when its runtime dies loses the gate:
  `release_maintenance` looks at the runtime (line 1385) before it looks for a
  close that may still happen (line 1393). A new restart, which proves the
  replacement idle, may ask the same application again. `CloseSentOnce` therefore
  counts by runtime.
- A runtime that is replaced between the look at the identities (line 1143) and
  the request for the hold (line 1165) leaves the hold with the replacement,
  which the journal does not name. The release goes by the runtime named, which
  is dead, and frees the gate; the hold lasts as long as the replacement.
- A runtime that dies between the last look at it (line 1263) and the close (line
  1270) does not stop the close; `EndsIdleOnly` excepts it.
- After any update, a restart of a closed profile names the released update as
  its owner and is refused (`restoration_changed`, line 211).

## What the runs show

| Run | Result |
|---|---|
| LaunchQueue | exclusion, order, refinement of `AdmissionLock`, admission of maintenance: hold |
| Authority | single writer, freeze after a crash, exact reports, refinement of `Ownership`: hold |
| Handoff | verdicts, split trees, replay for named conversations, meaning of "complete", refinement of `Ownership`: hold |
| HandoffReplay | `CloseNotReplayed` is violated |
| UsageContinuation | at most one continuation per stop: holds |
| UsageContinuationLive | every scheduled stop is decided, for good: holds |
| Warmup | wake-ups, the gate's promises and reports, what a finished pass leaves: hold |
| WarmupEnds | every pass ends: holds |
| UsageContinuationLost | `StopSurvivesRestart` is violated |
| ProfileLaunch | closed stays closed, nothing after the exit, removal, tasks and their launches: hold |
| ProfileRestart | one close per runtime, nothing forgotten, idle ends, the gate comes free: hold |
| ProfileRestartGate | `LaunchHonoursGate` is violated |

Findings, each a disagreement between what a comment says and what the code does:

1. `handoff.py:5` promises that the journal prevents an uncertain close from
   being replayed; the check (`handoff.py:218`) looks for the requested
   conversation in the journals, not for its root. A child spawned after the
   plan of an unfinished attempt is in no journal, and a request for it sends
   the close of the same root again.
2. `usage_continuation.py:8` promises that stops are persisted; inbox files are
   unlinked (line 247) before the table is saved (line 251).
3. `update_hooks.py:806` says that updates wait for all launches and then exclude
   new ones. `restore_instance` (line 1565) takes as its owner whichever
   transaction holds the profile, so a restart job of a closed profile, which
   has no gate of its own and looked before the update began
   (`profile_restart.py:435`), launches the application inside the update.

## Proofs

`LaunchQueueProofs`, `AuthorityProofs`, `HandoffProofs`,
`UsageContinuationProofs`, `WarmupProofs`, `ProfileLaunchProofs` and
`ProfileRestartProofs` prove, for every value of the constants that satisfies
the modules' named assumptions, what the runs check on instances; liveness
excepted. In each, the inductive invariant has named parts, there is one lemma
per action, and the theorem `Inductive` says that the invariant holds; the other
theorems follow from it. Every inductive invariant was checked by TLC on the
module's run first.

*LaunchQueue.* The assumptions say that maintenance is no profile and that
"none" is neither. The inductive invariant is `TypeOK` and
`ProperTickets` (a queued maintenance ticket is exclusive, its worker holds
nothing and has no second ticket), `ExclusiveAlone`, `OneWorkerPerProfile`,
`BottomRowDecides` (a worker is exclusive through its first row, if at all) and
`NestedShares` (a blocked nested request belongs to a sharing worker).
`BottomRowDecides` is what makes releases safe: without it, popping a row could
end exclusivity while rows remain. From it follow `TypeCorrect`,
`ExclusiveRunsAlone`, `ProfileOpenedOnce`, `FenceHolds`,
`SelectionOvertakes` and `QueueImplementsLock`. The fence and the order of
selections rest on one lemma, `EntersByGrant`: the request of a worker that
enters, on arrival or with its ticket, is admissible in a queue in which every
ticket that arrived before it is in front of it.

*Authority.* The assumptions tell the kinds of holders apart. The inductive
invariant adds to `TypeOK` and `OnlyOwnerWrites`: `BoundToOwn` (a binding names
its runtime), `GuardExcludesWrites` (a guard held by a mover excludes permits),
`LockedExist`, `HoldsLocks` (which locks a call has at which stage) and
`Progress` (what a call has replaced so far, and that the rest is still as
expected). `HoldsLocks` carries the argument: from the stage of a call follows
that no recorder is open and no other call is between its check and its end.
From it follow `TypeCorrect`, `OwnerWritesAlone`, `CrashFreezes`,
`AnswerAccounts` and `AuthorityImplementsOwnership`.

*Handoff.* The assumptions are that the root is a conversation and that the
names for "nobody" and "none" are no real ones. What an attempt may report
depends on how far it got, so the parts of the invariant follow its stages:
`Owned` (a conversation of the tree has a grant, and only its owner writes; one
outside has nothing yet), `Planned` (an attempt goes from one account to another,
with grants of the first for conversations of the tree, and holds the guard of
the root while it lives), `Closing` (no close is sent while the attempt prepares
or may be called untouched; nothing is committed, activated or complete without
the proof of a close), `Locking` (while the records move, the attempt has all
their locks, nobody writes, and each is the planned one or its successor),
`Whole` (until the first record moves the tree is at the source; once the
activation is answered it is at the target, except for the late close named
above), `SplitIsJournaled`, and `Ordered` (attempts run one after the other, and
none is made for a conversation that the journal of an earlier unfinished one
names). `Whole` is why a conversation of the tree has one owner outside an
attempt, and `Ordered` why no journal is replayed for it. Follow `TypeCorrect`,
`BlockedIsUntouched`, `SplitJournaled`, `NotReplayed`, `HandsOverTheTree` and
`RefinesOwnership`.

*UsageContinuation.* The assumption says that the bounds are numbers. That a
stop is continued once does not depend on the table: a message is sent only
while the stop it was decided for is the newest turn, and taken only then, so
the table may be lost, restored or evicted without harm. The invariant says
this of the turns (`TurnsOK`: a turn continues only an earlier one, none
continues a stop whose message is on its way, no two continue the same) and
keeps the bookkeeping apart (`TablesOK`: what is scheduled has attempts left, in
memory and as saved; the entry in the thread's hand is scheduled for as long as
the table keeps it). The second part is what `DecisionsStand` and the types
need. Follow `TypeCorrect`, `OnceOnly` and `DecisionsStand`.

*Warmup.* The assumptions say that the four times are positive, that the cap and
a hold fit the clock's bound, and that profiles and workers are finite sets with
at least one worker. The parts of the invariant: `Threads` and `BeforeScan` (what
cannot have happened yet, or any more), `Queue` (what is queued is in the list,
once, and was not admitted; a stop leaves in the list what it cancelled),
`InHand` (a launch that is out is in the hand of one worker, and only what a
worker holds is out), `Drained` (while profiles are pending some worker is not
done), `Waiting` (a waiting gate has leaders, and its deadline is the cap or the
head start of a leader with no newer one out), `WaitsFor` (which is
`HeldForLeader` without the clock), `HasItsStart` (as long as the newest leader
may have its start the gate waits, for that start or for the cap) and `Sleepers`
(what each sleeping worker waits for, and that it does not sleep longer). Most
steps that change what a sleeper waits for wake everybody. The others keep
`Sleepers` for reasons of their own: a profile taken and a new hold only add to
what it waits for, and after the end of a launch the return that wakes it is on
its way. `HasItsStart` is
what makes the gate a promise to the newest leader although deadlines are
re-armed by clicks and returns. `Finished`, on top of it, says what an ended pass
leaves; it rests on `Drained` and `InHand`. Follow `TypeCorrect`, `WakeUps`,
`HeldForALeader`, `PassSettlesAll`, `OthersWaitAlways` and `GateReportedAlways`.

*ProfileLaunch.* The assumptions say that the kinds of workers are disjoint and
the bounds numbers. A property such as `ClosedStaysClosed` is not inductive by
itself: between a look and the step it permits the other side may act. The parts
of the invariant say what each side may still rely on: `Guarded` (a running
request holds the request gate, and so does a close until its end), `Admitted`
(who is between admission and the end of a launch, or writes a removal, holds the
admission), `Recording` (record and process numbers agree, and what is being
removed neither runs nor starts), `Held` (under the hold no task waits and no
worker is past its look at the hold) and `Exiting` (from which step of the exit
on no launch is in progress). Together with `LinkToAwaited`, `ClosedStaysClosed`
and `ExitLeavesNothing` they are inductive. Follow `TypeCorrect`, `StaysClosed`,
`NothingLeft`, `RemovedStopped`, `LinkFollowsLaunch` and `WaitsEnd`.

*ProfileRestart.* The assumption says that the bounds are numbers. None of the
four safety properties is inductive: that no close is sent twice depends on what
the journal says, that the gate is not forgotten on what the worker believes.
The inductive invariant has six parts: `Types`; `JobInv` (the gate is that of
the job's transaction, which is also the one to recover); `WorkerInv` (where the
worker stands, it acts for that transaction, and the gate is held or free as it
believes); `HoldInv` (a proxy that the journal of its hold names is held for the
holder of the gate, who asked for it; a hold on a replacement is `Loose`);
`SentInv` (of the runtimes named for the generation that runs, only the newest
may run; one that serves an application and was named by a close sent to it is
the one that the journal of the gate's holder asked to close) and `ClosedInv`
(what is noted closed does not run again, and a restart that settles has
launched a later generation). The argument for a single close: a journal is
begun, and a proxy asked, only where `Unsent` holds, and a replacement has no
close to its name; the gate of a close that may still happen is not given up
while the runtime lives (`Unresolved`), so no other transaction gets there; and
a recovery that finds its close requested goes to the exit and never to the
sending. There is one lemma per action, and one per branch where the branches
differ. From the invariant follow `TypeCorrect`, `NoCloseReplayed`,
`NothingIsForgotten` and `EndsIdle`.

Only model-checked: the liveness properties (`MaintenanceAdmitted`,
`EveryStopDecided`, `PassEnds`, `GateComesFree`): TLAPS does not reason about
fairness and ENABLED here. Induction over data and recursive operators are out
of its reach as well; the modules have none of their own.

## Plan

In order of importance, what a further step would add:

1. SSH hosts: the jobs of `schedule_remote` and the reconciliation of
   `update_hooks.py` 285-800, `native_controller.py` leases.
2. `records.rs`, `desktop_publication.py`, `pipe_writer.py`.

## Not modelled

User interface, window hosting, packaging, the Electron adapters, provider
configuration, the Claude command line program, skills and plugins, catalogs and
history repair: formatting, file copies or external programs without a protocol
between concurrent parties of this repository. Of the runtime patch only the
managed conversations are modelled, and of those the locks, gates, close and
activation. The SSH transport of `remote_handoff.py` is not: its engine is that
of `handoff.py`, its errors are errors of a request.

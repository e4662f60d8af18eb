------------------------ MODULE ProfileRestartProofs ------------------------
(***************************************************************************)
(* Proofs of the safety properties of ProfileRestart, for any number of    *)
(* transactions, launches, runtimes, revisions, updates, deaths and        *)
(* failures.                                                               *)
(*                                                                         *)
(* The inductive invariant has six parts: the types; what the job says of  *)
(* the transaction that holds the gate; what the worker may rely on where  *)
(* it is; whom the proxy is held for; under which runtime a close was      *)
(* sent; and what is known of a closed application.                        *)
(***************************************************************************)
EXTENDS ProfileRestart, TLAPS

Profiles == [desired : 1..MaxRevision, launched : 1..MaxRevision, gen : Gens,
             runtime : Runtimes]
Phases == Terminal \cup {"waiting", "recovering", "acquiring", "closing", "opening"}
Jobs == [phase : Phases, tx : Tx \cup {NoTx}, rec : Tx \cup {NoTx}, rev : 0..MaxRevision,
         gen : 0..MaxGen]
Steps == {"none", "step", "guard", "observe", "begin", "journal", "pin", "ask", "token",
          "verify", "closing", "drain", "send", "await", "finish", "exited", "opening",
          "restore", "show", "ready", "release", "released", "free", "recover", "decide",
          "resume", "recheck", "forget", "settle", "complete", "attention"}
Workers == [pc : Steps, mode : {"attempt", "recovery"}, tx : Tx \cup {NoTx}, gen : 0..MaxGen,
            owner : 0..UpdateTx, next : {"attention", "guard", "settle"}, lease : BOOLEAN]
States == {"none", "acquire_requested", "held", "verified", "rejected", "close_requested",
           "closed", "released"}
Entries == [state : States, gen : 0..MaxGen, runtime : 0..MaxRuntimes, closed : BOOLEAN]
Leases == [saved : BOOLEAN, entry : Entries]
Spending == [txs : Nat, updates : Nat, crashes : Nat, failures : Nat]

\* The types, those of the worker and the journals included.
Types ==
  /\ TypeOK
  /\ worker \in Workers
  /\ lease \in [Tx -> Leases]
  /\ closes \in Nat
  /\ spent \in Spending

\* A worker has a job that is not over; the gate is the one of the job's
\* transaction, which is also the one to recover, if any.
JobInv ==
  /\ worker.pc # "none" => job.phase \notin Terminal
  /\ job.rec # NoTx => job.rec = job.tx
  /\ worker.pc \in {"guard", "observe"} => job.rec = NoTx
  /\ job.tx # NoTx => job.tx <= spent.txs
  /\ gate.held => gate.tx = job.tx /\ job.phase \notin {"none", "complete", "superseded"}

\* Between the choice of a transaction and the release of its gate.
InTransaction ==
  {"begin", "journal", "pin", "ask", "token", "verify", "closing", "drain", "send", "await",
   "finish", "exited", "release", "released", "free", "recover", "decide", "resume", "recheck"}
Reopening == {"opening", "restore", "show", "ready"}
Settling == {"release", "released", "free", "forget", "settle", "complete", "attention", "step"}

\* The worker acts for the transaction of its job; where it believes the gate
\* held, or free, it is; it remembers a lease from the journal on; only a
\* recovery goes back to look at the gate.
WorkerInv ==
  /\ (worker.pc \in InTransaction \/ worker.lease) => worker.tx = job.tx /\ worker.tx \in Tx
  /\ worker.pc \in {"journal", "pin", "ask", "send"} => gate.held
  /\ worker.pc \in {"observe", "begin", "forget", "settle", "complete"} => ~gate.held
  /\ (worker.pc \in Reopening /\ ~worker.lease) => ~gate.held
  /\ worker.pc \in {"pin", "ask", "token", "verify", "closing", "drain", "send", "await"}
       => worker.lease
  /\ (worker.pc \in {"finish", "exited"} /\ worker.mode = "attempt") => worker.lease
  /\ worker.next = "settle" => worker.pc \in Settling
  /\ (worker.pc \in {"recover", "decide"} \/ worker.next = "guard") => worker.mode = "recovery"

\* The journal of the hold's transaction does not name the runtime held.
Loose == hold # NoTx => lease[hold].entry.runtime # profile.runtime

\* A runtime held under the journal that names it is held for the transaction
\* that has the gate; a transaction that did not ask yet holds none.
HoldInv ==
  /\ hold # NoTx => Serving /\ hold <= spent.txs
  /\ worker.pc \in {"begin", "journal", "pin"} /\ hold # NoTx => hold # worker.tx
  /\ ~Loose => /\ gate.held /\ gate.tx = hold
               /\ lease[hold].entry.state
                    \in {"acquire_requested", "held", "verified", "close_requested"}
  /\ worker.pc \in {"journal", "pin", "ask", "free"} => Loose
  /\ worker.pc \in {"exited", "released"} => hold = NoTx
  /\ worker.pc = "ask" => lease[worker.tx].entry.state = "acquire_requested"

\* The newest runtime is of the generation that runs, and no other of it runs.
OneServes ==
  \A tx \in Tx : /\ lease[tx].entry.runtime <= profile.runtime
                 /\ lease[tx].entry.runtime = profile.runtime
                    => lease[tx].entry.gen = profile.gen
                 /\ /\ lease[tx].entry.gen = profile.gen
                    /\ lease[tx].entry.runtime \in runtimes
                    => lease[tx].entry.runtime = profile.runtime

\* No close was sent to an application that runs with its newest runtime.
Unsent == app /\ Serving => closes = 0
SentToOwner ==
  /\ gate.held
  /\ lease[gate.tx].entry.state = "close_requested"
  /\ lease[gate.tx].entry.gen = profile.gen
  /\ lease[gate.tx].entry.runtime = profile.runtime

\* A close that was sent under a runtime that still serves is the one of the
\* journal that has the gate; a close to be sent is the first under its runtime.
SentInv ==
  /\ OneServes
  /\ closes <= 1
  /\ Unsent \/ SentToOwner
  /\ worker.pc \in {"begin", "journal", "pin", "ask", "token", "verify", "closing", "drain",
                    "released", "free"} => Unsent
  /\ worker.pc = "send" =>
       /\ lease[worker.tx].entry.state = "close_requested"
       /\ lease[worker.tx].entry.runtime = profile.runtime => closes = 0
       /\ AppOf(lease[worker.tx].entry.gen) /\ lease[worker.tx].entry.runtime \in runtimes
            => work = "none" /\ hold = worker.tx

Reopened == \A tx \in Tx : lease[tx].entry.closed => lease[tx].entry.gen < profile.gen

\* What is closed does not run again; a restart that settles has launched.
ClosedInv ==
  /\ \A tx \in Tx : lease[tx].entry.gen <= profile.gen
  /\ app => \A tx \in Tx : lease[tx].entry.closed => lease[tx].entry.gen # profile.gen
  /\ worker.pc = "exited" => ~AppOf(lease[worker.tx].entry.gen)
  /\ (worker.next = "settle" \/ worker.pc \in {"settle", "complete"}) => Reopened
  /\ job.phase = "complete" => Reopened

IInv == Types /\ JobInv /\ WorkerInv /\ HoldInv /\ SentInv /\ ClosedInv

----------------------------------------------------------------------------
\* Constants and types, and the moves of the worker, the job and a journal.

LEMMA NoTxApart == NoTx \notin Tx
BY BoundsAssumption DEF NoTx, Tx

LEMMA OwnersBounded == NoTx \in 0..UpdateTx /\ \A tx \in Tx : tx \in 0..UpdateTx
BY BoundsAssumption DEF NoTx, Tx, UpdateTx

LEMMA NoWorkerTyped == NoWorker \in Workers
BY OwnersBounded, BoundsAssumption DEF NoWorker, Workers, Steps

LEMMA NoJobTyped == NoJob \in Jobs
BY BoundsAssumption DEF NoJob, NoTx, Jobs, Phases, Terminal, Types, TypeOK, Gens

LEMMA NoLeaseTyped == NoEntry \in Entries /\ NoLease \in Leases
BY BoundsAssumption DEF NoEntry, NoLease, Entries, Leases, States

LEMMA ProfileBounded ==
  ASSUME Types
  PROVE  /\ profile.desired \in 0..MaxRevision
         /\ profile.gen \in 0..MaxGen /\ profile.gen \in Gens /\ profile.gen \in Nat \ {0}
         /\ profile.runtime \in 0..MaxRuntimes /\ profile.runtime \in Runtimes
         /\ profile.runtime \in Nat \ {0}
BY BoundsAssumption DEF Types, TypeOK, Gens, Runtimes

LEMMA EntryOf == ASSUME NEW tx \in Tx PROVE Entry(tx) = lease[tx].entry
BY NoTxApart DEF Entry

LEMMA GotoMoves ==
  ASSUME Types, NEW pc \in Steps, Goto(pc)
  PROVE  /\ worker' \in Workers
         /\ worker'.pc = pc /\ worker'.mode = worker.mode /\ worker'.tx = worker.tx
         /\ worker'.gen = worker.gen /\ worker'.owner = worker.owner
         /\ worker'.next = worker.next /\ worker'.lease = worker.lease
BY DEF Types, Goto, Workers

LEMMA FailsMoves ==
  ASSUME Types, Fails
  PROVE  /\ worker' \in Workers
         /\ worker'.pc = IF worker.lease THEN "release" ELSE "attention"
         /\ worker'.mode = worker.mode /\ worker'.tx = worker.tx /\ worker'.gen = worker.gen
         /\ worker'.next = "attention" /\ worker'.lease = worker.lease
BY OwnersBounded DEF Types, Fails, Workers, Steps

LEMMA PhaseMoves ==
  ASSUME Types, NEW p \in Phases, Phase(p)
  PROVE  /\ job' \in Jobs
         /\ job'.phase = p /\ job'.tx = job.tx /\ job'.rec = job.rec
BY DEF Types, TypeOK, Phase, Jobs, Phases

LEMMA EntrySaved ==
  ASSUME Types, NEW tx \in Tx, NEW e \in Entries, SaveEntry(tx, e)
  PROVE  /\ lease' \in [Tx -> Leases]
         /\ lease'[tx].entry = e
         /\ \A t \in Tx : t # tx => lease'[t] = lease[t]
BY DEF Types, SaveEntry, Leases

LEMMA SpendTyped ==
  ASSUME Types, NEW what \in {"txs", "updates", "crashes", "failures"}, Spend(what)
  PROVE  spent' \in Spending /\ (what # "txs" => spent'.txs = spent.txs)
BY DEF Types, Spend, Spending

----------------------------------------------------------------------------
\* The user, the application and the updates.

LEMMA SetPolicyStep == ASSUME IInv, SetPolicy PROVE IInv'
<1> USE DEF IInv
<1>1. /\ profile'.gen = profile.gen /\ profile'.launched = profile.launched
      /\ profile'.runtime = profile.runtime
      /\ profile' \in Profiles
      /\ UNCHANGED <<job, worker, gate, update, lease, app, runtimes, work, hold, closes, spent>>
  BY BoundsAssumption DEF SetPolicy, Types, TypeOK, Profiles
<1> QED BY <1>1 DEF Types, TypeOK, Jobs, Phases, Profiles, JobInv, Terminal, WorkerInv,
     InTransaction, Reopening, Settling, HoldInv, Loose, Serving, SentInv, OneServes,
     Unsent, SentToOwner, AppOf, ClosedInv, Reopened

LEMMA AppExitsStep == ASSUME IInv, AppExits PROVE IInv'
<1> USE DEF IInv
<1>1. /\ ~app' /\ app' \in BOOLEAN /\ work' = "none"
      /\ UNCHANGED <<job, worker, gate, update, lease, profile, runtimes, hold, closes, spent>>
  BY DEF AppExits
<1> QED BY <1>1 DEF Types, TypeOK, Jobs, Phases, Profiles, JobInv, Terminal, WorkerInv,
     InTransaction, Reopening, Settling, HoldInv, Loose, Serving, SentInv, OneServes,
     Unsent, SentToOwner, AppOf, ClosedInv, Reopened

LEMMA RuntimeExitsStep == ASSUME IInv, RuntimeExits PROVE IInv'
<1> USE DEF IInv
<1>1. /\ runtimes' \subseteq runtimes /\ hold' \in {hold, NoTx}
      /\ app /\ Serving => Serving'
      /\ hold' # NoTx /\ Serving => Serving'
      /\ app => hold' = hold
      /\ UNCHANGED <<job, worker, gate, update, lease, profile, app, work, closes, spent>>
  BY DEF RuntimeExits, Ends, Serving
<1> QED BY <1>1 DEF Types, TypeOK, Jobs, Phases, Profiles, JobInv, Terminal, WorkerInv,
     InTransaction, Reopening, Settling, HoldInv, Loose, Serving, SentInv, OneServes,
     Unsent, SentToOwner, AppOf, ClosedInv, Reopened

\* What a runtime that dies, or is replaced, takes with it: its hold and its work.
LEMMA RuntimeDiesStep == ASSUME IInv, RuntimeDies PROVE IInv'
<1> USE DEF IInv
<1>1. /\ ~Serving' /\ runtimes' \subseteq runtimes /\ profile.runtime \notin runtimes'
      /\ hold' = NoTx /\ work' = "none"
      /\ UNCHANGED <<job, worker, gate, update, lease, profile, app, closes, spent>>
  BY DEF RuntimeDies, Ends, Serving
<1> QED BY <1>1 DEF Types, TypeOK, Jobs, Phases, Profiles, JobInv, Terminal, WorkerInv,
     InTransaction, Reopening, Settling, HoldInv, Loose, Serving, SentInv, OneServes,
     Unsent, SentToOwner, AppOf, ClosedInv, Reopened

LEMMA RuntimeReplacedStep == ASSUME IInv, RuntimeReplaced PROVE IInv'
<1> USE DEF IInv
<1>1. /\ profile.runtime \in Runtimes /\ profile.runtime + 1 \in Runtimes
      /\ profile.runtime \in Nat /\ Runtimes \subseteq Nat
  BY ProfileBounded, BoundsAssumption DEF RuntimeReplaced, Runtimes
<1>2. /\ profile' \in Profiles /\ profile'.runtime = profile.runtime + 1
      /\ profile'.gen = profile.gen /\ profile'.launched = profile.launched
      /\ runtimes' = runtimes \cup {profile.runtime + 1}
      /\ hold' = NoTx /\ work' = "none" /\ closes' = 0 /\ app
      /\ profile.runtime \notin runtimes
      /\ UNCHANGED <<job, worker, gate, update, lease, app, spent>>
  BY <1>1 DEF RuntimeReplaced, Serving, Types, TypeOK, Profiles
<1>4. Types'
  BY <1>1, <1>2 DEF Types, TypeOK, Profiles
<1>5. JobInv' /\ WorkerInv' /\ HoldInv' /\ ClosedInv'
  BY <1>2 DEF JobInv, WorkerInv, InTransaction, Reopening, Settling, HoldInv, Loose, ClosedInv,
     AppOf, Reopened
<1>6. OneServes'
  <2>1. \A t \in Tx : lease[t].entry.runtime \in Nat
    BY BoundsAssumption DEF Types, Leases, Entries
  <2> QED BY <1>1, <1>2, <2>1 DEF SentInv, OneServes
<1>7. SentInv'
  <2>1. worker.pc = "send" => ~(/\ AppOf(lease[worker.tx].entry.gen)'
                               /\ lease[worker.tx].entry.runtime \in runtimes')
    <3>1. worker.pc = "send" => /\ worker.tx \in Tx
                                /\ lease[worker.tx].entry.runtime \in Nat
      BY BoundsAssumption DEF WorkerInv, InTransaction, Types, Leases, Entries
    <3> QED BY <1>1, <1>2, <3>1 DEF SentInv, OneServes, AppOf
  <2> QED BY <1>2, <1>6, <2>1 DEF SentInv, Unsent
<1> QED BY <1>4, <1>5, <1>7

LEMMA WorkBeginsStep == ASSUME IInv, WorkBegins PROVE IInv'
<1> USE DEF IInv
<1>1. /\ work' = "busy" /\ hold = NoTx
      /\ UNCHANGED <<job, worker, gate, update, lease, profile, app, runtimes, hold, closes, spent>>
  BY DEF WorkBegins
<1>2. worker.pc = "send" => ~(/\ AppOf(lease[worker.tx].entry.gen)
                             /\ lease[worker.tx].entry.runtime \in runtimes)
  BY <1>1, NoTxApart DEF SentInv, WorkerInv, InTransaction
<1> QED BY <1>1, <1>2 DEF Types, TypeOK, Jobs, Phases, Profiles, JobInv, Terminal,
     WorkerInv, InTransaction, Reopening, Settling, HoldInv, Loose, Serving, SentInv,
     OneServes, Unsent, SentToOwner, AppOf, ClosedInv, Reopened

LEMMA WorkEndsStep == ASSUME IInv, WorkEnds PROVE IInv'
<1> USE DEF IInv
<1>1. /\ work = "busy" /\ work' = "loaded"
      /\ UNCHANGED <<job, worker, gate, update, lease, profile, app, runtimes, hold, closes, spent>>
  BY DEF WorkEnds
<1> QED BY <1>1 DEF Types, TypeOK, Jobs, Phases, Profiles, JobInv, Terminal, WorkerInv,
     InTransaction, Reopening, Settling, HoldInv, Loose, Serving, SentInv, OneServes,
     Unsent, SentToOwner, AppOf, ClosedInv, Reopened

LEMMA UpdateBeginsStep == ASSUME IInv, UpdateBegins PROVE IInv'
<1> USE DEF IInv
<1>1. /\ update' = "held" /\ spent' \in Spending /\ spent'.txs = spent.txs
      /\ UNCHANGED <<job, worker, gate, lease, profile, app, runtimes, work, hold, closes>>
  BY SpendTyped DEF UpdateBegins, machine
<1> QED BY <1>1 DEF Types, TypeOK, Jobs, Phases, Profiles, JobInv, Terminal, WorkerInv,
     InTransaction, Reopening, Settling, HoldInv, Loose, Serving, SentInv, OneServes,
     Unsent, SentToOwner, AppOf, ClosedInv, Reopened

LEMMA UpdateEndsStep == ASSUME IInv, UpdateEnds PROVE IInv'
<1> USE DEF IInv
<1>1. /\ update' = "released"
      /\ UNCHANGED <<job, worker, gate, lease, spent, profile, app, runtimes, work, hold, closes>>
  BY DEF UpdateEnds, machine
<1> QED BY <1>1 DEF Types, TypeOK, Jobs, Phases, Profiles, JobInv, Terminal, WorkerInv,
     InTransaction, Reopening, Settling, HoldInv, Loose, Serving, SentInv, OneServes,
     Unsent, SentToOwner, AppOf, ClosedInv, Reopened

LEMMA CrashStep == ASSUME IInv, Crash PROVE IInv'
<1> USE DEF IInv
<1>1. /\ worker' \in Workers /\ spent' \in Spending /\ spent'.txs = spent.txs /\ worker'.pc = "none"
      /\ worker'.next = "attention" /\ worker'.lease = FALSE
      /\ UNCHANGED <<job, gate, update, lease, profile, app, runtimes, work, hold, closes>>
  BY SpendTyped, BoundsAssumption DEF Crash, machine, NoWorker, Workers, Steps, NoTx,
     UpdateTx
<1> QED BY <1>1 DEF Types, TypeOK, Jobs, Phases, Profiles, JobInv, Terminal, WorkerInv,
     InTransaction, Reopening, Settling, HoldInv, Loose, Serving, SentInv, OneServes,
     Unsent, SentToOwner, AppOf, ClosedInv, Reopened

----------------------------------------------------------------------------
\* The job.

LEMMA ScheduleStep == ASSUME IInv, Schedule PROVE IInv'
<1> USE DEF IInv
<1>1. /\ worker.pc = "none" /\ worker'.pc = "step" /\ worker'.next = "attention"
      /\ worker'.lease = FALSE
      /\ UNCHANGED <<gate, update, lease, spent, profile, app, runtimes, work, hold, closes>>
  BY DEF Schedule, ScheduleAs, At, machine, NoWorker
<1>2. worker' \in Workers
  BY NoWorkerTyped DEF Schedule, ScheduleAs, Workers, Steps
<1>3. /\ job'.phase = "waiting"
      /\ job'.rec # NoTx => job'.rec = job.tx /\ job'.tx = job.tx
      /\ job.phase \notin {"none", "complete", "superseded"} /\ job.tx # NoTx => job'.tx = job.tx
      /\ job'.tx # NoTx => job'.tx = job.tx
  BY DEF Schedule, ScheduleAs, NoJob
<1>4. job' \in Jobs
  BY NoJobTyped, ProfileBounded DEF Schedule, ScheduleAs, Types, TypeOK, Jobs, Phases
<1> QED BY <1>1, <1>2, <1>3, <1>4 DEF Types, TypeOK, Jobs, Phases, Profiles, JobInv,
     Terminal, WorkerInv, InTransaction, Reopening, Settling, HoldInv, Loose, Serving,
     SentInv, OneServes, Unsent, SentToOwner, AppOf, ClosedInv, Reopened

\* A job that cannot go on waits.
LEMMA WaitsAgain ==
  ASSUME IInv, worker.pc # "none", Goto("step"), Phase("waiting"),
         UNCHANGED <<gate, update, lease, machine>>, spent' \in Spending /\ spent'.txs = spent.txs
  PROVE  IInv'
<1> USE DEF IInv
<1>1. /\ worker.pc # "none" /\ worker' \in Workers /\ worker'.pc = "step"
      /\ worker'.mode = worker.mode /\ worker'.tx = worker.tx /\ worker'.gen = worker.gen
      /\ worker'.next = worker.next /\ worker'.lease = worker.lease /\ job'.phase = "waiting"
      /\ job'.tx = job.tx /\ job'.rec = job.rec /\ job' \in Jobs
      /\ UNCHANGED <<gate, update, lease, profile, app, runtimes, work, hold, closes>>
  BY GotoMoves, PhaseMoves DEF Steps, machine, Jobs, Phases
<1> QED BY <1>1 DEF Types, TypeOK, Jobs, Phases, Profiles, JobInv, Terminal, WorkerInv,
     InTransaction, Reopening, Settling, HoldInv, Loose, Serving, SentInv, OneServes,
     Unsent, SentToOwner, AppOf, ClosedInv, Reopened

\* A job that cannot go on wants attention.
LEMMA GivesUp ==
  ASSUME IInv, worker.pc # "none", Goto("attention"),
         UNCHANGED <<job, gate, update, lease, profile, app, runtimes, work, closes>>,
         hold' \in {hold, NoTx}, spent' \in Spending /\ spent'.txs = spent.txs
  PROVE  IInv'
<1> USE DEF IInv
<1>1. /\ worker' \in Workers /\ worker'.pc = "attention" /\ worker'.mode = worker.mode
      /\ worker'.tx = worker.tx /\ worker'.gen = worker.gen /\ worker'.next = worker.next
      /\ worker'.lease = worker.lease /\ hold' \in {hold, NoTx}
      /\ UNCHANGED <<job, gate, update, lease, profile, app, runtimes, work, closes>>
  BY GotoMoves DEF Steps
<1> QED BY <1>1 DEF Types, TypeOK, Jobs, Phases, Profiles, JobInv, Terminal, WorkerInv,
     InTransaction, Reopening, Settling, HoldInv, Loose, Serving, SentInv, OneServes,
     Unsent, SentToOwner, AppOf, ClosedInv, Reopened

\* A step that raises goes to the release of its lease.
LEMMA Failure ==
  ASSUME IInv,
         worker.pc \in {"pin", "ask", "verify", "drain", "send", "finish", "show", "ready"},
         Fails,
         UNCHANGED <<job, gate, update, lease, profile, app, runtimes, hold, closes>>,
         work' \in {work, "none"}, spent' \in Spending /\ spent'.txs = spent.txs
  PROVE  IInv'
<1> USE DEF IInv
<1>1. /\ worker.pc \in {"pin", "ask", "verify", "drain", "send", "finish", "show", "ready"}
      /\ worker' \in Workers /\ worker'.pc \in {"release", "attention"}
      /\ worker'.pc = "release" => worker.lease
      /\ worker'.mode = worker.mode /\ worker'.tx = worker.tx /\ worker'.gen = worker.gen
      /\ worker'.next = "attention" /\ worker'.lease = worker.lease
      /\ UNCHANGED <<job, gate, update, lease, profile, app, runtimes, hold, closes>>
  BY FailsMoves
<1>2. work' \in {"none", "loaded", "busy"}
  BY DEF Types, TypeOK
<1> QED BY <1>1, <1>2 DEF Types, TypeOK, Jobs, Phases, Profiles, JobInv, Terminal,
     WorkerInv, InTransaction, Reopening, Settling, HoldInv, Loose, Serving, SentInv,
     OneServes, Unsent, SentToOwner, AppOf, ClosedInv, Reopened

\* A job with a transaction to recover takes it up.
LEMMA StepRecovers ==
  ASSUME IInv, worker.pc = "step", job.rec # NoTx, Phase("recovering"),
         worker' = [NoWorker EXCEPT !.pc = "recover", !.mode = "recovery", !.tx = job.rec],
         UNCHANGED <<gate, update, lease, machine, spent>>
  PROVE  IInv'
<1> USE DEF IInv
<1>1. /\ worker'.pc = "recover" /\ worker'.tx = job.rec /\ worker'.next = "attention"
      /\ worker'.lease = FALSE /\ worker'.mode = "recovery" /\ job' \in Jobs
      /\ job'.phase = "recovering" /\ job'.tx = job.tx /\ job'.rec = job.rec
      /\ UNCHANGED <<gate, update, lease, spent, profile, app, runtimes, work, hold, closes>>
  BY PhaseMoves DEF NoWorker, Phases, machine
<1>2. job.rec = job.tx /\ job.tx \in Tx
  BY DEF JobInv, Types, TypeOK
<1>3. worker' \in Workers
  BY <1>2, NoWorkerTyped DEF Workers, Steps
<1> QED BY <1>1, <1>2, <1>3 DEF Types, TypeOK, Jobs, Phases, Profiles, JobInv, Terminal,
     WorkerInv, InTransaction, Reopening, Settling, HoldInv, Loose, Serving, SentInv,
     OneServes, Unsent, SentToOwner, AppOf, ClosedInv, Reopened

\* A job without one looks at the gate.
LEMMA StepGuards ==
  ASSUME IInv, worker.pc = "step", job.rec = NoTx,
         worker' = [NoWorker EXCEPT !.pc = "guard"],
         UNCHANGED <<job, gate, update, lease, machine, spent>>
  PROVE  IInv'
<1> USE DEF IInv
<1>1. /\ worker'.pc = "guard" /\ worker'.next = "attention" /\ worker'.lease = FALSE
      /\ worker' \in Workers
      /\ UNCHANGED <<job, gate, update, lease, spent, profile, app, runtimes, work, hold, closes>>
  BY NoWorkerTyped DEF NoWorker, Workers, Steps, machine
<1> QED BY <1>1 DEF Types, TypeOK, Jobs, Phases, Profiles, JobInv, Terminal, WorkerInv,
     InTransaction, Reopening, Settling, HoldInv, Loose, Serving, SentInv, OneServes,
     Unsent, SentToOwner, AppOf, ClosedInv, Reopened

LEMMA StepStep == ASSUME IInv, Step PROVE IInv'
BY StepRecovers, StepGuards DEF Step, At

\* A free gate lets the job look at the profile.
LEMMA GuardPasses ==
  ASSUME IInv, worker.pc = "guard", ~GateBars(NoTx), Goto("observe"),
         UNCHANGED <<job, gate, update, lease, machine, spent>>
  PROVE  IInv'
<1> USE DEF IInv
<1>1. /\ ~gate.held /\ worker' \in Workers /\ worker'.pc = "observe"
      /\ worker'.mode = worker.mode /\ worker'.tx = worker.tx /\ worker'.gen = worker.gen
      /\ worker'.next = worker.next /\ worker'.lease = worker.lease
      /\ UNCHANGED <<job, gate, update, lease, spent, profile, app, runtimes, work, hold, closes>>
  BY GotoMoves DEF GateBars, Steps, Types, TypeOK, machine
<1> QED BY <1>1 DEF Types, TypeOK, Jobs, Phases, Profiles, JobInv, Terminal, WorkerInv,
     InTransaction, Reopening, Settling, HoldInv, Loose, Serving, SentInv, OneServes,
     Unsent, SentToOwner, AppOf, ClosedInv, Reopened

LEMMA GuardStep == ASSUME IInv, Guard PROVE IInv'
BY WaitsAgain, GuardPasses DEF Guard, At, IInv, Types

\* A profile that does not run is launched.
LEMMA ObserveGone ==
  ASSUME IInv, worker.pc = "observe", Goto("opening"),
         UNCHANGED <<job, gate, update, lease, machine, spent>>
  PROVE  IInv'
<1> USE DEF IInv
<1>1. /\ worker.pc = "observe" /\ worker' \in Workers /\ worker'.pc = "opening"
      /\ worker'.mode = worker.mode /\ worker'.tx = worker.tx /\ worker'.gen = worker.gen
      /\ worker'.next = worker.next /\ worker'.lease = worker.lease
      /\ UNCHANGED <<job, gate, update, lease, spent, profile, app, runtimes, work, hold, closes>>
  BY GotoMoves DEF Steps, machine
<1> QED BY <1>1 DEF Types, TypeOK, Jobs, Phases, Profiles, JobInv, Terminal, WorkerInv,
     InTransaction, Reopening, Settling, HoldInv, Loose, Serving, SentInv, OneServes,
     Unsent, SentToOwner, AppOf, ClosedInv, Reopened

\* A profile at rest gets a new transaction.
LEMMA ObserveIdle ==
  ASSUME IInv, worker.pc = "observe", spent.txs < MaxTx, Spend("txs"),
         job' = [job EXCEPT !.phase = "acquiring", !.tx = spent.txs + 1],
         worker' = [worker EXCEPT !.pc = "begin", !.tx = spent.txs + 1, !.gen = profile.gen],
         UNCHANGED <<gate, update, lease, machine>>
  PROVE  IInv'
<1> USE DEF IInv
<1>1. /\ spent.txs + 1 \in Tx /\ spent' \in Spending /\ spent'.txs = spent.txs + 1
      /\ spent.txs + 1 <= spent'.txs
  <2>1. spent \in Spending /\ spent.txs \in Nat
    BY DEF Types, Spending
  <2>2. spent.txs + 1 \in Tx
    BY <2>1, BoundsAssumption DEF Tx
  <2>3. spent'.txs = spent.txs + 1
    BY <2>1 DEF Spend, Spending
  <2>4. spent' \in Spending
    BY SpendTyped
  <2> QED BY <2>1, <2>2, <2>3, <2>4
<1>2. /\ worker'.pc = "begin" /\ worker'.tx = spent.txs + 1 /\ worker'.mode = worker.mode
      /\ worker'.next = worker.next /\ worker'.lease = worker.lease /\ job'.phase = "acquiring"
      /\ job'.tx = spent.txs + 1 /\ job'.rec = job.rec
  BY DEF Types, TypeOK, Workers
<1>3. /\ ~gate.held /\ job.rec = NoTx /\ Unsent /\ Loose
      /\ hold # NoTx => hold # spent.txs + 1 /\ hold <= spent'.txs
      /\ UNCHANGED <<profile, app, runtimes, work, hold, closes>>
  BY DEF WorkerInv, JobInv, SentInv, SentToOwner, HoldInv, machine, Spend, Types, TypeOK,
     Spending, Tx, NoTx
<1>4. worker' \in Workers /\ job' \in Jobs
  BY <1>1, ProfileBounded DEF Types, TypeOK, Workers, Steps, Jobs, Phases
<1> QED BY <1>1, <1>2, <1>3, <1>4 DEF Types, TypeOK, Jobs, Phases, Profiles, JobInv,
     Terminal, WorkerInv, InTransaction, Reopening, Settling, HoldInv, Loose, Serving,
     SentInv, OneServes, Unsent, SentToOwner, AppOf, ClosedInv, Reopened

LEMMA ObserveStep == ASSUME IInv, Observe PROVE IInv'
<1> USE DEF IInv
<1>1. /\ worker.pc = "observe"
      /\ (Spend("failures") => spent' \in Spending /\ spent'.txs = spent.txs)
      /\ spent \in Spending
  BY SpendTyped DEF Observe, At, Types
<1> QED BY <1>1, WaitsAgain, GivesUp, ObserveGone, ObserveIdle DEF Observe, machine

----------------------------------------------------------------------------
\* acquire_maintenance.

\* The gate is taken for the transaction of the job.
LEMMA GateTaken ==
  ASSUME IInv, NEW pc, ~GateBars(worker.tx),
         <<worker.pc, pc>> \in {<<"begin", "journal">>, <<"recover", "finish">>,
                                <<"resume", "recheck">>},
         pc = "finish" /\ worker.mode = "attempt" => worker.lease, Goto(pc),
         gate' = [tx |-> worker.tx, held |-> TRUE],
         UNCHANGED <<job, update, lease, machine, spent>>
  PROVE  IInv'
<1> USE DEF IInv
<1>1. /\ worker.pc \in {"begin", "recover", "resume"} /\ pc \in {"journal", "finish", "recheck"}
      /\ pc = "journal" => worker.pc = "begin"
      /\ worker' \in Workers /\ gate'.held /\ gate'.tx = worker.tx /\ worker'.pc = pc
      /\ worker'.mode = worker.mode /\ worker'.tx = worker.tx /\ worker'.gen = worker.gen
      /\ worker'.next = worker.next /\ worker'.lease = worker.lease
      /\ UNCHANGED <<job, update, lease, spent, profile, app, runtimes, work, hold, closes>>
  BY GotoMoves DEF Steps, machine
<1>2. /\ worker.tx \in Tx /\ worker.tx # NoTx /\ worker.tx = job.tx
      /\ worker.pc = "begin" => ~gate.held
      /\ gate' \in [tx : Tx \cup {NoTx}, held : BOOLEAN]
      /\ gate.held => gate.tx = worker.tx
      /\ job.phase \notin Terminal
      /\ ~gate.held => Loose
  BY <1>1, NoTxApart DEF WorkerInv, JobInv, HoldInv, InTransaction
<1> QED BY <1>1, <1>2 DEF Types, TypeOK, Jobs, Phases, Profiles, JobInv, Terminal,
     WorkerInv, InTransaction, Reopening, Settling, HoldInv, Loose, Serving, SentInv,
     OneServes, Unsent, SentToOwner, AppOf, ClosedInv, Reopened

LEMMA BeginStep == ASSUME IInv, Begin PROVE IInv'
BY GateTaken, GivesUp, NoTxApart DEF Begin, TakeGate, At, IInv, machine, Types

LEMMA ResumeStep == ASSUME IInv, Resume PROVE IInv'
BY GateTaken, GivesUp, NoTxApart DEF Resume, TakeGate, At, IInv, machine, Types

LEMMA JournalStep == ASSUME IInv, Journal PROVE IInv'
<1> USE DEF IInv
<1>1. /\ worker.pc = "journal" /\ worker'.pc = "pin" /\ worker'.mode = worker.mode
      /\ worker'.tx = worker.tx /\ worker'.gen = worker.gen /\ worker'.next = worker.next
      /\ worker'.lease = TRUE /\ worker' \in Workers
      /\ UNCHANGED <<job, gate, update, spent, profile, app, runtimes, work, hold, closes>>
  BY DEF Journal, Types, At, Workers, Steps, machine
<1>2. /\ worker.tx \in Tx /\ worker.tx = job.tx /\ Loose /\ Unsent /\ gate.held
      /\ hold # NoTx => hold # worker.tx
  BY <1>1 DEF WorkerInv, HoldInv, Loose, Serving, SentInv, InTransaction
<1>3. /\ lease' \in [Tx -> Leases] /\ lease'[worker.tx].entry.gen = 0
      /\ lease'[worker.tx].entry.runtime = 0
      /\ ~lease'[worker.tx].entry.closed
      /\ \A t \in Tx : t # worker.tx => lease'[t] = lease[t]
  BY <1>2, NoLeaseTyped DEF Journal, Types, NoLease, NoEntry, Leases
<1>4. 0 < profile.gen /\ 0 <= profile.gen /\ 0 < profile.runtime
  BY ProfileBounded
<1>5. Types'
  BY <1>1, <1>3 DEF Types, TypeOK
<1>6. JobInv' /\ WorkerInv'
  BY <1>1, <1>2 DEF JobInv, WorkerInv, InTransaction, Reopening, Settling, Terminal
<1>7. HoldInv'
  <2>1. hold \in Tx \cup {NoTx}
    BY DEF Types, TypeOK
  <2>2. Loose'
    BY <1>1, <1>2, <1>3, <2>1 DEF Loose
  <2> QED BY <1>1, <1>2, <2>2 DEF HoldInv, Serving
<1>8. OneServes'
  <2> SUFFICES ASSUME NEW t \in Tx
               PROVE  /\ lease'[t].entry.runtime <= profile.runtime
                      /\ lease'[t].entry.runtime = profile.runtime
                         => lease'[t].entry.gen = profile.gen
                      /\ /\ lease'[t].entry.gen = profile.gen
                         /\ lease'[t].entry.runtime \in runtimes
                         => lease'[t].entry.runtime = profile.runtime
    BY <1>1 DEF OneServes
  <2>1. CASE t = worker.tx
    BY <1>3, <1>4, <2>1, ProfileBounded
  <2>2. CASE t # worker.tx
    BY <1>3, <2>2 DEF SentInv, OneServes
  <2> QED BY <2>1, <2>2
<1>9. SentInv'
  BY <1>1, <1>2, <1>8 DEF SentInv, Unsent, Serving
<1>10. ClosedInv'
  BY <1>1, <1>2, <1>3, <1>4 DEF ClosedInv, Reopened, JobInv, WorkerInv, Settling, AppOf
<1> QED BY <1>5, <1>6, <1>7, <1>8, <1>9, <1>10

\* The entry names the processes that were seen idle.
LEMMA Pinned ==
  ASSUME IInv, worker.pc = "pin", AppOf(worker.gen), Serving, NEW e \in Entries,
         e.state = "acquire_requested", e.gen = worker.gen, e.runtime = profile.runtime,
         ~e.closed, SaveEntry(worker.tx, e), Goto("ask"),
         UNCHANGED <<job, gate, update, machine, spent>>
  PROVE  IInv'
<1> USE DEF IInv
<1>1. /\ worker' \in Workers /\ worker'.pc = "ask" /\ worker'.mode = worker.mode
      /\ worker'.tx = worker.tx /\ worker'.gen = worker.gen /\ worker'.next = worker.next
      /\ worker'.lease = worker.lease /\ worker.gen = profile.gen
      /\ UNCHANGED <<job, gate, update, spent, profile, app, runtimes, work, hold, closes>>
  BY GotoMoves DEF Steps, machine, AppOf
<1>2. /\ worker.tx \in Tx /\ worker.tx = job.tx /\ worker.lease /\ Unsent /\ Loose
      /\ hold # NoTx => hold # worker.tx
      /\ gate.held
  BY DEF WorkerInv, HoldInv, SentInv, Unsent, AppOf, InTransaction
<1>3. /\ lease' \in [Tx -> Leases] /\ lease'[worker.tx].entry = e
      /\ \A t \in Tx : t # worker.tx => lease'[t] = lease[t]
  BY <1>2, EntrySaved
<1> QED BY <1>1, <1>2, <1>3, ProfileBounded DEF Types, TypeOK, Jobs, Phases, Profiles,
     JobInv, Terminal, WorkerInv, InTransaction, Reopening, Settling, HoldInv, Loose,
     Serving, SentInv, OneServes, Unsent, SentToOwner, AppOf, ClosedInv, Reopened

LEMMA PinStep == ASSUME IInv, Pin PROVE IInv'
<1> USE DEF IInv
<1>1. /\ worker.pc = "pin"
      /\ (Spend("failures") => spent' \in Spending /\ spent'.txs = spent.txs)
      /\ spent \in Spending
  BY SpendTyped DEF Pin, At, Types
<1>2. work \in {"none", "loaded", "busy"}
  BY DEF Types, TypeOK
<1> DEFINE e == [NoEntry EXCEPT !.state = "acquire_requested",
                                !.gen = worker.gen, !.runtime = profile.runtime]
<1>3. /\ e \in Entries /\ e.state = "acquire_requested" /\ e.gen = worker.gen
      /\ e.runtime = profile.runtime /\ ~e.closed
  BY NoLeaseTyped, ProfileBounded DEF NoEntry, Types, Workers, Entries, States
<1> HIDE DEF e
<1>4. \/ /\ AppOf(worker.gen) /\ Serving /\ SaveEntry(worker.tx, e) /\ Goto("ask")
         /\ UNCHANGED spent
      \/ Fails /\ UNCHANGED lease /\ spent' \in Spending /\ spent'.txs = spent.txs
  BY <1>1 DEF Pin, e
<1>5. UNCHANGED <<job, gate, update, machine>>
  BY DEF Pin
<1> QED BY <1>1, <1>2, <1>3, <1>4, <1>5, Pinned, Failure DEF machine

\* What is known where the proxy is asked.
LEMMA Asking ==
  ASSUME IInv, worker.pc = "ask"
  PROVE  /\ worker.tx \in Tx /\ worker.tx = job.tx /\ worker.lease /\ gate.held
         /\ gate.tx = worker.tx /\ Loose /\ Unsent
         /\ lease[worker.tx].entry.state = "acquire_requested"
BY NoTxApart DEF IInv, WorkerInv, HoldInv, SentInv, JobInv, InTransaction

\* The proxy is held for the transaction, whether the answer arrives or not.
LEMMA AskGranted ==
  ASSUME IInv, worker.pc = "ask", Serving, hold' = worker.tx,
         Goto("token") \/ Fails, spent' \in Spending /\ spent'.txs = spent.txs,
         UNCHANGED <<job, gate, update, lease, profile, app, runtimes, work, closes>>
  PROVE  IInv'
<1> USE DEF IInv
<1>1. /\ worker' \in Workers /\ worker'.pc \in {"token", "release", "attention"}
      /\ worker'.pc = "release" => worker.lease
      /\ worker'.mode = worker.mode /\ worker'.tx = worker.tx /\ worker'.gen = worker.gen
      /\ worker'.next \in {worker.next, "attention"} /\ worker'.lease = worker.lease
      /\ UNCHANGED <<job, gate, update, lease, profile, app, runtimes, work, closes>>
  BY GotoMoves, FailsMoves DEF Steps
<1>2. /\ worker.tx \in Tx /\ worker.tx = job.tx /\ worker.lease /\ gate.held
      /\ gate.tx = worker.tx /\ Loose /\ Unsent
      /\ lease[worker.tx].entry.state = "acquire_requested"
  BY Asking
<1>3. worker.tx <= spent.txs
  BY <1>2, NoTxApart DEF JobInv
<1> QED BY <1>1, <1>2, <1>3 DEF Types, TypeOK, Jobs, Phases, Profiles, JobInv, Terminal,
     WorkerInv, InTransaction, Reopening, Settling, HoldInv, Loose, Serving, SentInv,
     OneServes, Unsent, SentToOwner, AppOf, ClosedInv, Reopened

\* The proxy refuses.
LEMMA AskRejected ==
  ASSUME IInv, worker.pc = "ask", spent' \in Spending /\ spent'.txs = spent.txs, NEW e \in Entries,
         e.state = "rejected", e.gen = lease[worker.tx].entry.gen,
         e.runtime = lease[worker.tx].entry.runtime,
         e.closed = lease[worker.tx].entry.closed, SaveEntry(worker.tx, e), Fails,
         UNCHANGED <<job, gate, update, hold, profile, app, runtimes, work, closes>>
  PROVE  IInv'
<1> USE DEF IInv
<1>1. /\ worker' \in Workers /\ worker'.pc \in {"release", "attention"}
      /\ worker'.pc = "release" => worker.lease
      /\ worker'.mode = worker.mode /\ worker'.tx = worker.tx /\ worker'.gen = worker.gen
      /\ worker'.next = "attention" /\ worker'.lease = worker.lease
      /\ UNCHANGED <<job, gate, update, hold, profile, app, runtimes, work, closes>>
  BY FailsMoves
<1>2. /\ worker.tx \in Tx /\ worker.tx = job.tx /\ worker.lease /\ gate.held
      /\ gate.tx = worker.tx /\ Loose /\ Unsent
  BY Asking
<1>3. /\ lease' \in [Tx -> Leases] /\ lease'[worker.tx].entry = e
      /\ \A t \in Tx : t # worker.tx => lease'[t] = lease[t]
  BY <1>2, EntrySaved
<1> QED BY <1>1, <1>2, <1>3 DEF Types, TypeOK, Jobs, Phases, Profiles, JobInv, Terminal,
     WorkerInv, InTransaction, Reopening, Settling, HoldInv, Loose, Serving, SentInv,
     OneServes, Unsent, SentToOwner, AppOf, ClosedInv, Reopened

LEMMA AskStep == ASSUME IInv, Ask PROVE IInv'
<1> USE DEF IInv
<1>1. /\ worker.pc = "ask"
      /\ Spend("failures") => spent' \in Spending /\ spent'.txs = spent.txs
      /\ spent \in Spending
  BY SpendTyped DEF Ask, At, Types
<1>2. work \in {"none", "loaded", "busy"}
  BY DEF Types, TypeOK
<1>3. worker.tx \in Tx /\ lease[worker.tx].entry \in Entries
  BY <1>1, Asking DEF Types, Leases
<1> DEFINE old == lease[worker.tx].entry
           rejected == [old EXCEPT !.state = "rejected"]
<1>4. /\ rejected \in Entries /\ rejected.state = "rejected" /\ rejected.gen = old.gen
      /\ rejected.runtime = old.runtime /\ rejected.closed = old.closed
  BY <1>3 DEF Entries, States
<1>5. Entry(worker.tx) = old
  BY <1>3, EntryOf
<1> HIDE DEF rejected
<1>6. /\ spent' \in Spending /\ spent'.txs = spent.txs
      /\ \/ /\ Serving /\ hold' = worker.tx
            /\ Goto("token") \/ Fails
            /\ UNCHANGED lease
         \/ /\ SaveEntry(worker.tx, rejected) \/ UNCHANGED lease
            /\ Fails /\ UNCHANGED hold
  BY <1>1, <1>5 DEF Ask, Answers, rejected
<1>7. UNCHANGED <<job, gate, update, profile, app, runtimes, work, closes>>
  BY DEF Ask
<1> QED BY <1>1, <1>2, <1>3, <1>4, <1>6, <1>7, AskGranted, AskRejected, Failure

\* The token is noted.
LEMMA TokenSaved ==
  ASSUME IInv, worker.pc = "token", NEW e \in Entries, e.state = "held",
         e.gen = lease[worker.tx].entry.gen, e.runtime = lease[worker.tx].entry.runtime,
         e.closed = lease[worker.tx].entry.closed, SaveEntry(worker.tx, e), Goto("verify"),
         UNCHANGED <<job, gate, update, machine, spent>>
  PROVE  IInv'
<1> USE DEF IInv
<1>1. /\ worker' \in Workers /\ worker'.pc = "verify" /\ worker'.mode = worker.mode
      /\ worker'.tx = worker.tx /\ worker'.gen = worker.gen /\ worker'.next = worker.next
      /\ worker'.lease = worker.lease
      /\ UNCHANGED <<job, gate, update, spent, profile, app, runtimes, work, hold, closes>>
  BY GotoMoves DEF Steps, machine
<1>2. worker.tx \in Tx /\ worker.tx = job.tx /\ worker.lease /\ Unsent
  BY DEF WorkerInv, SentInv, InTransaction
<1>3. /\ lease' \in [Tx -> Leases] /\ lease'[worker.tx].entry = e
      /\ \A t \in Tx : t # worker.tx => lease'[t] = lease[t]
  BY <1>2, EntrySaved
<1> QED BY <1>1, <1>2, <1>3 DEF Types, TypeOK, Jobs, Phases, Profiles, JobInv, Terminal,
     WorkerInv, InTransaction, Reopening, Settling, HoldInv, Loose, Serving, SentInv,
     OneServes, Unsent, SentToOwner, AppOf, ClosedInv, Reopened

LEMMA TokenStep == ASSUME IInv, Token PROVE IInv'
<1> USE DEF IInv
<1>1. worker.pc = "token" /\ Goto("verify") /\ UNCHANGED <<job, gate, update, machine, spent>>
  BY DEF Token, At
<1>2. worker.tx \in Tx /\ lease[worker.tx].entry \in Entries
  BY <1>1 DEF WorkerInv, InTransaction, Types, Leases
<1> DEFINE old == lease[worker.tx].entry
           held == [old EXCEPT !.state = "held"]
<1>3. /\ held \in Entries /\ held.state = "held" /\ held.gen = old.gen
      /\ held.runtime = old.runtime /\ held.closed = old.closed
  BY <1>2 DEF Entries, States
<1>4. Entry(worker.tx) = old
  BY <1>2, EntryOf
<1> HIDE DEF held
<1>5. SaveEntry(worker.tx, held)
  BY <1>4 DEF Token, held
<1> QED BY <1>1, <1>2, <1>3, <1>5, TokenSaved

\* The runtime held is at rest.
LEMMA Verified ==
  ASSUME IInv, worker.pc = "verify", NEW e \in Entries, e.state = "verified",
         e.gen = lease[worker.tx].entry.gen, e.runtime = lease[worker.tx].entry.runtime,
         e.closed = lease[worker.tx].entry.closed, SaveEntry(worker.tx, e), Goto("closing"),
         UNCHANGED <<job, gate, update, machine, spent>>
  PROVE  IInv'
<1> USE DEF IInv
<1>1. /\ worker' \in Workers /\ worker'.pc = "closing" /\ worker'.mode = worker.mode
      /\ worker'.tx = worker.tx /\ worker'.gen = worker.gen /\ worker'.next = worker.next
      /\ worker'.lease = worker.lease
      /\ UNCHANGED <<job, gate, update, spent, profile, app, runtimes, work, hold, closes>>
  BY GotoMoves DEF Steps, machine
<1>2. worker.tx \in Tx /\ worker.tx = job.tx /\ worker.lease /\ Unsent
  BY DEF WorkerInv, SentInv, InTransaction
<1>3. /\ lease' \in [Tx -> Leases] /\ lease'[worker.tx].entry = e
      /\ \A t \in Tx : t # worker.tx => lease'[t] = lease[t]
  BY <1>2, EntrySaved
<1> QED BY <1>1, <1>2, <1>3 DEF Types, TypeOK, Jobs, Phases, Profiles, JobInv, Terminal,
     WorkerInv, InTransaction, Reopening, Settling, HoldInv, Loose, Serving, SentInv,
     OneServes, Unsent, SentToOwner, AppOf, ClosedInv, Reopened

LEMMA VerifyStep == ASSUME IInv, Verify PROVE IInv'
<1> USE DEF IInv
<1>1. /\ worker.pc = "verify"
      /\ (Spend("failures") => spent' \in Spending /\ spent'.txs = spent.txs)
      /\ spent \in Spending
  BY SpendTyped DEF Verify, At, Types
<1>2. work \in {"none", "loaded", "busy"}
  BY DEF Types, TypeOK
<1>3. worker.tx \in Tx /\ lease[worker.tx].entry \in Entries
  BY <1>1 DEF WorkerInv, InTransaction, Types, Leases
<1> DEFINE old == lease[worker.tx].entry
           verified == [old EXCEPT !.state = "verified"]
<1>4. /\ verified \in Entries /\ verified.state = "verified" /\ verified.gen = old.gen
      /\ verified.runtime = old.runtime /\ verified.closed = old.closed
  BY <1>3 DEF Entries, States
<1>5. Entry(worker.tx) = old
  BY <1>3, EntryOf
<1> HIDE DEF verified
<1>6. \/ /\ Answers(worker.gen) /\ SaveEntry(worker.tx, verified) /\ Goto("closing")
         /\ UNCHANGED spent
      \/ Fails /\ UNCHANGED lease /\ spent' \in Spending /\ spent'.txs = spent.txs
  BY <1>1, <1>5 DEF Verify, verified
<1>7. UNCHANGED <<job, gate, update, machine>>
  BY DEF Verify
<1> QED BY <1>1, <1>2, <1>3, <1>4, <1>6, <1>7, Verified, Failure DEF machine

----------------------------------------------------------------------------
\* close_instance.

LEMMA ClosingStep == ASSUME IInv, Closing PROVE IInv'
<1> USE DEF IInv
<1>1. /\ worker.pc = "closing" /\ worker' \in Workers /\ worker'.pc = "drain"
      /\ worker'.mode = worker.mode /\ worker'.tx = worker.tx /\ worker'.gen = worker.gen
      /\ worker'.next = worker.next /\ worker'.lease = worker.lease
      /\ job'.phase = "closing" /\ job'.tx = job.tx /\ job'.rec = job.rec /\ job' \in Jobs
      /\ UNCHANGED <<gate, update, lease, spent, profile, app, runtimes, work, hold, closes>>
  BY GotoMoves, PhaseMoves DEF Closing, At, Steps, Phases, machine
<1>2. worker.tx \in Tx /\ worker.tx = job.tx /\ worker.lease /\ Unsent
  BY <1>1 DEF WorkerInv, SentInv, InTransaction
<1> QED BY <1>1, <1>2 DEF Types, TypeOK, Jobs, Phases, Profiles, JobInv, Terminal,
     WorkerInv, InTransaction, Reopening, Settling, HoldInv, Loose, Serving, SentInv,
     OneServes, Unsent, SentToOwner, AppOf, ClosedInv, Reopened

\* The runtime is empty; the close is noted before it is sent.
LEMMA Drained ==
  ASSUME IInv, worker.pc = "drain", AppOf(lease[worker.tx].entry.gen), gate.held,
         hold = worker.tx, work' = "none", NEW e \in Entries, e.state = "close_requested",
         e.gen = lease[worker.tx].entry.gen, e.runtime = lease[worker.tx].entry.runtime,
         e.closed = lease[worker.tx].entry.closed, SaveEntry(worker.tx, e), Goto("send"),
         UNCHANGED <<job, gate, update, profile, app, runtimes, hold, closes, spent>>
  PROVE  IInv'
<1> USE DEF IInv
<1>1. /\ worker' \in Workers /\ worker'.pc = "send" /\ worker'.mode = worker.mode
      /\ worker'.tx = worker.tx /\ worker'.gen = worker.gen /\ worker'.next = worker.next
      /\ worker'.lease = worker.lease /\ lease[worker.tx].entry.gen = profile.gen /\ app
      /\ UNCHANGED <<job, gate, update, spent, profile, app, runtimes, hold, closes>>
  BY GotoMoves DEF Steps, machine, AppOf
<1>2. /\ worker.tx \in Tx /\ worker.tx = job.tx /\ worker.lease /\ gate.tx = worker.tx
      /\ Unsent
  BY <1>1 DEF WorkerInv, SentInv, JobInv, InTransaction
<1>3. /\ lease' \in [Tx -> Leases] /\ lease'[worker.tx].entry = e
      /\ \A t \in Tx : t # worker.tx => lease'[t] = lease[t]
  BY <1>2, EntrySaved
<1>4. closes = 0
  BY <1>1, <1>2, NoTxApart DEF HoldInv, Unsent
<1> QED BY <1>1, <1>2, <1>3, <1>4 DEF Types, TypeOK, Jobs, Phases, Profiles, JobInv, Terminal,
     WorkerInv, InTransaction, Reopening, Settling, HoldInv, Loose, Serving, SentInv,
     OneServes, Unsent, SentToOwner, AppOf, ClosedInv, Reopened

LEMMA DrainStep == ASSUME IInv, Drain PROVE IInv'
<1> USE DEF IInv
<1>1. /\ worker.pc = "drain"
      /\ (Spend("failures") => spent' \in Spending /\ spent'.txs = spent.txs)
      /\ spent \in Spending
  BY SpendTyped DEF Drain, At, Types
<1>2. work \in {"none", "loaded", "busy"}
  BY DEF Types, TypeOK
<1>3. worker.tx \in Tx /\ lease[worker.tx].entry \in Entries
  BY <1>1 DEF WorkerInv, InTransaction, Types, Leases
<1> DEFINE old == lease[worker.tx].entry
           asked == [old EXCEPT !.state = "close_requested"]
<1>4. /\ asked \in Entries /\ asked.state = "close_requested"
      /\ asked.gen = old.gen /\ asked.runtime = old.runtime /\ asked.closed = old.closed
  BY <1>3 DEF Entries, States
<1>5. Entry(worker.tx) = old
  BY <1>3, EntryOf
<1> HIDE DEF asked
<1>6. \/ /\ AppOf(old.gen) /\ gate.held /\ hold = worker.tx /\ work' = "none"
         /\ SaveEntry(worker.tx, asked) /\ Goto("send") /\ UNCHANGED spent
      \/ Fails /\ UNCHANGED lease /\ work' \in {work, "none"}
         /\ spent' \in Spending /\ spent'.txs = spent.txs
  BY <1>1, <1>5 DEF Drain, HeldFor, asked
<1>7. UNCHANGED <<job, gate, update, profile, app, runtimes, hold, closes>>
  BY DEF Drain
<1> QED BY <1>1, <1>2, <1>3, <1>4, <1>6, <1>7, Drained, Failure

\* The close is the first that is sent under its runtime.
LEMMA CloseSent ==
  ASSUME IInv, worker.pc = "send",
         closes' = IF lease[worker.tx].entry.runtime = profile.runtime
                   THEN closes + 1 ELSE closes,
         Goto("await"),
         UNCHANGED <<job, gate, update, lease, profile, app, runtimes, work, hold, spent>>
  PROVE  IInv'
<1> USE DEF IInv
<1>1. /\ worker' \in Workers /\ worker'.pc = "await" /\ worker'.mode = worker.mode
      /\ worker'.tx = worker.tx /\ worker'.gen = worker.gen /\ worker'.next = worker.next
      /\ worker'.lease = worker.lease
      /\ UNCHANGED <<job, gate, update, lease, spent, profile, app, runtimes, work, hold>>
  BY GotoMoves DEF Steps
<1> DEFINE named == lease[worker.tx].entry.runtime
<1>2. /\ worker.tx \in Tx /\ worker.tx = job.tx /\ worker.lease /\ gate.held
      /\ gate.tx = worker.tx /\ lease[worker.tx].entry.state = "close_requested"
      /\ named = profile.runtime => closes = 0 /\ lease[worker.tx].entry.gen = profile.gen
  BY DEF WorkerInv, SentInv, OneServes, JobInv, InTransaction
<1>3. closes' \in Nat /\ closes' <= 1 /\ (named # profile.runtime => closes' = closes)
  BY <1>2 DEF Types, SentInv
<1>4. Unsent' \/ SentToOwner'
  <2>1. CASE named = profile.runtime
    BY <1>1, <1>2, <2>1 DEF SentToOwner
  <2>2. CASE named # profile.runtime
    BY <1>1, <1>3, <2>2 DEF SentInv, SentToOwner, Unsent, Serving
  <2> QED BY <2>1, <2>2
<1>5. SentInv'
  BY <1>1, <1>3, <1>4 DEF SentInv, OneServes
<1> QED BY <1>1, <1>2, <1>3, <1>5 DEF Types, TypeOK, Jobs, JobInv, WorkerInv, InTransaction,
     Reopening, Settling, HoldInv, Loose, Serving, ClosedInv, AppOf, Reopened

LEMMA SendCloseStep == ASSUME IInv, SendClose PROVE IInv'
<1> USE DEF IInv
<1>1. /\ worker.pc = "send"
      /\ (Spend("failures") => spent' \in Spending /\ spent'.txs = spent.txs)
      /\ spent \in Spending
  BY SpendTyped DEF SendClose, At, Types
<1>2. work \in {"none", "loaded", "busy"}
  BY DEF Types, TypeOK
<1>3. Entry(worker.tx) = lease[worker.tx].entry
  BY <1>1, EntryOf DEF WorkerInv, InTransaction
<1> QED BY <1>1, <1>2, <1>3, CloseSent, Failure DEF SendClose

\* The close of an application that is gone is noted.
LEMMA CloseNoted ==
  ASSUME IInv, worker.pc \in {"await", "exited"}, ~AppOf(lease[worker.tx].entry.gen),
         lease[worker.tx].entry.runtime \notin runtimes \/ worker.pc = "exited", NEW pc,
         pc = "opening" \/ (pc = "decide" /\ worker.mode = "recovery"),
         pc = "opening" /\ worker.pc = "exited" => worker.mode = "attempt",
         NEW e \in Entries, e.state = "closed", e.closed,
         e.gen = lease[worker.tx].entry.gen, e.runtime = lease[worker.tx].entry.runtime,
         SaveEntry(worker.tx, e), Goto(pc),
         UNCHANGED <<job, gate, update, machine, spent>>
  PROVE  IInv'
<1> USE DEF IInv
<1>1. /\ pc \in {"opening", "decide"} /\ worker' \in Workers /\ worker'.pc = pc
      /\ worker'.mode = worker.mode /\ worker'.tx = worker.tx /\ worker'.gen = worker.gen
      /\ worker'.next = worker.next /\ worker'.lease = worker.lease
      /\ UNCHANGED <<job, gate, update, spent, profile, app, runtimes, work, hold, closes>>
  BY GotoMoves DEF Steps, machine
<1>2. /\ worker.tx \in Tx /\ worker.tx = job.tx /\ Loose /\ worker.next # "settle"
      /\ gate.held => gate.tx = worker.tx
      /\ pc = "opening" => worker.lease
      /\ job.phase # "complete"
      /\ Unsent \/ ~app
  BY <1>1, NoTxApart DEF WorkerInv, HoldInv, Loose, Serving, SentInv, SentToOwner, AppOf,
     JobInv, InTransaction, Settling, Terminal
<1>3. /\ lease' \in [Tx -> Leases] /\ lease'[worker.tx].entry = e
      /\ \A t \in Tx : t # worker.tx => lease'[t] = lease[t]
  BY <1>2, EntrySaved
<1> QED BY <1>1, <1>2, <1>3 DEF Types, TypeOK, Jobs, Phases, Profiles, JobInv, Terminal,
     WorkerInv, InTransaction, Reopening, Settling, HoldInv, Loose, Serving, SentInv,
     OneServes, Unsent, SentToOwner, AppOf, ClosedInv, Reopened

\* The application stays; it is to be finished.
LEMMA Resident ==
  ASSUME IInv, worker.pc = "await", Goto("finish"),
         UNCHANGED <<job, gate, update, lease, machine, spent>>
  PROVE  IInv'
<1> USE DEF IInv
<1>1. /\ worker' \in Workers /\ worker'.pc = "finish" /\ worker'.mode = worker.mode
      /\ worker'.tx = worker.tx /\ worker'.gen = worker.gen /\ worker'.next = worker.next
      /\ worker'.lease = worker.lease
      /\ UNCHANGED <<job, gate, update, lease, spent, profile, app, runtimes, work, hold, closes>>
  BY GotoMoves DEF Steps, machine
<1>2. worker.tx \in Tx /\ worker.tx = job.tx /\ worker.lease
  BY DEF WorkerInv, InTransaction
<1> QED BY <1>1, <1>2 DEF Types, TypeOK, Jobs, Phases, Profiles, JobInv, Terminal,
     WorkerInv, InTransaction, Reopening, Settling, HoldInv, Loose, Serving, SentInv,
     OneServes, Unsent, SentToOwner, AppOf, ClosedInv, Reopened

LEMMA AwaitExitStep == ASSUME IInv, AwaitExit PROVE IInv'
<1> USE DEF IInv
<1>1. /\ worker.pc = "await"
      /\ (Spend("failures") => spent' \in Spending /\ spent'.txs = spent.txs)
      /\ spent \in Spending
  BY SpendTyped DEF AwaitExit, At, Types
<1>2. /\ worker.tx \in Tx /\ lease[worker.tx].entry \in Entries
      /\ worker.mode \in {"attempt", "recovery"}
  BY <1>1 DEF WorkerInv, InTransaction, Types, Leases, Workers
<1> DEFINE old == lease[worker.tx].entry
           closed == [old EXCEPT !.state = "closed", !.closed = TRUE]
<1>3. /\ closed \in Entries /\ closed.state = "closed" /\ closed.closed /\ closed.gen = old.gen
      /\ closed.runtime = old.runtime
  BY <1>2 DEF Entries, States
<1>4. Entry(worker.tx) = old
  BY <1>2, EntryOf
<1> HIDE DEF closed

<1>5. CASE ~AppOf(old.gen) /\ old.runtime \notin runtimes
  BY <1>1, <1>2, <1>3, <1>4, <1>5, CloseNoted DEF AwaitExit, Closed, closed
<1>6. CASE AppOf(old.gen) \/ old.runtime \in runtimes
  BY <1>1, <1>4, <1>6, Resident DEF AwaitExit
<1> QED BY <1>5, <1>6

\* The application is stopped.
LEMMA Finished ==
  ASSUME IInv, worker.pc = "finish", app' = FALSE,
         runtimes' \subseteq runtimes, hold' = NoTx, Goto("exited"),
         UNCHANGED <<job, gate, update, lease, profile, work, closes, spent>>
  PROVE  IInv'
<1> USE DEF IInv
<1>1. /\ worker' \in Workers /\ worker'.pc = "exited" /\ worker'.mode = worker.mode
      /\ worker'.tx = worker.tx /\ worker'.gen = worker.gen /\ worker'.next = worker.next
      /\ worker'.lease = worker.lease /\ ~app' /\ app' \in BOOLEAN
      /\ runtimes' \subseteq runtimes /\ hold' = NoTx
      /\ UNCHANGED <<job, gate, update, lease, profile, work, closes, spent>>
  BY GotoMoves DEF Steps
<1>2. worker.tx \in Tx /\ worker.tx = job.tx
  BY DEF WorkerInv, InTransaction
<1> QED BY <1>1, <1>2 DEF Types, TypeOK, Jobs, Phases, Profiles, JobInv, Terminal,
     WorkerInv, InTransaction, Reopening, Settling, HoldInv, Loose, Serving, SentInv,
     OneServes, Unsent, SentToOwner, AppOf, ClosedInv, Reopened

LEMMA FinishStep == ASSUME IInv, Finish PROVE IInv'
<1> USE DEF IInv
<1>1. /\ worker.pc = "finish"
      /\ (Spend("failures") => spent' \in Spending /\ spent'.txs = spent.txs)
      /\ spent \in Spending
  BY SpendTyped DEF Finish, At, Types
<1>2. work \in {"none", "loaded", "busy"}
  BY DEF Types, TypeOK
<1>3. Entry(worker.tx) = lease[worker.tx].entry
  BY <1>1, EntryOf DEF WorkerInv, InTransaction
<1>4. \/ /\ app' = FALSE /\ runtimes' \subseteq runtimes /\ hold' = NoTx /\ Goto("exited")
         /\ UNCHANGED spent
      \/ Fails /\ UNCHANGED <<app, runtimes, hold>> /\ spent' \in Spending /\ spent'.txs = spent.txs
  BY <1>1, <1>3 DEF Finish, Ends
<1>5. UNCHANGED <<job, gate, update, lease, profile, work, closes>>
  BY DEF Finish
<1> QED BY <1>1, <1>2, <1>4, <1>5, Finished, Failure

LEMMA ExitedStep == ASSUME IInv, Exited PROVE IInv'
<1> USE DEF IInv
<1>1. /\ worker.pc = "exited"
      /\ (Spend("failures") => spent' \in Spending /\ spent'.txs = spent.txs)
      /\ spent \in Spending
  BY SpendTyped DEF Exited, At, Types
<1>2. /\ worker.tx \in Tx /\ lease[worker.tx].entry \in Entries
      /\ worker.mode \in {"attempt", "recovery"}
  BY <1>1 DEF WorkerInv, InTransaction, Types, Leases, Workers
<1> DEFINE old == lease[worker.tx].entry
           closed == [old EXCEPT !.state = "closed", !.closed = TRUE]
<1>3. /\ closed \in Entries /\ closed.state = "closed" /\ closed.closed /\ closed.gen = old.gen
      /\ closed.runtime = old.runtime
  BY <1>2 DEF Entries, States
<1>4. Entry(worker.tx) = old
  BY <1>2, EntryOf
<1> HIDE DEF closed

<1>5. ~AppOf(old.gen)
  BY <1>1 DEF ClosedInv
<1> QED BY <1>1, <1>2, <1>3, <1>4, <1>5, CloseNoted DEF Exited, Closed, closed

----------------------------------------------------------------------------
\* restore_instance, and the launch of the user.

LEMMA OpeningStep == ASSUME IInv, Opening PROVE IInv'
<1> USE DEF IInv
<1>1. /\ worker.pc = "opening" /\ worker' \in Workers /\ worker'.pc = "restore"
      /\ worker'.mode = worker.mode /\ worker'.tx = worker.tx /\ worker'.gen = worker.gen
      /\ worker'.next = worker.next /\ worker'.lease = worker.lease
      /\ UNCHANGED <<gate, update, lease, spent, profile, app, runtimes, work, hold, closes>>
  BY GotoMoves DEF Opening, At, Steps, machine
<1>2. job'.phase = "opening" /\ job'.tx = job.tx /\ job'.rec = job.rec /\ job' \in Jobs
  BY ProfileBounded DEF Opening, Types, TypeOK, Jobs, Phases
<1> QED BY <1>1, <1>2 DEF Types, TypeOK, Jobs, Phases, Profiles, JobInv, Terminal,
     WorkerInv, InTransaction, Reopening, Settling, HoldInv, Loose, Serving, SentInv,
     OneServes, Unsent, SentToOwner, AppOf, ClosedInv, Reopened

LEMMA RestoreStep == ASSUME IInv, Restore PROVE IInv'
<1> USE DEF IInv
<1>1. /\ worker.pc = "restore" /\ worker'.pc = "show" /\ worker'.mode = worker.mode
      /\ worker'.tx = worker.tx /\ worker'.gen = worker.gen /\ worker'.next = worker.next
      /\ worker'.lease = worker.lease
      /\ UNCHANGED <<job, gate, update, lease, spent, profile, app, runtimes, work, hold, closes>>
  BY DEF Restore, At, Types, Workers, machine
<1>2. MaintenanceOwner \in 0..UpdateTx
  BY OwnersBounded, BoundsAssumption DEF MaintenanceOwner, Types, TypeOK, UpdateTx, NoTx
<1>3. worker' \in Workers
  BY <1>2 DEF Restore, Types, Workers, Steps
<1> QED BY <1>1, <1>2, <1>3 DEF Types, TypeOK, Jobs, Phases, Profiles, JobInv, Terminal,
     WorkerInv, InTransaction, Reopening, Settling, HoldInv, Loose, Serving, SentInv,
     OneServes, Unsent, SentToOwner, AppOf, ClosedInv, Reopened

\* The application runs already.
LEMMA ShownUp ==
  ASSUME IInv, worker.pc = "show", Shown(profile.gen),
         UNCHANGED <<job, gate, update, lease, machine, spent>>
  PROVE  IInv'
<1> USE DEF IInv
<1>1. /\ worker' \in Workers /\ worker'.pc = "ready" /\ worker'.mode = worker.mode
      /\ worker'.tx = worker.tx /\ worker'.next = worker.next
      /\ worker'.lease = worker.lease
      /\ UNCHANGED <<job, gate, update, lease, spent, profile, app, runtimes, work, hold, closes>>
  BY OwnersBounded, ProfileBounded DEF Shown, Types, Workers, Steps, machine
<1> QED BY <1>1 DEF Types, TypeOK, Jobs, Phases, Profiles, JobInv, Terminal, WorkerInv,
     InTransaction, Reopening, Settling, HoldInv, Loose, Serving, SentInv, OneServes,
     Unsent, SentToOwner, AppOf, ClosedInv, Reopened

\* What a launch of the profile changes.
LEMMA Launches ==
  ASSUME IInv, Launched(job)
  PROVE  /\ ~app /\ app' /\ app' \in BOOLEAN /\ work' = "none" /\ hold' = NoTx
         /\ profile' \in Profiles
         /\ profile'.gen = profile.gen + 1 /\ profile'.gen \in Gens /\ profile.gen \in Nat
         /\ runtimes' = runtimes \cup {profile'.runtime}
         /\ job' \in Jobs /\ job'.tx = job.tx /\ job'.rec = job.rec
         /\ job'.phase \in {job.phase, "superseded"}
         /\ job.phase \notin Terminal => job' = job
         /\ profile'.runtime = profile.runtime + 1 /\ profile'.runtime \in Runtimes
         /\ profile.runtime \in Nat
         /\ closes' = 0
<1> USE DEF IInv
<1>0. profile.gen < MaxGen /\ profile.runtime < MaxRuntimes
  BY DEF Launched
<1>1. /\ profile.gen \in Gens /\ profile.gen \in Nat
      /\ profile.desired \in 1..MaxRevision /\ profile.gen + 1 \in Gens
      /\ profile.runtime \in Nat /\ profile.runtime + 1 \in Runtimes
  <2>1. profile.gen \in Gens /\ profile.runtime \in Runtimes /\ profile.desired \in 1..MaxRevision
    BY ProfileBounded DEF Types, TypeOK
  <2> QED BY <1>0, <2>1, BoundsAssumption DEF Gens, Runtimes
<1>2. /\ ~app /\ app' /\ app' \in BOOLEAN /\ work' = "none" /\ hold' = NoTx
      /\ closes' = 0
  BY DEF Launched
<1>3. /\ profile' \in Profiles
      /\ profile'.gen = profile.gen + 1 /\ profile'.runtime = profile.runtime + 1
  BY <1>1 DEF Launched, Types, TypeOK, Profiles
<1>4. runtimes' = runtimes \cup {profile'.runtime}
  BY <1>3 DEF Launched
<1>5. CASE job' = job
  <2>1. job \in Jobs
    BY DEF Types, TypeOK, Jobs, Phases
  <2> QED BY <1>1, <1>2, <1>3, <1>4, <1>5, <2>1
<1>6. CASE job' = [job EXCEPT !.phase = "superseded"] /\ job.phase = "attention"
  <2>1. /\ job' \in Jobs /\ job'.tx = job.tx /\ job'.rec = job.rec
        /\ job'.phase = "superseded"
    BY <1>6 DEF Types, TypeOK, Jobs, Phases, Terminal
  <2> QED BY <1>1, <1>2, <1>3, <1>4, <1>6, <2>1 DEF Terminal
<1> QED BY <1>5, <1>6 DEF Launched

\* The application is launched by the job.
LEMMA LaunchShown ==
  ASSUME IInv, worker.pc = "show", Shown(profile.gen + 1), Launched(job),
         UNCHANGED <<gate, update, lease, spent>>
  PROVE  IInv'
<1> USE DEF IInv
<1>1. /\ worker' \in Workers /\ worker'.pc = "ready" /\ worker'.mode = worker.mode
      /\ worker'.tx = worker.tx /\ worker'.next = worker.next
      /\ worker'.lease = worker.lease
      /\ UNCHANGED <<gate, update, lease, spent>>
  <2>1. profile.gen + 1 \in 0..MaxGen
    BY Launches, BoundsAssumption DEF Gens
  <2> QED BY <2>1, OwnersBounded DEF Shown, Types, Workers, Steps
<1>2. job.phase \notin Terminal
  BY DEF JobInv
<1>3. /\ ~app /\ app' /\ app' \in BOOLEAN /\ work' = "none" /\ hold' = NoTx
      /\ profile' \in Profiles
      /\ profile'.gen = profile.gen + 1 /\ profile'.gen \in Gens /\ profile.gen \in Nat
      /\ runtimes' = runtimes \cup {profile'.runtime} /\ job' = job
      /\ profile'.runtime = profile.runtime + 1 /\ profile'.runtime \in Runtimes
      /\ profile.runtime \in Nat
      /\ closes' = 0
  BY <1>2, Launches
<1>4. worker.next # "settle"
  BY DEF WorkerInv, Settling
<1>5. \A t \in Tx : /\ lease[t].entry.gen <= profile.gen /\ lease[t].entry.gen \in Nat
                    /\ lease[t].entry.runtime \in Nat
  BY <1>3, BoundsAssumption DEF ClosedInv, Types, Leases, Entries
<1> QED BY <1>1, <1>2, <1>3, <1>4, <1>5 DEF Types, TypeOK, Jobs, Phases, Profiles, JobInv,
     Terminal, WorkerInv, InTransaction, Reopening, Settling, HoldInv, Loose, Serving,
     SentInv, OneServes, Unsent, SentToOwner, AppOf, ClosedInv, Reopened

LEMMA ShowStep == ASSUME IInv, Show PROVE IInv'
<1> USE DEF IInv
<1>1. /\ worker.pc = "show"
      /\ (Spend("failures") => spent' \in Spending /\ spent'.txs = spent.txs)
      /\ spent \in Spending
  BY SpendTyped DEF Show, At, Types
<1>2. work \in {"none", "loaded", "busy"}
  BY DEF Types, TypeOK
<1> QED BY <1>1, <1>2, ShownUp, LaunchShown, Failure DEF Show, machine

LEMMA UserLaunchStep == ASSUME IInv, UserLaunch PROVE IInv'
<1> USE DEF IInv
<1>1. /\ ~GateBars(NoTx)
      /\ UNCHANGED <<worker, gate, update, lease, spent>>
  BY DEF UserLaunch
<1>2. /\ ~gate.held /\ worker.pc # "send"
      /\ worker.pc = "exited" => worker.tx \in Tx
  BY <1>1 DEF GateBars, Types, TypeOK, WorkerInv, InTransaction
<1>3. /\ ~app /\ app' /\ app' \in BOOLEAN /\ work' = "none" /\ hold' = NoTx
      /\ profile' \in Profiles
      /\ profile'.gen = profile.gen + 1 /\ profile'.gen \in Gens /\ profile.gen \in Nat
      /\ runtimes' = runtimes \cup {profile'.runtime} /\ job' \in Jobs /\ job'.tx = job.tx
      /\ job'.rec = job.rec /\ job'.phase \in {job.phase, "superseded"}
      /\ job.phase \notin Terminal => job' = job
      /\ profile'.runtime = profile.runtime + 1 /\ profile'.runtime \in Runtimes
      /\ profile.runtime \in Nat
      /\ closes' = 0
  BY Launches DEF UserLaunch
<1>4. \A t \in Tx : /\ lease[t].entry.gen <= profile.gen /\ lease[t].entry.gen \in Nat
                    /\ lease[t].entry.runtime \in Nat
  BY <1>3, BoundsAssumption DEF ClosedInv, Types, Leases, Entries
<1> QED BY <1>1, <1>2, <1>3, <1>4 DEF Types, TypeOK, Jobs, Phases, Profiles, JobInv,
     Terminal, WorkerInv, InTransaction, Reopening, Settling, HoldInv, Loose, Serving,
     SentInv, OneServes, Unsent, SentToOwner, AppOf, ClosedInv, Reopened

----------------------------------------------------------------------------
\* The end of the launch, and release_maintenance.

\* What was closed was launched again.
LEMMA ReadyUp ==
  ASSUME IInv, worker.pc = "ready", app,
         worker' = [worker EXCEPT !.next = "settle",
                                  !.pc = IF worker.lease THEN "release" ELSE "settle"],
         job' = job \/ job' = [job EXCEPT !.gen = profile.gen],
         UNCHANGED <<gate, update, lease, machine, spent>>
  PROVE  IInv'
<1> USE DEF IInv
<1>1. /\ worker'.next = "settle" /\ worker'.pc = IF worker.lease THEN "release" ELSE "settle"
      /\ worker'.mode = worker.mode /\ worker'.tx = worker.tx /\ worker'.gen = worker.gen
      /\ worker'.lease = worker.lease
      /\ UNCHANGED <<gate, update, lease, spent, profile, app, runtimes, work, hold, closes>>
  BY DEF Types, Workers, machine
<1>2. job'.phase = job.phase /\ job'.tx = job.tx /\ job'.rec = job.rec /\ job' \in Jobs
  BY ProfileBounded DEF Types, TypeOK, Jobs, Phases
<1>3. worker' \in Workers
  BY DEF Types, Workers, Steps
<1>4. \A t \in Tx : lease[t].entry.gen \in Nat
  BY BoundsAssumption DEF Types, Leases, Entries
<1>5. Reopened
  BY <1>4, ProfileBounded DEF Reopened, ClosedInv
<1>6. /\ ~worker.lease => ~gate.held
      /\ worker.lease => worker.tx \in Tx /\ worker.tx = job.tx
  BY DEF WorkerInv, Reopening
<1> QED BY <1>1, <1>2, <1>3, <1>4, <1>5, <1>6 DEF Types, TypeOK, Jobs, Phases, Profiles,
     JobInv, Terminal, WorkerInv, InTransaction, Reopening, Settling, HoldInv, Loose,
     Serving, SentInv, OneServes, Unsent, SentToOwner, AppOf, ClosedInv, Reopened

LEMMA ReadyStep == ASSUME IInv, Ready PROVE IInv'
<1> USE DEF IInv
<1>1. /\ worker.pc = "ready"
      /\ (Spend("failures") => spent' \in Spending /\ spent'.txs = spent.txs)
      /\ spent \in Spending
  BY SpendTyped DEF Ready, At, Types
<1>2. work \in {"none", "loaded", "busy"}
  BY DEF Types, TypeOK
<1> QED BY <1>1, <1>2, ReadyUp, Failure DEF Ready, machine

\* Nothing is held, and no close is under way, once the entry is settled.
LEMMA EntryReleased ==
  ASSUME IInv,
         (worker.pc = "release" /\ Settled(lease[worker.tx].entry)) \/ worker.pc = "released",
         NEW e \in Entries, e.gen = lease[worker.tx].entry.gen,
         e.runtime = lease[worker.tx].entry.runtime,
         e.closed = lease[worker.tx].entry.closed, SaveEntry(worker.tx, e), Goto("free"),
         UNCHANGED <<job, gate, update, machine, spent>>
  PROVE  IInv'
<1> USE DEF IInv
<1>1. /\ worker.pc \in {"release", "released"} /\ worker' \in Workers /\ worker'.pc = "free"
      /\ worker'.mode = worker.mode /\ worker'.tx = worker.tx /\ worker'.gen = worker.gen
      /\ worker'.next = worker.next /\ worker'.lease = worker.lease
      /\ UNCHANGED <<job, gate, update, spent, profile, app, runtimes, work, hold, closes>>
  BY GotoMoves DEF Steps, machine
<1>2. /\ worker.tx \in Tx /\ worker.tx = job.tx
      /\ Loose /\ Unsent
  BY <1>1, NoTxApart DEF WorkerInv, HoldInv, Loose, Serving, SentInv, OneServes, Unsent,
     SentToOwner, Settled, JobInv, InTransaction
<1>3. /\ lease' \in [Tx -> Leases] /\ lease'[worker.tx].entry = e
      /\ \A t \in Tx : t # worker.tx => lease'[t] = lease[t]
  BY <1>2, EntrySaved
<1>4. worker'.next = "settle" => worker.next = "settle"
  BY <1>1
<1> QED BY <1>1, <1>2, <1>3, <1>4 DEF Types, TypeOK, Jobs, Phases, Profiles, JobInv,
     Terminal, WorkerInv, InTransaction, Reopening, Settling, HoldInv, Loose, Serving,
     SentInv, OneServes, Unsent, SentToOwner, AppOf, ClosedInv, Reopened

LEMMA ReleaseSettledStep == ASSUME IInv, ReleaseSettled PROVE IInv'
<1> USE DEF IInv
<1>1. /\ worker.pc = "release"
      /\ (Spend("failures") => spent' \in Spending /\ spent'.txs = spent.txs)
      /\ spent \in Spending
  BY SpendTyped DEF ReleaseSettled, At, Types
<1>2. worker.tx \in Tx /\ lease[worker.tx].entry \in Entries
  BY <1>1 DEF WorkerInv, InTransaction, Types, Leases
<1> DEFINE old == lease[worker.tx].entry
           released == [old EXCEPT !.state = "released"]
<1>3. /\ released \in Entries /\ released.gen = old.gen
      /\ released.runtime = old.runtime /\ released.closed = old.closed
  BY <1>2 DEF Entries, States
<1>4. Entry(worker.tx) = old
  BY <1>2, EntryOf
<1> HIDE DEF released

<1>5. Settled(old) /\ (SaveEntry(worker.tx, released) \/ SaveEntry(worker.tx, old))
  BY <1>4 DEF ReleaseSettled, released
<1>6. Goto("free") /\ UNCHANGED <<job, gate, update, machine, spent>>
  BY DEF ReleaseSettled
<1> QED BY <1>1, <1>2, <1>3, <1>5, <1>6, EntryReleased

LEMMA ReleasedStep == ASSUME IInv, Released PROVE IInv'
<1> USE DEF IInv
<1>1. /\ worker.pc = "released"
      /\ (Spend("failures") => spent' \in Spending /\ spent'.txs = spent.txs)
      /\ spent \in Spending
  BY SpendTyped DEF Released, At, Types
<1>2. worker.tx \in Tx /\ lease[worker.tx].entry \in Entries
  BY <1>1 DEF WorkerInv, InTransaction, Types, Leases
<1> DEFINE old == lease[worker.tx].entry
           released == [old EXCEPT !.state = "released"]
<1>3. /\ released \in Entries /\ released.gen = old.gen
      /\ released.runtime = old.runtime /\ released.closed = old.closed
  BY <1>2 DEF Entries, States
<1>4. Entry(worker.tx) = old
  BY <1>2, EntryOf
<1> HIDE DEF released

<1>5. /\ SaveEntry(worker.tx, released) /\ Goto("free")
      /\ UNCHANGED <<job, gate, update, machine, spent>>
  BY <1>4 DEF Released, released
<1> QED BY <1>1, <1>2, <1>3, <1>5, EntryReleased

LEMMA ReleaseStaysStep == ASSUME IInv, ReleaseStays PROVE IInv'
<1> USE DEF IInv
<1>1. /\ worker.pc = "release"
      /\ (Spend("failures") => spent' \in Spending /\ spent'.txs = spent.txs)
      /\ spent \in Spending
  BY SpendTyped DEF ReleaseStays, At, Types
<1> QED BY <1>1, GivesUp DEF ReleaseStays, machine

\* The proxy gives up its hold.
LEMMA HoldReleased ==
  ASSUME IInv, worker.pc = "release", ~Unresolved(lease[worker.tx].entry), hold' = NoTx,
         Goto("released"),
         UNCHANGED <<job, gate, update, lease, profile, app, runtimes, work, closes, spent>>
  PROVE  IInv'
<1> USE DEF IInv
<1>1. /\ worker' \in Workers /\ worker'.pc = "released" /\ worker'.mode = worker.mode
      /\ worker'.tx = worker.tx /\ worker'.gen = worker.gen /\ worker'.next = worker.next
      /\ worker'.lease = worker.lease
      /\ UNCHANGED <<job, gate, update, lease, spent, profile, app, runtimes, work, closes>>
  BY GotoMoves DEF Steps
<1>2. worker.tx \in Tx /\ worker.tx = job.tx /\ Unsent
  BY NoTxApart DEF WorkerInv, SentInv, SentToOwner, Unsent, Unresolved, JobInv,
     InTransaction, AppOf
<1> QED BY <1>1, <1>2 DEF Types, TypeOK, Jobs, Phases, Profiles, JobInv, Terminal,
     WorkerInv, InTransaction, Reopening, Settling, HoldInv, Loose, Serving, SentInv,
     OneServes, Unsent, SentToOwner, AppOf, ClosedInv, Reopened

LEMMA ReleaseAskStep == ASSUME IInv, ReleaseAsk PROVE IInv'
<1> USE DEF IInv
<1>1. /\ worker.pc = "release"
      /\ (Spend("failures") => spent' \in Spending /\ spent'.txs = spent.txs)
      /\ spent \in Spending
  BY SpendTyped DEF ReleaseAsk, At, Types
<1>2. Entry(worker.tx) = lease[worker.tx].entry
  BY <1>1, EntryOf DEF WorkerInv, InTransaction
<1> QED BY <1>1, <1>2, HoldReleased, GivesUp DEF ReleaseAsk

LEMMA FreeStep == ASSUME IInv, Free PROVE IInv'
<1> USE DEF IInv
<1>1. /\ worker.pc = "free"
      /\ UNCHANGED <<job, update, lease, spent, profile, app, runtimes, work, hold, closes>>
  BY DEF Free, At, machine
<1>2. /\ worker.tx \in Tx /\ worker.tx = job.tx /\ Loose /\ Unsent
      /\ gate.held => gate.tx = worker.tx
      /\ worker.mode \in {"attempt", "recovery"}
      /\ worker.next \in {"attention", "guard", "settle"}
      /\ worker.next = "guard" => worker.mode = "recovery"
  BY <1>1 DEF WorkerInv, HoldInv, Loose, Serving, SentInv, JobInv, InTransaction, Types, Workers
<1>3. ~gate'.held /\ gate' \in [tx : Tx \cup {NoTx}, held : BOOLEAN]
  BY <1>2 DEF Free, Types, TypeOK
<1>4. /\ worker' \in Workers /\ worker'.mode = worker.mode /\ worker'.tx = worker.tx
      /\ worker'.gen = worker.gen /\ worker'.next = worker.next /\ worker'.lease = worker.lease
      /\ worker'.pc \in {"forget", "attention", "settle"}
      /\ worker'.pc = "settle" => worker.next = "settle"
  BY <1>2, GotoMoves DEF Free, Steps
<1> QED BY <1>1, <1>2, <1>3, <1>4 DEF Types, TypeOK, Jobs, Phases, Profiles, JobInv,
     Terminal, WorkerInv, InTransaction, Reopening, Settling, HoldInv, Loose, Serving,
     SentInv, OneServes, Unsent, SentToOwner, AppOf, ClosedInv, Reopened

----------------------------------------------------------------------------
\* recover_profile_restart, and the end of the job.

\* Without a journal there is nothing to recover.
LEMMA RecoverForgets ==
  ASSUME IInv, worker.pc = "recover", ~GateBars(NoTx), Goto("forget"),
         UNCHANGED <<job, gate, update, lease, machine, spent>>
  PROVE  IInv'
<1> USE DEF IInv
<1>1. /\ worker' \in Workers /\ worker'.pc = "forget" /\ worker'.mode = worker.mode
      /\ worker'.tx = worker.tx /\ worker'.gen = worker.gen /\ worker'.next = worker.next
      /\ worker'.lease = worker.lease
      /\ UNCHANGED <<job, gate, update, lease, spent, profile, app, runtimes, work, hold, closes>>
  BY GotoMoves DEF Steps, machine
<1>2. ~gate.held
  BY DEF GateBars, Types, TypeOK
<1>3. worker.next # "settle"
  BY DEF WorkerInv, Settling
<1> QED BY <1>1, <1>2, <1>3 DEF Types, TypeOK, Jobs, Phases, Profiles, JobInv, Terminal,
     WorkerInv, InTransaction, Reopening, Settling, HoldInv, Loose, Serving, SentInv,
     OneServes, Unsent, SentToOwner, AppOf, ClosedInv, Reopened

\* The journal says what to do.
LEMMA RecoverDecides ==
  ASSUME IInv, worker.pc = "recover", Goto("decide"),
         UNCHANGED <<job, gate, update, lease, machine, spent>>
  PROVE  IInv'
<1> USE DEF IInv
<1>1. /\ worker' \in Workers /\ worker'.pc = "decide" /\ worker'.mode = worker.mode
      /\ worker'.tx = worker.tx /\ worker'.gen = worker.gen /\ worker'.next = worker.next
      /\ worker'.lease = worker.lease
      /\ UNCHANGED <<job, gate, update, lease, spent, profile, app, runtimes, work, hold, closes>>
  BY GotoMoves DEF Steps, machine
<1>2. /\ worker.tx \in Tx /\ worker.tx = job.tx /\ worker.mode = "recovery"
      /\ worker.next # "settle"
  BY DEF WorkerInv, InTransaction, Settling
<1> QED BY <1>1, <1>2 DEF Types, TypeOK, Jobs, Phases, Profiles, JobInv, Terminal,
     WorkerInv, InTransaction, Reopening, Settling, HoldInv, Loose, Serving, SentInv,
     OneServes, Unsent, SentToOwner, AppOf, ClosedInv, Reopened

LEMMA RecoverStep == ASSUME IInv, Recover PROVE IInv'
<1> USE DEF IInv
<1>1. /\ worker.pc = "recover"
      /\ (Spend("failures") => spent' \in Spending /\ spent'.txs = spent.txs)
      /\ spent \in Spending
  BY SpendTyped DEF Recover, At, Types
<1>2. worker.mode = "recovery"
  BY <1>1 DEF WorkerInv
<1>3. \/ Goto("attention") /\ UNCHANGED gate
      \/ ~GateBars(NoTx) /\ Goto("forget") /\ UNCHANGED gate
      \/ ~GateBars(worker.tx) /\ Goto("finish") /\ gate' = [tx |-> worker.tx, held |-> TRUE]
      \/ Goto("decide") /\ UNCHANGED gate
  BY DEF Recover, TakeGate
<1>4. UNCHANGED <<job, update, lease, machine, spent>>
  BY DEF Recover
<1>5. UNCHANGED <<profile, app, runtimes, work, hold, closes>>
  BY <1>4 DEF machine
<1> QED BY <1>1, <1>2, <1>3, <1>4, <1>5, GateTaken, GivesUp, RecoverForgets, RecoverDecides

LEMMA DecideStep == ASSUME IInv, Decide PROVE IInv'
<1> USE DEF IInv
<1>1. /\ worker.pc = "decide"
      /\ UNCHANGED <<job, gate, update, lease, spent, profile, app, runtimes, work, hold, closes>>
  BY DEF Decide, At, machine
<1>2. /\ worker.tx \in Tx /\ worker.tx = job.tx /\ worker.mode = "recovery"
      /\ worker.next # "settle"
  BY <1>1 DEF WorkerInv, InTransaction, Settling
<1>3. /\ worker' \in Workers /\ worker'.mode = worker.mode /\ worker'.tx = worker.tx
      /\ worker'.gen = worker.gen /\ worker'.pc \in {"resume", "release"}
      /\ worker'.next \in {worker.next, "guard"} /\ worker'.lease = worker.lease
  BY DEF Decide, Types, Workers, Steps
<1> QED BY <1>1, <1>2, <1>3 DEF Types, TypeOK, Jobs, Phases, Profiles, JobInv, Terminal,
     WorkerInv, InTransaction, Reopening, Settling, HoldInv, Loose, Serving, SentInv,
     OneServes, Unsent, SentToOwner, AppOf, ClosedInv, Reopened

LEMMA RecheckStep == ASSUME IInv, Recheck PROVE IInv'
<1> USE DEF IInv
<1>1. /\ worker.pc = "recheck"
      /\ UNCHANGED <<job, gate, update, lease, spent, profile, app, runtimes, work, hold, closes>>
  BY DEF Recheck, At, machine
<1>2. worker.tx \in Tx /\ worker.tx = job.tx
  BY <1>1 DEF WorkerInv, InTransaction
<1>3. /\ worker' \in Workers /\ worker'.mode = worker.mode /\ worker'.tx = worker.tx
      /\ worker'.gen = worker.gen /\ worker'.pc \in {"restore", "release"}
      /\ worker'.next = "attention" /\ worker'.lease = TRUE
  BY DEF Recheck, Types, Workers, Steps
<1> QED BY <1>1, <1>2, <1>3 DEF Types, TypeOK, Jobs, Phases, Profiles, JobInv, Terminal,
     WorkerInv, InTransaction, Reopening, Settling, HoldInv, Loose, Serving, SentInv,
     OneServes, Unsent, SentToOwner, AppOf, ClosedInv, Reopened

LEMMA ForgetStep == ASSUME IInv, Forget PROVE IInv'
<1> USE DEF IInv
<1>1. /\ worker.pc = "forget"
      /\ UNCHANGED <<gate, update, lease, spent, profile, app, runtimes, work, hold, closes>>
  BY DEF Forget, At, machine
<1>2. /\ ~gate.held
      /\ worker.next = "settle" => Reopened
      /\ job.phase \notin Terminal
  BY <1>1 DEF WorkerInv, ClosedInv, JobInv
<1>3. job'.phase = job.phase /\ job'.rec = NoTx /\ job'.tx = NoTx /\ job' \in Jobs
  BY DEF Forget, Types, TypeOK, Jobs, Phases
<1>4. /\ worker' \in Workers /\ worker'.pc \in {"settle", "guard"} /\ worker'.next = "attention"
      /\ worker'.lease = FALSE
      /\ worker'.pc = "settle" => worker.next = "settle"
  BY NoWorkerTyped DEF Forget, NoWorker, Workers, Steps
<1> QED BY <1>1, <1>2, <1>3, <1>4 DEF Types, TypeOK, Jobs, Phases, Profiles, JobInv,
     Terminal, WorkerInv, InTransaction, Reopening, Settling, HoldInv, Loose, Serving,
     SentInv, OneServes, Unsent, SentToOwner, AppOf, ClosedInv, Reopened

\* The settings launched are those wanted.
LEMMA SettlesComplete ==
  ASSUME IInv, worker.pc = "settle", Goto("complete"),
         UNCHANGED <<job, gate, update, lease, machine, spent>>
  PROVE  IInv'
<1> USE DEF IInv
<1>1. /\ worker' \in Workers /\ worker'.pc = "complete" /\ worker'.mode = worker.mode
      /\ worker'.tx = worker.tx /\ worker'.gen = worker.gen /\ worker'.next = worker.next
      /\ worker'.lease = worker.lease
      /\ UNCHANGED <<job, gate, update, lease, spent, profile, app, runtimes, work, hold, closes>>
  BY GotoMoves DEF Steps, machine
<1>2. ~gate.held /\ Reopened
  BY DEF WorkerInv, ClosedInv
<1> QED BY <1>1, <1>2 DEF Types, TypeOK, Jobs, Phases, Profiles, JobInv, Terminal,
     WorkerInv, InTransaction, Reopening, Settling, HoldInv, Loose, Serving, SentInv,
     OneServes, Unsent, SentToOwner, AppOf, ClosedInv, Reopened

LEMMA SettleStep == ASSUME IInv, Settle PROVE IInv'
<1> USE DEF IInv
<1>1. /\ worker.pc = "settle"
      /\ (Spend("failures") => spent' \in Spending /\ spent'.txs = spent.txs)
      /\ spent \in Spending
  BY SpendTyped DEF Settle, At, Types
<1> QED BY <1>1, WaitsAgain, SettlesComplete DEF Settle

LEMMA CompleteStep == ASSUME IInv, Complete PROVE IInv'
<1> USE DEF IInv
<1>1. /\ worker.pc = "complete" /\ job'.phase = "complete" /\ job'.tx = job.tx
      /\ job'.rec = job.rec /\ job' \in Jobs
      /\ UNCHANGED <<gate, update, lease, spent, profile, app, runtimes, work, hold, closes>>
  BY PhaseMoves DEF Complete, At, Phases, Terminal, machine
<1>2. ~gate.held /\ Reopened
  BY <1>1 DEF WorkerInv, ClosedInv, JobInv
<1>3. /\ worker' \in Workers /\ worker'.pc = "none" /\ worker'.next = "attention"
      /\ worker'.lease = FALSE
  BY NoWorkerTyped DEF Complete, NoWorker
<1> QED BY <1>1, <1>2, <1>3 DEF Types, TypeOK, Jobs, Phases, Profiles, JobInv, Terminal,
     WorkerInv, InTransaction, Reopening, Settling, HoldInv, Loose, Serving, SentInv,
     OneServes, Unsent, SentToOwner, AppOf, ClosedInv, Reopened

LEMMA AttentionStep == ASSUME IInv, Attention PROVE IInv'
<1> USE DEF IInv
<1>1. /\ worker.pc = "attention" /\ job'.phase = "attention" /\ job'.tx = job.tx
      /\ job'.rec = job.rec /\ job' \in Jobs
      /\ UNCHANGED <<gate, update, lease, spent, profile, app, runtimes, work, hold, closes>>
  BY PhaseMoves DEF Attention, At, Phases, Terminal, machine
<1>2. job.phase \notin Terminal
  BY <1>1 DEF WorkerInv, ClosedInv, JobInv
<1>3. /\ worker' \in Workers /\ worker'.pc = "none" /\ worker'.next = "attention"
      /\ worker'.lease = FALSE
  BY NoWorkerTyped DEF Attention, NoWorker
<1> QED BY <1>1, <1>2, <1>3 DEF Types, TypeOK, Jobs, Phases, Profiles, JobInv, Terminal,
     WorkerInv, InTransaction, Reopening, Settling, HoldInv, Loose, Serving, SentInv,
     OneServes, Unsent, SentToOwner, AppOf, ClosedInv, Reopened

----------------------------------------------------------------------------
\* The invariant, and what follows from it.

LEMMA InitInv == Init => IInv
<1> SUFFICES ASSUME Init PROVE IInv
  OBVIOUS
<1>1. 1 \in Gens /\ 1 \in Runtimes /\ 1 \in 1..MaxRevision /\ 1 \in Nat
  BY BoundsAssumption DEF Gens, Runtimes
<1>2. lease \in [Tx -> Leases] /\ \A tx \in Tx : lease[tx].entry = NoEntry
  BY NoLeaseTyped DEF Init, NoLease
<1>3. job \in Jobs /\ worker \in Workers
  BY NoJobTyped, NoWorkerTyped DEF Init
<1>4. NoEntry.gen = 0 /\ NoEntry.runtime = 0 /\ ~NoEntry.closed
  BY DEF NoEntry
<1>5. closes = 0
  BY DEF Init
<1>6. worker.pc = "none" /\ worker.next = "attention" /\ worker.lease = FALSE
  BY DEF Init, NoWorker
<1>7. job.phase = "none" /\ job.rec = NoTx /\ job.tx = NoTx
  BY DEF Init, NoJob
<1>8. Types
  <2>1. spent \in Spending /\ gate \in [tx : Tx \cup {NoTx}, held : BOOLEAN] /\ ~gate.held
    BY DEF Init, Spending
  <2>2. profile \in Profiles
    BY <1>1 DEF Init, Profiles
  <2> QED BY <1>1, <1>2, <1>3, <1>5, <2>1, <2>2 DEF Init, Profiles, Types, TypeOK, Jobs, Phases
<1>9. JobInv
  BY <1>6, <1>7 DEF Init, JobInv
<1>10. WorkerInv
  BY <1>6 DEF Init, WorkerInv, InTransaction, Reopening
<1>11. HoldInv
  BY <1>6 DEF Init, HoldInv, Loose, NoTx
<1>12. SentInv
  BY <1>1, <1>2, <1>4, <1>5, <1>6 DEF Init, SentInv, OneServes, Unsent
<1>13. ClosedInv
  BY <1>1, <1>2, <1>4, <1>6, <1>7 DEF Init, ClosedInv, Reopened
<1> QED BY <1>8, <1>9, <1>10, <1>11, <1>12, <1>13 DEF IInv

LEMMA NextInv == IInv /\ [Next]_vars => IInv'
<1> SUFFICES ASSUME IInv, [Next]_vars PROVE IInv'
  OBVIOUS
<1>1. CASE Schedule
  BY <1>1, ScheduleStep
<1>2. CASE Step \/ Guard \/ Observe
  BY <1>2, StepStep, GuardStep, ObserveStep
<1>3. CASE Acquire
  BY <1>3, BeginStep, JournalStep, PinStep, AskStep, TokenStep, VerifyStep DEF Acquire
<1>4. CASE Close
  BY <1>4, ClosingStep, DrainStep, SendCloseStep, AwaitExitStep, FinishStep, ExitedStep DEF Close
<1>5. CASE Reopen
  BY <1>5, OpeningStep, RestoreStep, ShowStep, ReadyStep DEF Reopen
<1>6. CASE Release
  BY <1>6, ReleaseSettledStep, ReleaseStaysStep, ReleaseAskStep, ReleasedStep, FreeStep
     DEF Release
<1>7. CASE Recovery
  BY <1>7, RecoverStep, DecideStep, ResumeStep, RecheckStep, ForgetStep DEF Recovery
<1>8. CASE Settle \/ Complete \/ Attention
  BY <1>8, SettleStep, CompleteStep, AttentionStep
<1>9. CASE Environment
  BY <1>9, SetPolicyStep, AppExitsStep, RuntimeExitsStep, RuntimeDiesStep,
     RuntimeReplacedStep, WorkBeginsStep, WorkEndsStep,
     UserLaunchStep, UpdateBeginsStep, UpdateEndsStep, CrashStep DEF Environment
<1>10. CASE UNCHANGED vars
  BY <1>10 DEF vars, IInv, Types, TypeOK, Jobs, Phases, Profiles, JobInv, Terminal, WorkerInv,
     InTransaction, Reopening, Settling, HoldInv, Loose, Serving, SentInv, OneServes, Unsent,
     SentToOwner, AppOf, ClosedInv, Reopened
<1> QED BY <1>1, <1>2, <1>3, <1>4, <1>5, <1>6, <1>7, <1>8, <1>9, <1>10 DEF Next, Work

LEMMA Inductive == Spec => []IInv
BY InitInv, NextInv, PTL DEF Spec

\* The state keeps its types, and a gate that is held has an owner.
THEOREM TypeCorrect == Spec => []TypeOK
BY Inductive, PTL DEF IInv, Types

\* No close is sent again while the runtime lives that the first was proven
\* against (recover_profile_restart), however many transactions, launches,
\* runtimes, deaths and failures there are.
THEOREM NoCloseReplayed == Spec => []CloseSentOnce
<1>1. IInv => CloseSentOnce
  BY DEF IInv, SentInv, CloseSentOnce
<1> QED BY <1>1, Inductive, PTL

\* A held gate belongs to a job the next request recovers, a proxy held by the
\* journal that names it to the holder of the gate, and a job is complete only
\* when what was closed was launched again (schedule, release_maintenance,
\* _complete_or_wait).
THEOREM NothingIsForgotten == Spec => []NothingForgotten
<1>1. IInv => NothingForgotten
  BY EntryOf DEF IInv, Types, TypeOK, JobInv, HoldInv, Loose, ClosedInv, Reopened, NothingForgotten
<1> QED BY <1>1, Inductive, PTL

\* An application is asked to close, or stopped, only while its runtime is
\* empty and held and the gate is the restart's own (close_instance,
\* _finish_requested_idle_exit).
THEOREM EndsIdle == Spec => EndsIdleOnly
<1> DEFINE Idles ==
      LET e == Entry(worker.tx)
          asks == At("send") /\ closes' > closes /\ e.runtime \in runtimes
          stops == At("finish") /\ worker'.pc = "exited"
      IN (asks \/ stops) /\ AppOf(e.gen)
           => work = "none" /\ hold = worker.tx /\ HeldFor(worker.tx)
<1>1. IInv /\ [Next]_vars => [Idles]_vars
  <2> SUFFICES ASSUME IInv, Next PROVE Idles
    BY DEF IInv
  <2>1. CASE At("send")
    <3>1. /\ worker.tx \in Tx /\ Entry(worker.tx) = lease[worker.tx].entry
          /\ gate.held /\ gate.tx = worker.tx
      BY <2>1, EntryOf DEF IInv, At, WorkerInv, JobInv, InTransaction
    <3>2. AppOf(lease[worker.tx].entry.gen) /\ lease[worker.tx].entry.runtime \in runtimes
            => work = "none" /\ hold = worker.tx
      BY <2>1 DEF IInv, At, SentInv
    <3>3. ~At("finish")
      BY <2>1 DEF At
    <3> QED BY <3>1, <3>2, <3>3 DEF HeldFor
  <2>2. CASE At("finish") /\ worker'.pc = "exited"
    <3>1. Finish
      <4>1. CASE Environment
        BY <2>2, <4>1 DEF At, Environment, SetPolicy, AppExits, RuntimeExits, RuntimeDies,
           RuntimeReplaced, WorkBegins, WorkEnds, UserLaunch, UpdateBegins, UpdateEnds, Crash,
           NoWorker
      <4>2. CASE Acquire \/ Reopen \/ Step \/ Guard \/ Observe
        BY <2>2, <4>2 DEF At, Acquire, Begin, Journal, Pin, Ask, Token, Verify, Reopen, Opening,
           Restore, Show, Ready, Step, Guard, Observe
      <4>3. CASE Close
        BY <2>2, <4>3 DEF At, Close, Closing, Drain, SendClose, AwaitExit, Exited
      <4>4. CASE Release \/ Recovery
        BY <2>2, <4>4 DEF At, Release, ReleaseSettled, ReleaseStays, ReleaseAsk, Released,
           Free, Recovery, Recover, Decide, Resume, Recheck, Forget
      <4>5. CASE Schedule \/ Settle \/ Complete \/ Attention
        BY <2>2, <4>5 DEF At, Schedule, ScheduleAs, Settle, Complete, Attention
      <4> QED BY <4>1, <4>2, <4>3, <4>4, <4>5 DEF Next, Work
    <3>2. ~Fails /\ ~At("send")
      BY <2>2, FailsMoves DEF IInv, At
    <3>3. HeldFor(worker.tx) /\ hold = worker.tx /\ work = "none"
      BY <3>1, <3>2 DEF Finish
    <3> QED BY <3>2, <3>3
  <2> QED BY <2>1, <2>2
<1> QED BY <1>1, Inductive, PTL DEF Spec, EndsIdleOnly
=============================================================================

-------------------------- MODULE UsageContinuation --------------------------
(***************************************************************************)
(* Automatic continuation of a task that stopped at an account's usage     *)
(* limit (scripts/manager_core/usage_continuation.py).  Whoever observes   *)
(* the stopped turn drops a file into an inbox; the backend turns each     *)
(* file into a scheduled entry of a table it saves, and when the entry is  *)
(* due sends one fixed message into the task.                              *)
(*                                                                         *)
(* One task.  Its turns are numbered in the order they start, so a stop is *)
(* known by the number of its turn.  Whether an entry is due, its profile  *)
(* still allows it and its usage window reads exhausted is left open.  The *)
(* message of a chain always stops again within CHAIN_WINDOW of sending.   *)
(***************************************************************************)
EXTENDS Naturals, FiniteSets

CONSTANTS
  MaxTurns,    \* bound on the turns of the task
  MaxAttempts, \* MAX_ATTEMPTS
  MaxEntries,  \* MAX_ENTRIES
  MaxCrashes,  \* bound on the restarts of the backend
  MaxFailures, \* bound on the saves that fail
  NoEntry

Turns == 1 .. MaxTurns

(* attempts passes MAX_ATTEMPTS by one when a reschedule, or a stop that   *)
(* inherits, gives up; by two when a continuation's entry that gave up     *)
(* after a restart is inherited from once more.                            *)
Entry == [status : {"scheduled", "sent", "skipped"},
          attempts : 0 .. MaxAttempts + 2, sentTurn : 0 .. MaxTurns]

ASSUME ContinuationConstants ==
  /\ {MaxTurns, MaxAttempts, MaxCrashes, MaxFailures} \subseteq Nat
  /\ MaxEntries \in Nat \ {0}
  /\ NoEntry \notin Entry

VARIABLES
  turn,     \* the turns so far: how each ended, and the stop it continues (0: the user's)
  inbox,    \* stops with a file in the inbox
  entries,  \* the table in memory
  disk,     \* the table as last saved
  ingest,   \* "free", or an ingest has the lock: it added nothing yet, or something
  job,      \* what the scheduler's thread is doing
  flight,   \* the stops whose message is on its way to the runtime
  reply,    \* the turn the runtime answered with, or 0
  crashes, failures

vars == <<turn, inbox, entries, disk, ingest, job, flight, reply, crashes, failures>>

Turn == [state : {"active", "limit", "done"}, of : 0 .. MaxTurns]

(* stage; the stop it works on; whether the table still has the entry it   *)
(* works on (an entry may be dropped meanwhile).                           *)
Idle == [stage |-> "idle", stop |-> 0, kept |-> TRUE]
Job == [stage : {"idle", "reading", "sending", "answered"}, stop : 0 .. MaxTurns, kept : BOOLEAN]

TypeOK ==
  /\ turn \in UNION {[1 .. n -> Turn] : n \in 0 .. MaxTurns}
  /\ inbox \subseteq Turns
  /\ entries \in [Turns -> Entry \cup {NoEntry}]
  /\ disk \in [Turns -> Entry \cup {NoEntry}]
  /\ ingest \in {"free", "seen", "added"}
  /\ job \in Job
  /\ flight \subseteq Turns
  /\ reply \in 0 .. MaxTurns
  /\ crashes \in 0 .. MaxCrashes /\ failures \in 0 .. MaxFailures

Newest == Cardinality(DOMAIN turn)
Running == Newest > 0 /\ turn[Newest].state = "active"
Started(of) == [t \in 1 .. Newest + 1 |->
                  IF t <= Newest THEN turn[t] ELSE [state |-> "active", of |-> of]]

----------------------------------------------------------------------------
(* The task, its user, and those who watch its events.                     *)

UserTurn ==
  /\ ~Running /\ Newest < MaxTurns
  /\ turn' = Started(0)
  /\ UNCHANGED <<inbox, entries, disk, ingest, job, flight, reply, crashes, failures>>

TurnEnds ==
  /\ Running
  /\ \E state \in {"limit", "done"} : turn' = [turn EXCEPT ![Newest].state = state]
  /\ UNCHANGED <<inbox, entries, disk, ingest, job, flight, reply, crashes, failures>>

(* The runtime starts the message that was sent, in an idle task.          *)
StartContinuation ==
  /\ ~Running /\ Newest < MaxTurns
  /\ \E k \in flight :
       /\ turn' = Started(k)
       /\ reply' = IF job.stage = "sending" /\ job.stop = k THEN Newest + 1 ELSE reply
       /\ flight' = flight \ {k}
  /\ UNCHANGED <<inbox, entries, disk, ingest, job, crashes, failures>>

(* record_stops: the events of a stopped turn may be seen more than once.  *)
Record(t) ==
  /\ t \in DOMAIN turn /\ turn[t].state = "limit"
  /\ t \notin inbox
  /\ inbox' = inbox \cup {t}
  /\ UNCHANGED <<turn, entries, disk, ingest, job, flight, reply, crashes, failures>>

----------------------------------------------------------------------------
(* The table.                                                              *)

Present(table) == {t \in Turns : table[t] # NoEntry}
Decided(table) == {t \in Present(table) : table[t].status # "scheduled"}

(* Decided entries may be too old to retain (all of them or none, here);   *)
(* above MAX_ENTRIES the least recently changed ones go, scheduled or not. *)
(* No message is on its way for as long as either takes.                   *)
Pruned(table) ==
  LET room == Cardinality(Present(table)) <= MaxEntries
      dropped == {D \in SUBSET (Present(table) \ flight) :
                    \/ D = Decided(table) \ flight
                    \/ room /\ D = {}
                    \/ Cardinality(Present(table) \ D) = MaxEntries}
  IN {[t \in Turns |-> IF t \in D THEN NoEntry ELSE table[t]] :
        D \in {D \in dropped : Cardinality(Present(table) \ D) <= MaxEntries}}

(* _save: the table is pruned, and written unless that fails.              *)
Save(table) ==
  /\ entries' \in Pruned(table)
  /\ \/ disk' = entries' /\ UNCHANGED failures
     \/ failures < MaxFailures /\ failures' = failures + 1 /\ UNCHANGED disk

Busy(j) == [j EXCEPT !.kept = @ /\ (j.stop = 0 \/ entries'[j.stop] # NoEntry)]

(* _add: a stop that has an entry is left alone.  A stop of the turn a     *)
(* continuation started carries the count of attempts on.  The profile may *)
(* not allow it, or the reset be unknown.                                  *)
Inherited(t) ==
  LET before == {s \in Present(entries) : entries[s].sentTurn = t} IN
  IF before = {} THEN 0 ELSE entries[CHOOSE s \in before : TRUE].attempts + 1

(* Mutant: a stop that is seen again is scheduled again.                   *)
AddedAgain(t, status) ==
  [entries EXCEPT ![t] = [status |-> status, attempts |-> Inherited(t), sentTurn |-> 0]]

Added(t, status) ==
  IF entries[t] # NoEntry THEN entries
  ELSE [entries EXCEPT ![t] = [status |-> status, attempts |-> Inherited(t),
                               sentTurn |-> 0]]

(* ingest, one file at a time, under the lock: added to the table, unless  *)
(* it cannot be read, and unlinked, unless that fails.                     *)
Ingest(t) ==
  /\ t \in inbox
  /\ \/ \E status \in {"scheduled", "skipped"} :
          /\ status = "scheduled" => Inherited(t) <= MaxAttempts
          /\ entries' = Added(t, status)
          /\ ingest' = IF entries[t] = NoEntry \/ ingest = "added" THEN "added" ELSE "seen"
     \/ UNCHANGED entries /\ ingest' = IF ingest = "added" THEN ingest ELSE "seen"
  /\ inbox' \in {inbox, inbox \ {t}}
  /\ UNCHANGED <<turn, disk, job, flight, reply, crashes, failures>>

(* The table is saved once, after the last file, if anything was added.    *)
EndIngest ==
  /\ \/ ingest = "added" /\ Save(entries)
     \/ ingest = "seen" /\ UNCHANGED <<entries, disk, failures>>
  /\ job' = Busy(job)
  /\ ingest' = "free"
  /\ UNCHANGED <<turn, inbox, flight, reply, crashes>>

----------------------------------------------------------------------------
(* The scheduler's thread.  Entries that are due at once are processed one *)
(* after the other.                                                        *)

With(k, status) == [entries EXCEPT ![k].status = status]

(* Mutant: the limit is not compared with.                                 *)
RescheduleEndless(k) ==
  /\ Save([entries EXCEPT ![k].attempts = @ + 1])
  /\ UNCHANGED job

(* Still exhausted at the reset: another reset is waited for, at most      *)
(* MAX_ATTEMPTS times.                                                     *)
Reschedule(k) ==
  LET attempts == entries[k].attempts + 1 IN
  /\ Save([entries EXCEPT
       ![k].attempts = attempts,
       ![k].status = IF attempts > MaxAttempts THEN "skipped" ELSE @])
  /\ UNCHANGED job

(* Overdue, or no longer wanted.                                           *)
Skip(k) == Save(With(k, "skipped")) /\ UNCHANGED job

Take(k) ==
  /\ job' = [stage |-> "reading", stop |-> k, kept |-> TRUE]
  /\ UNCHANGED <<entries, disk, failures>>

Process(k) ==
  /\ job.stage = "idle" /\ ingest = "free"
  /\ entries[k] # NoEntry /\ entries[k].status = "scheduled"
  /\ Reschedule(k) \/ Skip(k) \/ Take(k)
  /\ UNCHANGED <<turn, inbox, ingest, flight, reply, crashes>>

(* _settle, on the entry the thread has in hand; one that was dropped from *)
(* the table stays out of it.                                              *)
Settle(status) ==
  /\ ingest = "free"
  /\ Save(IF job.kept THEN With(job.stop, status) ELSE entries)
  /\ job' = Idle

(* The runtime cannot be reached: the entry is tried again in a later      *)
(* pass, for CLOSED_GRACE.  The first wait is saved.                       *)
Wait ==
  /\ job.stage = "reading" /\ ingest = "free"
  /\ job' = Idle
  /\ Save(entries) \/ UNCHANGED <<entries, disk, failures>>
  /\ UNCHANGED <<turn, inbox, ingest, flight, reply, crashes>>

Untouched(k) == Newest = k /\ turn[k].state = "limit"

(* Mutant: the wait for the runtime has no limit.                          *)
GiveUpNever ==
  /\ job.stage = "reading" /\ ingest = "free"
  /\ job' = Idle
  /\ UNCHANGED <<turn, inbox, entries, disk, ingest, flight, reply, crashes, failures>>

(* The task runs, or its newest turn is not the stopped one any more, or   *)
(* the runtime stayed away, or its answer cannot be used.                  *)
GiveUp ==
  /\ job.stage = "reading"
  /\ Settle("skipped")
  /\ UNCHANGED <<turn, inbox, ingest, flight, reply, crashes>>

(* Mutant: only a running task is left alone.                              *)
SendWhenIdle ==
  /\ job.stage = "reading" /\ ~Running
  /\ flight' = flight \cup {job.stop} /\ reply' = 0
  /\ job' = [job EXCEPT !.stage = "sending"]
  /\ UNCHANGED <<turn, inbox, entries, disk, ingest, crashes, failures>>

Send ==
  /\ job.stage = "reading" /\ Untouched(job.stop)
  /\ flight' = flight \cup {job.stop} /\ reply' = 0
  /\ job' = [job EXCEPT !.stage = "sending"]
  /\ UNCHANGED <<turn, inbox, entries, disk, ingest, crashes, failures>>

(* The answer names the turn.  It is noted first, and saved with the       *)
(* decision, which takes the lock again.                                   *)
Answered ==
  /\ job.stage = "sending" /\ reply # 0 /\ ingest = "free"
  /\ entries' = IF job.kept THEN [entries EXCEPT ![job.stop].sentTurn = reply] ELSE entries
  /\ job' = [job EXCEPT !.stage = "answered"]
  /\ UNCHANGED <<turn, inbox, disk, ingest, flight, reply, crashes, failures>>

SettleSent ==
  /\ job.stage = "answered"
  /\ Settle("sent")
  /\ UNCHANGED <<turn, inbox, ingest, flight, reply, crashes>>

(* Refused, before or after it left, or no answer in time: the message may *)
(* still arrive, and is not sent again.                                    *)
Unanswered ==
  /\ job.stage = "sending"
  /\ Settle("skipped")
  /\ flight' \in {flight, flight \ {job.stop}}
  /\ UNCHANGED <<turn, inbox, ingest, reply, crashes>>

(* The backend is killed and started again.  A message on its way has      *)
(* arrived by then or does not any more.                                   *)
Crash ==
  /\ crashes < MaxCrashes
  /\ crashes' = crashes + 1
  /\ entries' = disk
  /\ job' = Idle /\ ingest' = "free"
  /\ flight' = {} /\ reply' = 0
  /\ UNCHANGED <<turn, inbox, disk, failures>>

----------------------------------------------------------------------------
Init ==
  /\ turn = <<>>
  /\ inbox = {}
  /\ entries = [t \in Turns |-> NoEntry] /\ disk = entries
  /\ ingest = "free"
  /\ job = Idle
  /\ flight = {} /\ reply = 0
  /\ crashes = 0 /\ failures = 0

Next ==
  \/ UserTurn \/ TurnEnds \/ StartContinuation
  \/ \E t \in Turns : Record(t) \/ Ingest(t) \/ Process(t)
  \/ EndIngest
  \/ Wait \/ GiveUp \/ Send \/ Answered \/ SettleSent \/ Unanswered
  \/ Crash

(* The thread passes over the table every few seconds, each time over all  *)
(* entries due; every request to a runtime has a time limit, and so has    *)
(* the wait of each entry for one; an ingest ends with its list of files.  *)
Fairness ==
  /\ WF_vars(EndIngest)
  /\ \A k \in Turns :
       /\ SF_vars(Process(k))
       /\ SF_vars(job.stop = k /\ (GiveUp \/ Send))
       /\ SF_vars(job.stop = k /\ (Answered \/ Unanswered))
       /\ SF_vars(job.stop = k /\ SettleSent)

Spec == Init /\ [][Next]_vars /\ Fairness

----------------------------------------------------------------------------
(* A stop is continued at most once, whatever is lost, repeated or         *)
(* restarted: sends of unknown outcome, stops seen again, tables not       *)
(* saved, entries dropped and added anew.                                  *)
ContinuedOnce ==
  \A t, u \in DOMAIN turn : turn[t].of # 0 /\ turn[t].of = turn[u].of => t = u

(* A stop that was decided is not scheduled again while its entry is kept, *)
(* unless the backend died before the decision was saved.                  *)
DecidedForGood ==
  [][\A k \in Turns :
       /\ k \in Decided(entries) /\ entries'[k] # NoEntry
       /\ entries'[k].status = "scheduled"
       => crashes' > crashes /\ disk[k] = entries'[k]]_vars

(* Every stop that was scheduled is decided: a limit that stays exhausted, *)
(* a profile that stays closed and a send that is never answered end too.  *)
EveryStopDecided ==
  \A k \in Turns :
    k \in Present(entries) \ Decided(entries) ~> k \notin Present(entries) \ Decided(entries)

(* usage_continuation.py:8, "schedules one continuation per stop [...],    *)
(* persists it": a restart finds every scheduled stop again, in the saved  *)
(* table or still in the inbox.                                            *)
StopSurvivesRestart ==
  [][crashes' > crashes =>
       \A k \in Present(entries) \ Decided(entries) :
         disk[k] # NoEntry \/ k \in inbox]_vars

=============================================================================

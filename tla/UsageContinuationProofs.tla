----------------------- MODULE UsageContinuationProofs -----------------------
(***************************************************************************)
(* Proofs about UsageContinuation, for any bounds: a task of any length, a *)
(* table of any size, any number of restarts and of saves that fail.       *)
(*                                                                         *)
(* A stop is continued at most once because a message is only sent while   *)
(* the stop is the newest turn, so that no turn continues it yet, and a    *)
(* message on its way is used up by the turn it starts.  The table plays   *)
(* no part in that: it may forget or repeat whatever it likes.             *)
(***************************************************************************)
EXTENDS UsageContinuation, FiniteSetTheorems, TLAPS

(* A turn continues only an earlier one.                                   *)
Later == \A t \in DOMAIN turn : turn[t].of < t

(* No turn continues a stop whose message is still on its way.             *)
OnItsWay == \A k \in flight : k <= Newest /\ \A t \in DOMAIN turn : turn[t].of # k

TurnsOK ==
  /\ turn \in UNION {[1 .. n -> Turn] : n \in 0 .. MaxTurns}
  /\ flight \subseteq Turns /\ reply \in 0 .. MaxTurns
  /\ Later /\ OnItsWay /\ ContinuedOnce

(* What is still scheduled has attempts left, and an entry that names the  *)
(* turn its message started gave up at most once since.                    *)
Sane(table) ==
  /\ table \in [Turns -> Entry \cup {NoEntry}]
  /\ \A k \in Present(table) :
       /\ table[k].status = "scheduled" => table[k].attempts <= MaxAttempts
       /\ table[k].sentTurn # 0 => table[k].attempts <= MaxAttempts + 1

(* The entry the thread has in hand is scheduled for as long as the table  *)
(* has it.                                                                 *)
InHand ==
  job.stage # "idle" =>
    /\ job.stop \in Turns
    /\ job.kept => job.stop \in Present(entries) /\ entries[job.stop].status = "scheduled"

TablesOK ==
  /\ Sane(entries) /\ Sane(disk) /\ job \in Job /\ InHand
  /\ inbox \subseteq Turns /\ ingest \in {"free", "seen", "added"}
  /\ crashes \in 0 .. MaxCrashes /\ failures \in 0 .. MaxFailures

IInv == TurnsOK /\ TablesOK

----------------------------------------------------------------------------
(* The turns.                                                              *)

LEMMA Constants ==
  /\ {MaxTurns, MaxAttempts, MaxCrashes, MaxFailures} \subseteq Nat
  /\ NoEntry \notin Entry
BY ContinuationConstants

LEMMA Length ==
  ASSUME NEW f, NEW n \in Nat, f \in [1 .. n -> Turn]
  PROVE  DOMAIN f = 1 .. n /\ Cardinality(DOMAIN f) = n
<1>1. Cardinality(1 .. n) = n
  BY FS_Interval
<1> QED BY <1>1

LEMMA TurnsAreNumbered ==
  ASSUME TurnsOK
  PROVE  /\ Newest \in 0 .. MaxTurns /\ DOMAIN turn = 1 .. Newest
         /\ turn \in [1 .. Newest -> Turn]
<1>1. PICK n \in 0 .. MaxTurns : turn \in [1 .. n -> Turn]
  BY DEF TurnsOK
<1>2. n \in Nat
  BY Constants
<1>3. DOMAIN turn = 1 .. n /\ Newest = n
  BY <1>1, <1>2, Length DEF Newest
<1> QED BY <1>1, <1>3

LEMMA SameTurns == ASSUME TurnsOK, UNCHANGED <<turn, flight, reply>> PROVE TurnsOK'
BY DEF TurnsOK, Later, OnItsWay, ContinuedOnce, Newest

(* A new turn of the user, or of a message that was on its way.            *)
LEMMA TurnStarts ==
  ASSUME TurnsOK, Newest < MaxTurns, NEW k \in flight \cup {0}, turn' = Started(k),
         flight' = flight \ {k}, reply' \in 0 .. MaxTurns
  PROVE  TurnsOK'
<1> DEFINE n == Newest
<1>1. n \in Nat /\ MaxTurns \in Nat /\ n + 1 \in 0 .. MaxTurns /\ DOMAIN turn = 1 .. n
      /\ turn \in [1 .. n -> Turn]
  BY TurnsAreNumbered, Constants
<1>2. k \in 0 .. n /\ \A t \in 1 .. n : turn[t].of # k \/ k = 0
  BY <1>1 DEF TurnsOK, OnItsWay, Turns
<1>3. [state |-> "active", of |-> k] \in Turn
  BY <1>1, <1>2 DEF Turn
<1>4. /\ turn' \in [1 .. n + 1 -> Turn] /\ turn'[n + 1].of = k
      /\ \A t \in 1 .. n : turn'[t] = turn[t]
  BY <1>1, <1>3 DEF Started
<1>5. DOMAIN turn' = 1 .. n + 1 /\ Newest' = n + 1
  BY <1>1, <1>4, Length DEF Newest
<1>6. \A t \in DOMAIN turn' : t = n + 1 \/ t \in 1 .. n
  BY <1>1, <1>5
<1> HIDE DEF n
<1>7. turn' \in UNION {[1 .. m -> Turn] : m \in 0 .. MaxTurns}
  BY <1>1, <1>4
<1>8. Later'
  BY <1>1, <1>2, <1>4, <1>6 DEF TurnsOK, Later
<1>9. OnItsWay'
  <2> SUFFICES ASSUME NEW s \in flight' PROVE s <= n + 1 /\ \A t \in DOMAIN turn' : turn'[t].of # s
    BY <1>5 DEF OnItsWay
  <2>1. s \in flight /\ s # k /\ s \in Nat
    BY DEF TurnsOK, Turns
  <2>2. s <= n /\ \A t \in 1 .. n : turn[t].of # s
    BY <1>1, <2>1 DEF TurnsOK, OnItsWay, n
  <2> QED BY <1>1, <1>4, <1>6, <2>1, <2>2
<1>10. ContinuedOnce'
  <2> SUFFICES ASSUME NEW t \in DOMAIN turn', NEW u \in DOMAIN turn',
                      turn'[t].of # 0, turn'[t].of = turn'[u].of
               PROVE  t = u
    BY DEF ContinuedOnce
  <2>1. CASE t \in 1 .. n /\ u \in 1 .. n
    BY <1>1, <1>4, <2>1 DEF TurnsOK, ContinuedOnce
  <2>2. CASE t = n + 1 /\ u \in 1 .. n
    BY <1>2, <1>4, <2>2
  <2>3. CASE u = n + 1 /\ t \in 1 .. n
    BY <1>2, <1>4, <2>3
  <2> QED BY <1>6, <2>1, <2>2, <2>3
<1>11. flight' \subseteq Turns
  BY DEF TurnsOK
<1> QED BY <1>7, <1>8, <1>9, <1>10, <1>11 DEF TurnsOK

LEMMA TurnFinishes ==
  ASSUME TurnsOK, TurnEnds
  PROVE  TurnsOK'
<1>1. PICK state \in {"limit", "done"} : turn' = [turn EXCEPT ![Newest].state = state]
  BY DEF TurnEnds
<1>2. turn \in [1 .. Newest -> Turn] /\ Newest \in 0 .. MaxTurns /\ DOMAIN turn = 1 .. Newest
  BY TurnsAreNumbered
<1>3. \A t \in 1 .. Newest : [turn[t] EXCEPT !.state = state] \in Turn
                             /\ [turn[t] EXCEPT !.state = state].of = turn[t].of
  BY <1>2 DEF Turn
<1>4. /\ turn' \in [1 .. Newest -> Turn] /\ DOMAIN turn' = DOMAIN turn
      /\ \A t \in DOMAIN turn : turn'[t].of = turn[t].of
  BY <1>1, <1>2, <1>3
<1>5. Newest' = Newest
  BY <1>4 DEF Newest
<1>6. turn' \in UNION {[1 .. n -> Turn] : n \in 0 .. MaxTurns}
  BY <1>2, <1>4
<1>7. Later' /\ OnItsWay' /\ ContinuedOnce'
  BY <1>4, <1>5 DEF TurnsOK, Later, OnItsWay, ContinuedOnce, TurnEnds
<1> QED BY <1>6, <1>7 DEF TurnsOK, TurnEnds

(* A message goes out for the newest turn, which nothing continues yet.    *)
LEMMA MessageLeaves ==
  ASSUME TurnsOK, NEW k \in Turns, Untouched(k), UNCHANGED turn, flight' = flight \cup {k},
         reply' = 0
  PROVE  TurnsOK'
<1>1. \A t \in DOMAIN turn : turn[t].of # k
  BY TurnsAreNumbered DEF TurnsOK, Later, Untouched, Turns, Turn
<1>2. Newest' = Newest /\ k = Newest /\ Newest \in Nat
  BY TurnsAreNumbered DEF Newest, Untouched
<1>3. OnItsWay'
  BY <1>1, <1>2 DEF TurnsOK, OnItsWay
<1> QED BY <1>3, Constants DEF TurnsOK, Later, ContinuedOnce

LEMMA MessageLost ==
  ASSUME TurnsOK, UNCHANGED turn, flight' \subseteq flight, reply' \in {reply, 0}
  PROVE  TurnsOK'
<1>1. OnItsWay'
  BY DEF TurnsOK, OnItsWay, Newest
<1> QED BY <1>1, Constants DEF TurnsOK, Later, ContinuedOnce

----------------------------------------------------------------------------
(* The tables.                                                             *)

(* Pruning keeps an entry as it is, or drops it.                           *)
LEMMA PrunedEntries ==
  ASSUME NEW table, NEW kept \in Pruned(table)
  PROVE  kept = [k \in Turns |-> kept[k]] /\ \A k \in Turns : kept[k] \in {NoEntry, table[k]}
<1>1. PICK D \in SUBSET (Present(table) \ flight) :
        kept = [k \in Turns |-> IF k \in D THEN NoEntry ELSE table[k]]
  BY DEF Pruned
<1> QED BY <1>1

LEMMA SaneWhenFewer ==
  ASSUME NEW table, Sane(table), NEW fewer, fewer = [k \in Turns |-> fewer[k]],
         \A k \in Turns : fewer[k] \in {NoEntry, table[k]}
  PROVE  Sane(fewer)
<1>1. fewer \in [Turns -> Entry \cup {NoEntry}]
  BY DEF Sane
<1> QED BY <1>1 DEF Sane, Present

LEMMA SaveKeeps ==
  ASSUME TablesOK, NEW table, Sane(table), Save(table)
  PROVE  /\ Sane(entries') /\ Sane(disk') /\ failures' \in 0 .. MaxFailures
         /\ \A k \in Turns : entries'[k] \in {NoEntry, table[k]}
<1>1. entries' = [k \in Turns |-> entries'[k]] /\ \A k \in Turns : entries'[k] \in {NoEntry, table[k]}
  BY PrunedEntries DEF Save
<1>2. Sane(entries')
  BY <1>1, SaneWhenFewer
<1>3. disk' \in {entries', disk} /\ failures' \in 0 .. MaxFailures
  BY Constants DEF TablesOK, Save
<1> QED BY <1>1, <1>2, <1>3 DEF TablesOK

LEMMA EntryFields ==
  ASSUME NEW e \in Entry
  PROVE  /\ e # NoEntry /\ e.attempts \in 0 .. MaxAttempts + 2
         /\ e.status \in {"scheduled", "sent", "skipped"} /\ e.sentTurn \in 0 .. MaxTurns
         /\ \A s \in {"scheduled", "sent", "skipped"} : [e EXCEPT !.status = s] \in Entry
         /\ \A t \in 0 .. MaxTurns : [e EXCEPT !.sentTurn = t] \in Entry
         /\ \A n \in 0 .. MaxAttempts + 2, s \in {"scheduled", "sent", "skipped"} :
              [e EXCEPT !.attempts = n, !.status = s] \in Entry
BY Constants DEF Entry

(* One entry of a sane table is replaced by another sane one.              *)
LEMMA SaneWithEntry ==
  ASSUME NEW table, Sane(table), NEW k \in Turns, NEW e \in Entry,
         e.status = "scheduled" => e.attempts <= MaxAttempts,
         e.sentTurn # 0 => e.attempts <= MaxAttempts + 1
  PROVE  Sane([table EXCEPT ![k] = e])
<1> DEFINE new == [table EXCEPT ![k] = e]
<1>1. new \in [Turns -> Entry \cup {NoEntry}]
  BY DEF Sane
<1>2. \A j \in Turns : new[j] = IF j = k THEN e ELSE table[j]
  BY DEF Sane
<1> HIDE DEF new
<1>3. Sane(new)
  BY <1>1, <1>2 DEF Sane, Present
<1> QED BY <1>3 DEF new

LEMMA SaneEntry ==
  ASSUME NEW table, Sane(table), NEW k \in Present(table)
  PROVE  /\ k \in Turns /\ table[k] \in Entry
         /\ table[k].status = "scheduled" => table[k].attempts <= MaxAttempts
         /\ table[k].sentTurn # 0 => table[k].attempts <= MaxAttempts + 1
BY DEF Sane, Present

LEMMA InheritedBounded ==
  ASSUME Sane(entries), NEW t \in Turns
  PROVE  Inherited(t) \in 0 .. MaxAttempts + 2
<1> DEFINE before == {s \in Present(entries) : entries[s].sentTurn = t}
<1>1. CASE before = {}
  BY <1>1, Constants DEF Inherited
<1>2. CASE before # {}
  <2> DEFINE s == CHOOSE u \in before : TRUE
  <2>1. s \in before
    BY <1>2
  <2>2. Inherited(t) = entries[s].attempts + 1
    BY <1>2 DEF Inherited
  <2> HIDE DEF s
  <2>3. s \in Present(entries) /\ entries[s].sentTurn # 0
    BY <2>1 DEF Turns
  <2>4. entries[s].attempts \in 0 .. MaxAttempts + 2 /\ entries[s].attempts <= MaxAttempts + 1
    BY <2>3, SaneEntry, EntryFields
  <2> QED BY <2>2, <2>4, Constants
<1> QED BY <1>1, <1>2

(* A stop is added only where the table has none.                          *)
LEMMA AddedKeeps ==
  ASSUME Sane(entries), NEW t \in Turns, NEW status \in {"scheduled", "skipped"},
         status = "scheduled" => Inherited(t) <= MaxAttempts
  PROVE  /\ Sane(Added(t, status))
         /\ \A k \in Present(entries) : Added(t, status)[k] = entries[k]
<1>1. CASE entries[t] # NoEntry
  BY <1>1 DEF Added
<1>2. CASE entries[t] = NoEntry
  <2> DEFINE e == [status |-> status, attempts |-> Inherited(t), sentTurn |-> 0]
  <2>1. /\ e \in Entry /\ e.sentTurn = 0 /\ e.status = status /\ e.attempts = Inherited(t)
        /\ Added(t, status) = [entries EXCEPT ![t] = e]
    BY <1>2, InheritedBounded, Constants DEF Entry, Added
  <2>2. t \notin Present(entries) /\ Present(entries) \subseteq Turns
    BY <1>2 DEF Present
  <2> HIDE DEF e
  <2>3. Sane([entries EXCEPT ![t] = e])
    BY <2>1, SaneWithEntry
  <2> QED BY <2>1, <2>2, <2>3 DEF Sane
<1> QED BY <1>1, <1>2

(* Deciding a scheduled entry leaves the others alone.                     *)
LEMMA WithKeeps ==
  ASSUME Sane(entries), NEW k \in Present(entries), entries[k].status = "scheduled",
         NEW status \in {"sent", "skipped"}
  PROVE  /\ Sane(With(k, status)) /\ With(k, status)[k].status = status
         /\ \A j \in Turns \ {k} : With(k, status)[j] = entries[j]
<1> DEFINE e == [entries[k] EXCEPT !.status = status]
<1>1. entries[k] \in Entry /\ k \in Turns /\ entries \in [Turns -> Entry \cup {NoEntry}]
  BY SaneEntry DEF Sane
<1>2. /\ e \in Entry /\ e.status = status /\ e.sentTurn = entries[k].sentTurn
      /\ e.attempts = entries[k].attempts
  BY <1>1 DEF Entry
<1>3. With(k, status) = [entries EXCEPT ![k] = e]
  BY DEF With
<1> HIDE DEF e
<1>4. /\ entries[k].status = "scheduled" => entries[k].attempts <= MaxAttempts
      /\ entries[k].sentTurn # 0 => entries[k].attempts <= MaxAttempts + 1
  BY SaneEntry
<1>5. Sane([entries EXCEPT ![k] = e])
  BY <1>1, <1>2, <1>4, SaneWithEntry
<1> QED BY <1>1, <1>2, <1>3, <1>5

----------------------------------------------------------------------------
(* The steps, each with what it does to the decisions in the table.        *)

DecisionsStay ==
  \A k \in Decided(entries) : entries'[k] # NoEntry => entries'[k].status # "scheduled"

LEMMA SameTables ==
  ASSUME TablesOK, UNCHANGED <<entries, disk, job>>, inbox' \subseteq inbox \cup Turns,
         ingest' \in {"free", "seen", "added"}, UNCHANGED <<crashes, failures>>
  PROVE  TablesOK' /\ DecisionsStay
<1>1. Sane(entries') /\ Sane(disk')
  BY DEF TablesOK
<1> QED BY <1>1 DEF TablesOK, InHand, Present, Decided, DecisionsStay

(* A save of a table that decides, at most, one more stop, by a thread     *)
(* that has nothing in hand afterwards.                                    *)
LEMMA SaveSettles ==
  ASSUME TablesOK, NEW table, Sane(table), Save(table),
         \A k \in Decided(entries) : table[k] # NoEntry => table[k].status # "scheduled",
         job'.stage = "idle", job' \in Job, UNCHANGED <<inbox, ingest, crashes>>
  PROVE  TablesOK' /\ DecisionsStay
<1>1. /\ Sane(entries') /\ Sane(disk') /\ failures' \in 0 .. MaxFailures
      /\ \A k \in Turns : entries'[k] \in {NoEntry, table[k]}
  BY SaveKeeps
<1>2. DecisionsStay
  BY <1>1 DEF DecisionsStay, Decided, Present
<1> QED BY <1>1, <1>2 DEF TablesOK, InHand

LEMMA IdleJob == Idle \in Job /\ Idle.stage = "idle" /\ Idle.stop = 0
BY Constants DEF Idle, Job

LEMMA IngestTable ==
  ASSUME TablesOK, NEW t \in Turns, Ingest(t)
  PROVE  TablesOK' /\ DecisionsStay
<1>1. CASE UNCHANGED entries
  <2>1. inbox' \subseteq inbox \cup Turns /\ ingest' \in {"free", "seen", "added"}
    BY DEF Ingest, TablesOK
  <2> QED BY <1>1, <2>1, SameTables DEF Ingest
<1>2. ASSUME NEW status \in {"scheduled", "skipped"}, entries' = Added(t, status),
             status = "scheduled" => Inherited(t) <= MaxAttempts
      PROVE  TablesOK' /\ DecisionsStay
  <2>1. Sane(entries') /\ \A k \in Present(entries) : entries'[k] = entries[k]
    BY <1>2, AddedKeeps DEF TablesOK
  <2>2. UNCHANGED <<disk, job, crashes, failures>> /\ inbox' \subseteq Turns
        /\ ingest' \in {"free", "seen", "added"}
    BY DEF Ingest, TablesOK
  <2>3. InHand' /\ DecisionsStay
    BY <2>1, <2>2 DEF TablesOK, InHand, DecisionsStay, Decided, Present
  <2> QED BY <2>1, <2>2, <2>3 DEF TablesOK
<1> QED BY <1>1, <1>2 DEF Ingest

LEMMA EndIngestTable ==
  ASSUME TablesOK, EndIngest
  PROVE  TablesOK' /\ DecisionsStay
<1>1. /\ Sane(entries') /\ Sane(disk') /\ failures' \in 0 .. MaxFailures
      /\ \A k \in Turns : entries'[k] \in {NoEntry, entries[k]}
  BY SaveKeeps DEF EndIngest, TablesOK
<1>2. /\ job' \in Job /\ job'.stage = job.stage /\ job'.stop = job.stop
      /\ job'.kept => job.kept /\ (job.stop = 0 \/ entries'[job.stop] # NoEntry)
  <2>1. job' = [job EXCEPT !.kept = @ /\ (job.stop = 0 \/ entries'[job.stop] # NoEntry)]
    BY DEF EndIngest, Busy
  <2> QED BY <2>1 DEF TablesOK, Job
<1>3. InHand'
  BY <1>1, <1>2 DEF TablesOK, InHand, Present, Turns
<1>4. DecisionsStay
  BY <1>1 DEF DecisionsStay, Decided, Present
<1> QED BY <1>1, <1>2, <1>3, <1>4 DEF TablesOK, EndIngest

LEMMA ProcessTable ==
  ASSUME TablesOK, NEW k \in Turns, Process(k)
  PROVE  TablesOK' /\ DecisionsStay
<1>1. k \in Present(entries) /\ entries[k].status = "scheduled" /\ k \notin Decided(entries)
      /\ Sane(entries) /\ job \in Job /\ job.stage = "idle"
      /\ UNCHANGED <<inbox, ingest, crashes>>
  BY DEF Process, TablesOK, Present, Decided
<1>2. \A j \in Decided(entries) : j \in Turns /\ entries[j].status # "scheduled"
  BY DEF Decided, Present
<1>3. CASE Reschedule(k)
  <2> DEFINE n == entries[k].attempts + 1
             table == [entries EXCEPT
                         ![k].attempts = n,
                         ![k].status = IF n > MaxAttempts THEN "skipped" ELSE @]
             e == table[k]
  <2>1. entries[k] \in Entry /\ entries[k].attempts <= MaxAttempts
        /\ entries[k].attempts \in 0 .. MaxAttempts + 2
    BY <1>1, SaneEntry, EntryFields
  <2>2. n \in 0 .. MaxAttempts + 1
    BY <2>1, Constants
  <2>3. Save(table) /\ UNCHANGED job
    BY <1>3 DEF Reschedule
  <2>4. entries \in [Turns -> Entry \cup {NoEntry}]
    BY <1>1 DEF Sane
  <2> HIDE DEF n
  <2>5. \A j \in Turns : j # k => table[j] = entries[j]
    BY <2>4
  <2> DEFINE r == [entries[k] EXCEPT !.attempts = n]
  <2>6. e = [r EXCEPT !.status = IF n > MaxAttempts THEN "skipped" ELSE entries[k].status]
    BY <2>4
  <2>7. e \in Entry /\ e.attempts = n /\ (e.status = "scheduled" => n <= MaxAttempts)
    <3>1. r \in Entry /\ r.attempts = n /\ entries[k].status \in {"scheduled", "sent", "skipped"}
      BY <2>1, <2>2, Constants DEF Entry
    <3> HIDE DEF r, e
    <3>2. PICK s \in {"scheduled", "sent", "skipped"} :
            e = [r EXCEPT !.status = s] /\ (s = "scheduled" => n <= MaxAttempts)
      BY <2>2, <2>6, <3>1, Constants
    <3> QED BY <3>1, <3>2 DEF Entry
  <2>8. table = [entries EXCEPT ![k] = e]
    BY <2>4
  <2> HIDE DEF e, table
  <2>9. Sane([entries EXCEPT ![k] = e])
    BY <1>1, <2>2, <2>7, SaneWithEntry, Constants
  <2> QED BY <1>1, <1>2, <2>3, <2>5, <2>8, <2>9, SaveSettles
<1>4. CASE Skip(k)
  <2>1. /\ Sane(With(k, "skipped")) /\ With(k, "skipped")[k].status = "skipped"
        /\ \A j \in Turns \ {k} : With(k, "skipped")[j] = entries[j]
    BY <1>1, WithKeeps
  <2> QED BY <1>1, <1>2, <1>4, <2>1, SaveSettles DEF Skip
<1>5. CASE Take(k)
  <2>1. /\ job' \in Job /\ job'.stage = "reading" /\ job'.stop = k
        /\ UNCHANGED <<entries, disk, failures>>
    BY <1>5 DEF Take, Job, Turns
  <2>2. Sane(entries') /\ Sane(disk') /\ InHand' /\ DecisionsStay
    BY <1>1, <1>2, <2>1 DEF TablesOK, InHand, Present, DecisionsStay
  <2> QED BY <1>1, <2>1, <2>2 DEF TablesOK
<1> QED BY <1>3, <1>4, <1>5 DEF Process

LEMMA SettleTable ==
  ASSUME TablesOK, job.stage # "idle", NEW status \in {"sent", "skipped"}, Settle(status),
         UNCHANGED <<inbox, ingest, crashes>>
  PROVE  TablesOK' /\ DecisionsStay
<1>1. \A j \in Decided(entries) : j \in Turns /\ entries[j].status # "scheduled"
  BY DEF Decided, Present
<1>2. job' \in Job /\ job'.stage = "idle"
  BY IdleJob DEF Settle
<1>3. CASE job.kept
  <2>1. job.stop \in Present(entries) /\ entries[job.stop].status = "scheduled" /\ Sane(entries)
    BY <1>3 DEF TablesOK, InHand
  <2>2. /\ Sane(With(job.stop, status)) /\ With(job.stop, status)[job.stop].status = status
        /\ \A j \in Turns \ {job.stop} : With(job.stop, status)[j] = entries[j]
    BY <2>1, WithKeeps
  <2> QED BY <1>1, <1>2, <1>3, <2>2, SaveSettles DEF Settle
<1>4. CASE ~job.kept
  BY <1>1, <1>2, <1>4, SaveSettles DEF Settle, TablesOK
<1> QED BY <1>3, <1>4

LEMMA WaitTable == ASSUME TablesOK, Wait PROVE TablesOK' /\ DecisionsStay
<1>1. \A j \in Decided(entries) : j \in Turns /\ entries[j].status # "scheduled"
  BY DEF Decided, Present
<1>2. job' \in Job /\ job'.stage = "idle" /\ UNCHANGED <<inbox, ingest, crashes>>
  BY IdleJob DEF Wait
<1>3. CASE Save(entries)
  BY <1>1, <1>2, <1>3, SaveSettles DEF TablesOK
<1>4. CASE UNCHANGED <<entries, disk, failures>>
  BY <1>1, <1>2, <1>4 DEF TablesOK, InHand, DecisionsStay
<1> QED BY <1>3, <1>4 DEF Wait

LEMMA SendTable == ASSUME TablesOK, Send PROVE TablesOK' /\ DecisionsStay
<1>1. /\ job' \in Job /\ job'.stage = "sending" /\ job'.stop = job.stop /\ job'.kept = job.kept
      /\ job.stage = "reading" /\ UNCHANGED <<entries, disk, inbox, ingest, crashes, failures>>
  BY DEF Send, TablesOK, Job
<1>2. InHand' /\ DecisionsStay
  BY <1>1 DEF TablesOK, InHand, Present, DecisionsStay, Decided
<1> QED BY <1>1, <1>2 DEF TablesOK

LEMMA AnsweredTable ==
  ASSUME TablesOK, reply \in 0 .. MaxTurns, Answered
  PROVE  TablesOK' /\ DecisionsStay
<1>1. /\ job' \in Job /\ job'.stage = "answered" /\ job'.stop = job.stop /\ job'.kept = job.kept
      /\ job.stage = "sending" /\ UNCHANGED <<disk, inbox, ingest, crashes, failures>>
  BY DEF Answered, TablesOK, Job
<1>2. CASE ~job.kept
  <2>1. UNCHANGED entries
    BY <1>2 DEF Answered
  <2> QED BY <1>1, <1>2, <2>1 DEF TablesOK, InHand, DecisionsStay, Decided, Present
<1>3. CASE job.kept
  <2> DEFINE k == job.stop
             e == [entries[k] EXCEPT !.sentTurn = reply]
  <2>1. /\ k \in Present(entries) /\ k \in Turns /\ entries[k] \in Entry
        /\ entries[k].status = "scheduled" /\ entries[k].attempts <= MaxAttempts /\ Sane(entries)
    BY <1>1, <1>3, SaneEntry DEF TablesOK, InHand
  <2>2. e \in Entry /\ e.status = "scheduled" /\ e.attempts = entries[k].attempts
    BY <2>1 DEF Entry
  <2>3. entries[k].attempts \in 0 .. MaxAttempts + 2 /\ MaxAttempts \in Nat
    BY <2>1, EntryFields, Constants
  <2>4. entries' = [entries EXCEPT ![k] = e]
    BY <1>3 DEF Answered
  <2> HIDE DEF e
  <2>5. Sane(entries')
    <3>1. e.sentTurn # 0 => e.attempts <= MaxAttempts + 1
      BY <2>1, <2>2, <2>3
    <3>2. e.status = "scheduled" => e.attempts <= MaxAttempts
      BY <2>1, <2>2
    <3> QED BY <2>1, <2>2, <2>4, <3>1, <3>2, SaneWithEntry
  <2>6. /\ entries'[k] = e /\ e # NoEntry
        /\ \A j \in Turns \ {k} : entries'[j] = entries[j]
    BY <2>1, <2>2, <2>4, Constants DEF Sane
  <2>7. InHand'
    BY <1>1, <2>1, <2>2, <2>6 DEF InHand, Present
  <2>8. DecisionsStay
    BY <2>1, <2>6 DEF DecisionsStay, Decided, Present
  <2> QED BY <1>1, <2>5, <2>7, <2>8 DEF TablesOK
<1> QED BY <1>2, <1>3

(* A restart is the one step that may take a decision back: to the table   *)
(* as it was last saved.                                                   *)
LEMMA CrashTable ==
  ASSUME TablesOK, Crash
  PROVE  TablesOK' /\ crashes' > crashes /\ entries' = disk
<1>1. Sane(entries') /\ Sane(disk') /\ job' \in Job /\ job'.stage = "idle"
  BY IdleJob DEF Crash, TablesOK
<1>2. crashes' \in 0 .. MaxCrashes /\ crashes' > crashes
  BY Constants DEF Crash, TablesOK
<1> QED BY <1>1, <1>2 DEF Crash, TablesOK, InHand

----------------------------------------------------------------------------
LEMMA InitInv == Init => IInv
<1> SUFFICES ASSUME Init PROVE IInv
  OBVIOUS
<1>1. DOMAIN turn = {} /\ turn \in [1 .. 0 -> Turn] /\ 0 \in 0 .. MaxTurns
  BY Constants DEF Init
<1>2. TurnsOK
  BY <1>1, Constants DEF Init, TurnsOK, Later, OnItsWay, ContinuedOnce
<1>3. Sane(entries) /\ Sane(disk)
  BY DEF Init, Sane, Present
<1>4. TablesOK
  BY <1>3, IdleJob, Constants DEF Init, TablesOK, InHand
<1> QED BY <1>2, <1>4 DEF IInv

LEMMA TurnsStep == ASSUME TurnsOK, TablesOK, [Next]_vars PROVE TurnsOK'
<1>1. CASE UserTurn
  <2>1. flight' = flight \ {0} /\ reply' \in 0 .. MaxTurns
    BY <1>1 DEF UserTurn, TurnsOK, Turns
  <2> QED BY <1>1, <2>1, TurnStarts DEF UserTurn
<1>2. CASE TurnEnds
  BY <1>2, TurnFinishes
<1>3. CASE StartContinuation
  <2>1. PICK k \in flight :
          /\ turn' = Started(k) /\ flight' = flight \ {k}
          /\ reply' = IF job.stage = "sending" /\ job.stop = k THEN Newest + 1 ELSE reply
    BY <1>3 DEF StartContinuation
  <2>2. Newest < MaxTurns
    BY <1>3 DEF StartContinuation
  <2>3. reply' \in 0 .. MaxTurns
    BY <2>1, <2>2, TurnsAreNumbered, Constants DEF TurnsOK
  <2> QED BY <2>1, <2>2, <2>3, TurnStarts
<1>4. CASE \E t \in Turns : Record(t) \/ Ingest(t) \/ Process(t)
  BY <1>4, SameTurns DEF Record, Ingest, Process
<1>5. CASE EndIngest \/ Wait \/ GiveUp \/ Answered \/ SettleSent
  BY <1>5, SameTurns DEF EndIngest, Wait, GiveUp, Answered, SettleSent
<1>6. CASE Send
  BY <1>6, MessageLeaves DEF Send, TablesOK, InHand
<1>7. CASE Unanswered \/ Crash
  BY <1>7, MessageLost DEF Unanswered, Crash
<1>8. CASE UNCHANGED vars
  BY <1>8, SameTurns DEF vars
<1> QED BY <1>1, <1>2, <1>3, <1>4, <1>5, <1>6, <1>7, <1>8 DEF Next

LEMMA TablesStep ==
  ASSUME TurnsOK, TablesOK, [Next]_vars
  PROVE  TablesOK' /\ (DecisionsStay \/ (crashes' > crashes /\ entries' = disk))
<1>1. CASE UserTurn \/ TurnEnds \/ StartContinuation \/ \E t \in Turns : Record(t)
  <2>1. /\ UNCHANGED <<entries, disk, job, ingest, crashes, failures>>
        /\ inbox' \subseteq inbox \cup Turns /\ ingest' \in {"free", "seen", "added"}
    BY <1>1 DEF UserTurn, TurnEnds, StartContinuation, Record, TablesOK
  <2> QED BY <2>1, SameTables
<1>2. CASE UNCHANGED vars
  BY <1>2, SameTables DEF vars, TablesOK
<1>3. CASE \E t \in Turns : Ingest(t) \/ Process(t)
  BY <1>3, IngestTable, ProcessTable
<1>4. CASE GiveUp \/ SettleSent \/ Unanswered
  BY <1>4, SettleTable DEF GiveUp, SettleSent, Unanswered
<1>5. CASE EndIngest \/ Wait \/ Send
  BY <1>5, EndIngestTable, WaitTable, SendTable
<1>6. CASE Answered
  BY <1>6, AnsweredTable DEF TurnsOK
<1>7. CASE Crash
  BY <1>7, CrashTable
<1> QED BY <1>1, <1>2, <1>3, <1>4, <1>5, <1>6, <1>7 DEF Next

LEMMA NextInv == IInv /\ [Next]_vars => IInv'
BY TurnsStep, TablesStep DEF IInv

(* The turns, the messages on their way and the two tables agree at every  *)
(* step.                                                                   *)
THEOREM Inductive == Spec => []IInv
BY InitInv, NextInv, PTL DEF Spec

(* Turns, inbox, both tables and the thread's job are what they should be; *)
(* the attempts of a chain in particular stay within their bound.          *)
THEOREM TypeCorrect == Spec => []TypeOK
<1>1. IInv => TypeOK
  BY DEF IInv, TurnsOK, TablesOK, Sane, TypeOK
<1> QED BY Inductive, <1>1, PTL

(* A stop is continued at most once, in a task of any length, with any     *)
(* number of restarts and of saves that fail.                              *)
THEOREM OnceOnly == Spec => []ContinuedOnce
<1>1. IInv => ContinuedOnce
  BY DEF IInv, TurnsOK
<1> QED BY Inductive, <1>1, PTL

(* A decision stands while its entry is kept, except for one that a        *)
(* restart finds unsaved.                                                  *)
THEOREM DecisionsStand == Spec => DecidedForGood
<1>1. IInv /\ [Next]_vars =>
        [\A k \in Turns :
           /\ k \in Decided(entries) /\ entries'[k] # NoEntry
           /\ entries'[k].status = "scheduled"
           => crashes' > crashes /\ disk[k] = entries'[k]]_vars
  BY TablesStep DEF IInv, DecisionsStay
<1> QED BY Inductive, <1>1, PTL DEF Spec, DecidedForGood

=============================================================================

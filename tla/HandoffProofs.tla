---------------------------- MODULE HandoffProofs ----------------------------
(***************************************************************************)
(* Proofs about Handoff, for any tree of conversations, any number of      *)
(* accounts, calls and epochs.                                             *)
(***************************************************************************)
EXTENDS Handoff, TLAPS

(* A conversation that exists has an owner, and no runtime but the owner's *)
(* has it loaded; of one that does not, nothing is known anywhere.         *)
Owned ==
  /\ \A t \in tree : record[t] \in Grant /\ writer[t] \in {NoProfile, record[t].owner}
  /\ \A t \in Threads \ tree :
       record[t] = NoGrant /\ writer[t] = NoProfile /\ \A p \in Profiles : fence[p][t] = "open"

(* A call is made between two accounts, for conversations of the first,    *)
(* and holds the guard of the root while it lives: no two calls live.      *)
Planned ==
  \A a \in Attempts :
    /\ attempt[a].stage = "unused" =>
         /\ attempt[a].journal = "none" /\ attempt[a].threads = {}
         /\ attempt[a].close = "none" /\ attempt[a].activate = "none"
    /\ attempt[a].stage # "unused" =>
         /\ attempt[a].journal # "none"
         /\ attempt[a].source \in Profiles /\ attempt[a].target \in Profiles
         /\ attempt[a].source # attempt[a].target
         /\ attempt[a].threads \subseteq tree
         /\ \A t \in attempt[a].threads :
              attempt[a].expected[t] \in Grant /\ attempt[a].expected[t].owner = attempt[a].source
    /\ Live(a) => rootGuard = a /\ Unfinished(a)

(* The close is sent after its intent was journaled, and nothing is        *)
(* committed, activated or complete without its proof.                     *)
Proven == {"released", "locking", "moving", "committed", "activating"}

Closing ==
  \A a \in Attempts :
    /\ attempt[a].stage = "preparing" \/ attempt[a].journal = "blocked_before_close"
         => attempt[a].close = "none"
    /\ attempt[a].stage \in Proven \/ attempt[a].journal = "complete"
         => attempt[a].close = "done"

(* While the records move, the call has all their locks, nobody writes,    *)
(* and each record is the planned one or its successor.                    *)
Locking ==
  \A a \in Attempts :
    /\ \A t \in Threads : locked[t] = a => attempt[a].stage = "moving" /\ t \in attempt[a].threads
    /\ attempt[a].stage = "moving" =>
         \A t \in attempt[a].threads :
           /\ locked[t] = a /\ writer[t] = NoProfile
           /\ record[t] \in {attempt[a].expected[t], Moved(a, t)}
           /\ attempt[a].expected[t].epoch < MaxEpoch

(* Until the first record moves the tree is whole at the source; once the  *)
(* activation is answered it is whole at the target.                       *)
Early == {"preparing", "closing", "released", "locking"}

Handed(a) ==
  \A t \in tree :
    /\ record[t].owner = attempt[a].target
    /\ \/ fence[attempt[a].target][t] = "open"
       \/ \E b \in Attempts \ {a} : Unfinished(b) /\ attempt[b].close # "none"

Whole ==
  \A a \in Attempts :
    /\ attempt[a].stage \in Early => \A t \in tree : record[t].owner = attempt[a].source
    /\ attempt[a].stage = "activating" /\ attempt[a].activate = "done" => Handed(a)

(* Calls run one after the other, and none is made for a conversation that *)
(* the journal of an earlier unfinished one names.                         *)
Ordered ==
  \A a, b \in Attempts :
    a < b /\ attempt[b].stage # "unused" =>
      /\ attempt[a].stage = "ended"
      /\ Unfinished(a) => attempt[b].requested \notin attempt[a].threads

IInv == TypeOK /\ Owned /\ Planned /\ Closing /\ Locking /\ Whole /\ SplitIsJournaled /\ Ordered

(* What the journal says of the plan of a call, and the call altogether.   *)
SamePlan(a) ==
  /\ attempt'[a].requested = attempt[a].requested /\ attempt'[a].threads = attempt[a].threads
  /\ attempt'[a].source = attempt[a].source /\ attempt'[a].target = attempt[a].target
  /\ attempt'[a].expected = attempt[a].expected

Others(a) == \A b \in Attempts \ {a} : attempt'[b] = attempt[b]

Becomes(a, journal, stage, close, activate) ==
  /\ attempt' \in [Attempts -> Attempt] /\ Others(a) /\ SamePlan(a)
  /\ attempt'[a].journal = journal /\ attempt'[a].stage = stage
  /\ attempt'[a].close = close /\ attempt'[a].activate = activate

----------------------------------------------------------------------------
(* Constants and the initial state.                                        *)

LEMMA Bounds ==
  /\ MaxEpoch \in Nat /\ MaxEpoch >= 1 /\ MaxAttempts \in Nat /\ MaxAttempts >= 1
  /\ Root \in Threads /\ NoProfile \notin Profiles /\ NoGrant \notin Grant
  /\ Nobody \notin Attempts /\ Abandoned \notin Attempts /\ Nobody # Abandoned
  /\ Attempts \subseteq Nat
BY HandoffConstants DEF Attempts, Grant

LEMMA UnusedTyped == Unused \in Attempt
BY Bounds DEF Unused, Attempt, Statuses, Stages, Requests

LEMMA InitInv == Init => IInv
<1> SUFFICES ASSUME Init PROVE IInv
  OBVIOUS
<1>1. PICK p \in Profiles :
        record = [t \in Threads |-> IF t \in tree THEN [owner |-> p, epoch |-> 1] ELSE NoGrant]
  BY DEF Init
<1>2. [owner |-> p, epoch |-> 1] \in Grant
  BY Bounds DEF Grant
<1>3. TypeOK
  BY <1>1, <1>2, Bounds, UnusedTyped DEF Init, TypeOK
<1>4. Owned
  BY <1>1, <1>2, Bounds DEF Init, Owned
<1>5. Planned /\ Closing /\ Locking /\ Whole /\ Ordered
  BY Bounds DEF Init, Planned, Closing, Locking, Whole, Ordered, Unused, Live, Proven, Early
<1>6. SplitIsJournaled
  BY <1>1 DEF Init, SplitIsJournaled
<1> QED BY <1>3, <1>4, <1>5, <1>6 DEF IInv

----------------------------------------------------------------------------
(* What an action leaves of the calls.                                     *)

LEMMA EntrySet ==
  ASSUME TypeOK, NEW a \in Attempts, NEW r \in Attempt,
         attempt' = [attempt EXCEPT ![a] = r]
  PROVE  attempt' \in [Attempts -> Attempt] /\ Others(a) /\ attempt'[a] = r
BY DEF TypeOK, Others

LEMMA Advanced ==
  ASSUME TypeOK, NEW a \in Attempts, NEW j \in Statuses, NEW s \in Stages,
         Advance(a, j, s)
  PROVE  Becomes(a, j, s, attempt[a].close, attempt[a].activate)
<1> DEFINE r == [attempt[a] EXCEPT !.journal = j, !.stage = s]
<1>1. attempt[a] \in Attempt
  BY DEF TypeOK
<1>2. r \in Attempt
  BY <1>1 DEF Attempt
<1>3. /\ r.journal = j /\ r.stage = s
      /\ r.close = attempt[a].close /\ r.activate = attempt[a].activate
      /\ r.requested = attempt[a].requested /\ r.threads = attempt[a].threads
      /\ r.source = attempt[a].source /\ r.target = attempt[a].target
      /\ r.expected = attempt[a].expected
  BY <1>1 DEF Attempt
<1>4. attempt' = [attempt EXCEPT ![a] = r]
  BY DEF Advance
<1> HIDE DEF r
<1> QED BY <1>2, <1>3, <1>4, EntrySet DEF Becomes, SamePlan

LEMMA StageSet ==
  ASSUME TypeOK, NEW a \in Attempts, NEW s \in Stages,
         attempt' = [attempt EXCEPT ![a] = [@ EXCEPT !.stage = s]]
  PROVE  Becomes(a, attempt[a].journal, s, attempt[a].close, attempt[a].activate)
<1> DEFINE r == [attempt[a] EXCEPT !.stage = s]
<1>1. attempt[a] \in Attempt
  BY DEF TypeOK
<1>2. r \in Attempt
  BY <1>1 DEF Attempt
<1>3. /\ r.journal = attempt[a].journal /\ r.stage = s
      /\ r.close = attempt[a].close /\ r.activate = attempt[a].activate
      /\ r.requested = attempt[a].requested /\ r.threads = attempt[a].threads
      /\ r.source = attempt[a].source /\ r.target = attempt[a].target
      /\ r.expected = attempt[a].expected
  BY <1>1 DEF Attempt
<1>4. attempt' = [attempt EXCEPT ![a] = r]
  OBVIOUS
<1> HIDE DEF r
<1> QED BY <1>2, <1>3, <1>4, EntrySet DEF Becomes, SamePlan

LEMMA CloseSet ==
  ASSUME TypeOK, NEW a \in Attempts, NEW c \in Requests,
         attempt' = [attempt EXCEPT ![a] = [@ EXCEPT !.close = c]]
  PROVE  Becomes(a, attempt[a].journal, attempt[a].stage, c, attempt[a].activate)
<1> DEFINE r == [attempt[a] EXCEPT !.close = c]
<1>1. attempt[a] \in Attempt
  BY DEF TypeOK
<1>2. r \in Attempt
  BY <1>1 DEF Attempt
<1>3. /\ r.journal = attempt[a].journal /\ r.stage = attempt[a].stage
      /\ r.close = c /\ r.activate = attempt[a].activate
      /\ r.requested = attempt[a].requested /\ r.threads = attempt[a].threads
      /\ r.source = attempt[a].source /\ r.target = attempt[a].target
      /\ r.expected = attempt[a].expected
  BY <1>1 DEF Attempt
<1>4. attempt' = [attempt EXCEPT ![a] = r]
  OBVIOUS
<1> HIDE DEF r
<1> QED BY <1>2, <1>3, <1>4, EntrySet DEF Becomes, SamePlan

LEMMA CloseAnswered ==
  ASSUME TypeOK, NEW a \in Attempts, NEW c \in Requests, NEW C \in SUBSET Threads,
         attempt' = [attempt EXCEPT ![a] = [@ EXCEPT !.close = c, !.closed = C]]
  PROVE  Becomes(a, attempt[a].journal, attempt[a].stage, c, attempt[a].activate)
<1> DEFINE r == [attempt[a] EXCEPT !.close = c, !.closed = C]
<1>1. attempt[a] \in Attempt
  BY DEF TypeOK
<1>2. r \in Attempt
  BY <1>1 DEF Attempt
<1>3. /\ r.journal = attempt[a].journal /\ r.stage = attempt[a].stage
      /\ r.close = c /\ r.activate = attempt[a].activate
      /\ r.requested = attempt[a].requested /\ r.threads = attempt[a].threads
      /\ r.source = attempt[a].source /\ r.target = attempt[a].target
      /\ r.expected = attempt[a].expected
  BY <1>1 DEF Attempt
<1>4. attempt' = [attempt EXCEPT ![a] = r]
  OBVIOUS
<1> HIDE DEF r
<1> QED BY <1>2, <1>3, <1>4, EntrySet DEF Becomes, SamePlan

LEMMA ActivateSet ==
  ASSUME TypeOK, NEW a \in Attempts, NEW v \in Requests,
         attempt' = [attempt EXCEPT ![a] = [@ EXCEPT !.activate = v]]
  PROVE  Becomes(a, attempt[a].journal, attempt[a].stage, attempt[a].close, v)
<1> DEFINE r == [attempt[a] EXCEPT !.activate = v]
<1>1. attempt[a] \in Attempt
  BY DEF TypeOK
<1>2. r \in Attempt
  BY <1>1 DEF Attempt
<1>3. /\ r.journal = attempt[a].journal /\ r.stage = attempt[a].stage
      /\ r.close = attempt[a].close /\ r.activate = v
      /\ r.requested = attempt[a].requested /\ r.threads = attempt[a].threads
      /\ r.source = attempt[a].source /\ r.target = attempt[a].target
      /\ r.expected = attempt[a].expected
  BY <1>1 DEF Attempt
<1>4. attempt' = [attempt EXCEPT ![a] = r]
  OBVIOUS
<1> HIDE DEF r
<1> QED BY <1>2, <1>3, <1>4, EntrySet DEF Becomes, SamePlan

LEMMA ActivateAnswered ==
  ASSUME TypeOK, NEW a \in Attempts, NEW v \in Requests, NEW V \in SUBSET Threads,
         attempt' = [attempt EXCEPT ![a] = [@ EXCEPT !.activate = v, !.active = V]]
  PROVE  Becomes(a, attempt[a].journal, attempt[a].stage, attempt[a].close, v)
<1> DEFINE r == [attempt[a] EXCEPT !.activate = v, !.active = V]
<1>1. attempt[a] \in Attempt
  BY DEF TypeOK
<1>2. r \in Attempt
  BY <1>1 DEF Attempt
<1>3. /\ r.journal = attempt[a].journal /\ r.stage = attempt[a].stage
      /\ r.close = attempt[a].close /\ r.activate = v
      /\ r.requested = attempt[a].requested /\ r.threads = attempt[a].threads
      /\ r.source = attempt[a].source /\ r.target = attempt[a].target
      /\ r.expected = attempt[a].expected
  BY <1>1 DEF Attempt
<1>4. attempt' = [attempt EXCEPT ![a] = r]
  OBVIOUS
<1> HIDE DEF r
<1> QED BY <1>2, <1>3, <1>4, EntrySet DEF Becomes, SamePlan

LEMMA ActivationSent ==
  ASSUME TypeOK, NEW a \in Attempts, NEW j \in Statuses, NEW s \in Stages, NEW v \in Requests,
         attempt' = [attempt EXCEPT ![a] = [@ EXCEPT !.journal = j, !.stage = s, !.activate = v]]
  PROVE  Becomes(a, j, s, attempt[a].close, v)
<1> DEFINE r == [attempt[a] EXCEPT !.journal = j, !.stage = s, !.activate = v]
<1>1. attempt[a] \in Attempt
  BY DEF TypeOK
<1>2. r \in Attempt
  BY <1>1 DEF Attempt
<1>3. /\ r.journal = j /\ r.stage = s
      /\ r.close = attempt[a].close /\ r.activate = v
      /\ r.requested = attempt[a].requested /\ r.threads = attempt[a].threads
      /\ r.source = attempt[a].source /\ r.target = attempt[a].target
      /\ r.expected = attempt[a].expected
  BY <1>1 DEF Attempt
<1>4. attempt' = [attempt EXCEPT ![a] = r]
  OBVIOUS
<1> HIDE DEF r
<1> QED BY <1>2, <1>3, <1>4, EntrySet DEF Becomes, SamePlan

LEMMA Words ==
  /\ \A s \in {"preparing", "closing", "released", "locking", "moving", "committed",
             "activating", "ended"} : s \in Stages
  /\ \A j \in {"preparing", "close_requested", "source_released",
             "authority_commit_requested", "authority_committed",
             "activation_requested", "complete", "recovery_required",
             "blocked_before_close"} : j \in Statuses
  /\ \A r \in {"none", "sent", "done", "failed"} : r \in Requests
BY DEF Stages, Statuses, Requests

----------------------------------------------------------------------------
(* The runtimes.                                                           *)

(* The tree stays whole when a call goes on, and no gate is armed.         *)
LEMMA WholeKept ==
  ASSUME IInv, NEW a \in Attempts, NEW j, NEW s, NEW c, NEW v, Becomes(a, j, s, c, v),
         UNCHANGED <<tree, record>>,
         \A p \in Profiles : \A t \in tree : fence'[p][t] \in {fence[p][t], "open"},
         s \in Early => attempt[a].stage \in Early,
         s = "activating" /\ v = "done"
           => attempt[a].stage = "activating" /\ attempt[a].activate = "done",
         Unfinished(a) /\ attempt[a].close # "none" => j \notin Terminal /\ c # "none"
  PROVE  Whole'
<1> USE DEF IInv, Becomes
<1>1. ASSUME NEW b \in Attempts, attempt'[b].stage \in Early
      PROVE  \A t \in tree : record[t].owner = attempt'[b].source
  BY <1>1 DEF Whole, Others, SamePlan
<1>2. ASSUME NEW b \in Attempts, attempt'[b].stage = "activating", attempt'[b].activate = "done"
      PROVE  Handed(b)'
  <2>1. Handed(b) /\ attempt'[b].target = attempt[b].target /\ attempt[b].target \in Profiles
    BY <1>2 DEF Whole, Planned, Others, SamePlan
  <2>2. \A d \in Attempts : Unfinished(d) /\ attempt[d].close # "none"
          => Unfinished(d)' /\ attempt'[d].close # "none"
    BY DEF Unfinished, Others
  <2> QED BY <2>1, <2>2 DEF Handed
<1> QED BY <1>1, <1>2 DEF Whole

LEMMA OpenStep == ASSUME IInv, NEW p \in Profiles, NEW t \in Threads, Open(p, t) PROVE IInv'
<1> USE DEF IInv
<1>1. /\ UNCHANGED <<tree, record, locked, fence, activated, rootGuard, attempt>>
      /\ writer' \in [Threads -> Profiles \cup {NoProfile}]
      /\ t \in tree /\ writer'[t] = record[t].owner /\ locked[t] \notin Attempts
      /\ \A u \in Threads \ {t} : writer'[u] = writer[u]
  BY DEF Open, TypeOK
<1>2. TypeOK'
  BY <1>1 DEF TypeOK
<1>3. Owned'
  BY <1>1 DEF Owned, TypeOK
<1>4. (Planned /\ Closing /\ Whole /\ SplitIsJournaled /\ Ordered)'
  BY <1>1 DEF Planned, Closing, Whole, SplitIsJournaled, Ordered, Live, Unfinished, Handed
<1>5. Locking'
  BY <1>1 DEF Locking, Moved, TypeOK, Attempt
<1> QED BY <1>2, <1>3, <1>4, <1>5

LEMMA UnloadStep == ASSUME IInv, NEW p \in Profiles, NEW t \in Threads, Unload(p, t) PROVE IInv'
<1> USE DEF IInv
<1>1. /\ UNCHANGED <<tree, record, locked, fence, activated, rootGuard, attempt>>
      /\ writer' \in [Threads -> Profiles \cup {NoProfile}]
      /\ writer'[t] = NoProfile
      /\ \A u \in Threads \ {t} : writer'[u] = writer[u]
  BY DEF Unload, TypeOK
<1>2. TypeOK'
  BY <1>1 DEF TypeOK
<1>3. Owned'
  BY <1>1 DEF Owned, TypeOK
<1>4. (Planned /\ Closing /\ Whole /\ SplitIsJournaled /\ Ordered)'
  BY <1>1 DEF Planned, Closing, Whole, SplitIsJournaled, Ordered, Live, Unfinished, Handed
<1>5. Locking'
  BY <1>1 DEF Locking, Moved, TypeOK, Attempt
<1> QED BY <1>2, <1>3, <1>4, <1>5

LEMMA SpawnStep == ASSUME IInv, NEW p \in Profiles, NEW t \in Threads, Spawn(p, t) PROVE IInv'
<1> USE DEF IInv
<1>1. /\ UNCHANGED <<writer, locked, fence, activated, rootGuard, attempt>>
      /\ t \notin tree /\ tree' = tree \cup {t} /\ record' \in [Threads -> Grant \cup {NoGrant}]
      /\ record'[t] = [owner |-> p, epoch |-> 1] /\ record'[t] \in Grant
      /\ \A u \in Threads \ {t} : record'[u] = record[u]
  BY Bounds DEF Spawn, TypeOK, Grant
<1>2. record[Root].owner = p /\ Root \in tree /\ Root # t /\ record'[Root].owner = p
      /\ record'[t].owner = p
  BY <1>1, Bounds DEF Spawn, Owned, TypeOK
<1>3. TypeOK'
  BY <1>1 DEF TypeOK
<1>4. Owned'
  BY <1>1 DEF Owned, TypeOK
<1>5. (Planned /\ Closing /\ Ordered)'
  BY <1>1 DEF Planned, Closing, Ordered, Live, Unfinished
<1>6. Locking'
  <2>1. tree \subseteq Threads /\ \A a \in Attempts : attempt[a].stage = "moving" =>
          attempt[a].threads \subseteq tree
    BY DEF TypeOK, Planned
  <2> QED BY <1>1, <2>1 DEF Locking, Moved
<1>7. Whole'
  <2>1. ASSUME NEW a \in Attempts, attempt[a].stage \in Early
        PROVE  \A u \in tree' : record'[u].owner = attempt[a].source
    BY <1>1, <1>2, <2>1 DEF Whole, TypeOK
  <2>2. ASSUME NEW a \in Attempts, attempt[a].stage = "activating", attempt[a].activate = "done"
        PROVE  Handed(a)'
    <3>1. Handed(a) /\ attempt[a].target \in Profiles
      BY <2>2 DEF Whole, Planned
    <3>2. fence[attempt[a].target][t] = "open"
      BY <1>1, <3>1 DEF Owned
    <3> QED BY <1>1, <1>2, <3>1, <3>2 DEF Handed, Unfinished, TypeOK
  <2> QED BY <1>1, <2>1, <2>2 DEF Whole
<1>8. SplitIsJournaled'
  BY <1>1, <1>2 DEF SplitIsJournaled, Unfinished, TypeOK
<1> QED BY <1>3, <1>4, <1>5, <1>6, <1>7, <1>8

LEMMA CloseRefusedStep == ASSUME IInv, NEW a \in Attempts, CloseRefused(a) PROVE IInv'
<1> USE DEF IInv
<1>1. /\ UNCHANGED <<tree, record, writer, locked, fence, activated, rootGuard>>
      /\ attempt[a].close = "sent"
      /\ Becomes(a, attempt[a].journal, attempt[a].stage, "failed", attempt[a].activate)
  BY CloseSet, Words DEF CloseRefused
<1>2. attempt[a].stage # "unused"
  BY <1>1 DEF Planned
<1>3. TypeOK'
  BY <1>1, <1>2 DEF TypeOK, Becomes
<1>4. Owned'
  BY <1>1, <1>2 DEF Owned
<1>5. Planned'
  BY <1>1, <1>2 DEF Planned, Becomes, Others, SamePlan, Live, Unfinished
<1>6. Closing'
  BY <1>1, <1>2 DEF Closing, Becomes, Others, SamePlan, Proven
<1>7. Locking'
  BY <1>1, <1>2 DEF Locking, Becomes, Others, SamePlan, Moved
<1>8. Whole'
  BY <1>1, <1>2 DEF Whole, Handed, Early, Becomes, Others, SamePlan, Unfinished
<1>9. SplitIsJournaled'
  BY <1>1, <1>2 DEF SplitIsJournaled, Becomes, Others, SamePlan, Unfinished
<1>10. Ordered'
  BY <1>1, <1>2 DEF Ordered, Becomes, Others, SamePlan, Unfinished
<1> QED BY <1>3, <1>4, <1>5, <1>6, <1>7, <1>8, <1>9, <1>10

LEMMA ClosePartlyStep == ASSUME IInv, NEW a \in Attempts, ClosePartly(a) PROVE IInv'
<1> USE DEF IInv
<1>1. /\ UNCHANGED <<tree, record, locked, activated, rootGuard>>
      /\ attempt[a].close = "sent"
      /\ \E T \in SUBSET tree : writer' = Without(T)
      /\ fence' = Gates(attempt[a].source, "uncertain")
  BY DEF ClosePartly
<1>2. /\ attempt[a].source \in Profiles /\ attempt[a].stage # "unused"
      /\ attempt[a].stage \notin Proven /\ Unfinished(a)
  BY <1>1 DEF Planned, Closing, Unfinished, Terminal
<1>3. Becomes(a, attempt[a].journal, attempt[a].stage, "failed", attempt[a].activate)
  BY CloseSet, Words DEF ClosePartly
<1>4. /\ writer' \in [Threads -> Profiles \cup {NoProfile}]
      /\ \A t \in Threads : writer'[t] \in {writer[t], NoProfile}
      /\ fence' \in [Profiles -> [Threads -> {"open", "released", "uncertain"}]]
      /\ \A p \in Profiles, t \in Threads :
           p # attempt[a].source \/ t \notin tree => fence'[p][t] = fence[p][t]
  BY <1>1, <1>2 DEF Without, Gates, TypeOK
<1>5. TypeOK'
  BY <1>1, <1>2, <1>3, <1>4 DEF TypeOK, Becomes
<1>6. Owned'
  BY <1>1, <1>2, <1>3, <1>4 DEF Owned, TypeOK
<1>7. Planned'
  BY <1>1, <1>2, <1>3, <1>4 DEF Planned, Becomes, Others, SamePlan, Live, Unfinished,
     Terminal
<1>8. Closing'
  BY <1>1, <1>2, <1>3, <1>4 DEF Closing, Becomes, Others, SamePlan, Proven
<1>9. Locking'
  <2>1. \A b \in Attempts : attempt[b].stage = "moving" => attempt[b].threads \subseteq Threads
    BY DEF Planned, TypeOK
  <2> QED BY <1>1, <1>2, <1>3, <1>4, <2>1 DEF Locking, Moved, Becomes, Others, SamePlan
<1>10. Whole'
  <2>1. ASSUME NEW b \in Attempts, attempt'[b].stage \in Early
        PROVE  \A t \in tree : record[t].owner = attempt'[b].source
    BY <1>3, <2>1 DEF Whole, Becomes, Others, SamePlan
  <2>2. ASSUME NEW b \in Attempts, attempt'[b].stage = "activating", attempt'[b].activate = "done"
        PROVE  Handed(b)'
    <3>1. b # a /\ attempt'[b] = attempt[b] /\ Handed(b)
      BY <1>2, <1>3, <2>2 DEF Whole, Becomes, Others, Proven
    <3>2. Unfinished(a)' /\ attempt'[a].close # "none"
      BY <1>2, <1>3 DEF Becomes, Unfinished
    <3> QED BY <1>1, <3>1, <3>2 DEF Handed
  <2> QED BY <1>1, <2>1, <2>2 DEF Whole
<1>11. SplitIsJournaled'
  BY <1>1, <1>2, <1>3, <1>4 DEF SplitIsJournaled, Becomes, Others, SamePlan, Unfinished
<1>12. Ordered'
  BY <1>1, <1>2, <1>3, <1>4 DEF Ordered, Becomes, Others, SamePlan, Unfinished
<1> QED BY <1>5, <1>6, <1>7, <1>8, <1>9, <1>10, <1>11, <1>12

LEMMA CloseDoneStep == ASSUME IInv, NEW a \in Attempts, CloseDone(a) PROVE IInv'
<1> USE DEF IInv
<1>1. /\ UNCHANGED <<tree, record, locked, activated, rootGuard>>
      /\ attempt[a].close = "sent"
      /\ writer' = Without(tree)
      /\ fence' = Gates(attempt[a].source, "released")
  BY DEF CloseDone
<1>2. /\ attempt[a].source \in Profiles /\ attempt[a].stage # "unused"
      /\ attempt[a].stage \notin Proven /\ Unfinished(a)
  BY <1>1 DEF Planned, Closing, Unfinished, Terminal
<1>3. Becomes(a, attempt[a].journal, attempt[a].stage, "done", attempt[a].activate)
  BY CloseAnswered, Words DEF CloseDone, TypeOK
<1>4. /\ writer' \in [Threads -> Profiles \cup {NoProfile}]
      /\ \A t \in Threads : writer'[t] \in {writer[t], NoProfile}
      /\ fence' \in [Profiles -> [Threads -> {"open", "released", "uncertain"}]]
      /\ \A p \in Profiles, t \in Threads :
           p # attempt[a].source \/ t \notin tree => fence'[p][t] = fence[p][t]
  BY <1>1, <1>2 DEF Without, Gates, TypeOK
<1>5. TypeOK'
  BY <1>1, <1>2, <1>3, <1>4 DEF TypeOK, Becomes
<1>6. Owned'
  BY <1>1, <1>2, <1>3, <1>4 DEF Owned, TypeOK
<1>7. Planned'
  BY <1>1, <1>2, <1>3, <1>4 DEF Planned, Becomes, Others, SamePlan, Live, Unfinished,
     Terminal
<1>8. Closing'
  BY <1>1, <1>2, <1>3, <1>4 DEF Closing, Becomes, Others, SamePlan, Proven
<1>9. Locking'
  <2>1. \A b \in Attempts : attempt[b].stage = "moving" => attempt[b].threads \subseteq Threads
    BY DEF Planned, TypeOK
  <2> QED BY <1>1, <1>2, <1>3, <1>4, <2>1 DEF Locking, Moved, Becomes, Others, SamePlan
<1>10. Whole'
  <2>1. ASSUME NEW b \in Attempts, attempt'[b].stage \in Early
        PROVE  \A t \in tree : record[t].owner = attempt'[b].source
    BY <1>3, <2>1 DEF Whole, Becomes, Others, SamePlan
  <2>2. ASSUME NEW b \in Attempts, attempt'[b].stage = "activating", attempt'[b].activate = "done"
        PROVE  Handed(b)'
    <3>1. b # a /\ attempt'[b] = attempt[b] /\ Handed(b)
      BY <1>2, <1>3, <2>2 DEF Whole, Becomes, Others, Proven
    <3>2. Unfinished(a)' /\ attempt'[a].close # "none"
      BY <1>2, <1>3 DEF Becomes, Unfinished
    <3> QED BY <1>1, <3>1, <3>2 DEF Handed
  <2> QED BY <1>1, <2>1, <2>2 DEF Whole
<1>11. SplitIsJournaled'
  BY <1>1, <1>2, <1>3, <1>4 DEF SplitIsJournaled, Becomes, Others, SamePlan, Unfinished
<1>12. Ordered'
  BY <1>1, <1>2, <1>3, <1>4 DEF Ordered, Becomes, Others, SamePlan, Unfinished
<1> QED BY <1>5, <1>6, <1>7, <1>8, <1>9, <1>10, <1>11, <1>12

LEMMA ActivateRefusedStep == ASSUME IInv, NEW a \in Attempts, ActivateRefused(a) PROVE IInv'
<1> USE DEF IInv
<1>1. /\ UNCHANGED <<tree, record, writer, locked, fence, activated, rootGuard>>
      /\ attempt[a].activate = "sent"
      /\ Becomes(a, attempt[a].journal, attempt[a].stage, attempt[a].close, "failed")
  BY ActivateSet, Words DEF ActivateRefused
<1>2. attempt[a].stage # "unused"
  BY <1>1 DEF Planned
<1>3. TypeOK'
  BY <1>1, <1>2 DEF TypeOK, Becomes
<1>4. Owned'
  BY <1>1, <1>2 DEF Owned
<1>5. Planned'
  BY <1>1, <1>2 DEF Planned, Becomes, Others, SamePlan, Live, Unfinished
<1>6. Closing'
  BY <1>1, <1>2 DEF Closing, Becomes, Others, SamePlan, Proven
<1>7. Locking'
  BY <1>1, <1>2 DEF Locking, Becomes, Others, SamePlan, Moved
<1>8. Whole'
  BY <1>1, <1>2 DEF Whole, Handed, Early, Becomes, Others, SamePlan, Unfinished
<1>9. SplitIsJournaled'
  BY <1>1, <1>2 DEF SplitIsJournaled, Becomes, Others, SamePlan, Unfinished
<1>10. Ordered'
  BY <1>1, <1>2 DEF Ordered, Becomes, Others, SamePlan, Unfinished
<1> QED BY <1>3, <1>4, <1>5, <1>6, <1>7, <1>8, <1>9, <1>10

LEMMA ActivateDoneStep == ASSUME IInv, NEW a \in Attempts, ActivateDone(a) PROVE IInv'
<1> USE DEF IInv
<1>1. /\ UNCHANGED <<tree, record, writer, locked, rootGuard>>
      /\ attempt[a].activate = "sent"
      /\ \A t \in tree : record[t].owner = attempt[a].target
      /\ fence' = Gates(attempt[a].target, "open")
      /\ activated' = [activated EXCEPT ![attempt[a].target] =
        [t \in Threads |-> IF t \in tree THEN record[t].epoch ELSE @[t]]]
  BY DEF ActivateDone, Activatable
<1>2. attempt[a].target \in Profiles /\ attempt[a].stage # "unused"
  BY <1>1 DEF Planned
<1>3. Becomes(a, attempt[a].journal, attempt[a].stage, attempt[a].close, "done")
  BY ActivateAnswered, Words DEF ActivateDone, TypeOK
<1>4. /\ fence' \in [Profiles -> [Threads -> {"open", "released", "uncertain"}]]
      /\ \A p \in Profiles, t \in Threads : fence'[p][t] \in {fence[p][t], "open"}
      /\ \A t \in tree : fence'[attempt[a].target][t] = "open"
  BY <1>1, <1>2 DEF Gates, TypeOK
<1>5. activated' \in [Profiles -> [Threads -> 0 .. MaxEpoch]]
  <2>1. \A t \in tree : record[t].epoch \in 0 .. MaxEpoch
    BY Bounds DEF Owned, Grant
  <2> QED BY <1>1, <1>2, <2>1 DEF TypeOK
<1>6. TypeOK'
  BY <1>1, <1>2, <1>3, <1>4, <1>5 DEF TypeOK, Becomes
<1>7. Owned'
  BY <1>1, <1>2, <1>3, <1>4, <1>5 DEF Owned, TypeOK
<1>8. Planned'
  BY <1>1, <1>2, <1>3, <1>4, <1>5 DEF Planned, Becomes, Others, SamePlan, Live,
     Unfinished
<1>9. Closing'
  BY <1>1, <1>2, <1>3, <1>4, <1>5 DEF Closing, Becomes, Others, SamePlan, Proven
<1>10. Locking'
  BY <1>1, <1>2, <1>3, <1>4, <1>5 DEF Locking, Becomes, Others, SamePlan, Moved
<1>11. Whole'
  <2>1. ASSUME NEW b \in Attempts, attempt'[b].stage \in Early
        PROVE  \A t \in tree : record[t].owner = attempt'[b].source
    BY <1>3, <2>1 DEF Whole, Becomes, Others, SamePlan
  <2>2. ASSUME NEW b \in Attempts \ {a}, attempt'[b].stage = "activating", attempt'[b].activate = "done"
        PROVE  Handed(b)'
    <3>1. Handed(b) /\ attempt'[b] = attempt[b] /\ attempt[b].target \in Profiles
      BY <1>3, <2>2 DEF Whole, Planned, Becomes, Others
    <3>2. \A d \in Attempts : Unfinished(d) /\ attempt[d].close # "none"
            => Unfinished(d)' /\ attempt'[d].close # "none"
      BY <1>3 DEF Unfinished, Becomes, Others
    <3> QED BY <1>1, <1>4, <3>1, <3>2 DEF Handed, TypeOK
  <2>3. Handed(a)'
    BY <1>1, <1>3, <1>4 DEF Handed, Becomes, SamePlan
  <2> QED BY <1>1, <2>1, <2>2, <2>3 DEF Whole
<1>12. SplitIsJournaled'
  BY <1>1, <1>2, <1>3, <1>4, <1>5 DEF SplitIsJournaled, Becomes, Others, SamePlan,
     Unfinished
<1>13. Ordered'
  BY <1>1, <1>2, <1>3, <1>4, <1>5 DEF Ordered, Becomes, Others, SamePlan, Unfinished
<1> QED BY <1>6, <1>7, <1>8, <1>9, <1>10, <1>11, <1>12, <1>13

LEMMA RequestCloseStep == ASSUME IInv, NEW a \in Attempts, RequestClose(a) PROVE IInv'
<1> USE DEF IInv
<1>1. /\ UNCHANGED <<tree, record, writer, fence, activated, locked, rootGuard>>
      /\ attempt[a].stage = "preparing"
      /\ Becomes(a, "close_requested", "closing", attempt[a].close, attempt[a].activate)
  BY Advanced, Words DEF RequestClose, runtimeVars
<1>2. TypeOK'
  BY <1>1 DEF TypeOK, Becomes
<1>3. Owned'
  BY <1>1 DEF Owned
<1>4. Planned'
  BY <1>1 DEF Planned, Becomes, Others, SamePlan, Live, Unfinished, Terminal
<1>5. Closing'
  BY <1>1 DEF Closing, Becomes, Others, SamePlan, Proven
<1>6. Locking'
  BY <1>1 DEF Locking, Becomes, Others, SamePlan, Moved
<1>7. Whole'
  BY <1>1, WholeKept DEF Whole, Handed, Early, Becomes, Others, SamePlan, Unfinished,
     Terminal
<1>8. SplitIsJournaled'
  BY <1>1 DEF SplitIsJournaled, Becomes, Others, SamePlan, Unfinished, Terminal
<1>9. Ordered'
  BY <1>1 DEF Ordered, Becomes, Others, SamePlan, Unfinished
<1> QED BY <1>2, <1>3, <1>4, <1>5, <1>6, <1>7, <1>8, <1>9

LEMMA SendCloseStep == ASSUME IInv, NEW a \in Attempts, SendClose(a) PROVE IInv'
<1> USE DEF IInv
<1>1. /\ UNCHANGED <<tree, record, writer, fence, activated, locked, rootGuard>>
      /\ attempt[a].stage = "closing"
      /\ \/ Becomes(a, attempt[a].journal, attempt[a].stage, "sent", attempt[a].activate)
         \/ Becomes(a, attempt[a].journal, attempt[a].stage, "failed", attempt[a].activate)
  BY CloseSet, Words DEF SendClose, runtimeVars
<1>2. attempt[a].journal # "blocked_before_close" /\ attempt[a].journal # "complete"
  BY <1>1 DEF Planned, Live, Unfinished, Terminal
<1>3. TypeOK'
  BY <1>1, <1>2 DEF TypeOK, Becomes
<1>4. Owned'
  BY <1>1, <1>2 DEF Owned
<1>5. Planned'
  BY <1>1, <1>2 DEF Planned, Becomes, Others, SamePlan, Live, Unfinished
<1>6. Closing'
  BY <1>1, <1>2 DEF Closing, Becomes, Others, SamePlan, Proven
<1>7. Locking'
  BY <1>1, <1>2 DEF Locking, Becomes, Others, SamePlan, Moved
<1>8. Whole'
  BY <1>1, <1>2 DEF Whole, Handed, Early, Becomes, Others, SamePlan, Unfinished
<1>9. SplitIsJournaled'
  BY <1>1, <1>2 DEF SplitIsJournaled, Becomes, Others, SamePlan, Unfinished
<1>10. Ordered'
  BY <1>1, <1>2 DEF Ordered, Becomes, Others, SamePlan, Unfinished
<1> QED BY <1>3, <1>4, <1>5, <1>6, <1>7, <1>8, <1>9, <1>10

LEMMA ReleaseStep == ASSUME IInv, NEW a \in Attempts, Release(a) PROVE IInv'
<1> USE DEF IInv
<1>1. /\ UNCHANGED <<tree, record, writer, fence, activated, locked, rootGuard>>
      /\ attempt[a].stage = "closing"
      /\ attempt[a].close = "done"
      /\ Becomes(a, "source_released", "released", attempt[a].close, attempt[a].activate)
  BY Advanced, Words DEF Release, runtimeVars
<1>2. TypeOK'
  BY <1>1 DEF TypeOK, Becomes
<1>3. Owned'
  BY <1>1 DEF Owned
<1>4. Planned'
  BY <1>1 DEF Planned, Becomes, Others, SamePlan, Live, Unfinished, Terminal
<1>5. Closing'
  BY <1>1 DEF Closing, Becomes, Others, SamePlan, Proven
<1>6. Locking'
  BY <1>1 DEF Locking, Becomes, Others, SamePlan, Moved
<1>7. Whole'
  BY <1>1, WholeKept DEF Whole, Handed, Early, Becomes, Others, SamePlan, Unfinished,
     Terminal
<1>8. SplitIsJournaled'
  BY <1>1 DEF SplitIsJournaled, Becomes, Others, SamePlan, Unfinished, Terminal
<1>9. Ordered'
  BY <1>1 DEF Ordered, Becomes, Others, SamePlan, Unfinished
<1> QED BY <1>2, <1>3, <1>4, <1>5, <1>6, <1>7, <1>8, <1>9

LEMMA RequestCommitStep == ASSUME IInv, NEW a \in Attempts, RequestCommit(a) PROVE IInv'
<1> USE DEF IInv
<1>1. /\ UNCHANGED <<tree, record, writer, fence, activated, locked, rootGuard>>
      /\ attempt[a].stage = "released"
      /\ Becomes(a, "authority_commit_requested", "locking", attempt[a].close, attempt[a].activate)
  BY Advanced, Words DEF RequestCommit, runtimeVars
<1>2. TypeOK'
  BY <1>1 DEF TypeOK, Becomes
<1>3. Owned'
  BY <1>1 DEF Owned
<1>4. Planned'
  BY <1>1 DEF Planned, Becomes, Others, SamePlan, Live, Unfinished, Terminal
<1>5. Closing'
  BY <1>1 DEF Closing, Becomes, Others, SamePlan, Proven
<1>6. Locking'
  BY <1>1 DEF Locking, Becomes, Others, SamePlan, Moved
<1>7. Whole'
  BY <1>1, WholeKept DEF Whole, Handed, Early, Becomes, Others, SamePlan, Unfinished,
     Terminal
<1>8. SplitIsJournaled'
  BY <1>1 DEF SplitIsJournaled, Becomes, Others, SamePlan, Unfinished, Terminal
<1>9. Ordered'
  BY <1>1 DEF Ordered, Becomes, Others, SamePlan, Unfinished
<1> QED BY <1>2, <1>3, <1>4, <1>5, <1>6, <1>7, <1>8, <1>9

LEMMA LockStep == ASSUME IInv, NEW a \in Attempts, Lock(a) PROVE IInv'
<1> USE DEF IInv
<1>1. /\ UNCHANGED <<tree, record, writer, fence, activated, rootGuard>>
      /\ attempt[a].stage = "locking"
      /\ \A t \in attempt[a].threads :
           /\ locked[t] = Nobody /\ writer[t] = NoProfile
           /\ record[t] = attempt[a].expected[t] /\ record[t].epoch < MaxEpoch
      /\ locked' = [t \in Threads |-> IF t \in attempt[a].threads THEN a ELSE locked[t]]
      /\ Becomes(a, attempt[a].journal, "moving", attempt[a].close, attempt[a].activate)
  BY StageSet, Words DEF Lock, runtimeVars
<1>2. attempt[a].threads \subseteq Threads
  BY <1>1 DEF Planned, TypeOK
<1>3. TypeOK'
  BY <1>1, <1>2 DEF TypeOK, Becomes
<1>4. Owned'
  BY <1>1, <1>2 DEF Owned
<1>5. Planned'
  BY <1>1, <1>2 DEF Planned, Becomes, Others, SamePlan, Live, Unfinished
<1>6. Closing'
  BY <1>1, <1>2 DEF Closing, Becomes, Others, SamePlan, Proven
<1>7. Locking'
  <2>1. \A b \in Attempts : attempt[b].stage = "moving" => FALSE
    BY <1>1 DEF Planned, Live
  <2>2. \A t \in Threads : locked[t] \notin Attempts
    BY <2>1 DEF Locking
  <2> QED BY <1>1, <1>2, <2>1, <2>2 DEF Locking, Becomes, Others, SamePlan, Moved
<1>8. Whole'
  BY <1>1, <1>2 DEF Whole, Handed, Early, Becomes, Others, SamePlan, Unfinished
<1>9. SplitIsJournaled'
  BY <1>1, <1>2 DEF SplitIsJournaled, Becomes, Others, SamePlan, Unfinished
<1>10. Ordered'
  BY <1>1, <1>2 DEF Ordered, Becomes, Others, SamePlan, Unfinished
<1> QED BY <1>3, <1>4, <1>5, <1>6, <1>7, <1>8, <1>9, <1>10

LEMMA CommitStep == ASSUME IInv, NEW a \in Attempts, Commit(a) PROVE IInv'
<1> USE DEF IInv
<1>1. /\ UNCHANGED <<tree, record, writer, fence, activated, rootGuard>>
      /\ attempt[a].stage = "moving"
      /\ \A t \in Threads : locked'[t] = IF locked[t] = a THEN Nobody ELSE locked[t]
      /\ locked' \in [Threads -> Attempts \cup {Nobody, Abandoned}]
      /\ Becomes(a, "authority_committed", "committed", attempt[a].close, attempt[a].activate)
  BY Advanced, Words DEF Commit, runtimeVars, Unlocked, TypeOK
<1>2. TypeOK'
  BY <1>1 DEF TypeOK, Becomes
<1>3. Owned'
  BY <1>1 DEF Owned
<1>4. Planned'
  BY <1>1 DEF Planned, Becomes, Others, SamePlan, Live, Unfinished, Terminal
<1>5. Closing'
  BY <1>1 DEF Closing, Becomes, Others, SamePlan, Proven
<1>6. Locking'
  <2>1. \A b \in Attempts \ {a} : attempt[b].stage # "moving"
    BY <1>1 DEF Planned, Live
  <2>2. \A t \in Threads : locked'[t] \notin Attempts
    BY <1>1, <2>1, Bounds DEF Locking
  <2> QED BY <1>1, <2>1, <2>2 DEF Locking, Becomes, Others
<1>7. Whole'
  BY <1>1, WholeKept DEF Whole, Handed, Early, Becomes, Others, SamePlan, Unfinished,
     Terminal
<1>8. SplitIsJournaled'
  BY <1>1 DEF SplitIsJournaled, Becomes, Others, SamePlan, Unfinished, Terminal
<1>9. Ordered'
  BY <1>1 DEF Ordered, Becomes, Others, SamePlan, Unfinished
<1> QED BY <1>2, <1>3, <1>4, <1>5, <1>6, <1>7, <1>8, <1>9

LEMMA RequestActivationStep == ASSUME IInv, NEW a \in Attempts, RequestActivation(a) PROVE IInv'
<1> USE DEF IInv
<1>1. /\ UNCHANGED <<tree, record, writer, fence, activated, locked, rootGuard>>
      /\ attempt[a].stage = "committed"
      /\ Becomes(a, "activation_requested", "activating", attempt[a].close, "sent")
  BY ActivationSent, Words DEF RequestActivation, runtimeVars
<1>2. TypeOK'
  BY <1>1 DEF TypeOK, Becomes
<1>3. Owned'
  BY <1>1 DEF Owned
<1>4. Planned'
  BY <1>1 DEF Planned, Becomes, Others, SamePlan, Live, Unfinished, Terminal
<1>5. Closing'
  BY <1>1 DEF Closing, Becomes, Others, SamePlan, Proven
<1>6. Locking'
  BY <1>1 DEF Locking, Becomes, Others, SamePlan, Moved
<1>7. Whole'
  BY <1>1, WholeKept DEF Whole, Handed, Early, Becomes, Others, SamePlan, Unfinished,
     Terminal
<1>8. SplitIsJournaled'
  BY <1>1 DEF SplitIsJournaled, Becomes, Others, SamePlan, Unfinished, Terminal
<1>9. Ordered'
  BY <1>1 DEF Ordered, Becomes, Others, SamePlan, Unfinished
<1> QED BY <1>2, <1>3, <1>4, <1>5, <1>6, <1>7, <1>8, <1>9

LEMMA RestartStep == ASSUME IInv, NEW p \in Profiles, Restart(p) PROVE IInv'
<1> USE DEF IInv
<1> DEFINE Cut(a) ==
      [attempt[a] EXCEPT
         !.restarted = IF attempt[a].stage \in {"unused", "ended"} THEN @ ELSE @ \cup {p},
         !.close = Lost(a, p, "close", "source"),
         !.activate = Lost(a, p, "activate", "target")]
<1>1. /\ UNCHANGED <<tree, record, locked, rootGuard>>
      /\ writer' = [t \in Threads |-> IF writer[t] = p THEN NoProfile ELSE writer[t]]
      /\ fence' = [fence EXCEPT ![p] = [t \in Threads |-> "open"]]
      /\ activated' = [activated EXCEPT ![p] = [t \in Threads |-> 0]]
      /\ attempt' = [a \in Attempts |-> Cut(a)]
  BY DEF Restart
<1>2. \A a \in Attempts :
        /\ Cut(a) \in Attempt
        /\ Cut(a).journal = attempt[a].journal /\ Cut(a).stage = attempt[a].stage
        /\ Cut(a).requested = attempt[a].requested /\ Cut(a).threads = attempt[a].threads
        /\ Cut(a).source = attempt[a].source /\ Cut(a).target = attempt[a].target
        /\ Cut(a).expected = attempt[a].expected
        /\ Cut(a).close \in {attempt[a].close, "failed"}
        /\ attempt[a].close \in {"none", "done"} => Cut(a).close = attempt[a].close
        /\ attempt[a].close = "sent" => Cut(a).close \in {"sent", "failed"}
        /\ Cut(a).activate \in {attempt[a].activate, "failed"}
        /\ attempt[a].activate = "none" => Cut(a).activate = "none"
  <2> TAKE a \in Attempts
  <2>1. attempt[a] \in Attempt
    BY DEF TypeOK
  <2>2. /\ Lost(a, p, "close", "source") \in Requests
        /\ Lost(a, p, "activate", "target") \in Requests
    BY <2>1 DEF Lost, Attempt, Requests
  <2>3. Cut(a) \in Attempt
    BY <2>1, <2>2 DEF Attempt
  <2>4. /\ Cut(a).close = Lost(a, p, "close", "source")
        /\ Cut(a).activate = Lost(a, p, "activate", "target")
        /\ Cut(a).journal = attempt[a].journal /\ Cut(a).stage = attempt[a].stage
        /\ Cut(a).requested = attempt[a].requested
        /\ Cut(a).threads = attempt[a].threads
        /\ Cut(a).source = attempt[a].source /\ Cut(a).target = attempt[a].target
        /\ Cut(a).expected = attempt[a].expected
    BY <2>1 DEF Attempt
  <2> HIDE DEF Cut
  <2> QED BY <2>3, <2>4 DEF Lost
<1> HIDE DEF Cut
<1>3. /\ attempt' \in [Attempts -> Attempt]
      /\ \A a \in Attempts :
           /\ SamePlan(a)
           /\ attempt'[a].journal = attempt[a].journal /\ attempt'[a].stage = attempt[a].stage
           /\ attempt'[a].activate \in {attempt[a].activate, "failed"}
           /\ attempt[a].activate = "none" => attempt'[a].activate = "none"
           /\ attempt'[a].close \in {attempt[a].close, "failed"}
           /\ attempt[a].close \in {"none", "done"} => attempt'[a].close = attempt[a].close
  BY <1>1, <1>2 DEF SamePlan
<1>4. /\ writer' \in [Threads -> Profiles \cup {NoProfile}]
      /\ \A t \in Threads : writer'[t] \in {writer[t], NoProfile}
      /\ fence' \in [Profiles -> [Threads -> {"open", "released", "uncertain"}]]
      /\ \A q \in Profiles, t \in Threads : fence'[q][t] \in {fence[q][t], "open"}
      /\ activated' \in [Profiles -> [Threads -> 0 .. MaxEpoch]]
  BY <1>1, Bounds DEF TypeOK
<1>5. TypeOK'
  BY <1>1, <1>3, <1>4 DEF TypeOK
<1>6. Owned'
  BY <1>1, <1>4 DEF Owned, TypeOK
<1>7. Planned'
  BY <1>1, <1>3 DEF Planned, SamePlan, Live, Unfinished
<1>8. Closing'
  BY <1>3 DEF Closing
<1>9. Locking'
  <2>1. \A a \in Attempts : attempt[a].stage = "moving" => attempt[a].threads \subseteq Threads
    BY DEF Planned, TypeOK
  <2> QED BY <1>1, <1>3, <1>4, <2>1 DEF Locking, Moved, SamePlan
<1>10. Whole'
  <2>1. ASSUME NEW a \in Attempts, attempt'[a].stage \in Early
        PROVE  \A t \in tree : record[t].owner = attempt'[a].source
    BY <1>3, <2>1 DEF Whole, SamePlan
  <2>2. ASSUME NEW a \in Attempts, attempt'[a].stage = "activating", attempt'[a].activate = "done"
        PROVE  Handed(a)'
    <3>1. Handed(a) /\ attempt'[a].target = attempt[a].target /\ attempt[a].target \in Profiles
      BY <1>3, <2>2 DEF Whole, Planned, SamePlan
    <3>2. \A b \in Attempts : Unfinished(b) /\ attempt[b].close # "none"
            => Unfinished(b)' /\ attempt'[b].close # "none"
      BY <1>3 DEF Unfinished
    <3> QED BY <1>1, <1>4, <3>1, <3>2 DEF Handed, TypeOK
  <2> QED BY <1>1, <2>1, <2>2 DEF Whole
<1>11. SplitIsJournaled' /\ Ordered'
  BY <1>1, <1>3 DEF SplitIsJournaled, Ordered, Unfinished, SamePlan
<1> QED BY <1>5, <1>6, <1>7, <1>8, <1>9, <1>10, <1>11

LEMMA StartStep ==
  ASSUME IInv, NEW a \in Attempts, NEW t \in Threads, NEW p \in Profiles, Start(a, t, p)
  PROVE  IInv'
<1> USE DEF IInv
<1> DEFINE r == [Unused EXCEPT !.journal = "preparing", !.stage = "preparing",
                  !.requested = t, !.threads = tree, !.source = record[t].owner, !.target = p,
                  !.expected = [u \in Threads |-> IF u \in tree THEN record[u] ELSE NoGrant]]
<1>1. /\ UNCHANGED <<tree, record, writer, fence, activated, locked>>
      /\ attempt[a].stage = "unused" /\ rootGuard = Nobody /\ rootGuard' = a
      /\ \A b \in 1 .. a - 1 : attempt[b].stage # "unused"
      /\ t \in tree /\ p # record[t].owner
      /\ \A b \in Attempts : Unfinished(b) => t \notin attempt[b].threads
      /\ \A u \in tree : record[u].owner = record[t].owner
      /\ attempt' = [attempt EXCEPT ![a] = r]
  BY DEF Start, Plan, RecoveryRequired, runtimeVars
<1>2. record[t].owner \in Profiles
  BY <1>1 DEF Owned, Grant
<1>3. r \in Attempt
  BY <1>1, <1>2, Words, UnusedTyped DEF TypeOK, Attempt, Unused
<1>4. /\ r.journal = "preparing" /\ r.stage = "preparing" /\ r.requested = t /\ r.threads = tree
      /\ r.source = record[t].owner /\ r.target = p /\ r.close = "none"
      /\ \A u \in tree : r.expected[u] = record[u]
  BY DEF Unused, TypeOK
<1> HIDE DEF r
<1>5. attempt' \in [Attempts -> Attempt] /\ Others(a) /\ attempt'[a] = r
  BY <1>1, <1>3, EntrySet
<1>6. \A b \in Attempts \ {a} : ~Live(b) /\ attempt'[b] = attempt[b]
  BY <1>1, <1>5, Bounds DEF Planned, Others
<1>7. TypeOK' /\ Owned'
  BY <1>1, <1>5 DEF TypeOK, Owned
<1>8. Planned'
  BY <1>1, <1>2, <1>4, <1>5, <1>6 DEF Planned, Owned, Live, Unfinished, Terminal
<1>9. Closing'
  BY <1>4, <1>5 DEF Closing, Others, Proven
<1>10. Locking'
  BY <1>1, <1>4, <1>5, <1>6 DEF Locking, Live, Moved
<1>11. Whole'
  BY <1>1, <1>4, <1>5, <1>6 DEF Whole, Live, Early
<1>12. SplitIsJournaled'
  BY <1>1 DEF SplitIsJournaled, Unfinished
<1>13. Ordered'
  <2> SUFFICES ASSUME NEW b \in Attempts, NEW d \in Attempts, b < d, attempt'[d].stage # "unused"
               PROVE  /\ attempt'[b].stage = "ended"
                      /\ Unfinished(b)' => attempt'[d].requested \notin attempt'[b].threads
    BY DEF Ordered
  <2>1. CASE d = a
    <3>1. b \in 1 .. a - 1 /\ b # a
      BY <2>1, Bounds DEF Attempts
    <3> QED BY <1>1, <1>4, <1>5, <1>6, <2>1, <3>1 DEF Live, Unfinished
  <2>2. CASE d # a
    <3>1. b # a
      BY <1>1, <1>5, <2>2 DEF Ordered, Others
    <3> QED BY <1>5, <2>2, <3>1 DEF Ordered, Others, Unfinished
  <2> QED BY <2>1, <2>2
<1> QED BY <1>7, <1>8, <1>9, <1>10, <1>11, <1>12, <1>13

LEMMA MoveStep == ASSUME IInv, NEW a \in Attempts, NEW t \in Threads, Move(a, t) PROVE IInv'
<1> USE DEF IInv
<1>1. /\ UNCHANGED <<tree, writer, locked, fence, activated, rootGuard, attempt>>
      /\ attempt[a].stage = "moving" /\ t \in attempt[a].threads
      /\ record' = [record EXCEPT ![t] = Moved(a, t)]
  BY DEF Move, Pending
<1>2. /\ t \in tree /\ writer[t] = NoProfile /\ Moved(a, t) \in Grant
      /\ Unfinished(a) /\ \A b \in Attempts \ {a} : ~Live(b)
  <2>1. attempt[a].target \in Profiles /\ attempt[a].expected[t] \in Grant /\ t \in tree
    BY <1>1 DEF Planned
  <2>2. attempt[a].expected[t].epoch < MaxEpoch /\ writer[t] = NoProfile
    BY <1>1 DEF Locking
  <2>3. Moved(a, t) \in Grant
    BY <2>1, <2>2, Bounds DEF Moved, Grant
  <2> QED BY <1>1, <2>1, <2>2, <2>3 DEF Planned, Live
<1>3. /\ record' \in [Threads -> Grant \cup {NoGrant}] /\ record'[t] = Moved(a, t)
      /\ \A u \in Threads \ {t} : record'[u] = record[u]
  BY <1>1, <1>2 DEF TypeOK
<1>4. TypeOK' /\ Owned'
  BY <1>1, <1>2, <1>3 DEF TypeOK, Owned
<1>5. Planned' /\ Closing' /\ Ordered'
  BY <1>1 DEF Planned, Closing, Ordered, Live, Unfinished
<1>6. Locking'
  <2>1. attempt[a].threads \subseteq Threads
    BY <1>1 DEF Planned, TypeOK
  <2>2. \A b \in Attempts \ {a} : attempt[b].stage # "moving"
    BY <1>2 DEF Live
  <2> QED BY <1>1, <1>3, <2>1, <2>2 DEF Locking, Moved
<1>7. Whole' /\ SplitIsJournaled'
  BY <1>1, <1>2 DEF Whole, SplitIsJournaled, Live, Unfinished, Early
<1> QED BY <1>4, <1>5, <1>6, <1>7

(* The end of a call, whichever way: the guard is free and no lock is its  *)
(* own any more.                                                           *)
LEMMA EndKeeps ==
  ASSUME IInv, NEW a \in Attempts, NEW j \in Statuses \ {"none"},
         Becomes(a, j, "ended", attempt[a].close, attempt[a].activate),
         UNCHANGED <<tree, record, writer, fence, activated>>, rootGuard' = Nobody,
         locked' \in [Threads -> Attempts \cup {Nobody, Abandoned}],
         \A t \in Threads : locked'[t] \in {locked[t], Nobody, Abandoned} \ {a},
         Live(a), attempt[a].stage # "unused",
         j = "blocked_before_close" => attempt[a].close = "none",
         j = "complete" => attempt[a].close = "done",
         j \in Terminal => \A t, u \in tree : record[t].owner = record[u].owner
  PROVE  IInv'
<1> USE DEF IInv
<1>1. \A b \in Attempts \ {a} : ~Live(b) /\ attempt'[b] = attempt[b]
  BY DEF Planned, Becomes, Others
<1>2. TypeOK' /\ Owned'
  BY DEF TypeOK, Owned, Becomes
<1>3. Planned'
  BY <1>1 DEF Planned, Becomes, SamePlan, Live
<1>4. Closing'
  BY <1>1 DEF Closing, Becomes, Proven
<1>5. Locking'
  BY <1>1, Bounds DEF Locking, Live, Becomes
<1>6. Whole'
  BY <1>1 DEF Whole, Live, Early, Becomes
<1>7. SplitIsJournaled'
  BY <1>1 DEF SplitIsJournaled, Unfinished, Becomes
<1>8. Ordered'
  <2> SUFFICES ASSUME NEW b \in Attempts, NEW d \in Attempts, b < d, attempt'[d].stage # "unused"
               PROVE  /\ attempt'[b].stage = "ended"
                      /\ Unfinished(b)' => attempt'[d].requested \notin attempt'[b].threads
    BY DEF Ordered
  <2>1. attempt[d].stage # "unused" /\ attempt[b].stage = "ended" /\ b # a
        /\ attempt'[b] = attempt[b] /\ attempt'[d].requested = attempt[d].requested
    BY <1>1 DEF Ordered, Becomes, SamePlan, Live
  <2> QED BY <2>1 DEF Ordered, Unfinished
<1> QED BY <1>2, <1>3, <1>4, <1>5, <1>6, <1>7, <1>8

LEMMA CompleteStep == ASSUME IInv, NEW a \in Attempts, Complete(a) PROVE IInv'
<1> USE DEF IInv
<1>1. /\ UNCHANGED <<tree, record, writer, fence, activated, locked>> /\ rootGuard' = Nobody
      /\ attempt[a].stage = "activating" /\ attempt[a].activate = "done"
      /\ Becomes(a, "complete", "ended", attempt[a].close, attempt[a].activate)
  BY Advanced, Words DEF Complete, runtimeVars
<1>2. attempt[a].close = "done" /\ Handed(a)
  BY <1>1 DEF Closing, Proven, Whole
<1>3. \A t \in Threads : locked[t] # a
  BY <1>1 DEF Locking
<1>4. locked' \in [Threads -> Attempts \cup {Nobody, Abandoned}]
  BY <1>1 DEF TypeOK
<1> QED BY <1>1, <1>2, <1>3, <1>4, EndKeeps, Words DEF Handed, Live

LEMMA FailStep == ASSUME IInv, NEW a \in Attempts, Fail(a) PROVE IInv'
<1> USE DEF IInv
<1>1. /\ UNCHANGED <<tree, record, writer, fence, activated>> /\ rootGuard' = Nobody
      /\ Live(a) /\ locked' = Unlocked(a)
  BY DEF Fail, runtimeVars
<1>2. PICK j \in Verdicts(a) \cup {attempt[a].journal} : Advance(a, j, "ended")
  BY DEF Fail
<1>3. attempt[a].stage \in Stages \ {"unused", "ended"}
      /\ Unfinished(a) /\ attempt[a].journal \in Statuses
  BY <1>1 DEF Live, Planned, TypeOK, Attempt
<1>4. /\ j \in Statuses \ {"none", "complete"}
      /\ j = "blocked_before_close" => attempt[a].close = "none"
  BY <1>2, <1>3, Words DEF Verdicts, Closing, Unfinished, Terminal
<1>5. Becomes(a, j, "ended", attempt[a].close, attempt[a].activate)
  BY <1>2, <1>4, Words, Advanced
<1>6. /\ locked' \in [Threads -> Attempts \cup {Nobody, Abandoned}]
      /\ \A t \in Threads : locked'[t] \in {locked[t], Nobody} \ {a}
  BY <1>1, Bounds DEF Unlocked, TypeOK
<1>7. j \in Terminal => \A t, u \in tree : record[t].owner = record[u].owner
  <2> SUFFICES ASSUME j = "blocked_before_close"
               PROVE  \A t, u \in tree : record[t].owner = record[u].owner
    BY <1>4 DEF Terminal
  <2>1. attempt[a].stage \in Early
    BY <1>3, <1>4 DEF Closing, Proven, Early, Stages
  <2> QED BY <2>1 DEF Whole
<1> QED BY <1>1, <1>3, <1>4, <1>5, <1>6, <1>7, EndKeeps

LEMMA CrashStep == ASSUME IInv, NEW a \in Attempts, Crash(a) PROVE IInv'
<1> USE DEF IInv
<1>1. /\ UNCHANGED <<tree, record, writer, fence, activated>> /\ rootGuard' = Nobody
      /\ Live(a) /\ attempt' = [attempt EXCEPT ![a].stage = "ended"]
  BY DEF Crash, runtimeVars
<1>2. PICK T \in SUBSET attempt[a].threads :
        /\ attempt[a].stage = "moving" => T = attempt[a].threads
        /\ locked' = [t \in Threads |->
             IF t \in T /\ locked[t] \in {a, Nobody} THEN Abandoned ELSE locked[t]]
  BY DEF Crash
<1>3. Becomes(a, attempt[a].journal, "ended", attempt[a].close, attempt[a].activate)
  BY <1>1, StageSet, Words
<1>4. /\ locked' \in [Threads -> Attempts \cup {Nobody, Abandoned}]
      /\ \A t \in Threads : locked'[t] \in {locked[t], Abandoned}
  BY <1>2 DEF TypeOK
<1>5. \A t \in Threads : locked'[t] # a
  BY <1>2, Bounds DEF Locking
<1>6. Unfinished(a) /\ attempt[a].journal \in Statuses
  BY <1>1 DEF Planned, TypeOK, Attempt
<1>7. attempt[a].journal \notin {"none", "complete", "blocked_before_close"}
      /\ attempt[a].journal \notin Terminal
  BY <1>6 DEF Unfinished, Terminal
<1> QED BY <1>1, <1>3, <1>4, <1>5, <1>6, <1>7, EndKeeps DEF Live

----------------------------------------------------------------------------
(* Every step, and what follows.                                           *)

LEMMA NextInv == IInv /\ [Next]_handoffVars => IInv'
<1> SUFFICES ASSUME IInv, [Next]_handoffVars PROVE IInv'
  OBVIOUS
<1>1. CASE UNCHANGED handoffVars
  BY <1>1 DEF handoffVars, IInv, TypeOK, Owned, Planned, Closing, Locking, Whole, Handed,
              SplitIsJournaled, Ordered, Live, Unfinished, Moved
<1>2. CASE RuntimeNext
  BY <1>2, OpenStep, UnloadStep, SpawnStep, RestartStep, CloseRefusedStep, ClosePartlyStep,
     CloseDoneStep, ActivateRefusedStep, ActivateDoneStep DEF RuntimeNext
<1>3. ASSUME NEW a \in Attempts, AttemptNext(a) PROVE IInv'
  BY <1>3, StartStep, RequestCloseStep, SendCloseStep, ReleaseStep, RequestCommitStep,
     LockStep, MoveStep, CommitStep, RequestActivationStep, CompleteStep, FailStep, CrashStep
  DEF AttemptNext
<1> QED BY <1>1, <1>2, <1>3 DEF Next

(* Records, locks, journals and requests agree at every step.              *)
THEOREM Inductive == Spec => []IInv
BY InitInv, NextInv, PTL DEF Spec

(* Every variable keeps its type, for any tree, accounts, calls and        *)
(* epochs: in particular no move gives an epoch beyond the limit that      *)
(* transfer_many checks.                                                   *)
THEOREM TypeCorrect == Spec => []TypeOK
BY Inductive, PTL DEF IInv

(* A call that is reported as blocked before its close sent no close that  *)
(* the runtime may still execute.                                          *)
THEOREM BlockedIsUntouched == Spec => []BlockedMeansUntouched
<1>1. IInv => BlockedMeansUntouched
  BY DEF IInv, Closing, BlockedMeansUntouched
<1> QED BY <1>1, Inductive, PTL

(* A tree whose conversations have different owners is named in a journal  *)
(* that no one has finished.                                               *)
THEOREM SplitJournaled == Spec => []SplitIsJournaled
BY Inductive, PTL DEF IInv

(* No call that closes anything is made for a conversation which the       *)
(* journal of an earlier unfinished call names.                            *)
THEOREM NotReplayed == Spec => []RequestedNotReplayed
<1>1. IInv => RequestedNotReplayed
  <2> SUFFICES ASSUME IInv, NEW a \in Attempts, NEW b \in Attempts, a < b, Unfinished(a)
               PROVE  attempt[b].requested \notin attempt[a].threads \/ attempt[b].close = "none"
    BY DEF RequestedNotReplayed
  <2>1. CASE attempt[b].stage = "unused"
    BY <2>1 DEF IInv, Planned
  <2>2. CASE attempt[b].stage # "unused"
    BY <2>2 DEF IInv, Ordered
  <2> QED BY <2>1, <2>2
<1> QED BY <1>1, Inductive, PTL

----------------------------------------------------------------------------
(* What completing means.                                                  *)

(* No action but Complete journals the completion of a call that waits for *)
(* its activation.                                                         *)
LEMMA OnlyComplete ==
  ASSUME IInv, [Next]_handoffVars, NEW a \in Attempts, attempt[a].stage = "activating",
         attempt'[a].journal = "complete"
  PROVE  Complete(a)
<1> USE DEF IInv
<1>1. Unfinished(a) /\ attempt[a].journal # "complete" /\ attempt[a].journal \in Statuses
  BY DEF Planned, Live, Unfinished, Terminal, TypeOK, Attempt
<1>2. \A b \in Attempts \ {a} : ~Live(b)
  BY DEF Planned, Live
<1>3. CASE UNCHANGED handoffVars
  BY <1>1, <1>3 DEF handoffVars
<1>4. CASE RuntimeNext
  <2>1. attempt'[a].journal = attempt[a].journal
    <3>1. CASE \E p \in Profiles : (\E t \in Threads : Open(p, t) \/ Unload(p, t) \/ Spawn(p, t))
      BY <3>1 DEF Open, Unload, Spawn
    <3>2. ASSUME NEW p \in Profiles, Restart(p) PROVE attempt'[a].journal = attempt[a].journal
      <4>1. attempt[a] \in Attempt
        BY DEF TypeOK
      <4>2. PICK R, c, v : attempt'[a] = [attempt[a] EXCEPT !.restarted = R, !.close = c,
                                                             !.activate = v]
        BY <3>2 DEF Restart
      <4> QED BY <4>1, <4>2 DEF Attempt
    <3>3. ASSUME NEW b \in Attempts, CloseRefused(b) \/ ClosePartly(b)
          PROVE  attempt'[a].journal = attempt[a].journal
      BY <3>3, CloseSet, Words DEF CloseRefused, ClosePartly, Becomes, Others
    <3>4. ASSUME NEW b \in Attempts, CloseDone(b) PROVE attempt'[a].journal = attempt[a].journal
      BY <3>4, CloseAnswered, Words DEF CloseDone, TypeOK, Becomes, Others
    <3>5. ASSUME NEW b \in Attempts, ActivateRefused(b)
          PROVE  attempt'[a].journal = attempt[a].journal
      BY <3>5, ActivateSet, Words DEF ActivateRefused, Becomes, Others
    <3>6. ASSUME NEW b \in Attempts, ActivateDone(b)
          PROVE  attempt'[a].journal = attempt[a].journal
      BY <3>6, ActivateAnswered, Words DEF ActivateDone, TypeOK, Becomes, Others
    <3> QED BY <1>4, <3>1, <3>2, <3>3, <3>4, <3>5, <3>6 DEF RuntimeNext
  <2> QED BY <1>1, <2>1
<1>5. ASSUME NEW b \in Attempts, AttemptNext(b) PROVE Complete(a)
  <2>1. CASE b # a
    <3>1. \E t \in Threads, p \in Profiles : Start(b, t, p)
      BY <1>2, <1>5, <2>1 DEF AttemptNext, RequestClose, SendClose, Release, RequestCommit, Lock,
         Commit, Move, RequestActivation, Complete, Fail, Crash, Live
    <3>2. attempt'[a] = attempt[a]
      BY <2>1, <3>1 DEF Start, TypeOK
    <3> QED BY <1>1, <3>2
  <2>2. CASE b = a
    <3>1. Complete(a) \/ Fail(a) \/ Crash(a)
      BY <1>5, <2>2 DEF AttemptNext, Start, RequestClose, SendClose, Release, RequestCommit,
         Lock, Commit, Move, RequestActivation
    <3>2. CASE Fail(a)
      <4>1. PICK j \in Verdicts(a) \cup {attempt[a].journal} : Advance(a, j, "ended")
        BY <3>2 DEF Fail
      <4>2. j # "complete"
        BY <1>1, <4>1 DEF Verdicts
      <4>3. attempt'[a].journal = j
        BY <4>1 DEF Advance, TypeOK, Attempt
      <4> QED BY <4>2, <4>3
    <3>3. CASE Crash(a)
      BY <1>1, <3>3 DEF Crash, TypeOK, Attempt
    <3> QED BY <3>1, <3>2, <3>3
  <2> QED BY <2>1, <2>2
<1> QED BY <1>3, <1>4, <1>5 DEF Next

(* A hand-over that completes hands over the whole tree, children spawned  *)
(* meanwhile included: every conversation is the target's, none is loaded  *)
(* elsewhere, and its gate is open in the target unless an unfinished call *)
(* has a close that was not accounted for.                                 *)
THEOREM HandsOverTheTree == Spec => CompleteMeansHandedOver
<1>1. IInv /\ [Next]_handoffVars =>
        [\A a \in Attempts :
           attempt[a].stage = "activating" /\ attempt'[a].journal = "complete" =>
             \A t \in tree :
               /\ record[t].owner = attempt[a].target
               /\ writer[t] \in {attempt[a].target, NoProfile}
               /\ \/ fence[attempt[a].target][t] = "open"
                  \/ \E b \in Attempts \ {a} :
                       Unfinished(b) /\ attempt[b].close # "none"]_handoffVars
  <2> SUFFICES ASSUME IInv, [Next]_handoffVars, NEW a \in Attempts,
                      attempt[a].stage = "activating", attempt'[a].journal = "complete"
               PROVE  \A t \in tree :
                        /\ record[t].owner = attempt[a].target
                        /\ writer[t] \in {attempt[a].target, NoProfile}
                        /\ \/ fence[attempt[a].target][t] = "open"
                           \/ \E b \in Attempts \ {a} :
                                Unfinished(b) /\ attempt[b].close # "none"
    OBVIOUS
  <2>1. Complete(a)
    BY OnlyComplete
  <2>2. Handed(a)
    BY <2>1 DEF IInv, Whole, Complete
  <2> QED BY <2>2 DEF IInv, Owned, Handed
<1> QED BY <1>1, Inductive, PTL DEF Spec, CompleteMeansHandedOver

----------------------------------------------------------------------------
(* The owner records: every step of a runtime and of a call is a step that *)
(* Ownership allows, or leaves the records and writers alone.              *)

LEMMA InitRefines == Init => Owner!Init
<1> SUFFICES ASSUME Init PROVE Owner!Init
  OBVIOUS
<1>1. PICK p \in Profiles :
        record = [t \in Threads |-> IF t \in tree THEN [owner |-> p, epoch |-> 1] ELSE NoGrant]
  BY DEF Init
<1> QED BY <1>1 DEF Init, Owner!Init

(* A runtime that closes some of its recorders.                            *)
LEMMA ClosesRefine ==
  ASSUME NEW T \in SUBSET Threads, UNCHANGED record,
         writer' = [t \in Threads |-> IF t \in T THEN NoProfile ELSE writer[t]]
  PROVE  Owner!Next
BY DEF Owner!Next, Owner!Close

LEMMA NextRefines == IInv /\ [Next]_handoffVars => [Owner!Next]_(Owner!vars)
<1> SUFFICES ASSUME IInv, [Next]_handoffVars, ~UNCHANGED <<record, writer>> PROVE Owner!Next
  BY DEF Owner!vars
<1> USE DEF IInv
<1>1. ASSUME NEW p \in Profiles, NEW t \in Threads, Open(p, t) PROVE Owner!Next
  <2>1. Owner!Open(t)
    BY <1>1, Bounds DEF Open, Owner!Open, Owned
  <2> QED BY <2>1 DEF Owner!Next
<1>2. ASSUME NEW p \in Profiles, NEW t \in Threads, Unload(p, t) PROVE Owner!Next
  <2>1. writer' = [u \in Threads |-> IF u \in {t} THEN NoProfile ELSE writer[u]]
    BY <1>2 DEF Unload, TypeOK
  <2> QED BY <1>2, <2>1, ClosesRefine DEF Unload
<1>3. ASSUME NEW p \in Profiles, NEW t \in Threads, Spawn(p, t) PROVE Owner!Next
  <2>1. Owner!Create(t, p)
    BY <1>3 DEF Spawn, Owner!Create, Owned
  <2> QED BY <2>1 DEF Owner!Next
<1>4. ASSUME NEW p \in Profiles, Restart(p) PROVE Owner!Next
  <2> DEFINE T == {t \in Threads : writer[t] = p}
  <2>1. writer' = [u \in Threads |-> IF u \in T THEN NoProfile ELSE writer[u]] /\ UNCHANGED record
    BY <1>4 DEF Restart
  <2> QED BY <2>1, ClosesRefine
<1>5. ASSUME NEW a \in Attempts, ClosePartly(a) PROVE Owner!Next
  <2>1. PICK C \in SUBSET tree : writer' = Without(C)
    BY <1>5 DEF ClosePartly
  <2> QED BY <1>5, <2>1, ClosesRefine DEF ClosePartly, Without, TypeOK
<1>6. ASSUME NEW a \in Attempts, CloseDone(a) PROVE Owner!Next
  BY <1>6, ClosesRefine DEF CloseDone, Without, TypeOK
<1>7. ASSUME NEW a \in Attempts, NEW t \in Threads, Move(a, t) PROVE Owner!Next
  <2>1. t \in attempt[a].threads /\ attempt[a].stage = "moving" /\ record[t] # Moved(a, t)
        /\ record' = [record EXCEPT ![t] = Moved(a, t)] /\ UNCHANGED writer
    BY <1>7 DEF Move, Pending
  <2>2. record[t] = attempt[a].expected[t] /\ record[t].epoch < MaxEpoch /\ writer[t] = NoProfile
    BY <2>1 DEF Locking
  <2>3. attempt[a].target \in Profiles /\ attempt[a].target # record[t].owner /\ record[t] \in Grant
    BY <2>1, <2>2 DEF Planned
  <2>4. record' = [record EXCEPT ![t] = [owner |-> attempt[a].target, epoch |-> @.epoch + 1]]
    BY <2>1, <2>2 DEF Moved
  <2>5. Owner!Move(t, attempt[a].target)
    BY <2>1, <2>2, <2>3, <2>4, Bounds DEF Owner!Move
  <2> QED BY <2>3, <2>5 DEF Owner!Next
<1>8. CASE RuntimeNext
  BY <1>1, <1>2, <1>3, <1>4, <1>5, <1>6, <1>8 DEF RuntimeNext, CloseRefused, ActivateRefused,
     ActivateDone
<1>9. ASSUME NEW a \in Attempts, AttemptNext(a) PROVE Owner!Next
  BY <1>7, <1>9 DEF AttemptNext, Start, RequestClose, SendClose, Release, RequestCommit, Lock,
     Commit, RequestActivation, Complete, Fail, Crash, runtimeVars
<1> QED BY <1>8, <1>9 DEF Next, handoffVars

(* The hand-over implements what the owner records promise: one owner at a *)
(* time, only its runtime writes, and a move happens under a new epoch and *)
(* while nobody writes.                                                    *)
THEOREM RefinesOwnership == Spec => ImplementsOwnership
BY InitRefines, NextRefines, Inductive, PTL DEF Spec, ImplementsOwnership, Owner!Spec
=============================================================================

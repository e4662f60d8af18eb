------------------------------- MODULE Handoff -------------------------------
(***************************************************************************)
(* The hand-over of one conversation and its spawned subtree to another    *)
(* account (scripts/manager_core/handoff.py; remote_handoff.py runs the    *)
(* same engine over SSH): close the subtree in the runtime of its owner,   *)
(* swap the owner records, activate the subtree in the runtime of the      *)
(* target, each step announced in a durable journal before it is taken.    *)
(*                                                                         *)
(* An attempt is one call of continue_conversation, in any thread of any   *)
(* manager process.  A request to a runtime may still be executed after    *)
(* the attempt that sent it timed out or died.  Profiles stand for their   *)
(* runtimes.  The owner records are used here at the level of Ownership,   *)
(* which Authority implements: the three locks of a record are one.        *)
(***************************************************************************)
EXTENDS Naturals, FiniteSets

CONSTANTS
  Threads,     \* conversations of one tree
  Root,        \* its root
  Profiles,    \* accounts, each with its runtime
  NoProfile, NoGrant, MaxEpoch,
  MaxAttempts, \* bound on the calls
  Nobody,      \* a lock not held
  Abandoned    \* a lock directory whose process is gone

ASSUME HandoffConstants ==
  /\ Root \in Threads
  /\ NoProfile \notin Profiles
  /\ NoGrant \notin [owner : Profiles, epoch : 1 .. MaxEpoch]
  /\ {MaxEpoch, MaxAttempts} \subseteq Nat \ {0}
  /\ Nobody # Abandoned /\ {Nobody, Abandoned} \cap (1 .. MaxAttempts) = {}

Attempts == 1 .. MaxAttempts
Grant == [owner : Profiles, epoch : 1 .. MaxEpoch]

VARIABLES
  tree,       \* the conversations that exist
  record,     \* per conversation, its durable owner and epoch
  writer,     \* per conversation, the runtime that has its actor loaded
  locked,     \* per conversation, the attempt with its authority locks
  fence,      \* per runtime and conversation, its request gate
  activated,  \* per runtime and conversation, the last epoch activated
  rootGuard,  \* the attempt with the guard file of the root
  attempt     \* per attempt, the call and its journal

handoffVars == <<tree, record, writer, locked, fence, activated, rootGuard, attempt>>
runtimeVars == <<tree, record, writer, fence, activated>>

Statuses == {"none", "preparing", "close_requested", "source_released",
             "authority_commit_requested", "authority_committed",
             "activation_requested", "complete",
             "recovery_required", "blocked_before_close"}
Terminal == {"none", "complete", "blocked_before_close"}

Stages == {"unused", "preparing", "closing", "released", "locking", "moving",
           "committed", "activating", "ended"}

Requests == {"none", "sent", "done", "failed"}

(* journal: status on disk; stage: how far the call got, lost with its     *)
(* process; threads, expected: the subtree and its grants as planned;      *)
(* restarted: runtimes whose identity is no longer the planned one;        *)
(* close, activate: the requests, closed, active: the scope the runtime    *)
(* answered for.                                                           *)
Attempt == [journal : Statuses, stage : Stages,
            requested : Threads, threads : SUBSET Threads,
            source : Profiles \cup {NoProfile}, target : Profiles \cup {NoProfile},
            expected : [Threads -> Grant \cup {NoGrant}],
            restarted : SUBSET Profiles,
            close : Requests, closed : SUBSET Threads,
            activate : Requests, active : SUBSET Threads]

Unused == [journal |-> "none", stage |-> "unused", requested |-> Root, threads |-> {},
           source |-> NoProfile, target |-> NoProfile,
           expected |-> [t \in Threads |-> NoGrant], restarted |-> {},
           close |-> "none", closed |-> {}, activate |-> "none", active |-> {}]

TypeOK ==
  /\ Root \in tree /\ tree \subseteq Threads
  /\ record \in [Threads -> Grant \cup {NoGrant}]
  /\ writer \in [Threads -> Profiles \cup {NoProfile}]
  /\ locked \in [Threads -> Attempts \cup {Nobody, Abandoned}]
  /\ fence \in [Profiles -> [Threads -> {"open", "released", "uncertain"}]]
  /\ activated \in [Profiles -> [Threads -> 0 .. MaxEpoch]]
  /\ rootGuard \in Attempts \cup {Nobody}
  /\ attempt \in [Attempts -> Attempt]

----------------------------------------------------------------------------
(* The runtimes.                                                           *)

(* A request for a conversation loads it, where its owner's gate is open.  *)
Open(p, t) ==
  /\ t \in tree /\ writer[t] = NoProfile
  /\ record[t].owner = p
  /\ fence[p][t] = "open"
  /\ locked[t] \notin Attempts
  /\ writer' = [writer EXCEPT ![t] = p]
  /\ UNCHANGED <<tree, record, locked, fence, activated, rootGuard, attempt>>

(* An idle conversation is unloaded, or one whose close was cut short      *)
(* stops after all.                                                        *)
Unload(p, t) ==
  /\ writer[t] = p
  /\ writer' = [writer EXCEPT ![t] = NoProfile]
  /\ UNCHANGED <<tree, record, locked, fence, activated, rootGuard, attempt>>

(* A turn of the root spawns a child: its record names the runtime that    *)
(* runs the root as owner.  The child's actor is loaded like any other.    *)
Spawn(p, t) ==
  /\ t \notin tree
  /\ writer[Root] = p /\ fence[p][Root] = "open"
  /\ tree' = tree \cup {t}
  /\ record' = [record EXCEPT ![t] = [owner |-> p, epoch |-> 1]]
  /\ UNCHANGED <<writer, locked, fence, activated, rootGuard, attempt>>

(* A runtime is replaced by one of another generation: its actors, gates   *)
(* and pending requests are gone, and its identity has changed.            *)
Lost(a, p, field, to) == IF attempt[a][field] = "sent" /\ attempt[a][to] = p
                           THEN "failed" ELSE attempt[a][field]

Restart(p) ==
  /\ writer' = [t \in Threads |-> IF writer[t] = p THEN NoProfile ELSE writer[t]]
  /\ fence' = [fence EXCEPT ![p] = [t \in Threads |-> "open"]]
  /\ activated' = [activated EXCEPT ![p] = [t \in Threads |-> 0]]
  /\ attempt' = [a \in Attempts |->
       [attempt[a] EXCEPT
          !.restarted = IF attempt[a].stage \in {"unused", "ended"} THEN @ ELSE @ \cup {p},
          !.close = Lost(a, p, "close", "source"),
          !.activate = Lost(a, p, "activate", "target")]]
  /\ UNCHANGED <<tree, record, locked, rootGuard>>

(* managed_close_idle may go ahead: the root is loaded, the whole subtree  *)
(* is this runtime's and nothing in it is closing already.                 *)
Closable(p) ==
  /\ writer[Root] = p
  /\ \A t \in tree :
       /\ writer[t] \in {p, NoProfile}
       /\ record[t].owner = p
       /\ locked[t] \notin Attempts
       /\ fence[p][t] # "uncertain"

(* Any error before the first actor stops leaves the gates as they were.   *)
CloseRefused(a) ==
  /\ attempt[a].close = "sent"
  /\ attempt' = [attempt EXCEPT ![a].close = "failed"]
  /\ UNCHANGED <<tree, record, writer, locked, fence, activated, rootGuard>>

Gates(p, state) == [fence EXCEPT ![p] = [t \in Threads |-> IF t \in tree THEN state ELSE @[t]]]
Without(T) == [t \in Threads |-> IF t \in T THEN NoProfile ELSE writer[t]]

(* An error or the time limit after the gates were armed: the closed ones, *)
(* leaves first, stay closed and every gate of the subtree stays frozen.   *)
ClosePartly(a) ==
  /\ attempt[a].close = "sent" /\ Closable(attempt[a].source)
  /\ \E C \in SUBSET tree : (Root \in C => C = tree) /\ writer' = Without(C)
  /\ fence' = Gates(attempt[a].source, "uncertain")
  /\ attempt' = [attempt EXCEPT ![a].close = "failed"]
  /\ UNCHANGED <<tree, record, locked, activated, rootGuard>>

(* Every actor stopped and flushed: the answer names them.                 *)
CloseDone(a) ==
  /\ attempt[a].close = "sent" /\ Closable(attempt[a].source)
  /\ writer' = Without(tree)
  /\ fence' = Gates(attempt[a].source, "released")
  /\ attempt' = [attempt EXCEPT ![a] = [@ EXCEPT !.close = "done", !.closed = tree]]
  /\ UNCHANGED <<tree, record, locked, activated, rootGuard>>

(* managed_reload_binding may go ahead: the root's grant is the requested  *)
(* one, every descendant has a grant of its own for this runtime, newer    *)
(* than any activated before, no gate is uncertain and no actor loaded.    *)
Activatable(p, grant) ==
  /\ record[Root] = grant
  /\ \A t \in tree :
       /\ record[t].owner = p
       /\ record[t].epoch > activated[p][t]
       /\ fence[p][t] # "uncertain"
       /\ writer[t] = NoProfile /\ locked[t] \notin Attempts

ActivateRefused(a) ==
  /\ attempt[a].activate = "sent"
  /\ attempt' = [attempt EXCEPT ![a].activate = "failed"]
  /\ UNCHANGED <<tree, record, writer, locked, fence, activated, rootGuard>>

Moved(a, t) == [owner |-> attempt[a].target, epoch |-> attempt[a].expected[t].epoch + 1]

ActivateDone(a) ==
  LET p == attempt[a].target IN
  /\ attempt[a].activate = "sent" /\ Activatable(p, Moved(a, Root))
  /\ fence' = Gates(p, "open")
  /\ activated' = [activated EXCEPT ![p] =
       [t \in Threads |-> IF t \in tree THEN record[t].epoch ELSE @[t]]]
  /\ attempt' = [attempt EXCEPT ![a] = [@ EXCEPT !.activate = "done", !.active = tree]]
  /\ UNCHANGED <<tree, record, writer, locked, rootGuard>>

RuntimeNext ==
  \/ \E p \in Profiles :
       \/ \E t \in Threads : Open(p, t) \/ Unload(p, t) \/ Spawn(p, t)
       \/ Restart(p)
  \/ \E a \in Attempts :
       \/ CloseRefused(a) \/ ClosePartly(a) \/ CloseDone(a)
       \/ ActivateRefused(a) \/ ActivateDone(a)

----------------------------------------------------------------------------
(* The attempts.                                                           *)

Unfinished(a) == attempt[a].journal \notin Terminal
Live(a) == attempt[a].stage \notin {"unused", "ended"}
SameIdentity(a, p) == p \notin attempt[a].restarted

(* recovery_status: an unfinished attempt blocks the conversations its     *)
(* journal names.                                                          *)
RecoveryRequired(t) == \E a \in Attempts : Unfinished(a) /\ t \in attempt[a].threads

(* Mutant: the look at the journals before the guard file is the only one, *)
(* and an attempt of another manager may have begun and died since.        *)
PlanSeenBefore(a, t, p) ==
  LET owner == record[t].owner IN
  /\ t \in tree /\ p # owner
  /\ writer[Root] = owner
  /\ \A u \in tree : record[u].owner = owner /\ writer[u] # p

(* _plan: t is in a subtree of one owner, whose runtime has the root       *)
(* loaded, and the target has nothing of it loaded.                        *)
Plan(a, t, p) ==
  LET owner == record[t].owner IN
  /\ t \in tree /\ p # owner
  /\ ~RecoveryRequired(t)
  /\ writer[Root] = owner
  /\ \A u \in tree : record[u].owner = owner /\ writer[u] # p

(* The guard file of the root is taken, the plan is made under it and the  *)
(* journal file written.  A failure up to here leaves nothing behind.      *)
Start(a, t, p) ==
  /\ attempt[a].stage = "unused"
  /\ \A b \in 1 .. a - 1 : attempt[b].stage # "unused"
  /\ rootGuard = Nobody
  /\ Plan(a, t, p)
  /\ rootGuard' = a
  /\ attempt' = [attempt EXCEPT ![a] =
       [Unused EXCEPT !.journal = "preparing", !.stage = "preparing",
          !.requested = t, !.threads = tree, !.source = record[t].owner, !.target = p,
          !.expected = [u \in Threads |-> IF u \in tree THEN record[u] ELSE NoGrant]]]
  /\ UNCHANGED <<runtimeVars, locked>>

Advance(a, journal, stage) ==
  attempt' = [attempt EXCEPT ![a] = [@ EXCEPT !.journal = journal, !.stage = stage]]

(* The target reads the subtree, the plan still holds, the intent to close *)
(* is journaled.                                                           *)
RequestClose(a) ==
  /\ attempt[a].stage = "preparing"
  /\ SameIdentity(a, attempt[a].source) /\ SameIdentity(a, attempt[a].target)
  /\ \A t \in attempt[a].threads :
       writer[t] # attempt[a].target /\ record[t] = attempt[a].expected[t]
  /\ Advance(a, "close_requested", "closing")
  /\ UNCHANGED <<runtimeVars, locked, rootGuard>>

(* The request is sent, or lost with the runtime it was meant for.         *)
SendClose(a) ==
  /\ attempt[a].stage = "closing" /\ attempt[a].close = "none"
  /\ attempt' = [attempt EXCEPT ![a].close =
       IF SameIdentity(a, attempt[a].source) THEN "sent" ELSE "failed"]
  /\ UNCHANGED <<runtimeVars, locked, rootGuard>>

(* The proof covers exactly the planned subtree.                           *)
Release(a) ==
  /\ attempt[a].stage = "closing" /\ attempt[a].close = "done"
  /\ attempt[a].closed = attempt[a].threads
  /\ SameIdentity(a, attempt[a].source)
  /\ Advance(a, "source_released", "released")
  /\ UNCHANGED <<runtimeVars, locked, rootGuard>>

RequestCommit(a) ==
  /\ attempt[a].stage = "released"
  /\ SameIdentity(a, attempt[a].target)
  /\ Advance(a, "authority_commit_requested", "locking")
  /\ UNCHANGED <<runtimeVars, locked, rootGuard>>

(* Mutant: the proof of the close makes the writer locks unnecessary.      *)
LockBesideWriters(a) ==
  /\ attempt[a].stage = "locking"
  /\ \A t \in attempt[a].threads :
       /\ locked[t] = Nobody
       /\ record[t] = attempt[a].expected[t] /\ record[t].epoch < MaxEpoch
  /\ locked' = [t \in Threads |-> IF t \in attempt[a].threads THEN a ELSE locked[t]]
  /\ attempt' = [attempt EXCEPT ![a].stage = "moving"]
  /\ UNCHANGED <<runtimeVars, rootGuard>>

(* Mutant: the version limit is not checked.                               *)
LockUnlimited(a) ==
  /\ attempt[a].stage = "locking"
  /\ \A t \in attempt[a].threads :
       /\ locked[t] = Nobody /\ writer[t] = NoProfile
       /\ record[t] = attempt[a].expected[t]
  /\ locked' = [t \in Threads |-> IF t \in attempt[a].threads THEN a ELSE locked[t]]
  /\ attempt' = [attempt EXCEPT ![a].stage = "moving"]
  /\ UNCHANGED <<runtimeVars, rootGuard>>

(* transfer_many: the locks of all records, the check of all, then one     *)
(* record at a time, the root's last.                                      *)
Lock(a) ==
  /\ attempt[a].stage = "locking"
  /\ \A t \in attempt[a].threads :
       /\ locked[t] = Nobody /\ writer[t] = NoProfile
       /\ record[t] = attempt[a].expected[t] /\ record[t].epoch < MaxEpoch
  /\ locked' = [t \in Threads |-> IF t \in attempt[a].threads THEN a ELSE locked[t]]
  /\ attempt' = [attempt EXCEPT ![a].stage = "moving"]
  /\ UNCHANGED <<runtimeVars, rootGuard>>

Pending(a) == {t \in attempt[a].threads : record[t] # Moved(a, t)}

Move(a, t) ==
  /\ attempt[a].stage = "moving" /\ t \in Pending(a)
  /\ t = Root => Pending(a) = {Root}
  /\ record' = [record EXCEPT ![t] = Moved(a, t)]
  /\ UNCHANGED <<tree, writer, locked, fence, activated, rootGuard, attempt>>

Unlocked(a) == [t \in Threads |-> IF locked[t] = a THEN Nobody ELSE locked[t]]

(* The new grants are read back and journaled, the target's manifest is    *)
(* written.                                                                *)
Commit(a) ==
  /\ attempt[a].stage = "moving" /\ Pending(a) = {}
  /\ locked' = Unlocked(a)
  /\ Advance(a, "authority_committed", "committed")
  /\ UNCHANGED <<runtimeVars, rootGuard>>

RequestActivation(a) ==
  /\ attempt[a].stage = "committed"
  /\ SameIdentity(a, attempt[a].target)
  /\ attempt' = [attempt EXCEPT ![a] =
       [@ EXCEPT !.journal = "activation_requested", !.stage = "activating",
                 !.activate = "sent"]]
  /\ UNCHANGED <<runtimeVars, locked, rootGuard>>

(* Mutant: an activation that was not answered is taken for done.          *)
CompleteUnanswered(a) ==
  /\ attempt[a].stage = "activating"
  /\ SameIdentity(a, attempt[a].target)
  /\ rootGuard' = Nobody
  /\ Advance(a, "complete", "ended")
  /\ UNCHANGED <<runtimeVars, locked>>

Complete(a) ==
  /\ attempt[a].stage = "activating" /\ attempt[a].activate = "done"
  /\ attempt[a].active = attempt[a].threads
  /\ SameIdentity(a, attempt[a].target)
  /\ rootGuard' = Nobody
  /\ Advance(a, "complete", "ended")
  /\ UNCHANGED <<runtimeVars, locked>>

(* Mutant: a request that the runtime refused or did not answer is taken   *)
(* for one that was not sent.                                              *)
VerdictsOptimistic(a) ==
  IF attempt[a].close \in {"none", "failed"} THEN {"blocked_before_close"}
  ELSE {"recovery_required"}

(* Mutant: a proven close leaves nothing uncertain.                        *)
VerdictsAfterProof(a) ==
  IF attempt[a].close \in {"none", "done"} THEN {"blocked_before_close"}
  ELSE {"recovery_required"}

(* What an error is journaled as: before the close may have been sent,     *)
(* nothing happened.  A close that was not sent counts so only when the    *)
(* transport says it.                                                      *)
Verdicts(a) ==
  IF attempt[a].stage = "preparing" THEN {"blocked_before_close"}
  ELSE IF attempt[a].close = "none" THEN {"blocked_before_close", "recovery_required"}
  ELSE {"recovery_required"}

(* An error, a failed check or a timeout, anywhere: the verdict is         *)
(* journaled, unless that fails as well.                                   *)
Fail(a) ==
  /\ Live(a)
  /\ rootGuard' = Nobody
  /\ locked' = Unlocked(a)
  /\ \E journal \in Verdicts(a) \cup {attempt[a].journal} : Advance(a, journal, "ended")
  /\ UNCHANGED runtimeVars

(* The process ends.  Lock directories it made are not removed.            *)
Crash(a) ==
  /\ Live(a)
  /\ rootGuard' = Nobody
  /\ \E T \in SUBSET attempt[a].threads :
       /\ T # {} => attempt[a].stage \in {"locking", "moving"}
       /\ attempt[a].stage = "moving" => T = attempt[a].threads
       /\ locked' = [t \in Threads |->
            IF t \in T /\ locked[t] \in {a, Nobody} THEN Abandoned ELSE locked[t]]
  /\ attempt' = [attempt EXCEPT ![a].stage = "ended"]
  /\ UNCHANGED runtimeVars

AttemptNext(a) ==
  \/ \E t \in Threads, p \in Profiles : Start(a, t, p)
  \/ RequestClose(a) \/ SendClose(a) \/ Release(a)
  \/ RequestCommit(a) \/ Lock(a) \/ Commit(a)
  \/ \E t \in Threads : Move(a, t)
  \/ RequestActivation(a) \/ Complete(a)
  \/ Fail(a) \/ Crash(a)

----------------------------------------------------------------------------
(* One account owns the conversations that exist at first.                 *)
Init ==
  /\ tree \in {T \in SUBSET Threads : Root \in T}
  /\ \E p \in Profiles :
       record = [t \in Threads |->
                   IF t \in tree THEN [owner |-> p, epoch |-> 1] ELSE NoGrant]
  /\ writer = [t \in Threads |-> NoProfile]
  /\ locked = [t \in Threads |-> Nobody]
  /\ fence = [p \in Profiles |-> [t \in Threads |-> "open"]]
  /\ activated = [p \in Profiles |-> [t \in Threads |-> 0]]
  /\ rootGuard = Nobody
  /\ attempt = [a \in Attempts |-> Unused]

Next == RuntimeNext \/ \E a \in Attempts : AttemptNext(a)

Spec == Init /\ [][Next]_handoffVars

----------------------------------------------------------------------------
(* An attempt that is reported as blocked, and so may be made again, never *)
(* sent its close: no runtime will execute it late.                        *)
BlockedMeansUntouched ==
  \A a \in Attempts : attempt[a].journal = "blocked_before_close" => attempt[a].close = "none"

(* A tree split between two accounts, by an error or crash within the      *)
(* commit or by a child spawned behind it, has an unfinished attempt in    *)
(* the journals.                                                           *)
SplitIsJournaled ==
  (\E t, u \in tree : record[t].owner # record[u].owner)
    => \E a \in Attempts : Unfinished(a)

(* A conversation named in the journal of an unfinished attempt is not     *)
(* handed over again, whatever manager died or raced with it.              *)
RequestedNotReplayed ==
  \A a, b \in Attempts :
    a < b /\ Unfinished(a) => attempt[b].requested \notin attempt[a].threads
                              \/ attempt[b].close = "none"

(* When an attempt completes, the whole tree is the target's, children     *)
(* spawned meanwhile included, and usable in its runtime, unless the close *)
(* of an unfinished attempt may still be executed there.                   *)
CompleteMeansHandedOver ==
  [][\A a \in Attempts :
       attempt[a].stage = "activating" /\ attempt'[a].journal = "complete" =>
         \A t \in tree :
           /\ record[t].owner = attempt[a].target
           /\ writer[t] \in {attempt[a].target, NoProfile}
           /\ \/ fence[attempt[a].target][t] = "open"
              \/ \E b \in Attempts \ {a} : Unfinished(b) /\ attempt[b].close # "none"]_handoffVars

(* The hand-over keeps what the owner records promise.                     *)
Owner == INSTANCE Ownership
ImplementsOwnership == Owner!Spec

(* handoff.py:5, "the durable journal prevents an uncertain close [...]    *)
(* being replayed": the root is not closed for a second attempt while the  *)
(* outcome of a first close is open.                                       *)
CloseNotReplayed ==
  \A a, b \in Attempts :
    a < b /\ Unfinished(a) /\ attempt[a].close # "none" => attempt[b].close = "none"
=============================================================================

------------------------------ MODULE Authority ------------------------------
(***************************************************************************)
(* The durable owner records of managed conversations, and their           *)
(* compare-and-swap by the manager (scripts/manager_core/authority.py).    *)
(*                                                                         *)
(* A record is replaced under three locks, taken in this order for every   *)
(* conversation of the batch: a lock directory made with mkdir, which      *)
(* survives a crash and is never stolen; the guard file, an OS lock that   *)
(* runtimes share while they write; and the recorder's writer lock, an OS  *)
(* lock that the runtime with the conversation loaded holds.  None of them *)
(* is waited for.  The runtimes' side of the locks is in the patch that    *)
(* builds them (patches/codex-0.153.4-cross-provider.patch).               *)
(*                                                                         *)
(* Epoch and revision of a record move together and are one number here.   *)
(***************************************************************************)
EXTENDS Naturals, FiniteSets

CONSTANTS
  Threads,    \* conversations
  Profiles,   \* accounts, each with its runtime
  Movers,     \* threads of manager processes that transfer ownership
  NoProfile,  \* "nobody" among profiles and movers
  Abandoned,  \* owner of a lock directory whose mover is gone
  NoGrant,    \* no record, and no binding to one
  MaxEpoch    \* MAX_COUNTER

ASSUME AuthorityConstants ==
  /\ Profiles \cap Movers = {}
  /\ NoProfile \notin Profiles \cup Movers
  /\ Abandoned \notin Movers \cup {NoProfile}
  /\ MaxEpoch \in Nat \ {0}

VARIABLES
  record,     \* per conversation, its owner and epoch (NoGrant: not created)
  dir,        \* per conversation, who made its lock directory
  guard,      \* per conversation, the mover with its guard file locked
  writerLock, \* per conversation, the runtime or mover with its writer lock
  bound,      \* per profile and conversation, the grant the runtime loaded
  writing,    \* per profile, the conversations it has a write permit for
  call        \* per mover, its transfer_many in progress or just ended

authorityVars == <<record, dir, guard, writerLock, bound, writing, call>>

Grant == [owner : Profiles, epoch : 1 .. MaxEpoch]

ASSUME NoGrantIsNone == NoGrant \notin Grant

Stages == {"idle", "read", "dirs", "guards", "locks", "check",
           "replace", "moved", "refused", "incomplete"}

(* stage: how far the call got; batch, target: its arguments; expected:    *)
(* the grants its caller read before; todo: records still to replace;      *)
(* changed: what the call reports as replaced; unread: the records it      *)
(* could not read back for the report (AuthorityBatchIncomplete.uncertain  *)
(* when there are any).                                                    *)
Call == [stage : Stages, batch : SUBSET Threads, target : Profiles \cup {NoProfile},
         expected : [Threads -> Grant \cup {NoGrant}], todo : SUBSET Threads,
         changed : SUBSET Threads, unread : SUBSET Threads]

NoCall == [stage |-> "idle", batch |-> {}, target |-> NoProfile,
           expected |-> [t \in Threads |-> NoGrant], todo |-> {},
           changed |-> {}, unread |-> {}]

TypeOK ==
  /\ record \in [Threads -> Grant \cup {NoGrant}]
  /\ dir \in [Threads -> Movers \cup {NoProfile, Abandoned}]
  /\ guard \in [Threads -> Movers \cup {NoProfile}]
  /\ writerLock \in [Threads -> Profiles \cup Movers \cup {NoProfile}]
  /\ bound \in [Profiles -> [Threads -> Grant \cup {NoGrant}]]
  /\ writing \in [Profiles -> SUBSET Threads]
  /\ call \in [Movers -> Call]

----------------------------------------------------------------------------
(* The runtimes.                                                           *)

Loaded(p, t) == writerLock[t] = p

(* A runtime creates a conversation under an identifier never used before. *)
(* It takes the lock directory of a transfer for that.                     *)
Create(p, t) ==
  /\ record[t] = NoGrant /\ dir[t] = NoProfile
  /\ record' = [record EXCEPT ![t] = [owner |-> p, epoch |-> 1]]
  /\ bound' = [bound EXCEPT ![p][t] = [owner |-> p, epoch |-> 1]]
  /\ UNCHANGED <<dir, guard, writerLock, writing, call>>

(* A runtime binds a conversation it has not loaded to the grant it finds  *)
(* in the record, if it is the owner.                                      *)
Bind(p, t) ==
  /\ ~Loaded(p, t) /\ t \notin writing[p]
  /\ record[t] # NoGrant
  /\ record[t].owner = p
  /\ bound' = [bound EXCEPT ![p][t] = record[t]]
  /\ UNCHANGED <<record, dir, guard, writerLock, writing, call>>

(* Mutant: the record is validated before the lock only, so the binding    *)
(* may be stale once it is taken.                                          *)
PermitUnchecked(p, t) ==
  /\ t \notin writing[p]
  /\ guard[t] = NoProfile
  /\ bound[p][t] # NoGrant
  /\ writing' = [writing EXCEPT ![p] = @ \cup {t}]

(* A write permit: the guard file is locked shared, and the record         *)
(* validated against the binding with the lock held.                       *)
Permit(p, t) ==
  /\ t \notin writing[p]
  /\ guard[t] = NoProfile
  /\ bound[p][t] # NoGrant /\ bound[p][t] = record[t]
  /\ writing' = [writing EXCEPT ![p] = @ \cup {t}]

(* The first write loads the conversation: the writer lock is taken under  *)
(* the permit and kept when the permit is given back.                      *)
BeginWrite(p, t) ==
  /\ Permit(p, t)
  /\ writerLock[t] \in {NoProfile, p}
  /\ writerLock' = [writerLock EXCEPT ![t] = p]
  /\ UNCHANGED <<record, dir, guard, bound, call>>

EndWrite(p, t) ==
  /\ t \in writing[p]
  /\ writing' = [writing EXCEPT ![p] = @ \ {t}]
  /\ UNCHANGED <<record, dir, guard, writerLock, bound, call>>

(* An idle recorder is closed under a permit of its own; the binding is    *)
(* revoked and the writer lock given up.                                   *)
CloseRecorder(p, t) ==
  /\ Loaded(p, t) /\ t \notin writing[p]
  /\ guard[t] = NoProfile
  /\ bound[p][t] = record[t]
  /\ writerLock' = [writerLock EXCEPT ![t] = NoProfile]
  /\ bound' = [bound EXCEPT ![p][t] = NoGrant]
  /\ UNCHANGED <<record, dir, guard, writing, call>>

(* The runtime process ends and the OS gives up its locks.                 *)
RuntimeExit(p) ==
  /\ writerLock' = [t \in Threads |-> IF Loaded(p, t) THEN NoProfile ELSE writerLock[t]]
  /\ bound' = [bound EXCEPT ![p] = [t \in Threads |-> NoGrant]]
  /\ writing' = [writing EXCEPT ![p] = {}]
  /\ UNCHANGED <<record, dir, guard, call>>

----------------------------------------------------------------------------
(* The manager: transfer_many, and transfer for a batch of one.            *)

Batch(m) == call[m].batch

Busy(t) == \E p \in Profiles : t \in writing[p]

(* The caller reads the records of the batch, some time before it calls.   *)
ReadGrants(m, T, p) ==
  /\ call[m].stage = "idle"
  /\ T # {}
  /\ \A t \in T : record[t] # NoGrant
  /\ \A t, u \in T : record[t].owner = record[u].owner
  /\ \A t \in T : record[t].owner # p
  /\ call' = [call EXCEPT ![m] =
       [NoCall EXCEPT !.stage = "read", !.batch = T, !.target = p,
          !.expected = [t \in Threads |-> IF t \in T THEN record[t] ELSE NoGrant]]]
  /\ UNCHANGED <<record, dir, guard, writerLock, bound, writing>>

Start(m) ==
  /\ call[m].stage = "read"
  /\ call' = [call EXCEPT ![m].stage = "dirs"]
  /\ UNCHANGED <<record, dir, guard, writerLock, bound, writing>>

(* The caller is done with the call, or gives up before it.                *)
Forget(m) ==
  /\ call[m].stage \in {"read", "moved", "refused", "incomplete"}
  /\ call' = [call EXCEPT ![m] = NoCall]
  /\ UNCHANGED <<record, dir, guard, writerLock, bound, writing>>

(* The code takes each kind of lock in the order of the identifiers; here  *)
(* any order will do.                                                      *)
Reached(m, lock, t, next) ==
  IF \A u \in Batch(m) \ {t} : lock[u] = m THEN next ELSE call[m].stage

(* Mutant: an abandoned lock directory is taken over.                      *)
TakeDirStolen(m, t) ==
  /\ call[m].stage = "dirs" /\ t \in Batch(m)
  /\ dir[t] \in {NoProfile, Abandoned}
  /\ dir' = [dir EXCEPT ![t] = m]
  /\ call' = [call EXCEPT ![m].stage = Reached(m, dir, t, "guards")]
  /\ UNCHANGED <<record, guard, writerLock, bound, writing>>

TakeDir(m, t) ==
  /\ call[m].stage = "dirs" /\ t \in Batch(m)
  /\ dir[t] = NoProfile
  /\ dir' = [dir EXCEPT ![t] = m]
  /\ call' = [call EXCEPT ![m].stage = Reached(m, dir, t, "guards")]
  /\ UNCHANGED <<record, guard, writerLock, bound, writing>>

TakeGuard(m, t) ==
  /\ call[m].stage = "guards" /\ t \in Batch(m)
  /\ guard[t] = NoProfile /\ ~Busy(t)
  /\ guard' = [guard EXCEPT ![t] = m]
  /\ call' = [call EXCEPT ![m].stage = Reached(m, guard, t, "locks")]
  /\ UNCHANGED <<record, dir, writerLock, bound, writing>>

(* Mutant: a loaded but idle recorder does not keep the lock from being    *)
(* passed.                                                                 *)
TakeWriterLockIdle(m, t) ==
  /\ call[m].stage = "locks" /\ t \in Batch(m)
  /\ writerLock[t] # m
  /\ writerLock' = IF writerLock[t] = NoProfile THEN [writerLock EXCEPT ![t] = m] ELSE writerLock
  /\ call' = [call EXCEPT ![m].stage = Reached(m, writerLock, t, "check")]
  /\ UNCHANGED <<record, dir, guard, bound, writing>>

TakeWriterLock(m, t) ==
  /\ call[m].stage = "locks" /\ t \in Batch(m)
  /\ writerLock[t] = NoProfile
  /\ writerLock' = [writerLock EXCEPT ![t] = m]
  /\ call' = [call EXCEPT ![m].stage = Reached(m, writerLock, t, "check")]
  /\ UNCHANGED <<record, dir, guard, bound, writing>>

(* Mutant: the version limit is not checked.                               *)
CurrentUnlimited(m) ==
  \A t \in Batch(m) : record[t] = call[m].expected[t]

Current(m) ==
  \A t \in Batch(m) : record[t] = call[m].expected[t] /\ record[t].epoch < MaxEpoch

(* Every record is compared before the first one is replaced.              *)
Check(m) ==
  /\ call[m].stage = "check" /\ Current(m)
  /\ call' = [call EXCEPT ![m] = [@ EXCEPT !.stage = "replace", !.todo = Batch(m)]]
  /\ UNCHANGED <<record, dir, guard, writerLock, bound, writing>>

(* The locks of m are given up, whatever way the call ends.                *)
Unlocked(m, lock) == [t \in Threads |-> IF lock[t] = m THEN NoProfile ELSE lock[t]]

End(m, stage, changed, unread) ==
  /\ dir' = Unlocked(m, dir)
  /\ guard' = Unlocked(m, guard)
  /\ writerLock' = Unlocked(m, writerLock)
  /\ call' = [call EXCEPT ![m] =
       [@ EXCEPT !.stage = stage, !.todo = {}, !.changed = changed, !.unread = unread]]

(* A lock of the batch is taken, or a record is not the expected one.      *)
Refuse(m) ==
  /\ \/ /\ call[m].stage = "dirs"
        /\ \E t \in Batch(m) : dir[t] \notin {NoProfile, m}
     \/ /\ call[m].stage = "guards"
        /\ \E t \in Batch(m) : guard[t] # m /\ (guard[t] # NoProfile \/ Busy(t))
     \/ /\ call[m].stage = "locks"
        /\ \E t \in Batch(m) : writerLock[t] \notin {NoProfile, m}
     \/ call[m].stage = "check" /\ ~Current(m)
  /\ End(m, "refused", {}, {})
  /\ UNCHANGED <<record, bound, writing>>

(* _replace_owner: a temporary file is renamed over the record.            *)
Replaced(m, t) ==
  [record EXCEPT ![t] = [owner |-> call[m].target, epoch |-> @.epoch + 1]]

Replace(m, t) ==
  /\ call[m].stage = "replace" /\ t \in call[m].todo
  /\ record' = Replaced(m, t)
  /\ call' = [call EXCEPT ![m].todo = @ \ {t}]
  /\ UNCHANGED <<dir, guard, writerLock, bound, writing>>

(* Mutant: the report counts the records the loop had passed.              *)
ReplaceFailsCounted(m, t) ==
  /\ call[m].stage = "replace" /\ t \in call[m].todo
  /\ record' \in {record, Replaced(m, t)}
  /\ \E unread \in SUBSET Batch(m) :
       End(m, "incomplete", Batch(m) \ (call[m].todo \cup unread), unread)
  /\ UNCHANGED <<bound, writing>>

(* An error at the record of t, before the rename or after it.  Nothing is *)
(* rolled back: the records are read again and the changed ones reported.  *)
ReplaceFails(m, t) ==
  /\ call[m].stage = "replace" /\ t \in call[m].todo
  /\ record' \in {record, Replaced(m, t)}
  /\ \E unread \in SUBSET Batch(m) :
       End(m, "incomplete",
           {u \in Batch(m) \ unread : record'[u] # call[m].expected[u]}, unread)
  /\ UNCHANGED <<bound, writing>>

Finish(m) ==
  /\ call[m].stage = "replace" /\ call[m].todo = {}
  /\ End(m, "moved", Batch(m), {})
  /\ UNCHANGED <<record, bound, writing>>

(* The manager process ends: the OS gives up its file locks, and its lock  *)
(* directories stay behind.                                                *)
MoverExit(m) ==
  /\ dir' = [t \in Threads |-> IF dir[t] = m THEN Abandoned ELSE dir[t]]
  /\ guard' = Unlocked(m, guard)
  /\ writerLock' = Unlocked(m, writerLock)
  /\ call' = [call EXCEPT ![m] = NoCall]
  /\ UNCHANGED <<record, bound, writing>>

----------------------------------------------------------------------------
Init ==
  /\ record \in [Threads -> [owner : Profiles, epoch : {1}] \cup {NoGrant}]
  /\ dir = [t \in Threads |-> NoProfile]
  /\ guard = [t \in Threads |-> NoProfile]
  /\ writerLock = [t \in Threads |-> NoProfile]
  /\ bound = [p \in Profiles |-> [t \in Threads |-> NoGrant]]
  /\ writing = [p \in Profiles |-> {}]
  /\ call = [m \in Movers |-> NoCall]

RuntimeNext(p) ==
  \/ \E t \in Threads :
       Create(p, t) \/ Bind(p, t) \/ BeginWrite(p, t) \/ EndWrite(p, t) \/ CloseRecorder(p, t)
  \/ RuntimeExit(p)

TransferNext(m) ==
  \/ \E t \in Threads :
       \/ TakeDir(m, t) \/ TakeGuard(m, t) \/ TakeWriterLock(m, t)
       \/ Replace(m, t) \/ ReplaceFails(m, t)
  \/ Check(m) \/ Refuse(m) \/ Finish(m)

Next ==
  \/ \E p \in Profiles : RuntimeNext(p)
  \/ \E m \in Movers :
       \/ \E T \in SUBSET Threads, p \in Profiles : ReadGrants(m, T, p)
       \/ Start(m) \/ Forget(m) \/ TransferNext(m) \/ MoverExit(m)

Spec == Init /\ [][Next]_authorityVars

----------------------------------------------------------------------------
(* A recorder is open, and a write permit held, only under the grant that  *)
(* is in the record, however stale the binding and however the transfer    *)
(* of another manager interleaves with the open.                           *)
OnlyOwnerWrites ==
  \A p \in Profiles, t \in Threads :
    Loaded(p, t) \/ t \in writing[p] =>
      /\ record[t] # NoGrant /\ record[t].owner = p
      /\ bound[p][t] = record[t]

(* A transfer that lost its process freezes the ownership of what it had   *)
(* locked: no later transfer moves it, and no runtime steals the lock.     *)
AbandonedStaysFrozen ==
  [][\A t \in Threads :
       dir[t] = Abandoned => dir'[t] = Abandoned /\ record'[t] = record[t]]_authorityVars

(* The answer of a transfer accounts for its batch: success means every    *)
(* record is the target's next epoch, and an incomplete batch reports      *)
(* exactly the records that changed, but for those it could not read.      *)
TransferAccounted ==
  [][\A m \in Movers :
       call[m].stage = "replace" =>
         /\ call'[m].stage = "moved" =>
              \A t \in Batch(m) :
                record'[t] = [owner |-> call[m].target,
                              epoch |-> call[m].expected[t].epoch + 1]
         /\ call'[m].stage = "incomplete" =>
              \A t \in Batch(m) \ call'[m].unread :
                t \in call'[m].changed <=> record'[t] # call[m].expected[t]]_authorityVars

(* The locks implement single ownership: no move while a recorder is open, *)
(* no recorder but the owner's, one epoch per move.                        *)
Owner == INSTANCE Ownership WITH
           writer <- [t \in Threads |->
                        IF writerLock[t] \in Profiles THEN writerLock[t] ELSE NoProfile]
ImplementsOwnership == Owner!Spec
=============================================================================

--------------------------- MODULE AuthorityProofs ---------------------------
(***************************************************************************)
(* Safety of owner records for any conversations, profiles and managers.   *)
(***************************************************************************)
EXTENDS Authority, TLAPS

(* A runtime binds conversations only to grants of its own profile.        *)
BoundToOwn ==
  \A p \in Profiles, t \in Threads : bound[p][t] # NoGrant => bound[p][t].owner = p

(* Nobody writes a conversation whose guard file a mover has.              *)
GuardExcludesWrites ==
  \A t \in Threads : guard[t] # NoProfile => ~Busy(t)

(* A call that got past a kind of lock has that lock of its whole batch.   *)
HoldsLocks ==
  \A m \in Movers :
    /\ call[m].stage \in {"guards", "locks", "check", "replace"} =>
         \A t \in Batch(m) : dir[t] = m
    /\ call[m].stage \in {"locks", "check", "replace"} =>
         \A t \in Batch(m) : guard[t] = m
    /\ call[m].stage \in {"check", "replace"} =>
         \A t \in Batch(m) : writerLock[t] = m

(* Transfers concern conversations that exist.                             *)
LockedExist ==
  \A t \in Threads : dir[t] # NoProfile => record[t] # NoGrant

(* What a call read is a move to another profile; while it replaces, each  *)
(* record of the batch is either still as it was read or already moved.    *)
MoveTo(m) ==
  /\ call[m].target \in Profiles
  /\ \A t \in Batch(m) :
       /\ record[t] # NoGrant
       /\ call[m].expected[t] \in Grant /\ call[m].expected[t].owner # call[m].target

HalfMoved(m) ==
  /\ call[m].todo \subseteq Batch(m)
  /\ \A t \in call[m].todo : record[t] = call[m].expected[t] /\ record[t].epoch < MaxEpoch
  /\ \A t \in Batch(m) \ call[m].todo :
       record[t] = [owner |-> call[m].target, epoch |-> call[m].expected[t].epoch + 1]

Progress ==
  \A m \in Movers :
    /\ call[m].stage # "idle" => MoveTo(m)
    /\ call[m].stage = "replace" => HalfMoved(m)

IInv ==
  /\ TypeOK
  /\ BoundToOwn
  /\ GuardExcludesWrites
  /\ OnlyOwnerWrites
  /\ LockedExist
  /\ HoldsLocks
  /\ Progress

----------------------------------------------------------------------------
LEMMA InitIInv == Init => IInv
<1> SUFFICES ASSUME Init PROVE IInv
  OBVIOUS
<1> USE DEF Init
<1>1. TypeOK
  <2>1. NoCall \in Call
    BY DEF NoCall, Call, Stages
  <2>2. record \in [Threads -> Grant \cup {NoGrant}]
    BY AuthorityConstants DEF Grant
  <2> QED BY <2>1, <2>2 DEF TypeOK
<1>2. BoundToOwn /\ GuardExcludesWrites /\ OnlyOwnerWrites /\ LockedExist
  BY AuthorityConstants DEF BoundToOwn, GuardExcludesWrites, OnlyOwnerWrites, LockedExist, Loaded
<1>3. HoldsLocks /\ Progress
  BY DEF HoldsLocks, Progress, NoCall
<1> QED BY <1>1, <1>2, <1>3 DEF IInv

(* Replacing a record that the call may replace leaves records.            *)
LEMMA ReplacedType ==
  ASSUME TypeOK, Progress, NEW m \in Movers, NEW t \in Threads,
         call[m].stage = "replace", t \in call[m].todo
  PROVE  /\ Replaced(m, t) \in [Threads -> Grant \cup {NoGrant}]
         /\ Replaced(m, t)[t] = [owner |-> call[m].target, epoch |-> record[t].epoch + 1]
         /\ \A u \in Threads \ {t} : Replaced(m, t)[u] = record[u]
<1>1. call[m].target \in Profiles /\ record[t].epoch < MaxEpoch
  BY DEF Progress, MoveTo, HalfMoved
<1>2. /\ record \in [Threads -> Grant \cup {NoGrant}]
      /\ record[t].epoch \in 1 .. MaxEpoch
  <2>1. t \in Batch(m) /\ record[t] # NoGrant
    BY DEF Progress, MoveTo, HalfMoved
  <2> QED BY <2>1 DEF TypeOK, Grant
<1>3. record[t].epoch + 1 \in 1 .. MaxEpoch
  BY <1>1, <1>2, AuthorityConstants
<1>4. [owner |-> call[m].target, epoch |-> record[t].epoch + 1] \in Grant
  BY <1>1, <1>3 DEF Grant
<1> QED BY <1>2, <1>4 DEF Replaced

LEMMA UnlockedLocks ==
  ASSUME TypeOK, NEW m \in Movers
  PROVE  /\ Unlocked(m, dir) \in [Threads -> Movers \cup {NoProfile, Abandoned}]
         /\ Unlocked(m, guard) \in [Threads -> Movers \cup {NoProfile}]
         /\ Unlocked(m, writerLock) \in [Threads -> Profiles \cup Movers \cup {NoProfile}]
BY DEF TypeOK, Unlocked

(* A call that ends keeps its type.                                        *)
LEMMA EndType ==
  ASSUME TypeOK, NEW m \in Movers, NEW stage \in Stages,
         NEW changed \in SUBSET Threads, NEW unread \in SUBSET Threads,
         End(m, stage, changed, unread)
  PROVE  /\ dir' \in [Threads -> Movers \cup {NoProfile, Abandoned}]
         /\ guard' \in [Threads -> Movers \cup {NoProfile}]
         /\ writerLock' \in [Threads -> Profiles \cup Movers \cup {NoProfile}]
         /\ call' \in [Movers -> Call]
<1>1. call \in [Movers -> Call]
  BY DEF TypeOK
<1>2. call' \in [Movers -> Call]
  BY <1>1 DEF End, Call
<1> QED BY <1>2, UnlockedLocks DEF End

LEMMA StageType ==
  ASSUME TypeOK, NEW m \in Movers, NEW stage \in Stages
  PROVE  [call EXCEPT ![m].stage = stage] \in [Movers -> Call]
<1>1. call \in [Movers -> Call]
  BY DEF TypeOK
<1> QED BY <1>1 DEF Call

LEMMA TodoType ==
  ASSUME TypeOK, NEW m \in Movers, NEW stage \in Stages, NEW todo \in SUBSET Threads
  PROVE  /\ [call EXCEPT ![m].todo = todo] \in [Movers -> Call]
         /\ [call EXCEPT ![m] = [@ EXCEPT !.stage = stage, !.todo = todo]] \in [Movers -> Call]
<1>1. call \in [Movers -> Call]
  BY DEF TypeOK
<1> QED BY <1>1 DEF Call

LEMMA ReachedType ==
  ASSUME TypeOK, NEW m \in Movers, NEW lock, NEW t, NEW next \in Stages
  PROVE  Reached(m, lock, t, next) \in Stages
<1>1. call[m].stage \in Stages
  BY DEF TypeOK, Call
<1> QED BY <1>1 DEF Reached

LEMMA TypeStep ==
  ASSUME TypeOK, Progress, Next
  PROVE  TypeOK'
<1> USE DEF TypeOK
<1>1. ASSUME NEW p \in Profiles, RuntimeNext(p) PROVE TypeOK'
  <2>0. ASSUME NEW t \in Threads, Create(p, t) PROVE TypeOK'
    <3>1. [owner |-> p, epoch |-> 1] \in Grant
      BY AuthorityConstants DEF Grant
    <3> QED BY <2>0, <3>1 DEF Create
  <2>1. ASSUME NEW t \in Threads, Bind(p, t) PROVE TypeOK'
    BY <2>1 DEF Bind
  <2>2. ASSUME NEW t \in Threads, BeginWrite(p, t) PROVE TypeOK'
    BY <2>2 DEF BeginWrite, Permit
  <2>3. ASSUME NEW t \in Threads, EndWrite(p, t) PROVE TypeOK'
    BY <2>3 DEF EndWrite
  <2>4. ASSUME NEW t \in Threads, CloseRecorder(p, t) PROVE TypeOK'
    BY <2>4 DEF CloseRecorder
  <2>5. ASSUME RuntimeExit(p) PROVE TypeOK'
    BY <2>5 DEF RuntimeExit
  <2> QED BY <1>1, <2>0, <2>1, <2>2, <2>3, <2>4, <2>5 DEF RuntimeNext
<1>2. ASSUME NEW m \in Movers,
             \/ \E T \in SUBSET Threads, p \in Profiles : ReadGrants(m, T, p)
             \/ Start(m) \/ Forget(m) \/ TransferNext(m) \/ MoverExit(m)
      PROVE  TypeOK'
  <2>0. NoCall \in Call
    BY DEF NoCall, Call, Stages
  <2>1. ASSUME NEW T \in SUBSET Threads, NEW p \in Profiles, ReadGrants(m, T, p) PROVE TypeOK'
    BY <2>0, <2>1 DEF ReadGrants, Call, Stages
  <2>2. ASSUME Start(m) PROVE TypeOK'
    BY <2>2, StageType DEF Start, Stages
  <2>3. ASSUME Forget(m) PROVE TypeOK'
    BY <2>0, <2>3 DEF Forget
  <2>4. ASSUME NEW t \in Threads, TakeDir(m, t) PROVE TypeOK'
    <3>1. Reached(m, dir, t, "guards") \in Stages
      BY ReachedType DEF Stages
    <3> QED BY <2>4, <3>1, StageType DEF TakeDir
  <2>5. ASSUME NEW t \in Threads, TakeGuard(m, t) PROVE TypeOK'
    <3>1. Reached(m, guard, t, "locks") \in Stages
      BY ReachedType DEF Stages
    <3> QED BY <2>5, <3>1, StageType DEF TakeGuard
  <2>6. ASSUME NEW t \in Threads, TakeWriterLock(m, t) PROVE TypeOK'
    <3>1. Reached(m, writerLock, t, "check") \in Stages
      BY ReachedType DEF Stages
    <3> QED BY <2>6, <3>1, StageType DEF TakeWriterLock
  <2>7. ASSUME NEW t \in Threads, Replace(m, t) PROVE TypeOK'
    <3>1. record' \in [Threads -> Grant \cup {NoGrant}]
      BY <2>7, ReplacedType DEF Replace
    <3>2. call' \in [Movers -> Call]
      <4>1. call[m].todo \ {t} \in SUBSET Threads
        BY DEF Call
      <4> QED BY <2>7, <4>1, TodoType DEF Replace, Stages
    <3> QED BY <2>7, <3>1, <3>2 DEF Replace
  <2>8. ASSUME NEW t \in Threads, ReplaceFails(m, t) PROVE TypeOK'
    <3>1. record' \in [Threads -> Grant \cup {NoGrant}]
      <4>1. record' = record \/ record' = Replaced(m, t)
        BY <2>8 DEF ReplaceFails
      <4>2. Replaced(m, t) \in [Threads -> Grant \cup {NoGrant}]
        BY <2>8, ReplacedType DEF ReplaceFails
      <4> QED BY <4>1, <4>2
    <3>2. PICK unread \in SUBSET Batch(m) :
            End(m, "incomplete", {u \in Batch(m) \ unread : record'[u] # call[m].expected[u]}, unread)
      BY <2>8 DEF ReplaceFails
    <3> DEFINE changed == {u \in Batch(m) \ unread : record'[u] # call[m].expected[u]}
    <3>3. Batch(m) \in SUBSET Threads
      BY DEF Batch, Call
    <3>4. changed \in SUBSET Threads /\ unread \in SUBSET Threads /\ "incomplete" \in Stages
      BY <3>3 DEF Stages
    <3>5. End(m, "incomplete", changed, unread)
      BY <3>2
    <3> HIDE DEF changed, TypeOK
    <3>6. /\ dir' \in [Threads -> Movers \cup {NoProfile, Abandoned}]
          /\ guard' \in [Threads -> Movers \cup {NoProfile}]
          /\ writerLock' \in [Threads -> Profiles \cup Movers \cup {NoProfile}]
          /\ call' \in [Movers -> Call]
      BY <3>4, <3>5, EndType
    <3> QED BY <2>8, <3>1, <3>6 DEF ReplaceFails, TypeOK
  <2>9. ASSUME Check(m) PROVE TypeOK'
    <3>1. call' \in [Movers -> Call]
      <4>1. Batch(m) \in SUBSET Threads /\ "replace" \in Stages
        BY DEF Call, Stages, Batch
      <4> QED BY <2>9, <4>1, TodoType DEF Check
    <3> QED BY <2>9, <3>1 DEF Check
  <2>10. ASSUME Refuse(m) PROVE TypeOK'
    <3>1. End(m, "refused", {}, {}) /\ UNCHANGED <<record, bound, writing>>
      BY <2>10 DEF Refuse
    <3>2. {} \in SUBSET Threads /\ "refused" \in Stages
      BY DEF Stages
    <3> HIDE DEF TypeOK
    <3>3. /\ dir' \in [Threads -> Movers \cup {NoProfile, Abandoned}]
          /\ guard' \in [Threads -> Movers \cup {NoProfile}]
          /\ writerLock' \in [Threads -> Profiles \cup Movers \cup {NoProfile}]
          /\ call' \in [Movers -> Call]
      BY <3>1, <3>2, EndType
    <3> QED BY <3>1, <3>3 DEF TypeOK
  <2>11. ASSUME Finish(m) PROVE TypeOK'
    <3>1. End(m, "moved", Batch(m), {}) /\ UNCHANGED <<record, bound, writing>>
      BY <2>11 DEF Finish
    <3>2. Batch(m) \in SUBSET Threads /\ {} \in SUBSET Threads /\ "moved" \in Stages
      BY DEF Batch, Call, Stages
    <3> HIDE DEF TypeOK
    <3>3. /\ dir' \in [Threads -> Movers \cup {NoProfile, Abandoned}]
          /\ guard' \in [Threads -> Movers \cup {NoProfile}]
          /\ writerLock' \in [Threads -> Profiles \cup Movers \cup {NoProfile}]
          /\ call' \in [Movers -> Call]
      BY <3>1, <3>2, EndType
    <3> QED BY <3>1, <3>3 DEF TypeOK
  <2>12. ASSUME MoverExit(m) PROVE TypeOK'
    <3>1. dir' \in [Threads -> Movers \cup {NoProfile, Abandoned}]
      BY <2>12 DEF MoverExit
    <3> QED BY <2>0, <2>12, <3>1, UnlockedLocks DEF MoverExit
  <2> QED BY <1>2, <2>1, <2>2, <2>3, <2>4, <2>5, <2>6, <2>7, <2>8, <2>9, <2>10, <2>11, <2>12
          DEF TransferNext
<1> QED BY <1>1, <1>2 DEF Next

----------------------------------------------------------------------------
(* A step of the mover m.                                                  *)
MoverStep(m) ==
  \/ \E T \in SUBSET Threads, p \in Profiles : ReadGrants(m, T, p)
  \/ Start(m) \/ Forget(m) \/ TransferNext(m) \/ MoverExit(m)

(* A step of m leaves the calls and locks of the other movers alone.       *)
LEMMA OthersKept ==
  ASSUME TypeOK, NEW m \in Movers, MoverStep(m), NEW n \in Movers \ {m}
  PROVE  /\ call'[n] = call[n]
         /\ \A t \in Threads : /\ dir[t] = n => dir'[t] = n
                               /\ guard[t] = n => guard'[t] = n
                               /\ writerLock[t] = n => writerLock'[t] = n
<1> DEFINE P == /\ call'[n] = call[n]
                /\ \A t \in Threads : /\ dir[t] = n => dir'[t] = n
                                      /\ guard[t] = n => guard'[t] = n
                                      /\ writerLock[t] = n => writerLock'[t] = n
<1>0. n # NoProfile /\ n # m /\ n \in Movers /\ n # Abandoned
  BY AuthorityConstants
<1>t. /\ dir \in [Threads -> Movers \cup {NoProfile, Abandoned}]
      /\ guard \in [Threads -> Movers \cup {NoProfile}]
      /\ writerLock \in [Threads -> Profiles \cup Movers \cup {NoProfile}]
      /\ call \in [Movers -> Call]
  BY DEF TypeOK
<1>e. ASSUME NEW stage, NEW changed, NEW unread, End(m, stage, changed, unread) PROVE P
  BY <1>e, <1>0, <1>t DEF End, Unlocked
<1>1. ASSUME NEW T \in SUBSET Threads, NEW p \in Profiles, ReadGrants(m, T, p) PROVE P
  BY <1>1, <1>0, <1>t DEF ReadGrants
<1>2. ASSUME Start(m) \/ Forget(m) PROVE P
  BY <1>2, <1>0, <1>t DEF Start, Forget
<1>3. ASSUME NEW t \in Threads, TakeDir(m, t) PROVE P
  BY <1>3, <1>0, <1>t DEF TakeDir
<1>4. ASSUME NEW t \in Threads, TakeGuard(m, t) PROVE P
  BY <1>4, <1>0, <1>t DEF TakeGuard
<1>5. ASSUME NEW t \in Threads, TakeWriterLock(m, t) PROVE P
  BY <1>5, <1>0, <1>t DEF TakeWriterLock
<1>6. ASSUME NEW t \in Threads, Replace(m, t) PROVE P
  BY <1>6, <1>0, <1>t DEF Replace
<1>7. ASSUME NEW t \in Threads, ReplaceFails(m, t) PROVE P
  <2>1. PICK unread \in SUBSET Batch(m) :
          End(m, "incomplete", {u \in Batch(m) \ unread : record'[u] # call[m].expected[u]}, unread)
    BY <1>7 DEF ReplaceFails
  <2> QED BY <2>1, <1>e
<1>8. ASSUME Check(m) PROVE P
  BY <1>8, <1>0, <1>t DEF Check
<1>9. ASSUME Refuse(m) PROVE P
  <2>1. End(m, "refused", {}, {})
    BY <1>9 DEF Refuse
  <2> QED BY <2>1, <1>e
<1>10. ASSUME Finish(m) PROVE P
  <2>1. End(m, "moved", Batch(m), {})
    BY <1>10 DEF Finish
  <2> QED BY <2>1, <1>e
<1>11. ASSUME MoverExit(m) PROVE P
  BY <1>11, <1>0, <1>t DEF MoverExit, Unlocked
<1> QED BY <1>1, <1>2, <1>3, <1>4, <1>5, <1>6, <1>7, <1>8, <1>9, <1>10, <1>11
        DEF MoverStep, TransferNext

(* A step of a runtime leaves every call, directory and guard alone, the   *)
(* records that exist, and the writer locks of movers.                     *)
LEMMA RuntimeKeeps ==
  ASSUME TypeOK, NEW p \in Profiles, RuntimeNext(p)
  PROVE  /\ UNCHANGED <<dir, guard, call>>
         /\ \A t \in Threads, m \in Movers : writerLock[t] = m => writerLock'[t] = m
         /\ \A t \in Threads : record[t] # NoGrant => record'[t] = record[t]
<1> DEFINE P == /\ UNCHANGED <<dir, guard, call>>
                /\ \A t \in Threads, m \in Movers : writerLock[t] = m => writerLock'[t] = m
                /\ \A t \in Threads : record[t] # NoGrant => record'[t] = record[t]
<1>1. p \notin Movers /\ NoProfile \notin Movers
  BY AuthorityConstants
<1>2. /\ writerLock \in [Threads -> Profiles \cup Movers \cup {NoProfile}]
      /\ record \in [Threads -> Grant \cup {NoGrant}]
  BY DEF TypeOK
<1>3. ASSUME NEW t \in Threads, Create(p, t) PROVE P
  BY <1>2, <1>3 DEF Create
<1>4. ASSUME NEW t \in Threads, Bind(p, t) \/ EndWrite(p, t) PROVE P
  BY <1>4 DEF Bind, EndWrite
<1>5. ASSUME NEW t \in Threads, BeginWrite(p, t) \/ CloseRecorder(p, t) PROVE P
  BY <1>1, <1>2, <1>5 DEF BeginWrite, CloseRecorder, Loaded
<1>6. ASSUME RuntimeExit(p) PROVE P
  BY <1>1, <1>2, <1>6 DEF RuntimeExit, Loaded
<1> QED BY <1>3, <1>4, <1>5, <1>6 DEF RuntimeNext

(* Locks are held until the call that took them ends.                      *)
LEMMA LocksStep ==
  ASSUME TypeOK, TypeOK', HoldsLocks, Next
  PROVE  HoldsLocks'
<1> DEFINE Held(n) ==
      /\ call[n].stage \in {"guards", "locks", "check", "replace"} =>
           \A t \in Batch(n) : dir[t] = n
      /\ call[n].stage \in {"locks", "check", "replace"} =>
           \A t \in Batch(n) : guard[t] = n
      /\ call[n].stage \in {"check", "replace"} =>
           \A t \in Batch(n) : writerLock[t] = n
<1>0. \A n \in Movers : Batch(n) \subseteq Threads
  BY DEF TypeOK, Call, Batch
<1>1. ASSUME NEW p \in Profiles, RuntimeNext(p) PROVE HoldsLocks'
  BY <1>0, <1>1, RuntimeKeeps DEF HoldsLocks, Batch
<1>2. ASSUME NEW m \in Movers, MoverStep(m) PROVE HoldsLocks'
  <2>1. \A n \in Movers \ {m} : Held(n)'
    BY <1>0, <1>2, OthersKept DEF HoldsLocks, Batch
  <2>t. /\ dir \in [Threads -> Movers \cup {NoProfile, Abandoned}]
        /\ guard \in [Threads -> Movers \cup {NoProfile}]
        /\ writerLock \in [Threads -> Profiles \cup Movers \cup {NoProfile}]
        /\ call \in [Movers -> Call]
    BY DEF TypeOK
  <2>h. Held(m)
    BY DEF HoldsLocks
  <2>e. ASSUME NEW stage, NEW changed, NEW unread, End(m, stage, changed, unread),
               stage \in {"moved", "refused", "incomplete"}
        PROVE  Held(m)'
    <3>1. call'[m].stage = stage
      BY <2>e, <2>t DEF End, Call
    <3> QED BY <2>e, <3>1
  <2>2. ASSUME NEW T \in SUBSET Threads, NEW p \in Profiles, ReadGrants(m, T, p) PROVE Held(m)'
    BY <2>2, <2>t DEF ReadGrants, NoCall
  <2>3. ASSUME Start(m) PROVE Held(m)'
    BY <2>3, <2>t DEF Start, Call
  <2>4. ASSUME Forget(m) \/ MoverExit(m) PROVE Held(m)'
    BY <2>4, <2>t DEF Forget, MoverExit, NoCall
  <2>5. ASSUME NEW t \in Threads, TakeDir(m, t) PROVE Held(m)'
    <3>1. call'[m].stage = Reached(m, dir, t, "guards") /\ Batch(m)' = Batch(m)
      BY <2>5, <2>t DEF TakeDir, Call, Batch
    <3> QED BY <1>0, <2>5, <2>t, <3>1 DEF TakeDir, Reached
  <2>6. ASSUME NEW t \in Threads, TakeGuard(m, t) PROVE Held(m)'
    <3>1. call'[m].stage = Reached(m, guard, t, "locks") /\ Batch(m)' = Batch(m)
      BY <2>6, <2>t DEF TakeGuard, Call, Batch
    <3> QED BY <1>0, <2>6, <2>t, <2>h, <3>1 DEF TakeGuard, Reached
  <2>7. ASSUME NEW t \in Threads, TakeWriterLock(m, t) PROVE Held(m)'
    <3>1. call'[m].stage = Reached(m, writerLock, t, "check") /\ Batch(m)' = Batch(m)
      BY <2>7, <2>t DEF TakeWriterLock, Call, Batch
    <3> QED BY <1>0, <2>7, <2>t, <2>h, <3>1 DEF TakeWriterLock, Reached
  <2>8. ASSUME NEW t \in Threads, Replace(m, t) PROVE Held(m)'
    <3>1. call'[m].stage = "replace" /\ Batch(m)' = Batch(m)
      BY <2>8, <2>t DEF Replace, Call, Batch
    <3> QED BY <1>0, <2>8, <2>h, <3>1 DEF Replace
  <2>9. ASSUME NEW t \in Threads, ReplaceFails(m, t) PROVE Held(m)'
    <3>1. PICK unread \in SUBSET Batch(m) :
            End(m, "incomplete", {u \in Batch(m) \ unread : record'[u] # call[m].expected[u]}, unread)
      BY <2>9 DEF ReplaceFails
    <3> QED BY <3>1, <2>e
  <2>10. ASSUME Check(m) PROVE Held(m)'
    <3>1. call[m].stage = "check" /\ call'[m].stage = "replace" /\ Batch(m)' = Batch(m)
      BY <2>10, <2>t DEF Check, Call, Batch
    <3> QED BY <1>0, <2>10, <2>h, <3>1 DEF Check
  <2>11. ASSUME Refuse(m) PROVE Held(m)'
    <3>1. End(m, "refused", {}, {})
      BY <2>11 DEF Refuse
    <3> QED BY <3>1, <2>e
  <2>12. ASSUME Finish(m) PROVE Held(m)'
    <3>1. End(m, "moved", Batch(m), {})
      BY <2>12 DEF Finish
    <3> QED BY <3>1, <2>e
  <2>13. Held(m)'
    BY <1>2, <2>2, <2>3, <2>4, <2>5, <2>6, <2>7, <2>8, <2>9, <2>10, <2>11, <2>12
       DEF MoverStep, TransferNext
  <2> QED BY <2>1, <2>13 DEF HoldsLocks
<1> QED BY <1>1, <1>2 DEF Next, MoverStep
----------------------------------------------------------------------------
(* What a mover changes besides its own call: it takes a guard file that   *)
(* nobody writes under, takes no writer lock from a runtime, and replaces  *)
(* a record only under the three locks of its conversation.                *)
LEMMA MoverChanges ==
  ASSUME TypeOK, HoldsLocks, Progress, NEW m \in Movers, MoverStep(m), NEW t \in Threads
  PROVE  /\ UNCHANGED <<bound, writing>>
         /\ guard'[t] # NoProfile => guard'[t] = guard[t] \/ ~Busy(t)
         /\ writerLock'[t] \in Profiles => writerLock'[t] = writerLock[t]
         /\ writerLock[t] \in Profiles => writerLock'[t] = writerLock[t]
         /\ dir[t] = Abandoned => dir'[t] = Abandoned
         /\ record'[t] # record[t] =>
              /\ dir[t] = m /\ guard[t] = m /\ writerLock[t] = m
              /\ call[m].stage = "replace" /\ t \in call[m].todo
              /\ record' = Replaced(m, t)
<1> DEFINE P == /\ UNCHANGED <<bound, writing>>
                /\ guard'[t] # NoProfile => guard'[t] = guard[t] \/ ~Busy(t)
                /\ writerLock'[t] \in Profiles => writerLock'[t] = writerLock[t]
                /\ writerLock[t] \in Profiles => writerLock'[t] = writerLock[t]
                /\ dir[t] = Abandoned => dir'[t] = Abandoned
           R == record'[t] # record[t] =>
                  /\ dir[t] = m /\ guard[t] = m /\ writerLock[t] = m
                  /\ call[m].stage = "replace" /\ t \in call[m].todo
                  /\ record' = Replaced(m, t)
<1>0. m \notin Profiles /\ NoProfile \notin Profiles /\ m # Abandoned /\ m # NoProfile
      /\ Abandoned # NoProfile
  BY AuthorityConstants
<1>t. /\ dir \in [Threads -> Movers \cup {NoProfile, Abandoned}]
      /\ guard \in [Threads -> Movers \cup {NoProfile}]
      /\ writerLock \in [Threads -> Profiles \cup Movers \cup {NoProfile}]
  BY DEF TypeOK
<1>e. ASSUME NEW stage, NEW changed, NEW unread, End(m, stage, changed, unread),
             UNCHANGED <<bound, writing>>
      PROVE  P
  BY <1>e, <1>0, <1>t DEF End, Unlocked
<1>r. ASSUME NEW u \in Threads, call[m].stage = "replace", u \in call[m].todo,
             record' = record \/ record' = Replaced(m, u)
      PROVE  R
  <2>1. call[m].todo \subseteq Batch(m)
    BY <1>r DEF Progress, HalfMoved
  <2>2. dir[u] = m /\ guard[u] = m /\ writerLock[u] = m
    BY <1>r, <2>1 DEF HoldsLocks
  <2>3. record \in [Threads -> Grant \cup {NoGrant}]
    BY DEF TypeOK
  <2>4. record'[t] # record[t] => t = u
    BY <1>r, <2>3 DEF Replaced
  <2> QED BY <1>r, <2>2, <2>4
<1>1. ASSUME NEW T \in SUBSET Threads, NEW p \in Profiles, ReadGrants(m, T, p) PROVE P /\ R
  BY <1>1 DEF ReadGrants
<1>2. ASSUME Start(m) \/ Forget(m) \/ Check(m) PROVE P /\ R
  BY <1>2 DEF Start, Forget, Check
<1>3. ASSUME NEW u \in Threads, TakeDir(m, u) PROVE P /\ R
  BY <1>3, <1>0, <1>t DEF TakeDir
<1>4. ASSUME NEW u \in Threads, TakeGuard(m, u) PROVE P /\ R
  BY <1>4, <1>0, <1>t DEF TakeGuard
<1>5. ASSUME NEW u \in Threads, TakeWriterLock(m, u) PROVE P /\ R
  BY <1>5, <1>0, <1>t DEF TakeWriterLock
<1>6. ASSUME NEW u \in Threads, Replace(m, u) PROVE P /\ R
  <2>1. P
    BY <1>6 DEF Replace
  <2>2. R
    BY <1>6, <1>r DEF Replace
  <2> QED BY <2>1, <2>2
<1>7. ASSUME NEW u \in Threads, ReplaceFails(m, u) PROVE P /\ R
  <2>1. PICK unread \in SUBSET Batch(m) :
          End(m, "incomplete", {v \in Batch(m) \ unread : record'[v] # call[m].expected[v]}, unread)
    BY <1>7 DEF ReplaceFails
  <2>2. P
    BY <1>7, <2>1, <1>e DEF ReplaceFails
  <2>3. R
    BY <1>7, <1>r DEF ReplaceFails
  <2> QED BY <2>2, <2>3
<1>8. ASSUME Refuse(m) PROVE P /\ R
  <2>1. End(m, "refused", {}, {}) /\ UNCHANGED <<record, bound, writing>>
    BY <1>8 DEF Refuse
  <2>2. P
    BY <2>1, <1>e
  <2> QED BY <2>1, <2>2
<1>9. ASSUME Finish(m) PROVE P /\ R
  <2>1. End(m, "moved", Batch(m), {}) /\ UNCHANGED <<record, bound, writing>>
    BY <1>9 DEF Finish
  <2>2. P
    BY <2>1, <1>e
  <2> QED BY <2>1, <2>2
<1>10. ASSUME MoverExit(m) PROVE P /\ R
  BY <1>10, <1>0, <1>t DEF MoverExit, Unlocked
<1>11. P /\ R
  BY <1>1, <1>2, <1>3, <1>4, <1>5, <1>6, <1>7, <1>8, <1>9, <1>10 DEF MoverStep, TransferNext
<1> QED BY <1>11

LEMMA WritesStep ==
  ASSUME IInv, TypeOK', Next
  PROVE  BoundToOwn' /\ GuardExcludesWrites' /\ OnlyOwnerWrites'
<1>0. TypeOK /\ BoundToOwn /\ GuardExcludesWrites /\ OnlyOwnerWrites /\ HoldsLocks /\ Progress
  BY DEF IInv
<1>t. /\ record \in [Threads -> Grant \cup {NoGrant}]
      /\ bound \in [Profiles -> [Threads -> Grant \cup {NoGrant}]]
      /\ writing \in [Profiles -> SUBSET Threads]
      /\ writerLock \in [Threads -> Profiles \cup Movers \cup {NoProfile}]
  BY <1>0 DEF TypeOK
<1>c. /\ NoProfile \notin Profiles
      /\ \A p \in Profiles : [owner |-> p, epoch |-> 1] # NoGrant
  <2>1. \A p \in Profiles : [owner |-> p, epoch |-> 1] \in Grant
    BY AuthorityConstants DEF Grant
  <2> QED BY <2>1, AuthorityConstants, NoGrantIsNone
<1>1. ASSUME NEW p \in Profiles, RuntimeNext(p)
      PROVE  BoundToOwn' /\ GuardExcludesWrites' /\ OnlyOwnerWrites'
  <2>0. /\ UNCHANGED <<dir, guard, call>>
        /\ \A t \in Threads : record[t] # NoGrant => record'[t] = record[t]
    BY <1>0, <1>1, RuntimeKeeps
  <2> USE DEF BoundToOwn, GuardExcludesWrites, OnlyOwnerWrites, Loaded, Busy
  <2>6. ASSUME NEW t \in Threads, Create(p, t)
        PROVE  BoundToOwn' /\ GuardExcludesWrites' /\ OnlyOwnerWrites'
    <3>1. /\ \A q \in Profiles, u \in Threads :
               bound'[q][u] = IF q = p /\ u = t THEN [owner |-> p, epoch |-> 1] ELSE bound[q][u]
          /\ UNCHANGED <<guard, writerLock, writing>>
      BY <1>t, <2>6 DEF Create
    <3>2. BoundToOwn' /\ GuardExcludesWrites'
      BY <1>0, <3>1
    <3>3. \A q \in Profiles : ~(writerLock[t] = q \/ t \in writing[q])
      BY <1>0, <2>6 DEF Create
    <3>4. OnlyOwnerWrites'
      BY <1>0, <2>0, <3>1, <3>3
    <3> QED BY <3>2, <3>4
  <2>1. ASSUME NEW t \in Threads, Bind(p, t)
        PROVE  BoundToOwn' /\ GuardExcludesWrites' /\ OnlyOwnerWrites'
    BY <1>0, <1>t, <1>c, <2>0, <2>1 DEF Bind
  <2>2. ASSUME NEW t \in Threads, BeginWrite(p, t)
        PROVE  BoundToOwn' /\ GuardExcludesWrites' /\ OnlyOwnerWrites'
    BY <1>0, <1>t, <1>c, <2>0, <2>2 DEF BeginWrite, Permit
  <2>3. ASSUME NEW t \in Threads, EndWrite(p, t)
        PROVE  BoundToOwn' /\ GuardExcludesWrites' /\ OnlyOwnerWrites'
    BY <1>0, <1>t, <1>c, <2>0, <2>3 DEF EndWrite
  <2>4. ASSUME NEW t \in Threads, CloseRecorder(p, t)
        PROVE  BoundToOwn' /\ GuardExcludesWrites' /\ OnlyOwnerWrites'
    BY <1>0, <1>t, <1>c, <2>0, <2>4 DEF CloseRecorder
  <2>5. ASSUME RuntimeExit(p)
        PROVE  BoundToOwn' /\ GuardExcludesWrites' /\ OnlyOwnerWrites'
    BY <1>0, <1>t, <1>c, <2>0, <2>5 DEF RuntimeExit
  <2> QED BY <1>1, <2>1, <2>2, <2>3, <2>4, <2>5, <2>6 DEF RuntimeNext
<1>2. ASSUME NEW m \in Movers, MoverStep(m)
      PROVE  BoundToOwn' /\ GuardExcludesWrites' /\ OnlyOwnerWrites'
  <2>1. BoundToOwn'
    <3>1. ASSUME NEW p \in Profiles, NEW t \in Threads, bound'[p][t] # NoGrant
          PROVE  bound'[p][t].owner = p
      BY <1>0, <1>2, <3>1, MoverChanges DEF BoundToOwn
    <3> QED BY <3>1 DEF BoundToOwn
  <2>2. GuardExcludesWrites'
    <3>1. ASSUME NEW t \in Threads, guard'[t] # NoProfile PROVE ~Busy(t)'
      <4>1. UNCHANGED writing /\ (guard'[t] = guard[t] \/ ~Busy(t))
        BY <1>0, <1>2, <3>1, MoverChanges
      <4>2. ~Busy(t)
        BY <1>0, <3>1, <4>1 DEF GuardExcludesWrites
      <4> QED BY <4>1, <4>2 DEF Busy
    <3> QED BY <3>1 DEF GuardExcludesWrites
  <2>3. OnlyOwnerWrites'
    <3>1. ASSUME NEW p \in Profiles, NEW t \in Threads, writerLock'[t] = p \/ t \in writing'[p]
          PROVE  record'[t] # NoGrant /\ record'[t].owner = p /\ bound'[p][t] = record'[t]
      <4>1. writing' = writing /\ bound' = bound /\ (writerLock'[t] = p => writerLock[t] = p)
        BY <1>0, <1>2, MoverChanges
      <4>2. record[t] # NoGrant /\ record[t].owner = p /\ bound[p][t] = record[t]
        BY <1>0, <3>1, <4>1 DEF OnlyOwnerWrites, Loaded
      <4>3. record'[t] = record[t]
        <5>1. SUFFICES ASSUME guard[t] = m, writerLock[t] = m PROVE FALSE
          BY <1>0, <1>2, MoverChanges
        <5>2. m # NoProfile /\ m # p
          BY AuthorityConstants
        <5>3. ~Busy(t)
          BY <1>0, <5>1, <5>2 DEF GuardExcludesWrites
        <5> QED BY <3>1, <4>1, <5>1, <5>2, <5>3 DEF Busy
      <4> QED BY <4>1, <4>2, <4>3
    <3> QED BY <3>1 DEF OnlyOwnerWrites, Loaded
  <2> QED BY <2>1, <2>2, <2>3
<1> QED BY <1>1, <1>2 DEF Next, MoverStep
(* A lock directory is made for a record, and records are not removed.     *)
LEMMA ExistStep ==
  ASSUME IInv, Next
  PROVE  /\ LockedExist'
         /\ \A t \in Threads : record[t] # NoGrant => record'[t] # NoGrant
<1>0. TypeOK /\ HoldsLocks /\ Progress /\ LockedExist
  BY DEF IInv
<1>1. ASSUME NEW t \in Threads, record[t] # NoGrant PROVE record'[t] # NoGrant
  <2>1. ASSUME NEW p \in Profiles, RuntimeNext(p) PROVE record'[t] # NoGrant
    BY <1>0, <1>1, <2>1, RuntimeKeeps
  <2>2. ASSUME NEW m \in Movers, MoverStep(m), record'[t] # record[t]
        PROVE  record'[t] # NoGrant
    <3>1. call[m].stage = "replace" /\ t \in call[m].todo /\ record' = Replaced(m, t)
      BY <1>0, <2>2, MoverChanges
    <3>2. Replaced(m, t)[t] = [owner |-> call[m].target, epoch |-> record[t].epoch + 1]
      BY <1>0, <3>1, ReplacedType
    <3>3. call[m].target \in Profiles /\ record[t].epoch + 1 \in 1 .. MaxEpoch
      <4>1. call[m].target \in Profiles /\ record[t].epoch < MaxEpoch
        BY <1>0, <3>1 DEF Progress, MoveTo, HalfMoved
      <4>2. record[t].epoch \in 1 .. MaxEpoch
        BY <1>0, <1>1 DEF TypeOK, Grant
      <4> QED BY <4>1, <4>2, AuthorityConstants
    <3>4. record'[t] \in Grant
      BY <3>1, <3>2, <3>3 DEF Grant
    <3> QED BY <3>4, NoGrantIsNone
  <2> QED BY <1>1, <2>1, <2>2 DEF Next, MoverStep
<1>2. ASSUME NEW t \in Threads, dir'[t] # NoProfile PROVE record[t] # NoGrant
  <2>1. CASE dir[t] # NoProfile
    BY <1>0, <2>1 DEF LockedExist
  <2>2. ASSUME NEW p \in Profiles, RuntimeNext(p), dir[t] = NoProfile PROVE FALSE
    BY <1>0, <1>2, <2>2, RuntimeKeeps
  <2>3. ASSUME NEW m \in Movers, MoverStep(m), dir[t] = NoProfile PROVE record[t] # NoGrant
    <3>0. dir \in [Threads -> Movers \cup {NoProfile, Abandoned}] /\ m # NoProfile
      BY <1>0, AuthorityConstants DEF TypeOK
    <3>1. ASSUME NEW u \in Threads, TakeDir(m, u) PROVE record[t] # NoGrant
      <4>1. u = t /\ t \in Batch(m) /\ call[m].stage # "idle"
        BY <1>2, <2>3, <3>0, <3>1 DEF TakeDir
      <4> QED BY <1>0, <4>1 DEF Progress, MoveTo
    <3>2. ASSUME NEW stage, NEW changed, NEW unread, End(m, stage, changed, unread) PROVE FALSE
      BY <1>2, <2>3, <3>0, <3>2 DEF End, Unlocked
    <3>3. ASSUME Refuse(m) \/ Finish(m) \/ \E u \in Threads : ReplaceFails(m, u) PROVE FALSE
      <4>1. \E stage, changed, unread : End(m, stage, changed, unread)
        BY <3>3 DEF Refuse, Finish, ReplaceFails
      <4> QED BY <3>2, <4>1
    <3>4. ASSUME MoverExit(m) PROVE FALSE
      BY <1>2, <2>3, <3>0, <3>4 DEF MoverExit
    <3>5. ASSUME \/ \E T \in SUBSET Threads, p \in Profiles : ReadGrants(m, T, p)
                 \/ Start(m) \/ Forget(m) \/ Check(m)
                 \/ \E u \in Threads : TakeGuard(m, u) \/ TakeWriterLock(m, u) \/ Replace(m, u)
          PROVE  FALSE
      BY <1>2, <2>3, <3>5 DEF ReadGrants, Start, Forget, Check, TakeGuard, TakeWriterLock, Replace
    <3> QED BY <2>3, <3>1, <3>3, <3>4, <3>5 DEF MoverStep, TransferNext
  <2> QED BY <2>1, <2>2, <2>3 DEF Next, MoverStep
<1> QED BY <1>1, <1>2 DEF LockedExist

LEMMA ProgressStep ==
  ASSUME IInv, TypeOK', Next
  PROVE  Progress'
<1>0. TypeOK /\ HoldsLocks /\ Progress
  BY DEF IInv
<1>t. /\ record \in [Threads -> Grant \cup {NoGrant}]
      /\ call \in [Movers -> Call]
      /\ \A n \in Movers : Batch(n) \subseteq Threads
  BY <1>0 DEF TypeOK, Call, Batch
<1>x. \A t \in Threads : record[t] # NoGrant => record'[t] # NoGrant
  BY ExistStep
<1> DEFINE Ok(n) == /\ call[n].stage # "idle" => MoveTo(n)
                    /\ call[n].stage = "replace" => HalfMoved(n)
<1>1. ASSUME NEW p \in Profiles, RuntimeNext(p) PROVE Progress'
  <2>1. /\ UNCHANGED call
        /\ \A t \in Threads : record[t] # NoGrant => record'[t] = record[t]
    BY <1>0, <1>1, RuntimeKeeps
  <2>2. ASSUME NEW n \in Movers PROVE Ok(n)'
    <3>1. call[n].stage # "idle" => MoveTo(n) /\ MoveTo(n)'
      BY <1>0, <1>t, <2>1 DEF Progress, MoveTo, Batch
    <3>2. call[n].stage = "replace" => HalfMoved(n)'
      <4>1. SUFFICES ASSUME call[n].stage = "replace" PROVE HalfMoved(n)'
        OBVIOUS
      <4>2. MoveTo(n) /\ HalfMoved(n)
        BY <1>0, <4>1 DEF Progress
      <4>3. \A t \in Batch(n) : record'[t] = record[t]
        BY <1>t, <2>1, <4>2 DEF MoveTo
      <4> QED BY <2>1, <4>2, <4>3 DEF HalfMoved, Batch
    <3> QED BY <2>1, <3>1, <3>2
  <2> QED BY <2>2 DEF Progress
<1>2. ASSUME NEW m \in Movers, MoverStep(m) PROVE Progress'
  <2>1. ASSUME NEW n \in Movers \ {m} PROVE Ok(n)'
    <3>1. call'[n] = call[n]
      BY <1>0, <1>2, OthersKept
    <3>2. ASSUME call[n].stage = "replace", NEW t \in Batch(n) PROVE record'[t] = record[t]
      <4>1. t \in Threads /\ dir[t] = n
        BY <1>0, <1>t, <3>2 DEF HoldsLocks
      <4>2. record'[t] # record[t] => dir[t] = m
        BY <1>0, <1>2, <4>1, MoverChanges
      <4> QED BY <4>1, <4>2
    <3>3. call[n].stage # "idle" => MoveTo(n)'
      BY <1>0, <1>t, <1>x, <3>1 DEF Progress, MoveTo, Batch
    <3>4. call[n].stage = "replace" => HalfMoved(n)'
      <4>1. call[n].stage = "replace" => HalfMoved(n)
        BY <1>0 DEF Progress
      <4> QED BY <3>1, <3>2, <4>1 DEF HalfMoved, Batch
    <3> QED BY <3>1, <3>3, <3>4
  <2>2. Ok(m)'
    <3>o. Ok(m)
      BY <1>0 DEF Progress
    <3>e. ASSUME NEW stage, NEW changed, NEW unread, End(m, stage, changed, unread),
                 stage \in {"moved", "refused", "incomplete"}, call[m].stage # "idle"
          PROVE  Ok(m)'
      <4>1. /\ call'[m].stage = stage /\ call'[m].target = call[m].target
            /\ call'[m].batch = call[m].batch /\ call'[m].expected = call[m].expected
        BY <3>e, <1>t DEF End, Call
      <4>2. MoveTo(m)'
        BY <1>t, <1>x, <3>o, <3>e, <4>1 DEF MoveTo, Batch
      <4> QED BY <3>e, <4>1, <4>2
    <3>s. ASSUME NEW stage, call' = [call EXCEPT ![m].stage = stage],
                 stage # "replace", call[m].stage # "idle"
          PROVE  Ok(m)'
      <4>1. /\ call'[m].stage = stage /\ call'[m].target = call[m].target
            /\ call'[m].batch = call[m].batch /\ call'[m].expected = call[m].expected
        BY <3>s, <1>t DEF Call
      <4>2. MoveTo(m)'
        BY <1>t, <1>x, <3>o, <3>s, <4>1 DEF MoveTo, Batch
      <4> QED BY <3>s, <4>1, <4>2
    <3>1. ASSUME NEW T \in SUBSET Threads, NEW p \in Profiles, ReadGrants(m, T, p) PROVE Ok(m)'
      <4>1. /\ call'[m].stage = "read" /\ call'[m].batch = T /\ call'[m].target = p
            /\ call'[m].expected = [t \in Threads |-> IF t \in T THEN record[t] ELSE NoGrant]
        BY <3>1, <1>t DEF ReadGrants, NoCall
      <4>2. \A t \in T : call'[m].expected[t] = record[t] /\ record[t].owner # p
        BY <3>1, <4>1 DEF ReadGrants
      <4>3. MoveTo(m)'
        BY <1>t, <1>x, <3>1, <4>1, <4>2 DEF ReadGrants, MoveTo, Batch
      <4> QED BY <4>1, <4>3
    <3>2. ASSUME Start(m) PROVE Ok(m)'
      BY <3>2, <3>s DEF Start
    <3>3. ASSUME Forget(m) \/ MoverExit(m) PROVE Ok(m)'
      <4>1. call'[m].stage = "idle"
        BY <3>3, <1>t DEF Forget, MoverExit, NoCall
      <4> QED BY <4>1
    <3>4. ASSUME NEW t \in Threads, TakeDir(m, t) PROVE Ok(m)'
      <4>1. call[m].stage = "dirs" /\ Reached(m, dir, t, "guards") # "replace"
        BY <3>4 DEF TakeDir, Reached
      <4> QED BY <3>4, <3>s, <4>1 DEF TakeDir
    <3>5. ASSUME NEW t \in Threads, TakeGuard(m, t) PROVE Ok(m)'
      <4>1. call[m].stage = "guards" /\ Reached(m, guard, t, "locks") # "replace"
        BY <3>5 DEF TakeGuard, Reached
      <4> QED BY <3>5, <3>s, <4>1 DEF TakeGuard
    <3>6. ASSUME NEW t \in Threads, TakeWriterLock(m, t) PROVE Ok(m)'
      <4>1. call[m].stage = "locks" /\ Reached(m, writerLock, t, "check") # "replace"
        BY <3>6 DEF TakeWriterLock, Reached
      <4> QED BY <3>6, <3>s, <4>1 DEF TakeWriterLock
    <3>7. ASSUME NEW t \in Threads, Replace(m, t) PROVE Ok(m)'
      <4>1. call[m].stage = "replace" /\ t \in call[m].todo /\ record' = Replaced(m, t)
        BY <3>7 DEF Replace
      <4>2. /\ call'[m].stage = "replace" /\ call'[m].target = call[m].target
            /\ call'[m].batch = call[m].batch /\ call'[m].expected = call[m].expected
            /\ call'[m].todo = call[m].todo \ {t}
        BY <3>7, <1>t, <4>1 DEF Replace, Call
      <4>3. HalfMoved(m) /\ MoveTo(m)
        BY <3>o, <4>1
      <4>4. /\ record'[t] = [owner |-> call[m].target, epoch |-> record[t].epoch + 1]
            /\ \A u \in Threads \ {t} : record'[u] = record[u]
        BY <1>0, <4>1, ReplacedType
      <4>5. record[t] = call[m].expected[t]
        BY <4>1, <4>3 DEF HalfMoved
      <4>6. HalfMoved(m)'
        BY <1>t, <4>2, <4>3, <4>4, <4>5 DEF HalfMoved, Batch
      <4>7. MoveTo(m)'
        BY <1>t, <1>x, <4>2, <4>3 DEF MoveTo, Batch
      <4> QED BY <4>6, <4>7
    <3>8. ASSUME NEW t \in Threads, ReplaceFails(m, t) PROVE Ok(m)'
      <4>1. PICK unread \in SUBSET Batch(m) :
              End(m, "incomplete", {u \in Batch(m) \ unread : record'[u] # call[m].expected[u]}, unread)
        BY <3>8 DEF ReplaceFails
      <4> QED BY <3>8, <4>1, <3>e DEF ReplaceFails
    <3>9. ASSUME Check(m) PROVE Ok(m)'
      <4>1. /\ call'[m].stage = "replace" /\ call'[m].target = call[m].target
            /\ call'[m].batch = call[m].batch /\ call'[m].expected = call[m].expected
            /\ call'[m].todo = Batch(m) /\ call[m].stage = "check"
        BY <3>9, <1>t DEF Check, Call
      <4>2. record' = record /\ Current(m)
        BY <3>9 DEF Check
      <4>3. MoveTo(m)' /\ HalfMoved(m)'
        BY <3>o, <4>1, <4>2 DEF MoveTo, HalfMoved, Current, Batch
      <4> QED BY <4>3
    <3>10. ASSUME Refuse(m) PROVE Ok(m)'
      <4>1. End(m, "refused", {}, {}) /\ call[m].stage # "idle"
        BY <3>10 DEF Refuse
      <4> QED BY <4>1, <3>e
    <3>11. ASSUME Finish(m) PROVE Ok(m)'
      <4>1. End(m, "moved", Batch(m), {}) /\ call[m].stage # "idle"
        BY <3>11 DEF Finish
      <4> QED BY <4>1, <3>e
    <3> QED BY <1>2, <3>1, <3>2, <3>3, <3>4, <3>5, <3>6, <3>7, <3>8, <3>9, <3>10, <3>11
            DEF MoverStep, TransferNext
  <2> QED BY <2>1, <2>2 DEF Progress
<1> QED BY <1>1, <1>2 DEF Next, MoverStep
----------------------------------------------------------------------------
LEMMA StutterIInv == IInv /\ UNCHANGED authorityVars => IInv'
BY DEF authorityVars, IInv, TypeOK, BoundToOwn, GuardExcludesWrites, OnlyOwnerWrites,
       LockedExist, HoldsLocks, Progress, MoveTo, HalfMoved, Batch, Busy, Loaded

LEMMA Inductive == Spec => []IInv
<1>1. IInv /\ [Next]_authorityVars => IInv'
  <2>1. ASSUME IInv, Next PROVE IInv'
    <3>1. TypeOK'
      BY <2>1, TypeStep DEF IInv
    <3> QED BY <2>1, <3>1, WritesStep, ExistStep, LocksStep, ProgressStep DEF IInv
  <2> QED BY <2>1, StutterIInv
<1> QED BY <1>1, InitIInv, PTL DEF Spec

(* Every variable of the owner records has its type; in particular no      *)
(* epoch passes the limit of the counter (authority.py, MAX_COUNTER).      *)
THEOREM TypeCorrect == Spec => []TypeOK
<1>1. IInv => TypeOK
  BY DEF IInv
<1> QED BY <1>1, Inductive, PTL

(* For any number of conversations, runtimes and managers: a recorder or a *)
(* permit exists only under the grant of the record.                       *)
THEOREM OwnerWritesAlone == Spec => []OnlyOwnerWrites
<1>1. IInv => OnlyOwnerWrites
  BY DEF IInv
<1> QED BY <1>1, Inductive, PTL

(* A lock directory left by a crashed transfer is never taken over, and    *)
(* the record it protects never moves.                                     *)
THEOREM CrashFreezes == Spec => AbandonedStaysFrozen
<1> DEFINE P == \A t \in Threads :
                  dir[t] = Abandoned => dir'[t] = Abandoned /\ record'[t] = record[t]
<1>1. IInv /\ [Next]_authorityVars => [P]_authorityVars
  <2> SUFFICES ASSUME IInv, Next, NEW t \in Threads, dir[t] = Abandoned
               PROVE  dir'[t] = Abandoned /\ record'[t] = record[t]
    OBVIOUS
  <2>0. TypeOK /\ HoldsLocks /\ Progress
    BY DEF IInv
  <2>1. ASSUME NEW p \in Profiles, RuntimeNext(p)
        PROVE  dir'[t] = Abandoned /\ record'[t] = record[t]
    <3>1. record[t] # NoGrant
      BY AuthorityConstants DEF IInv, LockedExist
    <3> QED BY <2>0, <2>1, <3>1, RuntimeKeeps
  <2>2. ASSUME NEW m \in Movers, MoverStep(m)
        PROVE  dir'[t] = Abandoned /\ record'[t] = record[t]
    <3>1. m # Abandoned
      BY AuthorityConstants
    <3> QED BY <2>0, <2>2, <3>1, MoverChanges
  <2> QED BY <2>1, <2>2 DEF Next, MoverStep
<1> QED BY <1>1, Inductive, PTL DEF Spec, AbandonedStaysFrozen

(* The answer of a transfer tells what became of every record of its       *)
(* batch, whatever the other managers and the runtimes do meanwhile.       *)
THEOREM AnswerAccounts == Spec => TransferAccounted
<1> DEFINE A(m) == call[m].stage = "replace" =>
         /\ call'[m].stage = "moved" =>
              \A t \in Batch(m) :
                record'[t] = [owner |-> call[m].target,
                              epoch |-> call[m].expected[t].epoch + 1]
         /\ call'[m].stage = "incomplete" =>
              \A t \in Batch(m) \ call'[m].unread :
                t \in call'[m].changed <=> record'[t] # call[m].expected[t]
<1>1. IInv /\ [Next]_authorityVars => [\A m \in Movers : A(m)]_authorityVars
  <2> SUFFICES ASSUME IInv, Next, NEW m \in Movers, call[m].stage = "replace",
                      call'[m].stage \in {"moved", "incomplete"}
               PROVE  A(m)
    OBVIOUS
  <2>0. TypeOK /\ HoldsLocks /\ Progress
    BY DEF IInv
  <2>t. call \in [Movers -> Call]
    BY <2>0 DEF TypeOK
  <2>1. \A p \in Profiles : ~RuntimeNext(p)
    BY <2>0, RuntimeKeeps
  <2>2. \A n \in Movers \ {m} : ~MoverStep(n)
    BY <2>0, OthersKept
  <2>3. MoverStep(m)
    BY <2>1, <2>2 DEF Next, MoverStep
  <2>4. ASSUME NEW t \in Threads, Replace(m, t) PROVE FALSE
    BY <2>4, <2>t DEF Replace, Call
  <2>5. ASSUME NEW t \in Threads, ReplaceFails(m, t) PROVE A(m)
    <3>1. PICK unread \in SUBSET Batch(m) :
            End(m, "incomplete", {u \in Batch(m) \ unread : record'[u] # call[m].expected[u]}, unread)
      BY <2>5 DEF ReplaceFails
    <3> DEFINE changed == {u \in Batch(m) \ unread : record'[u] # call[m].expected[u]}
    <3>2. End(m, "incomplete", changed, unread)
      BY <3>1
    <3> HIDE DEF changed
    <3>3. /\ call'[m].stage = "incomplete" /\ call'[m].changed = changed
          /\ call'[m].unread = unread
      BY <2>t, <3>2 DEF End, Call
    <3> USE DEF changed
    <3> QED BY <3>3
  <2>6. ASSUME Finish(m) PROVE A(m)
    <3>1. call'[m].stage = "moved" /\ record' = record /\ call[m].todo = {}
      BY <2>6, <2>t DEF Finish, End, Call
    <3>2. HalfMoved(m)
      BY <2>0 DEF Progress
    <3> QED BY <3>1, <3>2 DEF HalfMoved
  <2>7. ASSUME \/ \E T \in SUBSET Threads, p \in Profiles : ReadGrants(m, T, p)
               \/ Start(m) \/ Forget(m) \/ Check(m) \/ Refuse(m)
               \/ \E t \in Threads : TakeDir(m, t) \/ TakeGuard(m, t) \/ TakeWriterLock(m, t)
        PROVE  FALSE
    BY <2>7 DEF ReadGrants, Start, Forget, Check, Refuse, TakeDir, TakeGuard, TakeWriterLock
  <2>8. ASSUME MoverExit(m) PROVE FALSE
    BY <2>8, <2>t DEF MoverExit, NoCall
  <2> QED BY <2>3, <2>4, <2>5, <2>6, <2>7, <2>8 DEF MoverStep, TransferNext
<1> QED BY <1>1, Inductive, PTL DEF Spec, TransferAccounted
----------------------------------------------------------------------------
(* The recorders that the writer locks of runtimes stand for.              *)
Writer == [t \in Threads |-> IF writerLock[t] \in Profiles THEN writerLock[t] ELSE NoProfile]

LEMMA InitOwner == Init => Owner!Init
BY AuthorityConstants DEF Init, Owner!Init

(* A runtime's step opens one recorder, closes some, or does not show.     *)
LEMMA RuntimeMaps ==
  ASSUME IInv, NEW p \in Profiles, RuntimeNext(p)
  PROVE  [Owner!Next]_Owner!vars
<1>0. TypeOK /\ OnlyOwnerWrites /\ BoundToOwn
  BY DEF IInv
<1>t. /\ writerLock \in [Threads -> Profiles \cup Movers \cup {NoProfile}]
      /\ record \in [Threads -> Grant \cup {NoGrant}]
  BY <1>0 DEF TypeOK
<1>c. NoProfile \notin Profiles
  BY AuthorityConstants
<1>6. ASSUME NEW t \in Threads, Create(p, t)
      PROVE  [Owner!Next]_Owner!vars
  <2>1. Owner!Create(t, p)
    BY <1>6 DEF Create, Owner!Create
  <2> QED BY <2>1 DEF Owner!Next
<1>2. ASSUME NEW t \in Threads, Bind(p, t) \/ EndWrite(p, t)
      PROVE  UNCHANGED Owner!vars
  BY <1>2 DEF Bind, EndWrite, Owner!vars
<1>3. ASSUME NEW t \in Threads, BeginWrite(p, t)
      PROVE  [Owner!Next]_Owner!vars
  <2>1. /\ bound[p][t] = record[t] /\ record[t] # NoGrant
        /\ writerLock[t] \in {NoProfile, p} /\ UNCHANGED record
        /\ writerLock' = [writerLock EXCEPT ![t] = p]
    BY <1>3 DEF BeginWrite, Permit
  <2>2. record[t].owner = p
    BY <1>0, <2>1 DEF BoundToOwn
  <2>3. CASE writerLock[t] = p
    <3>1. writerLock' = writerLock
      BY <1>t, <2>1, <2>3
    <3> QED BY <2>1, <3>1 DEF Owner!vars
  <2>4. CASE writerLock[t] = NoProfile
    <3>1. Writer[t] = NoProfile
      BY <1>c, <2>4 DEF Writer
    <3>2. Writer' = [Writer EXCEPT ![t] = record[t].owner]
      BY <1>t, <2>1, <2>2 DEF Writer
    <3>3. Owner!Open(t)
      BY <2>1, <3>1, <3>2 DEF Owner!Open, Writer
    <3> QED BY <3>3 DEF Owner!Next
  <2> QED BY <2>1, <2>3, <2>4
<1>4. ASSUME NEW t \in Threads, CloseRecorder(p, t)
      PROVE  [Owner!Next]_Owner!vars
  <2>1. writerLock' = [writerLock EXCEPT ![t] = NoProfile] /\ UNCHANGED record
    BY <1>4 DEF CloseRecorder
  <2>2. Writer' = [u \in Threads |-> IF u \in {t} THEN NoProfile ELSE Writer[u]]
    BY <1>t, <1>c, <2>1 DEF Writer
  <2>3. Owner!Close({t})
    BY <2>1, <2>2 DEF Owner!Close, Writer
  <2> QED BY <2>3 DEF Owner!Next
<1>5. ASSUME RuntimeExit(p)
      PROVE  [Owner!Next]_Owner!vars
  <2>0. PICK T \in SUBSET Threads : T = {t \in Threads : Loaded(p, t)}
    OBVIOUS
  <2>1. writerLock' = [t \in Threads |-> IF Loaded(p, t) THEN NoProfile ELSE writerLock[t]]
        /\ UNCHANGED record
    BY <1>5 DEF RuntimeExit
  <2>2. Writer' = [t \in Threads |-> IF t \in T THEN NoProfile ELSE Writer[t]]
    BY <1>t, <1>c, <2>0, <2>1 DEF Writer, Loaded
  <2>3. Owner!Close(T)
    BY <2>1, <2>2 DEF Owner!Close, Writer
  <2> QED BY <2>3 DEF Owner!Next
<1> QED BY <1>2, <1>3, <1>4, <1>5, <1>6 DEF RuntimeNext

(* A mover's step opens and closes nothing, and moves at most one record,  *)
(* whose conversation no runtime has loaded.                               *)
LEMMA MoverMaps ==
  ASSUME IInv, TypeOK', NEW m \in Movers, MoverStep(m)
  PROVE  [Owner!Next]_Owner!vars
<1>0. TypeOK /\ HoldsLocks /\ Progress
  BY DEF IInv
<1>1. Writer' = Writer
  <2>1. ASSUME NEW t \in Threads PROVE Writer'[t] = Writer[t]
    <3>1. writerLock'[t] \in Profiles => writerLock'[t] = writerLock[t]
      BY <1>0, MoverChanges
    <3>2. writerLock[t] \in Profiles => writerLock'[t] = writerLock[t]
      BY <1>0, MoverChanges
    <3> QED BY <3>1, <3>2 DEF Writer
  <2> QED BY <2>1 DEF Writer
<1>2. CASE record' = record
  BY <1>1, <1>2 DEF Owner!vars, Writer
<1>3. CASE record' # record
  <2>1. PICK t \in Threads : record'[t] # record[t]
    <3>1. record \in [Threads -> Grant \cup {NoGrant}] /\ record' \in [Threads -> Grant \cup {NoGrant}]
      BY <1>0 DEF TypeOK
    <3>2. (\A u \in Threads : record'[u] = record[u]) => record' = record
      BY <3>1
    <3> QED BY <1>3, <3>2
  <2>2. /\ writerLock[t] = m /\ call[m].stage = "replace" /\ t \in call[m].todo
        /\ record' = Replaced(m, t)
    BY <1>0, <2>1, MoverChanges
  <2>3. /\ MoveTo(m) /\ HalfMoved(m)
    BY <1>0, <2>2 DEF Progress
  <2>4. /\ call[m].target \in Profiles /\ record[t].epoch < MaxEpoch
        /\ record[t].owner # call[m].target /\ record[t] # NoGrant
    BY <2>2, <2>3 DEF MoveTo, HalfMoved
  <2>5. Writer[t] = NoProfile
    BY <2>2, AuthorityConstants DEF Writer
  <2>6. Owner!Move(t, call[m].target)
    BY <1>1, <2>2, <2>4, <2>5 DEF Owner!Move, Replaced, Writer
  <2> QED BY <2>4, <2>6 DEF Owner!Next
<1> QED BY <1>2, <1>3

(* The three locks implement single ownership.                             *)
THEOREM AuthorityImplementsOwnership == Spec => ImplementsOwnership
<1>1. IInv /\ IInv' /\ [Next]_authorityVars => [Owner!Next]_Owner!vars
  <2> SUFFICES ASSUME IInv, IInv', [Next]_authorityVars
               PROVE  [Owner!Next]_Owner!vars
    OBVIOUS
  <2>1. CASE UNCHANGED authorityVars
    BY <2>1 DEF authorityVars, Owner!vars
  <2>2. ASSUME NEW p \in Profiles, RuntimeNext(p) PROVE [Owner!Next]_Owner!vars
    BY <2>2, RuntimeMaps
  <2>3. ASSUME NEW m \in Movers, MoverStep(m) PROVE [Owner!Next]_Owner!vars
    <3>1. TypeOK'
      BY DEF IInv
    <3> QED BY <2>3, <3>1, MoverMaps
  <2> QED BY <2>1, <2>2, <2>3 DEF Next, MoverStep
<1> QED BY <1>1, InitOwner, Inductive, PTL DEF Spec, ImplementsOwnership, Owner!Spec
=============================================================================

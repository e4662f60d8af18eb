------------------------- MODULE LaunchQueueProofs -------------------------
(***************************************************************************)
(* Safety of launch admission for any workers, profiles and nesting.       *)
(***************************************************************************)
EXTENDS LaunchQueue, SequenceTheorems, TLAPS

(* Exclusivity is decided by the first row of a stack, so popping a nested *)
(* row never ends it.                                                      *)
BottomRowDecides == \A w \in Workers : HoldsExclusive(w) => held[w][1].exclusive

(* A blocked nested request belongs to a worker that shares admission.     *)
NestedShares ==
  \A w \in Workers : nesting[w] # NoProfile => Holding(w) /\ ~HoldsExclusive(w)

(* A worker with a ticket has one, and holds nothing; maintenance tickets  *)
(* are exclusive.                                                          *)
ProperTickets(queue) ==
  /\ \A i \in DOMAIN queue : held[queue[i].worker] = <<>>
  /\ \A i, j \in DOMAIN queue : queue[i].worker = queue[j].worker => i = j
  /\ \A i \in DOMAIN queue : queue[i].profile = Maintenance => queue[i].exclusive

IInv ==
  /\ TypeOK
  /\ ProperTickets(waiting)
  /\ ExclusiveAlone
  /\ OneWorkerPerProfile
  /\ BottomRowDecides
  /\ NestedShares

----------------------------------------------------------------------------
(* Removing a ticket leaves the others, in their order.                    *)
LEMMA RemoveAtType ==
  ASSUME NEW S, NEW s \in Seq(S), NEW i \in DOMAIN s
  PROVE  /\ RemoveAt(s, i) \in Seq(S)
         /\ DOMAIN RemoveAt(s, i) = 1 .. Len(s) - 1
         /\ \A k \in 1 .. Len(s) - 1 : RemoveAt(s, i)[k] = IF k < i THEN s[k] ELSE s[k + 1]
<1> DEFINE before == SubSeq(s, 1, i - 1)
           after == SubSeq(s, i + 1, Len(s))
<1>1. i \in 1 .. Len(s) /\ Len(s) \in Nat
  BY LenProperties
<1>2. /\ before \in Seq(S)
      /\ Len(before) = i - 1
      /\ \A k \in 1 .. i - 1 : before[k] = s[k]
  BY <1>1, SubSeqProperties
<1>3. /\ after \in Seq(S)
      /\ Len(after) = Len(s) - i
      /\ \A k \in 1 .. Len(s) - i : after[k] = s[i + k]
  <2>1. \A k \in i + 1 .. Len(s) : s[k] \in S
    BY <1>1, LenProperties
  <2>2. /\ after \in Seq(S)
        /\ Len(after) = IF i + 1 <= Len(s) THEN Len(s) - (i + 1) + 1 ELSE 0
        /\ \A k \in 1 .. Len(s) - (i + 1) + 1 : after[k] = s[(i + 1) + k - 1]
    BY <1>1, <2>1, SubSeqProperties
  <2> QED BY <1>1, <2>2
<1> HIDE DEF before, after
<1>4. /\ before \o after \in Seq(S)
      /\ Len(before \o after) = Len(s) - 1
      /\ \A k \in 1 .. Len(s) - 1 :
           (before \o after)[k] = IF k <= i - 1 THEN before[k] ELSE after[k - (i - 1)]
  <2>1. /\ before \o after \in Seq(S)
        /\ Len(before \o after) = Len(before) + Len(after)
        /\ \A k \in 1 .. Len(before) + Len(after) :
             (before \o after)[k] =
               IF k <= Len(before) THEN before[k] ELSE after[k - Len(before)]
    BY <1>2, <1>3, ConcatProperties
  <2>2. Len(before) + Len(after) = Len(s) - 1
    BY <1>1, <1>2, <1>3
  <2> QED BY <1>2, <2>1, <2>2
<1>5. DOMAIN (before \o after) = 1 .. Len(s) - 1
  BY <1>4, LenProperties
<1>6. \A k \in 1 .. Len(s) - 1 : (before \o after)[k] = IF k < i THEN s[k] ELSE s[k + 1]
  <2> SUFFICES ASSUME NEW k \in 1 .. Len(s) - 1
               PROVE  (before \o after)[k] = IF k < i THEN s[k] ELSE s[k + 1]
    OBVIOUS
  <2>1. CASE k < i
    <3>1. k <= i - 1 /\ k \in 1 .. i - 1
      BY <1>1, <2>1
    <3>2. before[k] = s[k]
      BY <1>2, <3>1
    <3> QED BY <1>4, <2>1, <3>1, <3>2
  <2>2. CASE ~(k < i)
    <3>1. /\ ~(k <= i - 1)
          /\ k - (i - 1) \in 1 .. Len(s) - i
          /\ i + (k - (i - 1)) = k + 1
      BY <1>1, <2>2
    <3>2. after[k - (i - 1)] = s[k + 1]
      BY <1>3, <3>1
    <3> QED BY <1>4, <2>2, <3>1, <3>2
  <2> QED BY <2>1, <2>2
<1> QED BY <1>4, <1>5, <1>6 DEF RemoveAt, before, after

(* Every ticket of a queue names a worker and what it asked for.           *)
LEMMA TicketTypes ==
  ASSUME NEW queue \in Seq(Ticket)
  PROVE  \A i \in DOMAIN queue : /\ queue[i] \in Ticket
                                 /\ queue[i].worker \in Workers
<1> SUFFICES ASSUME NEW i \in DOMAIN queue
             PROVE  queue[i] \in Ticket /\ queue[i].worker \in Workers
  OBVIOUS
<1>1. queue[i] \in Ticket
  BY LenProperties, ElementOfSeq
<1> QED BY <1>1 DEF Ticket

(* The rows of a stack without its last one.                               *)
LEMMA FrontRows ==
  ASSUME NEW S, NEW s \in Seq(S), s # <<>>
  PROVE  /\ Front(s) \in Seq(S)
         /\ DOMAIN Front(s) \subseteq DOMAIN s
         /\ \A i \in DOMAIN Front(s) : Front(s)[i] = s[i]
         /\ Front(s) # <<>> => 1 \in DOMAIN Front(s)
<1>1. Len(s) \in Nat /\ Len(s) # 0 /\ DOMAIN s = 1 .. Len(s)
  BY LenProperties, EmptySeq
<1>2. /\ Front(s) \in Seq(S)
      /\ Len(Front(s)) = Len(s) - 1
      /\ \A i \in 1 .. Len(s) - 1 : Front(s)[i] = s[i]
  BY <1>1, SubSeqProperties DEF Front
<1>3. DOMAIN Front(s) = 1 .. Len(s) - 1
  BY <1>2, LenProperties
<1>4. Front(s) # <<>> => Len(Front(s)) # 0
  BY <1>2, EmptySeq
<1> QED BY <1>1, <1>2, <1>3, <1>4

(* The rows of a stack with one more on top.                               *)
LEMMA PushRows ==
  ASSUME NEW S, NEW s \in Seq(S), NEW r \in S
  PROVE  /\ Append(s, r) \in Seq(S)
         /\ DOMAIN Append(s, r) = DOMAIN s \cup {Len(s) + 1}
         /\ \A i \in DOMAIN s : Append(s, r)[i] = s[i]
         /\ Append(s, r)[Len(s) + 1] = r
         /\ Append(s, r) # <<>>
<1>1. Len(s) \in Nat /\ DOMAIN s = 1 .. Len(s)
  BY LenProperties
<1>2. Append(s, r) \in Seq(S) /\ Len(Append(s, r)) = Len(s) + 1
  BY AppendProperties
<1>3. DOMAIN Append(s, r) = 1 .. Len(s) + 1
  BY <1>2, LenProperties
<1>4. Append(s, r) # <<>>
  BY <1>1, <1>2, EmptySeq
<1> QED BY <1>1, <1>2, <1>3, <1>4, AppendProperties

----------------------------------------------------------------------------
LEMMA InitIInv == Init => IInv
<1> SUFFICES ASSUME Init PROVE IInv
  OBVIOUS
<1> USE LaunchQueueConstants DEF Init
<1>1. TypeOK
  BY EmptySeq DEF TypeOK, Ticket, Row
<1>2. ExclusiveAlone /\ OneWorkerPerProfile /\ BottomRowDecides
  BY DEF ExclusiveAlone, OneWorkerPerProfile, BottomRowDecides, HoldsExclusive, Holds
<1>3. NestedShares /\ ProperTickets(waiting)
  BY DEF NestedShares, ProperTickets
<1> QED BY <1>1, <1>2, <1>3 DEF IInv

(* What one worker's call leaves alone.                                    *)
OthersKeep(w) == \A o \in Workers \ {w} : held'[o] = held[o]

LEMMA OthersKeepRows ==
  ASSUME NEW w \in Workers, OthersKeep(w)
  PROVE  \A o \in Workers \ {w} : /\ \A q \in Requests : Holds(o, q)' <=> Holds(o, q)
                                  /\ HoldsExclusive(o)' <=> HoldsExclusive(o)
                                  /\ Holding(o)' <=> Holding(o)
BY DEF OthersKeep, Holds, HoldsExclusive, Holding

(* The stacks after a ticket is granted.                                   *)
LEMMA AdmittedEffect ==
  ASSUME TypeOK, NEW queue \in Seq(Ticket), NEW i \in DOMAIN queue, Admitted(queue, i)
  PROVE  LET w == queue[i].worker
         IN /\ w \in Workers /\ queue[i].profile \in Requests
            /\ held' \in [Workers -> Seq(Row)]
            /\ \A p \in Requests : Holds(w, p)' <=> p = queue[i].profile
            /\ HoldsExclusive(w)' <=> queue[i].exclusive
            /\ HoldsExclusive(w)' => held'[w][1].exclusive
            /\ OthersKeep(w)
<1> DEFINE w == queue[i].worker
           row == [profile |-> queue[i].profile, exclusive |-> queue[i].exclusive]
<1>1. queue[i] \in Ticket
  BY TicketTypes
<1>2. /\ w \in Workers /\ row \in Row /\ row.profile = queue[i].profile
      /\ row.exclusive = queue[i].exclusive /\ queue[i].profile \in Requests
  BY <1>1 DEF Ticket, Row
<1>3. held' = [held EXCEPT ![w] = <<row>>] /\ held' \in [Workers -> Seq(Row)]
  BY <1>2 DEF Admitted, TypeOK
<1>4. held'[w] = <<row>> /\ OthersKeep(w)
  BY <1>2, <1>3 DEF TypeOK, OthersKeep
<1>5. DOMAIN <<row>> = {1} /\ <<row>>[1] = row
  OBVIOUS
<1>6. \A p \in Requests : Holds(w, p)' <=> p = queue[i].profile
  BY <1>2, <1>4, <1>5 DEF Holds
<1>7. /\ HoldsExclusive(w)' <=> queue[i].exclusive
      /\ HoldsExclusive(w)' => held'[w][1].exclusive
  BY <1>2, <1>4, <1>5 DEF HoldsExclusive
<1> QED BY <1>2, <1>3, <1>4, <1>6, <1>7

(* The stacks after a nested request is granted.                           *)
LEMMA PushEffect ==
  ASSUME TypeOK, NEW w \in Workers, NEW p \in Requests, NEW e \in BOOLEAN,
         Holding(w), e => HoldsExclusive(w), Push(w, p, e)
  PROVE  /\ held' \in [Workers -> Seq(Row)]
         /\ Holding(w)'
         /\ \A q \in Requests : Holds(w, q)' <=> Holds(w, q) \/ q = p
         /\ HoldsExclusive(w)' <=> HoldsExclusive(w)
         /\ held'[w][1] = held[w][1]
         /\ OthersKeep(w)
<1> DEFINE row == [profile |-> p, exclusive |-> e]
           n == Len(held[w]) + 1
<1>1. row \in Row /\ row.profile = p /\ row.exclusive = e
  BY DEF Row
<1>2. held[w] \in Seq(Row) /\ held[w] # <<>>
  BY DEF TypeOK, Holding
<1>3. /\ held' = [held EXCEPT ![w] = Append(held[w], row)]
      /\ held' \in [Workers -> Seq(Row)]
  BY <1>1, <1>2, PushRows DEF Push, TypeOK
<1>4. held'[w] = Append(held[w], row) /\ OthersKeep(w)
  BY <1>3 DEF TypeOK, OthersKeep
<1>5. /\ DOMAIN held'[w] = DOMAIN held[w] \cup {n}
      /\ \A i \in DOMAIN held[w] : held'[w][i] = held[w][i]
      /\ held'[w][n] = row
      /\ held'[w] # <<>>
  BY <1>1, <1>2, <1>4, PushRows
<1>6. \A q \in Requests : Holds(w, q)' <=> Holds(w, q) \/ q = p
  BY <1>1, <1>5 DEF Holds
<1>7. HoldsExclusive(w)' <=> HoldsExclusive(w)
  BY <1>1, <1>5 DEF HoldsExclusive
<1>8. 1 \in DOMAIN held[w]
  BY <1>2, LenProperties, EmptySeq
<1> QED BY <1>3, <1>4, <1>5, <1>6, <1>7, <1>8 DEF Holding

(* The stacks after the last row of a worker is given up.                  *)
LEMMA ReleaseEffect ==
  ASSUME IInv, NEW w \in Workers, Release(w)
  PROVE  /\ held' \in [Workers -> Seq(Row)]
         /\ \A q \in Requests : Holds(w, q)' => Holds(w, q)
         /\ Holding(w)' => \E q \in Requests : Holds(w, q)'
         /\ HoldsExclusive(w)' <=> HoldsExclusive(w) /\ Holding(w)'
         /\ HoldsExclusive(w)' => held'[w][1].exclusive
         /\ OthersKeep(w)
<1>1. held[w] \in Seq(Row) /\ held[w] # <<>>
  BY DEF Release, Holding, IInv, TypeOK
<1>2. held' = [held EXCEPT ![w] = Front(held[w])] /\ held' \in [Workers -> Seq(Row)]
  BY <1>1, FrontRows DEF Release, IInv, TypeOK
<1>3. held'[w] = Front(held[w]) /\ OthersKeep(w)
  BY <1>2 DEF IInv, TypeOK, OthersKeep
<1>4. /\ DOMAIN held'[w] \subseteq DOMAIN held[w]
      /\ \A i \in DOMAIN held'[w] : held'[w][i] = held[w][i]
      /\ held'[w] # <<>> => 1 \in DOMAIN held'[w]
      /\ held'[w] = <<>> => DOMAIN held'[w] = {}
  BY <1>1, <1>3, FrontRows
<1>5. \A q \in Requests : Holds(w, q)' => Holds(w, q)
  BY <1>4 DEF Holds
<1>6. HoldsExclusive(w)' => HoldsExclusive(w) /\ Holding(w)'
  BY <1>4 DEF HoldsExclusive, Holding
<1>7. HoldsExclusive(w) /\ Holding(w)' => HoldsExclusive(w)' /\ held'[w][1].exclusive
  BY <1>4 DEF IInv, BottomRowDecides, HoldsExclusive, Holding
<1>8. ASSUME Holding(w)' PROVE \E q \in Requests : Holds(w, q)'
  <2>1. 1 \in DOMAIN held'[w]
    BY <1>4, <1>8 DEF Holding
  <2>2. held'[w] \in Seq(Row)
    BY <1>2
  <2>3. held'[w][1] \in Row
    BY <2>1, <2>2, LenProperties, ElementOfSeq
  <2> QED BY <2>1, <2>3 DEF Row, Holds
<1> QED BY <1>2, <1>3, <1>5, <1>6, <1>7, <1>8

----------------------------------------------------------------------------
(* Granting an admissible ticket of any queue keeps the invariant.         *)
LEMMA AdmittedKeepsIInv ==
  ASSUME IInv, NEW queue \in Seq(Ticket), NEW i \in DOMAIN queue,
         ProperTickets(queue), Admissible(queue, i), Admitted(queue, i)
  PROVE  IInv'
<1> DEFINE ticket == queue[i]
           w == ticket.worker
<1> USE DEF IInv
<1>1. /\ w \in Workers /\ ticket.profile \in Requests
      /\ held' \in [Workers -> Seq(Row)]
      /\ \A p \in Requests : Holds(w, p)' <=> p = ticket.profile
      /\ HoldsExclusive(w)' <=> ticket.exclusive
      /\ HoldsExclusive(w)' => held'[w][1].exclusive
      /\ OthersKeep(w)
  BY AdmittedEffect
<1>2. \A o \in Workers \ {w} : /\ \A p \in Requests : Holds(o, p)' <=> Holds(o, p)
                               /\ HoldsExclusive(o)' <=> HoldsExclusive(o)
                               /\ Holding(o)' <=> Holding(o)
  BY <1>1, OthersKeepRows
<1>3. held[w] = <<>> /\ nesting[w] = NoProfile
  BY <1>1 DEF ProperTickets, NestedShares, Holding
<1>4. /\ waiting' \in Seq(Ticket)
      /\ DOMAIN waiting' = 1 .. Len(queue) - 1
      /\ \A k \in 1 .. Len(queue) - 1 : waiting'[k] = IF k < i THEN queue[k] ELSE queue[k + 1]
  BY RemoveAtType DEF Admitted
<1>a. TypeOK'
  <2>1. preferred' \in Profiles \cup {NoProfile}
    BY DEF Admitted, TypeOK
  <2>2. opened' \in [Workers -> Nat] /\ nesting' = nesting /\ clicks' = clicks
    BY <1>1 DEF Admitted, TypeOK
  <2> QED BY <1>1, <1>4, <2>1, <2>2 DEF TypeOK
<1>b. ProperTickets(waiting)'
  <2>1. i \in 1 .. Len(queue) /\ Len(queue) \in Nat /\ DOMAIN queue = 1 .. Len(queue)
    BY LenProperties
  <2>2. \A k \in DOMAIN waiting' :
           LET m == IF k < i THEN k ELSE k + 1
           IN m \in DOMAIN queue /\ m # i /\ waiting'[k] = queue[m]
    BY <1>4, <2>1
  <2>3. \A k, l \in DOMAIN waiting' : waiting'[k].worker = waiting'[l].worker => k = l
    BY <1>4, <2>1, <2>2 DEF ProperTickets
  <2>4. \A m \in DOMAIN queue : queue[m].worker \in Workers /\ (m # i => queue[m].worker # w)
    BY TicketTypes DEF ProperTickets
  <2>5. \A k \in DOMAIN waiting' : held'[waiting'[k].worker] = <<>>
    BY <2>2, <2>4, <1>1 DEF ProperTickets, OthersKeep
  <2>6. \A k \in DOMAIN waiting' : waiting'[k].profile = Maintenance => waiting'[k].exclusive
    BY <2>2 DEF ProperTickets
  <2> QED BY <2>3, <2>5, <2>6 DEF ProperTickets
<1>c. ExclusiveAlone'
  <2>1. CASE ticket.exclusive
    BY <2>1, <1>2 DEF Admissible, ExclusiveAlone, Holding, HoldsExclusive
  <2>2. CASE ~ticket.exclusive
    BY <2>2, <1>1, <1>2 DEF Admissible, ExclusiveHeld, ExclusiveAlone
  <2> QED BY <2>1, <2>2
<1>d. OneWorkerPerProfile'
  <2>1. \A o \in Workers \ {w} : ~Holds(o, ticket.profile)
    BY <1>1 DEF Admissible, Holding, Holds, HeldElsewhere
  <2> QED BY <2>1, <1>1, <1>2 DEF OneWorkerPerProfile
<1>e. BottomRowDecides'
  BY <1>1, <1>2 DEF BottomRowDecides, OthersKeep
<1>f. NestedShares'
  <2>1. nesting' = nesting
    BY DEF Admitted
  <2> QED BY <2>1, <1>1, <1>2, <1>3 DEF NestedShares
<1> QED BY <1>a, <1>b, <1>c, <1>d, <1>e, <1>f

(* A call of a worker that holds rows keeps every ticket.                  *)
LEMMA HolderKeepsTickets ==
  ASSUME IInv, NEW w \in Workers, Holding(w), OthersKeep(w), waiting' = waiting
  PROVE  ProperTickets(waiting)'
<1>1. \A i \in DOMAIN waiting : waiting[i].worker # w /\ waiting[i].worker \in Workers
  BY TicketTypes DEF IInv, TypeOK, ProperTickets, Holding
<1> QED BY <1>1 DEF IInv, ProperTickets, OthersKeep

(* A worker that may run on pushes one more row.                           *)
LEMMA PushKeepsIInv ==
  ASSUME IInv, NEW w \in Workers, NEW p \in Requests, NEW e \in BOOLEAN,
         Holding(w), e => HoldsExclusive(w),
         HoldsExclusive(w) \/ ~HeldElsewhere(p, w),
         Push(w, p, e),
         waiting' = waiting, preferred' = preferred, clicks' = clicks,
         opened' \in [Workers -> Nat],
         nesting' = nesting \/ nesting' = [nesting EXCEPT ![w] = NoProfile]
  PROVE  IInv'
<1> USE DEF IInv
<1>1. /\ held' \in [Workers -> Seq(Row)]
      /\ Holding(w)'
      /\ \A q \in Requests : Holds(w, q)' <=> Holds(w, q) \/ q = p
      /\ HoldsExclusive(w)' <=> HoldsExclusive(w)
      /\ held'[w][1] = held[w][1]
      /\ OthersKeep(w)
  BY PushEffect
<1>2. \A o \in Workers \ {w} : /\ \A q \in Requests : Holds(o, q)' <=> Holds(o, q)
                               /\ HoldsExclusive(o)' <=> HoldsExclusive(o)
                               /\ Holding(o)' <=> Holding(o)
  BY <1>1, OthersKeepRows
<1>a. TypeOK'
  <2>1. nesting' \in [Workers -> Profiles \cup {NoProfile}]
    BY DEF TypeOK
  <2> QED BY <1>1, <2>1 DEF TypeOK
<1>b. ProperTickets(waiting)'
  BY <1>1, HolderKeepsTickets
<1>c. ExclusiveAlone'
  BY <1>1, <1>2 DEF ExclusiveAlone
<1>d. OneWorkerPerProfile'
  <2>1. \A o \in Workers \ {w} : ~Holds(o, p)
    BY DEF ExclusiveAlone, Holding, Holds, HeldElsewhere
  <2> QED BY <2>1, <1>1, <1>2 DEF OneWorkerPerProfile
<1>e. BottomRowDecides'
  BY <1>1, <1>2 DEF BottomRowDecides, OthersKeep
<1>f. NestedShares'
  <2>1. \A o \in Workers : nesting'[o] # NoProfile => nesting[o] # NoProfile
    BY DEF TypeOK
  <2> QED BY <2>1, <1>1, <1>2 DEF NestedShares
<1> QED BY <1>a, <1>b, <1>c, <1>d, <1>e, <1>f

(* Giving up the last row of a stack keeps the invariant.                  *)
LEMMA ReleaseKeepsIInv ==
  ASSUME IInv, NEW w \in Workers, Release(w)
  PROVE  IInv'
<1> USE DEF IInv
<1>1. /\ held' \in [Workers -> Seq(Row)]
      /\ \A q \in Requests : Holds(w, q)' => Holds(w, q)
      /\ HoldsExclusive(w)' => HoldsExclusive(w)
      /\ HoldsExclusive(w)' => held'[w][1].exclusive
      /\ OthersKeep(w)
  BY ReleaseEffect
<1>2. \A o \in Workers \ {w} : /\ \A q \in Requests : Holds(o, q)' <=> Holds(o, q)
                               /\ HoldsExclusive(o)' <=> HoldsExclusive(o)
                               /\ Holding(o)' <=> Holding(o)
  BY <1>1, OthersKeepRows
<1>3. /\ Holding(w) /\ nesting[w] = NoProfile
      /\ UNCHANGED <<waiting, preferred, nesting, opened, clicks>>
  BY DEF Release
<1>a. TypeOK'
  BY <1>1, <1>3 DEF TypeOK
<1>b. ProperTickets(waiting)'
  BY <1>1, <1>3, HolderKeepsTickets
<1>c. ExclusiveAlone'
  BY <1>1, <1>2, <1>3 DEF ExclusiveAlone
<1>d. OneWorkerPerProfile'
  BY <1>1, <1>2 DEF OneWorkerPerProfile
<1>e. BottomRowDecides'
  BY <1>1, <1>2 DEF BottomRowDecides, OthersKeep
<1>f. NestedShares'
  BY <1>2, <1>3 DEF NestedShares
<1> QED BY <1>a, <1>b, <1>c, <1>d, <1>e, <1>f

(* The queue with the ticket of a worker that holds none and nothing.      *)
LEMMA AppendedTicket ==
  ASSUME waiting \in Seq(Ticket), ProperTickets(waiting),
         NEW w \in Workers, NEW p \in Requests, NEW e \in BOOLEAN,
         ~Holding(w), ~Waiting(w), p = Maintenance => e
  PROVE  LET queue == Append(waiting, [worker |-> w, profile |-> p, exclusive |-> e])
         IN /\ queue \in Seq(Ticket)
            /\ Len(queue) \in DOMAIN queue
            /\ ProperTickets(queue)
<1> DEFINE ticket == [worker |-> w, profile |-> p, exclusive |-> e]
           queue == Append(waiting, ticket)
           n == Len(waiting) + 1
<1>1. /\ ticket \in Ticket /\ ticket.worker = w
      /\ ticket.profile = Maintenance => ticket.exclusive
  BY DEF Ticket
<1>2. Len(waiting) \in Nat /\ DOMAIN waiting = 1 .. Len(waiting)
  BY LenProperties
<1>3. /\ queue \in Seq(Ticket)
      /\ DOMAIN queue = DOMAIN waiting \cup {n}
      /\ \A i \in DOMAIN waiting : queue[i] = waiting[i]
      /\ queue[n] = ticket
  BY <1>1, <1>2, PushRows
<1>4. Len(queue) = n
  BY <1>1, <1>2, AppendProperties
<1>5. ProperTickets(queue)
  BY <1>1, <1>2, <1>3 DEF ProperTickets, Holding, Waiting
<1> QED BY <1>3, <1>4, <1>5

----------------------------------------------------------------------------
(* One step of the queue keeps the invariant.                              *)
LEMMA NextKeepsIInv == IInv /\ [Next]_vars => IInv'
<1> SUFFICES ASSUME IInv, [Next]_vars PROVE IInv'
  OBVIOUS
<1>1. ASSUME NEW w \in Workers, NEW p \in Requests, NEW e \in BOOLEAN, Acquire(w, p, e)
      PROVE  IInv'
  <2> DEFINE queue == Append(waiting, [worker |-> w, profile |-> p, exclusive |-> e])
  <2>1. queue \in Seq(Ticket) /\ Len(queue) \in DOMAIN queue /\ ProperTickets(queue)
    BY <1>1, AppendedTicket DEF IInv, TypeOK, Acquire
  <2>2. CASE Admissible(queue, Len(queue)) /\ Admitted(queue, Len(queue))
    BY <2>1, <2>2, AdmittedKeepsIInv
  <2>3. CASE waiting' = queue /\ UNCHANGED <<held, preferred, nesting, opened, clicks>>
    <3> HIDE DEF queue
    <3>1. TypeOK'
      BY <2>1, <2>3 DEF IInv, TypeOK
    <3>2. ProperTickets(waiting)'
      BY <2>1, <2>3 DEF ProperTickets
    <3>3. (ExclusiveAlone /\ OneWorkerPerProfile /\ BottomRowDecides /\ NestedShares)'
      BY <2>3 DEF IInv, ExclusiveAlone, OneWorkerPerProfile, BottomRowDecides, NestedShares,
                  Holds, HoldsExclusive, Holding
    <3> QED BY <3>1, <3>2, <3>3 DEF IInv
  <2> QED BY <1>1, <2>2, <2>3 DEF Acquire
<1>2. ASSUME NEW w \in Workers, NEW p \in Requests, NEW e \in BOOLEAN, AcquireNested(w, p, e)
      PROVE  IInv'
  <2>1. opened' \in [Workers -> Nat]
    BY <1>2 DEF AcquireNested, IInv, TypeOK
  <2>2. CASE (HoldsExclusive(w) \/ ~HeldElsewhere(p, w)) /\ Push(w, p, e) /\ UNCHANGED nesting
    BY <1>2, <2>1, <2>2, PushKeepsIInv DEF AcquireNested
  <2>3. CASE /\ ~HoldsExclusive(w) /\ HeldElsewhere(p, w)
             /\ nesting' = [nesting EXCEPT ![w] = p]
             /\ UNCHANGED held
    <3>1. p \in Profiles /\ Holding(w)
      BY <1>2, <2>3 DEF AcquireNested, Requests
    <3>2. waiting' = waiting /\ preferred' = preferred /\ clicks' = clicks
      BY <1>2 DEF AcquireNested
    <3>3. TypeOK'
      BY <2>1, <2>3, <3>1, <3>2 DEF IInv, TypeOK
    <3>4. NestedShares'
      BY <2>3, <3>1 DEF IInv, TypeOK, NestedShares, Holding, HoldsExclusive
    <3>5. (ProperTickets(waiting) /\ ExclusiveAlone /\ OneWorkerPerProfile /\ BottomRowDecides)'
      BY <2>3, <3>2 DEF IInv, ProperTickets, ExclusiveAlone, OneWorkerPerProfile, BottomRowDecides,
                        Holds, HoldsExclusive, Holding
    <3> QED BY <3>3, <3>4, <3>5 DEF IInv
  <2> QED BY <1>2, <2>2, <2>3 DEF AcquireNested
<1>3. ASSUME NEW w \in Workers, Admit(w) PROVE IInv'
  BY <1>3, AdmittedKeepsIInv DEF Admit, IInv, TypeOK
<1>4. ASSUME NEW w \in Workers, ResumeNested(w) PROVE IInv'
  <2>1. /\ nesting[w] \in Requests
        /\ Holding(w)
        /\ opened' = opened
        /\ opened \in [Workers -> Nat]
    BY <1>4 DEF ResumeNested, IInv, TypeOK, NestedShares, Requests
  <2> QED BY <1>4, <2>1, PushKeepsIInv DEF ResumeNested
<1>5. ASSUME NEW w \in Workers, Release(w) PROVE IInv'
  BY <1>5, ReleaseKeepsIInv
<1>6. ASSUME NEW p \in Profiles, Prefer(p) PROVE IInv'
  <2>1. TypeOK'
    BY <1>6, LaunchQueueConstants DEF Prefer, IInv, TypeOK
  <2>2. UNCHANGED <<waiting, held, nesting>>
    BY <1>6 DEF Prefer
  <2> QED BY <2>1, <2>2 DEF IInv, ProperTickets, ExclusiveAlone, OneWorkerPerProfile,
                            BottomRowDecides, NestedShares, Holds, HoldsExclusive, Holding
<1>7. CASE UNCHANGED vars
  BY <1>7 DEF vars, IInv, TypeOK, ProperTickets, ExclusiveAlone, OneWorkerPerProfile,
              BottomRowDecides, NestedShares, Holds, HoldsExclusive, Holding
<1> QED BY <1>1, <1>2, <1>3, <1>4, <1>5, <1>6, <1>7 DEF Next

(* The inductive invariant holds in every reachable state.                 *)
LEMMA Invariance == Spec => []IInv
<1>1. Init /\ [][Next]_vars => []IInv
  BY InitIInv, NextKeepsIInv, PTL
<1> QED BY <1>1, PTL DEF Spec

(* Every variable keeps its type, for any number of workers and profiles.  *)
THEOREM TypeCorrect == Spec => []TypeOK
BY Invariance, PTL DEF IInv

(* Maintenance and exclusive launches run alone (launch_queue.py:55-64).   *)
THEOREM ExclusiveRunsAlone == Spec => []ExclusiveAlone
BY Invariance, PTL DEF IInv

(* No profile is opened by two workers at once.                            *)
THEOREM ProfileOpenedOnce == Spec => []OneWorkerPerProfile
BY Invariance, PTL DEF IInv

----------------------------------------------------------------------------
(* A granted ticket is one step of the abstract lock.                      *)
LEMMA AdmittedRefines ==
  ASSUME IInv, NEW queue \in Seq(Ticket), NEW i \in DOMAIN queue,
         ProperTickets(queue), Admissible(queue, i), Admitted(queue, i)
  PROVE  \E w \in Workers, p \in Requests : Lock!Share(w, p) \/ Lock!Isolate(w, p)
<1> DEFINE w == queue[i].worker
           p == queue[i].profile
           profiles(o) == {q \in Requests : Holds(o, q)}
<1>1. /\ w \in Workers /\ p \in Requests
      /\ \A q \in Requests : Holds(w, q)' <=> q = p
      /\ HoldsExclusive(w)' <=> queue[i].exclusive
      /\ OthersKeep(w)
  BY AdmittedEffect DEF IInv
<1>2. \A o \in Workers \ {w} : /\ \A q \in Requests : Holds(o, q)' <=> Holds(o, q)
                               /\ HoldsExclusive(o)' <=> HoldsExclusive(o)
  BY <1>1, OthersKeepRows
<1>3. /\ profiles(w)' = {p}
      /\ \A o \in Workers \ {w} : profiles(o)' = profiles(o)
  BY <1>1, <1>2
<1>4. CASE queue[i].exclusive
  <2>1. \A o \in Workers : profiles(o) = {} /\ ~HoldsExclusive(o)
    BY <1>4 DEF Admissible, Holding, Holds, HoldsExclusive
  <2>2. [o \in Workers |-> profiles(o)]' = [[o \in Workers |-> profiles(o)] EXCEPT ![w] = {p}]
    BY <1>3
  <2>3. {o \in Workers : HoldsExclusive(o)}' = {w}
    BY <1>1, <1>2, <1>4, <2>1
  <2> QED BY <1>1, <2>1, <2>2, <2>3 DEF Lock!Isolate
<1>5. CASE ~queue[i].exclusive
  <2>1. /\ \A o \in Workers : ~HoldsExclusive(o)
        /\ \A o \in Workers \ {w} : p \notin profiles(o)
    BY <1>1, <1>5 DEF Admissible, ExclusiveHeld, HeldElsewhere
  <2>2. profiles(w) = {} /\ ~HoldsExclusive(w)
    BY DEF ProperTickets, Holds, HoldsExclusive
  <2>3. [o \in Workers |-> profiles(o)]'
          = [[o \in Workers |-> profiles(o)] EXCEPT ![w] = profiles(w) \cup {p}]
    BY <1>3, <2>2
  <2>4. {o \in Workers : HoldsExclusive(o)}' = {o \in Workers : HoldsExclusive(o)}
    BY <1>1, <1>2, <1>5, <2>1
  <2> QED BY <1>1, <2>1, <2>3, <2>4 DEF Lock!Share
<1> QED BY <1>4, <1>5

(* A granted nested request is a Share of the abstract lock.               *)
LEMMA PushRefines ==
  ASSUME IInv, NEW w \in Workers, NEW p \in Requests, NEW e \in BOOLEAN,
         Holding(w), e => HoldsExclusive(w),
         HoldsExclusive(w) \/ ~HeldElsewhere(p, w),
         Push(w, p, e)
  PROVE  Lock!Share(w, p)
<1> DEFINE profiles(o) == {q \in Requests : Holds(o, q)}
<1>1. /\ \A q \in Requests : Holds(w, q)' <=> Holds(w, q) \/ q = p
      /\ HoldsExclusive(w)' <=> HoldsExclusive(w)
      /\ OthersKeep(w)
  BY PushEffect DEF IInv
<1>2. \A o \in Workers \ {w} : /\ \A q \in Requests : Holds(o, q)' <=> Holds(o, q)
                               /\ HoldsExclusive(o)' <=> HoldsExclusive(o)
  BY <1>1, OthersKeepRows
<1>3. \A o \in Workers \ {w} : ~HoldsExclusive(o) /\ p \notin profiles(o)
  BY DEF IInv, ExclusiveAlone, Holding, Holds, HeldElsewhere
<1>4. [o \in Workers |-> profiles(o)]'
        = [[o \in Workers |-> profiles(o)] EXCEPT ![w] = profiles(w) \cup {p}]
  <2>1. profiles(w)' = profiles(w) \cup {p}
    BY <1>1
  <2>2. \A o \in Workers \ {w} : profiles(o)' = profiles(o)
    BY <1>2
  <2> QED BY <2>1, <2>2
<1>5. {o \in Workers : HoldsExclusive(o)}' = {o \in Workers : HoldsExclusive(o)}
  BY <1>1, <1>2
<1> QED BY <1>3, <1>4, <1>5 DEF Lock!Share

(* Giving up a row is a Leave of the abstract lock: what is left may be    *)
(* all of it, and exclusivity goes with the last row and not before.       *)
LEMMA ReleaseRefines ==
  ASSUME IInv, NEW w \in Workers, Release(w)
  PROVE  Lock!Leave(w)
<1> DEFINE profiles(o) == {q \in Requests : Holds(o, q)}
           rest == {q \in Requests : Holds(w, q)'}
<1>1. /\ \A q \in Requests : Holds(w, q)' => Holds(w, q)
      /\ Holding(w)' => \E q \in Requests : Holds(w, q)'
      /\ HoldsExclusive(w)' <=> HoldsExclusive(w) /\ Holding(w)'
      /\ OthersKeep(w)
  BY ReleaseEffect
<1>2. \A o \in Workers \ {w} : /\ \A q \in Requests : Holds(o, q)' <=> Holds(o, q)
                               /\ HoldsExclusive(o)' <=> HoldsExclusive(o)
  BY <1>1, OthersKeepRows
<1>3. rest \in SUBSET profiles(w)
  BY <1>1
<1>4. [o \in Workers |-> profiles(o)]' = [[o \in Workers |-> profiles(o)] EXCEPT ![w] = rest]
  <2>1. \A o \in Workers \ {w} : profiles(o)' = profiles(o)
    BY <1>2
  <2> QED BY <2>1
<1>5. Holding(w)' <=> rest # {}
  BY <1>1 DEF Holding, Holds
<1>6. {o \in Workers : HoldsExclusive(o)}'
        = IF rest = {} THEN {o \in Workers : HoldsExclusive(o)} \ {w}
                       ELSE {o \in Workers : HoldsExclusive(o)}
  BY <1>1, <1>2, <1>5
<1> QED BY <1>3, <1>4, <1>6 DEF Lock!Leave

(* A step that leaves every stack alone is invisible to the lock.          *)
LEMMA StackStutter == UNCHANGED held => UNCHANGED Lock!vars
BY DEF Lock!vars, Holds, HoldsExclusive

LEMMA StepRefines == IInv /\ [Next]_vars => [Lock!Next]_(Lock!vars)
<1> SUFFICES ASSUME IInv, [Next]_vars PROVE [Lock!Next]_(Lock!vars)
  OBVIOUS
<1>1. ASSUME NEW w \in Workers, NEW p \in Requests, NEW e \in BOOLEAN, Acquire(w, p, e)
      PROVE  [Lock!Next]_(Lock!vars)
  <2> DEFINE queue == Append(waiting, [worker |-> w, profile |-> p, exclusive |-> e])
  <2>1. CASE Admissible(queue, Len(queue)) /\ Admitted(queue, Len(queue))
    <3>1. queue \in Seq(Ticket) /\ Len(queue) \in DOMAIN queue /\ ProperTickets(queue)
      BY <1>1, AppendedTicket DEF IInv, TypeOK, Acquire
    <3> QED BY <2>1, <3>1, AdmittedRefines DEF Lock!Next
  <2>2. CASE UNCHANGED held
    BY <2>2, StackStutter
  <2> QED BY <1>1, <2>1, <2>2 DEF Acquire
<1>2. ASSUME NEW w \in Workers, NEW p \in Requests, NEW e \in BOOLEAN, AcquireNested(w, p, e)
      PROVE  [Lock!Next]_(Lock!vars)
  <2>1. CASE (HoldsExclusive(w) \/ ~HeldElsewhere(p, w)) /\ Push(w, p, e)
    <3>1. Lock!Share(w, p)
      BY <1>2, <2>1, PushRefines DEF AcquireNested
    <3> QED BY <3>1 DEF Lock!Next
  <2>2. CASE UNCHANGED held
    BY <2>2, StackStutter
  <2> QED BY <1>2, <2>1, <2>2 DEF AcquireNested
<1>3. ASSUME NEW w \in Workers, Admit(w) PROVE [Lock!Next]_(Lock!vars)
  BY <1>3, AdmittedRefines DEF Admit, IInv, TypeOK, Lock!Next
<1>4. ASSUME NEW w \in Workers, ResumeNested(w) PROVE [Lock!Next]_(Lock!vars)
  <2>1. nesting[w] \in Requests /\ Holding(w)
    BY <1>4 DEF ResumeNested, IInv, TypeOK, NestedShares, Requests
  <2>2. Lock!Share(w, nesting[w])
    BY <1>4, <2>1, PushRefines DEF ResumeNested
  <2> QED BY <2>1, <2>2 DEF Lock!Next
<1>5. ASSUME NEW w \in Workers, Release(w) PROVE [Lock!Next]_(Lock!vars)
  BY <1>5, ReleaseRefines DEF Lock!Next
<1>6. ASSUME NEW p \in Profiles, Prefer(p) PROVE [Lock!Next]_(Lock!vars)
  BY <1>6, StackStutter DEF Prefer
<1>7. CASE UNCHANGED vars
  BY <1>7, StackStutter DEF vars
<1> QED BY <1>1, <1>2, <1>3, <1>4, <1>5, <1>6, <1>7 DEF Next

(* The queue implements the shared lock of AdmissionLock, whatever opens   *)
(* nest in whatever (launch_queue.py:66-102).                              *)
THEOREM QueueImplementsLock == Spec => ImplementsLock
<1>1. Init => Lock!Init
  BY DEF Init, Lock!Init, Holds, HoldsExclusive
<1> QED BY <1>1, Invariance, StepRefines, PTL DEF Spec, ImplementsLock, Lock!Spec

----------------------------------------------------------------------------
(* An admissible ticket has no maintenance in front of it in arrival order.*)
LEMMA NothingPassesMaintenance ==
  ASSUME NEW queue \in Seq(Ticket), ProperTickets(queue),
         NEW i \in DOMAIN queue, NEW k \in DOMAIN queue,
         i < k, queue[i].profile = Maintenance
  PROVE  ~Admissible(queue, k)
<1>1. DOMAIN queue = 1 .. Len(queue) /\ Len(queue) \in Nat
  BY LenProperties
<1>2. k \notin Selected(queue)
  BY <1>1 DEF Selected
<1>3. i \in Ahead(queue, k)
  BY <1>1, <1>2 DEF Ahead
<1>4. queue[i].exclusive
  BY DEF ProperTickets
<1> QED BY <1>3, <1>4 DEF Admissible

(* A ticket that is admissible before one in front of it, where the two    *)
(* conflict, is the selected one.                                          *)
LEMMA OnlySelectedPasses ==
  ASSUME NEW queue \in Seq(Ticket),
         NEW i \in DOMAIN queue, NEW k \in DOMAIN queue, i < k, Admissible(queue, k),
         queue[i].exclusive \/ queue[k].exclusive \/ queue[i].profile = queue[k].profile
  PROVE  queue[k].profile = preferred /\ queue[i].profile # preferred
<1>1. DOMAIN queue = 1 .. Len(queue) /\ Len(queue) \in Nat
  BY LenProperties
<1>2. i \notin Ahead(queue, k)
  BY DEF Admissible
<1>3. k \in Selected(queue)
  BY <1>1, <1>2 DEF Ahead
<1> QED BY <1>1, <1>3 DEF Selected

(* The row a grant pushes is what the ticket asked for.                    *)
LEMMA AdmittedRow ==
  ASSUME TypeOK, NEW queue \in Seq(Ticket), NEW k \in DOMAIN queue, Admitted(queue, k)
  PROVE  /\ held'[queue[k].worker][1].profile = queue[k].profile
         /\ held'[queue[k].worker][1].exclusive = queue[k].exclusive
<1> DEFINE row == [profile |-> queue[k].profile, exclusive |-> queue[k].exclusive]
<1>1. queue[k].worker \in Workers
  BY TicketTypes
<1>2. held'[queue[k].worker] = <<row>>
  BY <1>1 DEF Admitted, TypeOK
<1> QED BY <1>2

(* The request of a worker that enters is position k of a queue in which   *)
(* it is admissible and every ticket that arrived before it is in front.   *)
GrantedIn(queue, k, w) ==
  /\ ProperTickets(queue)
  /\ Admissible(queue, k)
  /\ held'[w][1].profile = queue[k].profile
  /\ held'[w][1].exclusive = queue[k].exclusive
  /\ \A i \in ArrivedBefore(w) : i \in DOMAIN queue /\ i < k /\ queue[i] = waiting[i]

(* A worker enters only by a grant of its own request: on arrival, behind  *)
(* all tickets, or with the ticket it left.                                *)
LEMMA EntersByGrant ==
  ASSUME IInv, Next, NEW w \in Workers, Enters(w)
  PROVE  \E queue \in Seq(Ticket) : \E k \in DOMAIN queue : GrantedIn(queue, k, w)
<1>1. held[w] = <<>> /\ held'[w] # held[w]
  BY DEF Enters
<1>2. ASSUME NEW o \in Workers, OthersKeep(o), Holding(o) PROVE FALSE
  BY <1>1, <1>2 DEF OthersKeep, Holding
<1>3. waiting \in Seq(Ticket) /\ ProperTickets(waiting) /\ TypeOK
  BY DEF IInv, TypeOK
<1>4. Len(waiting) \in Nat /\ DOMAIN waiting = 1 .. Len(waiting)
  BY <1>3, LenProperties
<1>5. ASSUME NEW o \in Workers, NEW p \in Requests, NEW e \in BOOLEAN, Acquire(o, p, e)
      PROVE  \E queue \in Seq(Ticket) : \E k \in DOMAIN queue : GrantedIn(queue, k, w)
  <2> DEFINE ticket == [worker |-> o, profile |-> p, exclusive |-> e]
             queue == Append(waiting, ticket)
             n == Len(queue)
  <2>1. queue \in Seq(Ticket) /\ n \in DOMAIN queue /\ ProperTickets(queue)
    BY <1>3, <1>5, AppendedTicket DEF Acquire
  <2>2. ticket \in Ticket
    BY DEF Ticket
  <2>3. queue[n].worker = o /\ n = Len(waiting) + 1 /\ \A i \in DOMAIN waiting : queue[i] = waiting[i]
    BY <1>3, <1>4, <2>2, AppendProperties
  <2>4. DOMAIN queue = 1 .. n
    BY <2>1, LenProperties
  <2>5. CASE Admissible(queue, n) /\ Admitted(queue, n)
    <3> HIDE DEF queue, n
    <3>1. OthersKeep(o)
      BY <1>3, <2>1, <2>3, <2>5, AdmittedEffect
    <3>2. w = o
      BY <1>1, <3>1 DEF OthersKeep
    <3>3. held'[w][1].profile = queue[n].profile /\ held'[w][1].exclusive = queue[n].exclusive
      BY <1>3, <2>1, <2>3, <2>5, <3>2, AdmittedRow
    <3>4. \A i \in ArrivedBefore(w) : i \in DOMAIN queue /\ i < n /\ queue[i] = waiting[i]
      BY <1>4, <2>3, <2>4 DEF ArrivedBefore
    <3>5. GrantedIn(queue, n, w)
      BY <2>1, <2>5, <3>3, <3>4 DEF GrantedIn
    <3> QED BY <2>1, <3>5
  <2>6. CASE UNCHANGED held
    BY <1>1, <2>6
  <2> QED BY <1>5, <2>5, <2>6 DEF Acquire
<1>6. ASSUME NEW o \in Workers, NEW p \in Requests, NEW e \in BOOLEAN, AcquireNested(o, p, e)
      PROVE  FALSE
  <2>1. CASE Push(o, p, e)
    BY <1>2, <1>6, <2>1, PushEffect DEF IInv, AcquireNested
  <2>2. CASE UNCHANGED held
    BY <1>1, <2>2
  <2> QED BY <1>6, <2>1, <2>2 DEF AcquireNested
<1>7. ASSUME NEW o \in Workers, Admit(o)
      PROVE  \E queue \in Seq(Ticket) : \E k \in DOMAIN queue : GrantedIn(queue, k, w)
  <2>1. PICK k \in DOMAIN waiting :
          waiting[k].worker = o /\ Admissible(waiting, k) /\ Admitted(waiting, k)
    BY <1>7 DEF Admit
  <2>2. OthersKeep(o)
    BY <1>3, <2>1, AdmittedEffect
  <2>3. w = o
    BY <1>1, <2>2 DEF OthersKeep
  <2>4. held'[w][1].profile = waiting[k].profile /\ held'[w][1].exclusive = waiting[k].exclusive
    BY <1>3, <2>1, <2>3, AdmittedRow
  <2>5. \A i \in ArrivedBefore(w) : i \in DOMAIN waiting /\ i < k
    BY <2>1, <2>3 DEF ArrivedBefore
  <2>6. GrantedIn(waiting, k, w)
    BY <1>3, <2>1, <2>4, <2>5 DEF GrantedIn
  <2> QED BY <1>3, <2>6
<1>8. ASSUME NEW o \in Workers, ResumeNested(o) PROVE FALSE
  <2>1. nesting[o] \in Requests /\ Holding(o)
    BY <1>8 DEF ResumeNested, IInv, TypeOK, NestedShares, Requests
  <2> QED BY <1>2, <1>8, <2>1, PushEffect DEF IInv, ResumeNested
<1>9. ASSUME NEW o \in Workers, Release(o) PROVE FALSE
  BY <1>2, <1>9, ReleaseEffect DEF Release
<1>10. ASSUME NEW p \in Profiles, Prefer(p) PROVE FALSE
  BY <1>1, <1>10 DEF Prefer
<1> QED BY <1>5, <1>6, <1>7, <1>8, <1>9, <1>10 DEF Next

(* Queued maintenance is a fence for whoever enters, with a ticket or on   *)
(* arrival (launch_queue.py:39-46, 55-64, 82-86).                          *)
THEOREM FenceHolds == Spec => MaintenanceFence
<1> DEFINE Fence ==
      \A w \in Workers : Enters(w) =>
        \A i \in ArrivedBefore(w) : waiting[i].profile # Maintenance
<1>1. IInv /\ [Next]_vars => [Fence]_vars
  <2> SUFFICES ASSUME IInv, Next, NEW w \in Workers, Enters(w), NEW i \in ArrivedBefore(w),
                      waiting[i].profile = Maintenance
               PROVE  FALSE
    OBVIOUS
  <2>1. PICK queue \in Seq(Ticket) : \E k \in DOMAIN queue : GrantedIn(queue, k, w)
    BY EntersByGrant
  <2>2. PICK k \in DOMAIN queue : GrantedIn(queue, k, w)
    BY <2>1
  <2>3. i \in DOMAIN queue /\ i < k /\ queue[i].profile = Maintenance
    BY <2>2 DEF GrantedIn
  <2> QED BY <2>2, <2>3, NothingPassesMaintenance DEF GrantedIn
<1> QED BY <1>1, Invariance, PTL DEF Spec, MaintenanceFence

(* Who overtakes an earlier request that conflicts with its own was        *)
(* selected by the user, and the one overtaken was not (39-46, 55-64,      *)
(* 82-86).                                                                 *)
THEOREM SelectionOvertakes == Spec => OnlySelectionOvertakes
<1> DEFINE Conflict(i, row) ==
             waiting[i].exclusive \/ row.exclusive \/ waiting[i].profile = row.profile
           Selection(i, row) == row.profile = preferred /\ waiting[i].profile # preferred
           Order ==
             \A w \in Workers : Enters(w) =>
               \A i \in ArrivedBefore(w) :
                 LET row == held'[w][1]
                 IN (waiting[i].exclusive \/ row.exclusive \/ waiting[i].profile = row.profile)
                      => row.profile = preferred /\ waiting[i].profile # preferred
<1>1. IInv /\ [Next]_vars => [Order]_vars
  <2> SUFFICES ASSUME IInv, Next, NEW w \in Workers, Enters(w), NEW i \in ArrivedBefore(w),
                      Conflict(i, held'[w][1])
               PROVE  Selection(i, held'[w][1])
    OBVIOUS
  <2>1. PICK queue \in Seq(Ticket) : \E k \in DOMAIN queue : GrantedIn(queue, k, w)
    BY EntersByGrant
  <2>2. PICK k \in DOMAIN queue : GrantedIn(queue, k, w)
    BY <2>1
  <2>3. /\ i \in DOMAIN queue /\ i < k /\ queue[i] = waiting[i]
        /\ held'[w][1].profile = queue[k].profile
        /\ held'[w][1].exclusive = queue[k].exclusive
        /\ Admissible(queue, k)
    BY <2>2 DEF GrantedIn
  <2> QED BY <2>3, OnlySelectedPasses
<1> QED BY <1>1, Invariance, PTL DEF Spec, OnlySelectionOvertakes
=============================================================================

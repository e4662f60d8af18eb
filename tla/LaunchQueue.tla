---------------------------- MODULE LaunchQueue ----------------------------
(***************************************************************************)
(* The launch admission of the manager service                             *)
(* (scripts/manager_core/launch_queue.py).  Worker threads that open a     *)
(* profile share admission with the launches of other profiles; work that  *)
(* is exclusive (maintenance, or any launch while the one-time record      *)
(* migration is pending) runs alone and fences every later request.        *)
(*                                                                         *)
(* Every method runs under one condition variable, so it is one action.    *)
(* A wait_for is two: the call that finds its predicate false leaves a     *)
(* ticket (acquire) or a blocked nested request, and the wake-up that      *)
(* finds it true completes the call.                                       *)
(***************************************************************************)
EXTENDS Naturals, Sequences, SequencesExt

CONSTANTS
  Workers,      \* threads of the service
  Profiles,     \* identifiers of the profiles
  Maintenance,  \* acquire(None): maintenance, tied to no profile
  NoProfile,    \* "no value" of preferred and of nesting
  Nests,        \* <<p, q>>: work admitted for p may open q inside its admission
  MaxNested,    \* bound: nested requests in one admission
  MaxClicks     \* bound: calls of prefer

Requests == Profiles \cup {Maintenance}

ASSUME LaunchQueueConstants ==
  /\ Maintenance \notin Profiles
  /\ NoProfile \notin Requests
  /\ Nests \subseteq Requests \X Requests
  /\ MaxNested \in Nat
  /\ MaxClicks \in Nat

VARIABLES
  waiting,    \* the tickets, in order of arrival
  held,       \* per worker, the stack of rows it holds (<<>>: not in the dict)
  preferred,  \* the profile the user selected last, or NoProfile
  nesting,    \* per worker, the profile its nested acquire is blocked on
  opened,     \* per worker, nested requests made in this admission
  clicks      \* calls of prefer so far

vars == <<waiting, held, preferred, nesting, opened, clicks>>

Row == [profile : Requests, exclusive : BOOLEAN]
Ticket == [worker : Workers, profile : Requests, exclusive : BOOLEAN]

TypeOK ==
  /\ waiting \in Seq(Ticket)
  /\ held \in [Workers -> Seq(Row)]
  /\ preferred \in Profiles \cup {NoProfile}
  /\ nesting \in [Workers -> Profiles \cup {NoProfile}]
  /\ opened \in [Workers -> Nat]
  /\ clicks \in 0 .. MaxClicks

----------------------------------------------------------------------------
(* State functions of the queue.                                           *)

Holding(w) == held[w] # <<>>

Waiting(w) == \E i \in DOMAIN waiting : waiting[i].worker = w

Holds(w, p) == \E i \in DOMAIN held[w] : held[w][i].profile = p

HoldsExclusive(w) == \E i \in DOMAIN held[w] : held[w][i].exclusive

HeldElsewhere(p, w) == \E o \in Workers \ {w} : Holds(o, p)

ExclusiveHeld == \E w \in Workers : HoldsExclusive(w)

(* Mutant: the selection looks past queued maintenance.                    *)
SelectedPastMaintenance(queue) ==
  { i \in DOMAIN queue :
      /\ queue[i].profile = preferred
      /\ \A j \in 1 .. i - 1 : queue[j].profile # preferred }

(* The ticket of queue that the selection moves to the front: the first    *)
(* one for the preferred profile, unless maintenance is queued before it.  *)
Selected(queue) ==
  { i \in DOMAIN queue :
      /\ queue[i].profile = preferred
      /\ \A j \in 1 .. i - 1 : queue[j].profile \notin {preferred, Maintenance} }

(* The positions in front of ticket i in admission order.                  *)
Ahead(queue, i) ==
  IF i \in Selected(queue) THEN {} ELSE (1 .. i - 1) \cup Selected(queue)

(* Mutant: an exclusive ticket waits only for exclusive holders.           *)
AdmissibleBesideLaunches(queue, i) ==
  LET ticket == queue[i]
      ahead == Ahead(queue, i)
  IN /\ ~ExclusiveHeld
     /\ \/ ticket.exclusive /\ ahead = {}
        \/ /\ ~ticket.exclusive
           /\ \A j \in ahead : ~queue[j].exclusive /\ queue[j].profile # ticket.profile
           /\ ~HeldElsewhere(ticket.profile, ticket.worker)

(* Mutant: launches of one profile are not kept in order.                  *)
AdmissibleUnordered(queue, i) ==
  LET ticket == queue[i]
      ahead == Ahead(queue, i)
  IN \/ /\ ticket.exclusive
        /\ \A w \in Workers : ~Holding(w)
        /\ ahead = {}
     \/ /\ ~ticket.exclusive
        /\ ~ExclusiveHeld
        /\ \A j \in ahead : ~queue[j].exclusive
        /\ ~HeldElsewhere(ticket.profile, ticket.worker)

Admissible(queue, i) ==
  LET ticket == queue[i]
      ahead == Ahead(queue, i)
  IN \/ /\ ticket.exclusive
        /\ \A w \in Workers : ~Holding(w)
        /\ ahead = {}
     \/ /\ ~ticket.exclusive
        /\ ~ExclusiveHeld
        /\ \A j \in ahead : ~queue[j].exclusive /\ queue[j].profile # ticket.profile
        /\ ~HeldElsewhere(ticket.profile, ticket.worker)

----------------------------------------------------------------------------
(* acquire by a worker that holds nothing.                                 *)

(* Mutant: the selection follows the last admission.                       *)
AdmittedSelects(queue, i) ==
  LET w == queue[i].worker
  IN /\ held' = [held EXCEPT ![w] = << [profile |-> queue[i].profile,
                                        exclusive |-> queue[i].exclusive] >>]
     /\ opened' = [opened EXCEPT ![w] = 0]
     /\ preferred' = IF queue[i].profile = preferred THEN NoProfile ELSE queue[i].profile
     /\ waiting' = RemoveAt(queue, i)
     /\ UNCHANGED <<nesting, clicks>>

Admitted(queue, i) ==
  LET w == queue[i].worker
  IN /\ held' = [held EXCEPT ![w] = << [profile |-> queue[i].profile,
                                        exclusive |-> queue[i].exclusive] >>]
     /\ opened' = [opened EXCEPT ![w] = 0]
     /\ preferred' = IF queue[i].profile = preferred THEN NoProfile ELSE preferred
     /\ waiting' = RemoveAt(queue, i)
     /\ UNCHANGED <<nesting, clicks>>

(* Mutant: a request takes a ticket only when the holders are in its way,  *)
(* and otherwise barges past the queue.                                    *)
AcquireBarging(w, p, e) ==
  LET ticket == [worker |-> w, profile |-> p, exclusive |-> e]
      queue == Append(waiting, ticket)
  IN /\ ~Holding(w) /\ ~Waiting(w)
     /\ p = Maintenance => e
     /\ \/ /\ Admissible(<<ticket>>, 1)
           /\ Admitted(queue, Len(queue))
        \/ /\ ~Admissible(<<ticket>>, 1)
           /\ waiting' = queue
           /\ UNCHANGED <<held, preferred, nesting, opened, clicks>>

(* The ticket is appended and its predicate checked in one critical        *)
(* section.  Maintenance is always exclusive; a launch is exclusive while  *)
(* the migration is pending.                                               *)
Acquire(w, p, e) ==
  LET queue == Append(waiting, [worker |-> w, profile |-> p, exclusive |-> e])
  IN /\ ~Holding(w) /\ ~Waiting(w)
     /\ p = Maintenance => e
     /\ \/ /\ Admissible(queue, Len(queue))
           /\ Admitted(queue, Len(queue))
        \/ /\ ~Admissible(queue, Len(queue))
           /\ waiting' = queue
           /\ UNCHANGED <<held, preferred, nesting, opened, clicks>>

(* A notified waiter finds its ticket admissible.                          *)
Admit(w) ==
  \E i \in DOMAIN waiting :
    /\ waiting[i].worker = w
    /\ Admissible(waiting, i)
    /\ Admitted(waiting, i)

----------------------------------------------------------------------------
(* acquire by a worker that already holds a row: it takes no ticket.       *)

Push(w, p, e) ==
  held' = [held EXCEPT ![w] = Append(@, [profile |-> p, exclusive |-> e])]

(* Mutant: a nested open does not wait for the same profile.               *)
AcquireNestedAtOnce(w, p, e) ==
  /\ Holding(w) /\ nesting[w] = NoProfile
  /\ <<held[w][1].profile, p>> \in Nests
  /\ opened[w] < MaxNested
  /\ e \/ p = Maintenance => HoldsExclusive(w)
  /\ opened' = [opened EXCEPT ![w] = @ + 1]
  /\ Push(w, p, e)
  /\ UNCHANGED <<waiting, preferred, nesting, clicks>>

(* Mutant: a launch may turn exclusive while it is admitted.               *)
AcquireNestedUpgrades(w, p, e) ==
  /\ Holding(w) /\ nesting[w] = NoProfile
  /\ <<held[w][1].profile, p>> \in Nests
  /\ opened[w] < MaxNested
  /\ HoldsExclusive(w) \/ ~HeldElsewhere(p, w)
  /\ opened' = [opened EXCEPT ![w] = @ + 1]
  /\ Push(w, p, e)
  /\ UNCHANGED <<waiting, preferred, nesting, clicks>>

(* Only a worker whose admission is exclusive may ask for exclusive again  *)
(* (anything else raises RuntimeError and changes nothing), and nothing    *)
(* else can be held then.  Otherwise the worker waits for another launch   *)
(* of the same profile, and for no queued maintenance.                     *)
AcquireNested(w, p, e) ==
  /\ Holding(w) /\ nesting[w] = NoProfile
  /\ <<held[w][1].profile, p>> \in Nests
  /\ opened[w] < MaxNested
  /\ e \/ p = Maintenance => HoldsExclusive(w)
  /\ opened' = [opened EXCEPT ![w] = @ + 1]
  /\ \/ /\ HoldsExclusive(w) \/ ~HeldElsewhere(p, w)
        /\ Push(w, p, e)
        /\ UNCHANGED nesting
     \/ /\ ~HoldsExclusive(w) /\ HeldElsewhere(p, w)
        /\ nesting' = [nesting EXCEPT ![w] = p]
        /\ UNCHANGED held
  /\ UNCHANGED <<waiting, preferred, clicks>>

(* Mutant: a nested open waits for queued maintenance as well.             *)
ResumeNestedFenced(w) ==
  /\ nesting[w] # NoProfile
  /\ ~HeldElsewhere(nesting[w], w)
  /\ \A i \in DOMAIN waiting : ~waiting[i].exclusive
  /\ Push(w, nesting[w], FALSE)
  /\ nesting' = [nesting EXCEPT ![w] = NoProfile]
  /\ UNCHANGED <<waiting, preferred, opened, clicks>>

(* A notified nested request finds its profile free.                       *)
ResumeNested(w) ==
  /\ nesting[w] # NoProfile
  /\ ~HeldElsewhere(nesting[w], w)
  /\ Push(w, nesting[w], FALSE)
  /\ nesting' = [nesting EXCEPT ![w] = NoProfile]
  /\ UNCHANGED <<waiting, preferred, opened, clicks>>

Release(w) ==
  /\ Holding(w) /\ nesting[w] = NoProfile
  /\ held' = [held EXCEPT ![w] = Front(@)]
  /\ UNCHANGED <<waiting, preferred, nesting, opened, clicks>>

(* The user selects a profile in the window.                               *)
Prefer(p) ==
  /\ clicks < MaxClicks
  /\ clicks' = clicks + 1
  /\ preferred' = p
  /\ UNCHANGED <<waiting, held, nesting, opened>>

----------------------------------------------------------------------------
Init ==
  /\ waiting = <<>>
  /\ held = [w \in Workers |-> <<>>]
  /\ preferred = NoProfile
  /\ nesting = [w \in Workers |-> NoProfile]
  /\ opened = [w \in Workers |-> 0]
  /\ clicks = 0

Next ==
  \/ \E w \in Workers, p \in Requests, e \in BOOLEAN :
       Acquire(w, p, e) \/ AcquireNested(w, p, e)
  \/ \E w \in Workers : Admit(w) \/ ResumeNested(w) \/ Release(w)
  \/ \E p \in Profiles : Prefer(p)

(* notify_all wakes every waiter after each change, and every admission is *)
(* a with-block that ends.                                                 *)
Fairness ==
  \A w \in Workers : WF_vars(Admit(w)) /\ WF_vars(ResumeNested(w)) /\ WF_vars(Release(w))

Spec == Init /\ [][Next]_vars /\ Fairness

----------------------------------------------------------------------------
(* An exclusive admission overlaps no other one: neither a launch admitted *)
(* before it and still running, nor a nested open that takes no ticket.    *)
ExclusiveAlone ==
  \A w \in Workers : HoldsExclusive(w) => \A o \in Workers \ {w} : ~Holding(o)

(* Two workers never open the same profile at once, whichever of the two   *)
(* paths (ticket or nested request) admitted them.                         *)
OneWorkerPerProfile ==
  \A w, o \in Workers : \A p \in Requests : Holds(w, p) /\ Holds(o, p) => w = o

(* Worker w is admitted in this step, with a ticket it waited with or on    *)
(* arrival, without having left one.                                       *)
Enters(w) == held[w] = <<>> /\ held'[w] # <<>>

(* The tickets queued before the request of w: those in front of its own   *)
(* ticket, or all of them when the request arrives in this step.           *)
ArrivedBefore(w) ==
  { i \in DOMAIN waiting : \A j \in DOMAIN waiting : waiting[j].worker = w => i < j }

(* Queued maintenance is a fence: no request that arrived after it is      *)
(* admitted before it, not even the profile the user just selected, and    *)
(* not on arrival either (launch_queue.py:82-86).                          *)
MaintenanceFence ==
  [][\A w \in Workers : Enters(w) =>
       \A i \in ArrivedBefore(w) : waiting[i].profile # Maintenance]_vars

(* A request admitted before one that arrived earlier, where the earlier   *)
(* one is for the same profile or one of the two is exclusive, is for the  *)
(* profile the user selected, and the earlier one is not.                  *)
OnlySelectionOvertakes ==
  [][\A w \in Workers : Enters(w) =>
       \A i \in ArrivedBefore(w) :
         LET row == held'[w][1]
         IN (waiting[i].exclusive \/ row.exclusive \/ waiting[i].profile = row.profile)
              => row.profile = preferred /\ waiting[i].profile # preferred]_vars

(* The queue implements the abstract lock: nested opens, selections and    *)
(* wake-ups in any order never let a worker lose exclusivity before it     *)
(* gave up its last row, nor gain it while it shares.                      *)
Lock == INSTANCE AdmissionLock WITH
          open <- [w \in Workers |-> { p \in Requests : Holds(w, p) }],
          alone <- { w \in Workers : HoldsExclusive(w) }
ImplementsLock == Lock!Spec

(* Queued maintenance is admitted in the end: launches in progress finish  *)
(* their nested opens without waiting for it, and no stream of new         *)
(* launches holds it up.                                                   *)
MaintenanceAdmitted ==
  \A w \in Workers :
    (\E i \in DOMAIN waiting : waiting[i].worker = w /\ waiting[i].profile = Maintenance)
      ~> Holding(w)
=============================================================================

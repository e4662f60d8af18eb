---------------------------- MODULE WarmupProofs ----------------------------
(***************************************************************************)
(* What the startup pass promises, for any profiles, workers and times.    *)
(* The parts of the inductive invariant take the values they speak of as   *)
(* arguments, so that one lemma serves a state and the next.               *)
(***************************************************************************)
EXTENDS Warmup, FiniteSetTheorems, SequenceTheorems, WellFoundedInduction,
        TLAPS

InHandStates == {"preparing", "opening", "returned"}
JobStates == {"idle", "looking", "asleep", "done"} \cup InHandStates
Jobs == [Workers -> [state : JobStates, profile : Profiles \cup {NoProfile},
                     wake : 0 .. MaxTime + Poll]]
States == Launching \cup {"none", "ready", "failed", "cancelled"}

(* No thread runs before the pass has begun or after it.                   *)
Threads(ph, jobs) ==
  /\ ph \in {"new", "starting", "scanned"} => \A w \in Workers : jobs[w].state = "idle"
  /\ ph = "ended" => \A w \in Workers : jobs[w].state \in {"idle", "done"}

(* Before the scan there is nothing to open.                               *)
BeforeScan(ph, states, list, since, g) ==
  ph \in {"new", "starting"} =>
    /\ \A p \in Profiles : states[p] = "none"
    /\ list = <<>> /\ DOMAIN since = {} /\ g.state = "none"

(* What is queued is pending, once, and no leader that was taken already;  *)
(* a stop leaves what it cancelled in the list.                            *)
Queue(ph, stop, states, list, since) ==
  /\ \A i, j \in DOMAIN list : list[i] = list[j] => i = j
  /\ \A i \in DOMAIN list :
       states[list[i]] = "queued" \/ (stop /\ states[list[i]] = "cancelled")
  /\ \A p \in Profiles : states[p] = "queued" =>
       /\ p \notin DOMAIN since
       /\ ph # "ended" => \E i \in DOMAIN list : list[i] = p
  /\ ph = "ended" => list = <<>>

(* Every launch that is out is in the hand of one worker.                  *)
Holders(jobs, states) ==
  \A w \in Workers :
    /\ jobs[w].state \in InHandStates => jobs[w].profile \in Profiles
    /\ jobs[w].state = "preparing" => states[jobs[w].profile] = "checking"
    /\ jobs[w].state = "opening" => states[jobs[w].profile] = "opening"
Apart(jobs) ==
  \A v, w \in Workers :
    /\ jobs[v].state = "preparing" /\ jobs[w].state = "preparing"
         /\ jobs[w].profile = jobs[v].profile => w = v
    /\ jobs[v].state = "opening" /\ jobs[w].state = "opening"
         /\ jobs[w].profile = jobs[v].profile => w = v
Held(jobs, states) ==
  \A p \in Profiles :
    /\ states[p] = "checking" =>
         \E w \in Workers : jobs[w].state = "preparing" /\ jobs[w].profile = p
    /\ states[p] = "opening" =>
         \E w \in Workers : jobs[w].state = "opening" /\ jobs[w].profile = p
InHand(jobs, states) == Holders(jobs, states) /\ Apart(jobs) /\ Held(jobs, states)

(* While profiles are pending somebody drains.                             *)
Somebody(jobs) == \E w \in Workers : jobs[w].state # "done"
Drained(going, list, jobs) == going /\ list # <<>> => Somebody(jobs)

(* Leader i is the newest whose launch is out; its head start is over at   *)
(* that time, and no newer one's launch is out.                            *)
NoneNewer(i, states, ls) == \A j \in i + 1 .. Len(ls) : states[ls[j]] \notin Launching
SpentAt(i, at, states, ls, since) ==
  ls[i] \in DOMAIN since /\ since[ls[i]] + HeadStart <= at /\ NoneNewer(i, states, ls)

(* A waiting gate has a leader to wait for and the deadline of one.        *)
Dated(g, states, ls, since) ==
  /\ g.code \in {"timeout", "cap"}
  /\ g.code = "cap" => g.at = Cap
  /\ g.code = "timeout" => \E i \in DOMAIN ls : SpentAt(i, g.at, states, ls, since)
Waiting(stop, g, states, ls, since) ==
  g.state = "waiting" =>
    /\ ~stop /\ ls # <<>> /\ \E p \in Profiles : states[p] # "none"
    /\ Dated(g, states, ls, since)

Returning(jobs, ls) ==
  \E w \in Workers : jobs[w].state = "returned" /\ \E i \in DOMAIN ls : ls[i] = jobs[w].profile
StillOut(states, ls) ==
  \/ states[ls[Len(ls)]] \in Launching
  \/ /\ \A i \in DOMAIN ls : states[ls[i]] # "ready"
     /\ \E i \in DOMAIN ls : states[ls[i]] \in Launching
WaitsFor(g, jobs, states, ls) ==
  g.state = "waiting" => Returning(jobs, ls) \/ StillOut(states, ls)

(* As long as the newest leader may have its start the gate waits for it.  *)
Awaited(t, states, ls, since) ==
  LET newest == ls[Len(ls)]
  IN /\ t < Cap /\ ls # <<>> /\ states[newest] \in Launching
     /\ ~(newest \in DOMAIN since /\ since[newest] + HeadStart <= t)
HasItsStart(going, t, g, states, ls, since) ==
  LET newest == ls[Len(ls)]
  IN going /\ Awaited(t, states, ls, since) =>
       /\ g.state = "waiting"
       /\ g.at = Cap \/ (newest \in DOMAIN since /\ g.at = since[newest] + HeadStart)

LeadingPending(list, ls) == \E i \in DOMAIN list : \E j \in DOMAIN ls : list[i] = ls[j]
BusyIn(states) == Cardinality({p \in Profiles : states[p] \in Taken})

(* Why a worker sleeps, and until when at most.                            *)
ForHold(wake, hs) == \E t \in DOMAIN hs : wake <= hs[t]
ForGate(wake, g, list, ls) ==
  g.state = "waiting" /\ wake <= g.at /\ ~LeadingPending(list, ls)
ForLimit(jobs, states) ==
  \/ \E limit \in ParallelLimits : limit <= BusyIn(states)
  \/ \E w \in Workers : jobs[w].state = "returned"
NoLeaderGoes(t, g, list, ls) == ~(g.state = "waiting" /\ t < g.at /\ LeadingPending(list, ls))

Sleepers(stop, t, hs, jobs, states, g, list, ls) ==
  \A w \in Workers : jobs[w].state = "asleep" =>
    /\ ~stop /\ \E p \in Profiles : states[p] # "none"
    /\ t < jobs[w].wake =>
         \/ ForHold(jobs[w].wake, hs)
         \/ ForGate(jobs[w].wake, g, list, ls)
         \/ ForLimit(jobs, states) /\ NoLeaderGoes(t, g, list, ls)

IInv ==
  /\ TypeOK
  /\ Threads(phase, job)
  /\ BeforeScan(phase, entry, pending, admitted, gate)
  /\ Queue(phase, stopping, entry, pending, admitted)
  /\ InHand(job, entry)
  /\ Drained(phase = "running" /\ ~failed /\ ~stopping, pending, job)
  /\ Waiting(stopping, gate, entry, leaders, admitted)
  /\ WaitsFor(gate, job, entry, leaders)
  /\ HasItsStart(phase \in {"scanned", "running"} /\ ~stopping,
                 now, gate, entry, leaders, admitted)
  /\ Sleepers(stopping, now, holds, job, entry, gate, pending, leaders)

-----------------------------------------------------------------------------
(* Least and greatest elements, and sequences without an element.          *)

(* Sets of numbers have a least element, bounded ones a greatest.          *)
LEMMA LeastNat ==
  ASSUME NEW S, S \subseteq Nat, S # {}
  PROVE  Min(S) \in S /\ \A y \in S : Min(S) <= y
<1> DEFINE upTo == {0 .. x : x \in S}
<1>1. upTo \subseteq FiniteSubsetsOf(Nat) /\ upTo # {}
  <2>1. \A x \in Nat : 0 .. x \subseteq Nat /\ IsFiniteSet(0 .. x)
    BY FS_Interval
  <2> QED BY <2>1 DEF FiniteSubsetsOf
<1>2. IsWellFoundedOn(StrictSubsetOrdering(Nat), FiniteSubsetsOf(Nat))
  BY FS_StrictSubsetOrderingWellFounded
<1>3. PICK I \in upTo : \A J \in upTo : <<J, I>> \notin StrictSubsetOrdering(Nat)
  <2> HIDE DEF upTo
  <2> QED BY <1>1, <1>2, WFMin
<1>4. PICK x \in S : I = 0 .. x
  OBVIOUS
<1>5. \A y \in S : x <= y
  <2> SUFFICES ASSUME NEW y \in S, y < x PROVE FALSE
    OBVIOUS
  <2>1. 0 .. y \in upTo /\ 0 .. y \subseteq Nat /\ 0 .. x \subseteq Nat
    OBVIOUS
  <2>2. 0 .. y \subseteq 0 .. x /\ x \in 0 .. x /\ x \notin 0 .. y
    OBVIOUS
  <2>3. <<0 .. y, 0 .. x>> \in StrictSubsetOrdering(Nat)
    BY <2>1, <2>2 DEF StrictSubsetOrdering
  <2> QED BY <1>3, <1>4, <2>1, <2>3
<1> QED BY <1>5 DEF Min

LEMMA GreatestNat ==
  ASSUME NEW n \in Nat, NEW S, S \subseteq 0 .. n, S # {}
  PROVE  Max(S) \in S /\ \A y \in S : y <= Max(S)
<1> DEFINE below == {n - x : x \in S}
<1>1. below \subseteq Nat /\ below # {}
  <2>1. \A x \in 0 .. n : n - x \in Nat
    OBVIOUS
  <2> QED BY <2>1
<1> HIDE DEF below
<1>2. Min(below) \in below /\ \A y \in below : Min(below) <= y
  BY <1>1, LeastNat
<1> USE DEF below
<1>3. PICK x \in S : Min(below) = n - x
  BY <1>2
<1>4. \A y \in S : y <= x
  <2> SUFFICES ASSUME NEW y \in S PROVE y <= x
    OBVIOUS
  <2>1. n - x <= n - y
    BY <1>2, <1>3
  <2> QED BY <2>1
<1>5. \E z \in S : \A y \in S : z >= y
  BY <1>4
<1> QED BY <1>5 DEF Max

(* A list without its element i.                                           *)
LEMMA RemoveAtType ==
  ASSUME NEW S, NEW s \in Seq(S), NEW i \in 1 .. Len(s)
  PROVE  /\ RemoveAt(s, i) \in Seq(S)
         /\ Len(RemoveAt(s, i)) = Len(s) - 1
         /\ \A k \in 1 .. Len(s) - 1 : RemoveAt(s, i)[k] = IF k < i THEN s[k] ELSE s[k + 1]
<1> DEFINE before == SubSeq(s, 1, i - 1)
           after == SubSeq(s, i + 1, Len(s))
<1>1. Len(s) \in Nat /\ \A k \in 1 .. Len(s) : s[k] \in S
  BY LenProperties, ElementOfSeq
<1>2. /\ before \in Seq(S) /\ Len(before) = i - 1
      /\ \A k \in 1 .. i - 1 : before[k] = s[k]
  BY <1>1, SubSeqProperties
<1>3. /\ after \in Seq(S) /\ Len(after) = Len(s) - i
      /\ \A k \in 1 .. Len(s) - i : after[k] = s[i + k]
  <2>1. /\ after \in Seq(S)
        /\ Len(after) = IF i + 1 <= Len(s) THEN Len(s) - (i + 1) + 1 ELSE 0
        /\ \A k \in 1 .. Len(s) - (i + 1) + 1 : after[k] = s[(i + 1) + k - 1]
    BY <1>1, SubSeqProperties
  <2> QED BY <1>1, <2>1
<1> HIDE DEF before, after
<1>4. /\ before \o after \in Seq(S)
      /\ Len(before \o after) = Len(before) + Len(after)
      /\ \A k \in 1 .. Len(before) + Len(after) :
           (before \o after)[k] = IF k <= Len(before) THEN before[k] ELSE after[k - Len(before)]
  BY <1>2, <1>3, ConcatProperties
<1>5. \A k \in 1 .. Len(s) - 1 : (before \o after)[k] = IF k < i THEN s[k] ELSE s[k + 1]
  <2> SUFFICES ASSUME NEW k \in 1 .. Len(s) - 1
               PROVE  (before \o after)[k] = IF k < i THEN s[k] ELSE s[k + 1]
    OBVIOUS
  <2>1. (before \o after)[k] = IF k <= i - 1 THEN before[k] ELSE after[k - (i - 1)]
    BY <1>1, <1>2, <1>3, <1>4
  <2>2. CASE k < i
    BY <1>1, <1>2, <2>1, <2>2
  <2>3. CASE ~(k < i)
    <3>1. k - (i - 1) \in 1 .. Len(s) - i /\ i + (k - (i - 1)) = k + 1 /\ ~(k <= i - 1)
      BY <1>1, <2>3
    <3> QED BY <1>3, <2>1, <2>3, <3>1
  <2> QED BY <2>2, <2>3
<1>6. (i - 1) + (Len(s) - i) = Len(s) - 1
  BY <1>1
<1> QED BY <1>2, <1>3, <1>4, <1>5, <1>6 DEF RemoveAt, before, after

(* A list without p holds what it held, each as often, but for one p.      *)
LEMMA RemoveFirstType ==
  ASSUME NEW S, NEW s \in Seq(S), NEW p
  PROVE  /\ RemoveFirst(s, p) \in Seq(S)
         /\ \A k \in DOMAIN RemoveFirst(s, p) : \E i \in DOMAIN s : s[i] = RemoveFirst(s, p)[k]
         /\ \A i \in DOMAIN s : s[i] # p =>
              \E k \in DOMAIN RemoveFirst(s, p) : RemoveFirst(s, p)[k] = s[i]
         /\ (\A i, j \in DOMAIN s : s[i] = s[j] => i = j) =>
              /\ \A k \in DOMAIN RemoveFirst(s, p) : RemoveFirst(s, p)[k] # p
              /\ \A k, m \in DOMAIN RemoveFirst(s, p) :
                   RemoveFirst(s, p)[k] = RemoveFirst(s, p)[m] => k = m
<1>1. Len(s) \in Nat /\ DOMAIN s = 1 .. Len(s)
  BY LenProperties
<1>2. CASE ~\E i \in 1 .. Len(s) : s[i] = p
  BY <1>1, <1>2 DEF RemoveFirst
<1>3. CASE \E i \in 1 .. Len(s) : s[i] = p
  <2> DEFINE places == {i \in 1 .. Len(s) : s[i] = p}
             at == Min(places)
  <2>1. places \subseteq Nat /\ places # {}
    BY <1>1, <1>3
  <2>2. at \in places
    BY <2>1, LeastNat
  <2>3. RemoveFirst(s, p) = RemoveAt(s, at)
    BY <1>3, <2>1 DEF RemoveFirst, SelectInSeq
  <2>4. at \in 1 .. Len(s) /\ s[at] = p
    BY <2>2
  <2> HIDE DEF at, places
  <2> DEFINE r == RemoveAt(s, at)
  <2>5. /\ r \in Seq(S) /\ Len(r) = Len(s) - 1
        /\ \A k \in 1 .. Len(s) - 1 : r[k] = IF k < at THEN s[k] ELSE s[k + 1]
    BY <2>4, RemoveAtType
  <2> HIDE DEF r
  <2>6. DOMAIN r = 1 .. Len(s) - 1
    BY <2>5, LenProperties
  <2>7. \A k \in DOMAIN r : \E i \in DOMAIN s : i # at /\ s[i] = r[k]
    <3> SUFFICES ASSUME NEW k \in DOMAIN r PROVE \E i \in DOMAIN s : i # at /\ s[i] = r[k]
      OBVIOUS
    <3>1. CASE k < at
      BY <1>1, <2>4, <2>5, <2>6, <3>1
    <3>2. CASE ~(k < at)
      <4>1. k + 1 \in DOMAIN s /\ k + 1 # at /\ r[k] = s[k + 1]
        BY <1>1, <2>4, <2>5, <2>6, <3>2
      <4> QED BY <4>1
    <3> QED BY <3>1, <3>2
  <2>8. \A i \in DOMAIN s : i # at => \E k \in DOMAIN r : r[k] = s[i]
    <3> SUFFICES ASSUME NEW i \in DOMAIN s, i # at PROVE \E k \in DOMAIN r : r[k] = s[i]
      OBVIOUS
    <3>1. CASE i < at
      <4>1. i \in DOMAIN r /\ r[i] = s[i]
        BY <1>1, <2>4, <2>5, <2>6, <3>1
      <4> QED BY <4>1
    <3>2. CASE ~(i < at)
      <4>1. i - 1 \in DOMAIN r /\ ~(i - 1 < at) /\ (i - 1) + 1 = i
        BY <1>1, <2>4, <2>6, <3>2
      <4>2. r[i - 1] = s[i]
        BY <2>5, <2>6, <4>1
      <4> QED BY <4>1, <4>2
    <3> QED BY <3>1, <3>2
  <2>9. ASSUME \A i, j \in DOMAIN s : s[i] = s[j] => i = j,
               NEW k \in DOMAIN r, NEW m \in DOMAIN r, r[k] = r[m]
        PROVE  k = m
    <3>1. \A n \in DOMAIN r : r[n] = IF n < at THEN s[n] ELSE s[n + 1]
      BY <2>5, <2>6
    <3>2. \A n \in DOMAIN r : n \in DOMAIN s /\ n + 1 \in DOMAIN s /\ n \in Int
      BY <1>1, <2>6
    <3>3. CASE k < at /\ m < at
      BY <2>9, <3>1, <3>2, <3>3
    <3>4. CASE k < at /\ ~(m < at)
      <4>1. k = m + 1
        BY <2>9, <3>1, <3>2, <3>4
      <4> QED BY <1>1, <2>4, <3>2, <3>4, <4>1
    <3>5. CASE ~(k < at) /\ m < at
      <4>1. k + 1 = m
        BY <2>9, <3>1, <3>2, <3>5
      <4> QED BY <1>1, <2>4, <3>2, <3>5, <4>1
    <3>6. CASE ~(k < at) /\ ~(m < at)
      <4>1. k + 1 = m + 1
        BY <2>9, <3>1, <3>2, <3>6
      <4> QED BY <3>2, <4>1
    <3> QED BY <3>3, <3>4, <3>5, <3>6
  <2>10. at \in DOMAIN s
    BY <1>1, <2>4
  <2>11. \A i \in DOMAIN s : s[i] # p => \E k \in DOMAIN r : r[k] = s[i]
    BY <2>4, <2>8
  <2>12. (\A i, j \in DOMAIN s : s[i] = s[j] => i = j) => \A k \in DOMAIN r : r[k] # p
    BY <2>4, <2>7, <2>10
  <2>13. RemoveFirst(s, p) = r
    BY <2>3 DEF r
  <2> QED BY <2>5, <2>7, <2>9, <2>11, <2>12, <2>13
<1> QED BY <1>2, <1>3

(* p at the end of a list of leaders.                                      *)
LEMMA NewestType ==
  ASSUME NEW s \in Seq(Profiles), NEW p \in Profiles
  PROVE  LET t == Append(RemoveFirst(s, p), p)
         IN t \in Seq(Profiles) /\ t # <<>> /\ t[Len(t)] = p
BY RemoveFirstType, AppendProperties

(* The listings of a finite set.                                           *)
LEMMA ListingType ==
  ASSUME NEW S, IsFiniteSet(S), NEW s \in SetToSeqs(S)
  PROVE  /\ s \in Seq(S)
         /\ \A i, j \in DOMAIN s : s[i] = s[j] => i = j
         /\ \A p \in S : \E i \in DOMAIN s : s[i] = p
<1>1. Cardinality(S) \in Nat
  BY FS_CardinalityType
<1>2. s \in [1 .. Cardinality(S) -> S] /\ \A i, j \in 1 .. Cardinality(S) : i # j => s[i] # s[j]
  BY DEF SetToSeqs
<1>3. s \in Seq(S)
  BY <1>1, <1>2, SeqDef
<1>4. s \in Injection(1 .. Cardinality(S), S)
  BY <1>2 DEF Injection, IsInjective
<1>5. Cardinality(1 .. Cardinality(S)) = Cardinality(S)
  BY <1>1, FS_Interval
<1>6. s \in Surjection(1 .. Cardinality(S), S)
  BY <1>4, <1>5, FS_Injection
<1> QED BY <1>2, <1>3, <1>6 DEF Surjection

-----------------------------------------------------------------------------
(* The operators of the pass.                                              *)

(* What the assumptions say of the single times and bounds.                *)
LEMMA Numbers ==
  /\ HeadStart \in Nat /\ HeadStart > 0 /\ Cap \in Nat /\ Cap > 0
  /\ HoldCap \in Nat /\ Poll \in Nat /\ Poll > 0
  /\ MaxTime \in Nat /\ Cap <= MaxTime /\ HoldCap <= MaxTime
  /\ MaxClicks \in Nat /\ MaxStops \in Nat
BY TimesAssumption, BoundsAssumption

(* The same work with other sleepers.                                      *)
Steady == {"idle", "done"} \cup InHandStates
SameWork(jobs, others) ==
  \A w \in Workers :
    /\ jobs[w].state \in Steady => others[w] = jobs[w]
    /\ jobs[w].state \notin Steady => others[w].state \notin Steady
NobodySleeps(jobs) == \A w \in Workers : jobs[w].state # "asleep"

(* notify_all changes nobody's work, and nobody sleeps after it.           *)
LEMMA WokenIs ==
  ASSUME NEW jobs \in Jobs
  PROVE  Woken(jobs) \in Jobs /\ SameWork(jobs, Woken(jobs)) /\ NobodySleeps(Woken(jobs))
<1>1. Looking \in [state : JobStates, profile : Profiles \cup {NoProfile}, wake : 0 .. MaxTime + Poll]
  BY Numbers DEF Looking, Job, JobStates
<1>2. Looking.state = "looking"
  BY DEF Looking, Job
<1>3. \A w \in Workers : Woken(jobs)[w] = IF jobs[w].state = "asleep" THEN Looking ELSE jobs[w]
  BY DEF Woken
<1>4. Woken(jobs) \in Jobs
  BY <1>1 DEF Woken, Jobs
<1> QED BY <1>2, <1>3, <1>4 DEF SameWork, NobodySleeps, Steady, InHandStates

(* Parts of the invariant that do not see who sleeps.                      *)
LEMMA SameWorkKeeps ==
  ASSUME NEW jobs, NEW others, SameWork(jobs, others),
         NEW ph, NEW states, NEW g, NEW ls
  PROVE  /\ Threads(ph, jobs) => Threads(ph, others)
         /\ InHand(jobs, states) => InHand(others, states)
         /\ Somebody(jobs) => Somebody(others)
         /\ Returning(jobs, ls) => Returning(others, ls)
         /\ WaitsFor(g, jobs, states, ls) => WaitsFor(g, others, states, ls)
<1>1. \A w \in Workers :
        /\ jobs[w].state \in Steady \/ others[w].state \in Steady => others[w] = jobs[w]
        /\ \A x \in Steady : others[w].state = x <=> jobs[w].state = x
  BY DEF SameWork
<1>2. {"idle", "done", "preparing", "opening", "returned"} = Steady
  BY DEF Steady, InHandStates
<1>3. Threads(ph, jobs) => Threads(ph, others)
  BY <1>1, <1>2 DEF Threads
<1>4. Holders(jobs, states) => Holders(others, states)
  BY <1>1, <1>2 DEF Holders, InHandStates
<1>5. Apart(jobs) => Apart(others)
  BY <1>1, <1>2 DEF Apart
<1>6. Held(jobs, states) => Held(others, states)
  BY <1>1, <1>2 DEF Held
<1>7. Somebody(jobs) => Somebody(others)
  BY <1>1, <1>2 DEF Somebody
<1>8. Returning(jobs, ls) => Returning(others, ls)
  BY <1>1, <1>2 DEF Returning
<1> QED BY <1>3, <1>4, <1>5, <1>6, <1>7, <1>8 DEF InHand, WaitsFor

(* The deadline of a list of leaders: the cap, or the end of the head      *)
(* start of the newest whose launch is out.                                *)
Out(i, states, ls, since) ==
  states[ls[i]] \in Launching /\ NoneNewer(i, states, ls) /\ ls[i] \in DOMAIN since
Deadline(at, states, ls, since) ==
  /\ at \in Nat /\ at <= Cap
  /\ at < Cap => \E i \in DOMAIN ls : Out(i, states, ls, since) /\ at = since[ls[i]] + HeadStart
  /\ \A i \in DOMAIN ls : Out(i, states, ls, since) => at <= since[ls[i]] + HeadStart
Reason(at) == IF at < Cap THEN "timeout" ELSE "cap"

(* The deadline a re-armed gate gets, and whether it opens at once.        *)
LEMMA ScheduledIs ==
  ASSUME NEW states, NEW ls, NEW since, NEW spent,
         \A p \in DOMAIN since : since[p] \in Nat
  PROVE  \E at : /\ Deadline(at, states, ls, since)
                 /\ at <= now => Scheduled(states, ls, since, spent) =
                      Gate("released", now, IF spent = "none" THEN Reason(at) ELSE spent)
                 /\ ~(at <= now) => Scheduled(states, ls, since, spent) = Gate("waiting", at, Reason(at))
<1> DEFINE own == {since[p] + HeadStart : p \in NewestOut(states, ls) \cap DOMAIN since}
           at == Min(own \cup {Cap})
<1>1. \A x : x \in own <=> \E i \in DOMAIN ls : Out(i, states, ls, since) /\ x = since[ls[i]] + HeadStart
  BY DEF NewestOut, Out, NoneNewer
<1>2. own \cup {Cap} \subseteq Nat
  BY Numbers
<1>3. Scheduled(states, ls, since, spent) =
        IF at <= now THEN Gate("released", now, IF spent = "none" THEN Reason(at) ELSE spent)
        ELSE Gate("waiting", at, Reason(at))
  BY DEF Scheduled, Reason
<1> HIDE DEF own
<1>4. at \in own \cup {Cap} /\ \A y \in own \cup {Cap} : at <= y
  BY <1>2, LeastNat
<1> HIDE DEF at
<1>5. Deadline(at, states, ls, since)
  BY <1>1, <1>2, <1>4, Numbers DEF Deadline
<1> QED BY <1>3, <1>5

Codes == {"none", "timeout", "cap", "stopped", "leader_ready", "leader_failed"}
GateOK(g) ==
  /\ g.state \in {"none", "waiting", "released"} /\ g.at \in 0 .. MaxTime
  /\ g.state = "waiting" => g.at <= Cap
  /\ g.code \in Codes

LEMMA GateIs == \A x, y, z : /\ Gate(x, y, z).state = x
                             /\ Gate(x, y, z).at = y
                             /\ Gate(x, y, z).code = z
BY DEF Gate

(* A re-armed gate keeps its promise to the newest leader.                 *)
LEMMA ScheduledType ==
  ASSUME NEW states, NEW ls \in Seq(Profiles), NEW since, NEW spent \in {"none", "leader_failed"},
         \A p \in DOMAIN since : since[p] \in Nat, now \in 0 .. MaxTime
  PROVE  LET g == Scheduled(states, ls, since, spent)
         IN /\ GateOK(g) /\ g.state \in {"waiting", "released"}
            /\ g.state = "waiting" => now < g.at /\ Dated(g, states, ls, since)
            /\ \A going : HasItsStart(going, now, g, states, ls, since)
<1> DEFINE g == Scheduled(states, ls, since, spent)
<1>1. PICK at : /\ Deadline(at, states, ls, since)
                /\ at <= now => g = Gate("released", now, IF spent = "none" THEN Reason(at) ELSE spent)
                /\ ~(at <= now) => g = Gate("waiting", at, Reason(at))
  BY ScheduledIs
<1> HIDE DEF g
<1>2. at \in Nat /\ at <= Cap /\ Reason(at) \in {"timeout", "cap"}
  BY <1>1 DEF Deadline, Reason
<1>3. /\ at <= now => /\ g.state = "released" /\ g.at = now
                      /\ g.code \in {"timeout", "cap", "leader_failed"}
      /\ ~(at <= now) => g.state = "waiting" /\ g.at = at /\ g.code = Reason(at)
  BY <1>1, <1>2, GateIs
<1>4. GateOK(g) /\ g.state \in {"waiting", "released"}
  BY <1>2, <1>3, Numbers DEF GateOK, Codes
<1>5. ASSUME g.state = "waiting" PROVE now < g.at /\ Dated(g, states, ls, since)
  <2>1. ~(at <= now) /\ g.at = at /\ g.code = Reason(at)
    BY <1>3, <1>5
  <2>2. g.code = "cap" => at = Cap
    BY <1>2, <2>1, Numbers DEF Reason
  <2>3. ASSUME g.code = "timeout" PROVE \E i \in DOMAIN ls : SpentAt(i, at, states, ls, since)
    <3>1. at < Cap
      BY <2>1, <2>3 DEF Reason
    <3>2. PICK i \in DOMAIN ls : Out(i, states, ls, since) /\ at = since[ls[i]] + HeadStart
      BY <1>1, <3>1 DEF Deadline
    <3>3. since[ls[i]] + HeadStart <= at
      BY <1>2, <3>2
    <3> QED BY <3>2, <3>3 DEF SpentAt, Out
  <2> QED BY <1>2, <2>1, <2>2, <2>3 DEF Dated
<1>6. ASSUME NEW going PROVE HasItsStart(going, now, g, states, ls, since)
  <2> DEFINE n == Len(ls)
  <2> SUFFICES ASSUME Awaited(now, states, ls, since)
               PROVE  /\ g.state = "waiting"
                      /\ g.at = Cap \/ (ls[n] \in DOMAIN since /\ g.at = since[ls[n]] + HeadStart)
    BY DEF HasItsStart
  <2>1. /\ now < Cap /\ ls # <<>> /\ states[ls[n]] \in Launching
        /\ ~(ls[n] \in DOMAIN since /\ since[ls[n]] + HeadStart <= now)
    BY DEF Awaited
  <2>2. n \in Nat /\ n # 0 /\ DOMAIN ls = 1 .. n
    BY <2>1, LenProperties, EmptySeq
  <2>3. at = Cap \/ (ls[n] \in DOMAIN since /\ at = since[ls[n]] + HeadStart)
    <3>1. CASE at < Cap
      <4>1. PICK i \in DOMAIN ls : Out(i, states, ls, since) /\ at = since[ls[i]] + HeadStart
        BY <1>1, <3>1 DEF Deadline
      <4>2. i = n
        BY <2>1, <2>2, <4>1 DEF Out, NoneNewer
      <4> QED BY <4>1, <4>2 DEF Out
    <3> QED BY <1>2, <3>1, Numbers
  <2>4. ~(at <= now)
    BY <2>1, <2>3, Numbers
  <2> QED BY <1>3, <2>3, <2>4
<1> QED BY <1>4, <1>5, <1>6 DEF g

(* What a look at the gate makes of it.                                    *)
LEMMA ObservedIs ==
  /\ gate.state = "waiting" /\ now >= gate.at =>
       Observed(gate) = IF gate.code # "stopped" THEN Gate("released", gate.at, gate.code)
                        ELSE Gate("released", now, gate.code)
  /\ ~(gate.state = "waiting" /\ now >= gate.at) => Observed(gate) = gate
BY DEF Observed, Released

(* What the return of a leader makes of a gate whose deadline is ahead.    *)
LEMMA SettledType ==
  ASSUME TypeOK, gate.state = "waiting", ~(now >= gate.at), leaders # <<>>
  PROVE  LET g == Settled(gate)
         IN /\ GateOK(g) /\ g.state \in {"waiting", "released"}
            /\ g.state = "waiting" =>
                 now < g.at /\ Dated(g, entry, leaders, admitted) /\ StillOut(entry, leaders)
            /\ \A going : HasItsStart(going, now, g, entry, leaders, admitted)
<1> DEFINE g == Settled(gate)
           newest == entry[leaders[Len(leaders)]]
           armed(spent) == Scheduled(entry, leaders, admitted, spent)
<1>1. \A reason : Released(gate, reason) = Gate("released", now, reason)
  BY DEF Released
<1>2. now \in 0 .. MaxTime /\ leaders \in Seq(Profiles) /\ \A p \in DOMAIN admitted : admitted[p] \in Nat
  BY Numbers DEF TypeOK
<1>3. \A spent \in {"none", "leader_failed"} :
        /\ GateOK(armed(spent)) /\ armed(spent).state \in {"waiting", "released"}
        /\ armed(spent).state = "waiting" => now < armed(spent).at /\ Dated(armed(spent), entry, leaders, admitted)
        /\ \A going : HasItsStart(going, now, armed(spent), entry, leaders, admitted)
  BY <1>2, ScheduledType
<1>4. \/ /\ newest \notin Launching
         /\ g = Gate("released", now, "leader_ready") \/ g = Gate("released", now, "leader_failed")
      \/ newest \in Launching /\ g = armed("none")
      \/ /\ newest \notin Launching
         /\ \A i \in DOMAIN leaders : entry[leaders[i]] # "ready"
         /\ \E i \in DOMAIN leaders : entry[leaders[i]] \in Launching
         /\ g = armed("leader_failed")
  <2> HIDE DEF armed
  <2>1. "ready" \notin Launching
    BY DEF Launching
  <2>2. g = IF newest = "ready" \/ (newest \notin Launching /\ \E i \in DOMAIN leaders : entry[leaders[i]] \in {"ready"})
            THEN Gate("released", now, "leader_ready")
            ELSE IF newest \in Launching THEN armed("none")
            ELSE IF \E i \in DOMAIN leaders : entry[leaders[i]] \in Launching THEN armed("leader_failed")
            ELSE Gate("released", now, "leader_failed")
    BY <1>1 DEF Settled, armed
  <2> QED BY <2>1, <2>2
<1> HIDE DEF g, armed
<1>5. \A reason \in Codes : GateOK(Gate("released", now, reason))
  BY <1>2, GateIs DEF GateOK
<1>6. GateOK(g) /\ g.state \in {"waiting", "released"}
  BY <1>3, <1>4, <1>5, GateIs DEF Codes
<1>7. g.state = "waiting" => \/ g = armed("none") /\ newest \in Launching
                             \/ /\ g = armed("leader_failed")
                                /\ \A i \in DOMAIN leaders : entry[leaders[i]] # "ready"
                                /\ \E i \in DOMAIN leaders : entry[leaders[i]] \in Launching
  BY <1>4, GateIs
<1>8. g.state = "waiting" => now < g.at /\ Dated(g, entry, leaders, admitted) /\ StillOut(entry, leaders)
  BY <1>3, <1>7 DEF StillOut
<1>9. ASSUME NEW going PROVE HasItsStart(going, now, g, entry, leaders, admitted)
  <2>1. CASE newest \in Launching
    BY <1>3, <1>4, <2>1
  <2>2. CASE newest \notin Launching
    BY <2>2 DEF HasItsStart, Awaited
  <2> QED BY <2>1, <2>2
<1> QED BY <1>6, <1>8, <1>9 DEF g

-----------------------------------------------------------------------------
(* The steps of the user and of the clock.                                 *)

LEMMA InitInv == Init => IInv
<1> SUFFICES ASSUME Init PROVE IInv
  OBVIOUS
<1>1. \A w \in Workers : job[w] = Idle /\ job[w].state = "idle"
  BY DEF Init, Idle, Job
<1>2. Idle \in [state : JobStates, profile : Profiles \cup {NoProfile}, wake : 0 .. MaxTime + Poll]
  BY Numbers DEF Idle, Job, JobStates
<1>3. job \in Jobs
  BY <1>2 DEF Init, Jobs
<1>4. gate.state = "none" /\ gate.at = 0 /\ gate.code = "none"
  BY GateIs DEF Init, NoGate
<1>5. 0 \in 0 .. MaxTime /\ 0 \in 0 .. MaxClicks /\ 0 \in 0 .. MaxStops
  BY Numbers
<1>6. DOMAIN admitted = {} /\ DOMAIN holds = {} /\ DOMAIN pending = {}
  BY DEF Init
<1>7. TypeOK
  BY <1>3, <1>4, <1>5, <1>6, EmptySeq DEF TypeOK, Init, Jobs, JobStates, InHandStates
<1>8. phase = "new" /\ \A p \in Profiles : entry[p] = "none"
  BY DEF Init
<1>9. pending = <<>>
  BY DEF Init
<1>10. Threads(phase, job) /\ BeforeScan(phase, entry, pending, admitted, gate)
  BY <1>1, <1>4, <1>6, <1>8, <1>9 DEF Threads, BeforeScan
<1>11. Queue(phase, stopping, entry, pending, admitted)
  BY <1>6, <1>8 DEF Queue
<1>12. InHand(job, entry)
  BY <1>1, <1>8 DEF InHand, Holders, Apart, Held, InHandStates
<1>13. Drained(phase = "running" /\ ~failed /\ ~stopping, pending, job)
  BY <1>8 DEF Drained
<1>14. Waiting(stopping, gate, entry, leaders, admitted) /\ WaitsFor(gate, job, entry, leaders)
  BY <1>4 DEF Waiting, WaitsFor
<1>15. HasItsStart(phase \in {"scanned", "running"} /\ ~stopping, now, gate, entry, leaders, admitted)
  BY <1>8 DEF HasItsStart
<1>16. Sleepers(stopping, now, holds, job, entry, gate, pending, leaders)
  BY <1>1 DEF Sleepers
<1> QED BY <1>7, <1>10, <1>11, <1>12, <1>13, <1>14, <1>15, <1>16 DEF IInv

LEMMA StartInv ==
  ASSUME IInv, NEW leader \in Profiles \cup {NoProfile}, Start(leader)
  PROVE  IInv'
<1> USE DEF Start, stopVars, queueVars
<1>1. /\ \A p \in Profiles : entry[p] = "none"
      /\ pending = <<>> /\ DOMAIN admitted = {} /\ gate.state = "none"
      /\ \A w \in Workers : job[w].state = "idle"
  BY DEF IInv, BeforeScan, Threads
<1>2. leaders' \in Seq(Profiles)
  <2>1. leader # NoProfile => <<leader>> \in Seq(Profiles)
    <3>1. leader # NoProfile => leader \in Profiles
      OBVIOUS
    <3> QED BY <3>1
  <2> QED BY <2>1 DEF IInv, TypeOK
<1>3. TypeOK'
  BY <1>2 DEF IInv, TypeOK
<1>4. DOMAIN pending = {}
  BY <1>1
<1>5. Threads(phase', job') /\ BeforeScan(phase', entry', pending', admitted', gate')
  BY <1>1 DEF Threads, BeforeScan
<1>6. Queue(phase', stopping', entry', pending', admitted')
  BY <1>1, <1>4 DEF Queue
<1>7. InHand(job', entry')
  BY DEF IInv
<1>8. Drained((phase = "running" /\ ~failed /\ ~stopping)', pending', job')
  BY DEF Drained
<1>9. Waiting(stopping', gate', entry', leaders', admitted') /\ WaitsFor(gate', job', entry', leaders')
  BY <1>1 DEF Waiting, WaitsFor
<1>10. HasItsStart((phase \in {"scanned", "running"} /\ ~stopping)', now', gate', entry', leaders', admitted')
  BY DEF HasItsStart
<1>11. Sleepers(stopping', now', holds', job', entry', gate', pending', leaders')
  BY <1>1 DEF Sleepers
<1> QED BY <1>3, <1>5, <1>6, <1>7, <1>8, <1>9, <1>10, <1>11 DEF IInv

LEMMA HoldInv ==
  ASSUME IInv, Hold
  PROVE  IInv'
<1> USE DEF Hold, Click, runVars, stopVars, queueVars, gateVars
<1>1. clicks' \in 1 .. MaxClicks /\ clicks \in 0 .. clicks' /\ now + HoldCap \in 0 .. MaxTime
  BY Numbers DEF IInv, TypeOK
<1>2. DOMAIN holds' = DOMAIN holds \cup {clicks'}
  OBVIOUS
<1>3. \A t \in DOMAIN holds' : holds'[t] = IF t = clicks' THEN now + HoldCap ELSE holds[t]
  OBVIOUS
<1>4. \A t \in DOMAIN holds : t \in 1 .. clicks /\ t # clicks'
  BY <1>1, Numbers DEF IInv, TypeOK
<1>5. DOMAIN holds' \subseteq 1 .. clicks' /\ \A t \in DOMAIN holds' : holds'[t] \in 0 .. MaxTime
  BY <1>1, <1>2, <1>3, <1>4 DEF IInv, TypeOK
<1>6. TypeOK'
  BY <1>1, <1>5, Numbers DEF IInv, TypeOK
<1>7. \A wake : ForHold(wake, holds) => ForHold(wake, holds')
  BY <1>2, <1>3, <1>4 DEF ForHold
<1>8. Sleepers(stopping', now', holds', job', entry', gate', pending', leaders')
  BY <1>7 DEF IInv, Sleepers
<1> QED BY <1>6, <1>8 DEF IInv

LEMMA ReleaseHoldInv ==
  ASSUME IInv, NEW t \in 1 .. MaxClicks, ReleaseHold(t)
  PROVE  IInv'
<1> USE DEF ReleaseHold, runVars, stopVars, queueVars, gateVars
<1>1. job' \in Jobs /\ SameWork(job, job') /\ NobodySleeps(job')
  BY WokenIs DEF IInv, TypeOK, Jobs, JobStates, InHandStates
<1>2. TypeOK'
  BY <1>1 DEF IInv, TypeOK, Jobs, JobStates, InHandStates
<1>3. Threads(phase', job') /\ InHand(job', entry') /\ WaitsFor(gate', job', entry', leaders')
  BY <1>1, SameWorkKeeps DEF IInv
<1>4. Drained((phase = "running" /\ ~failed /\ ~stopping)', pending', job')
  BY <1>1, SameWorkKeeps DEF IInv, Drained
<1>5. Sleepers(stopping', now', holds', job', entry', gate', pending', leaders')
  BY <1>1 DEF Sleepers, NobodySleeps
<1> QED BY <1>2, <1>3, <1>4, <1>5 DEF IInv

LEMMA TickInv ==
  ASSUME IInv, Tick
  PROVE  IInv'
<1> USE DEF Tick, stopVars, queueVars, gateVars
<1>1. now \in 0 .. MaxTime /\ now' = now + 1 /\ now' \in 0 .. MaxTime /\ MaxTime \in Nat
  BY Numbers DEF IInv, TypeOK
<1>2. \A p \in DOMAIN admitted : admitted[p] \in 0 .. now /\ admitted[p] \in 0 .. now'
  BY <1>1 DEF IInv, TypeOK
<1>3. TypeOK'
  BY <1>1, <1>2 DEF IInv, TypeOK
<1>4. HasItsStart((phase \in {"scanned", "running"} /\ ~stopping)', now', gate', entry', leaders', admitted')
  <2>1. Awaited(now', entry, leaders, admitted) => Awaited(now, entry, leaders, admitted)
    BY <1>1, <1>2, Numbers DEF Awaited
  <2> QED BY <2>1 DEF IInv, HasItsStart
<1>5. Sleepers(stopping', now', holds', job', entry', gate', pending', leaders')
  <2>1. \A wake \in 0 .. MaxTime + Poll : now' < wake => now < wake
    BY <1>1, Numbers
  <2>2. gate.at \in Nat
    BY DEF IInv, TypeOK
  <2>3. NoLeaderGoes(now, gate, pending, leaders) => NoLeaderGoes(now', gate, pending, leaders)
    BY <1>1, <2>2 DEF NoLeaderGoes
  <2>4. \A w \in Workers : job[w].wake \in 0 .. MaxTime + Poll
    BY DEF IInv, TypeOK
  <2> QED BY <2>1, <2>3, <2>4 DEF IInv, Sleepers
<1> QED BY <1>3, <1>4, <1>5 DEF IInv

LEMMA ShutdownInv ==
  ASSUME IInv, Shutdown
  PROVE  IInv'
<1> USE DEF Shutdown, runVars
<1>1. job' \in Jobs /\ SameWork(job, job') /\ NobodySleeps(job')
  BY WokenIs DEF IInv, TypeOK, Jobs, JobStates, InHandStates
<1>2. gate' = IF gate.state # "waiting" THEN gate ELSE Gate("released", now, "stopped")
  BY DEF Released
<1>3. GateOK(gate')
  BY <1>2, GateIs DEF IInv, TypeOK, GateOK, Codes
<1>4. gate'.state # "waiting" /\ (gate.state = "none" => gate'.state = "none")
  BY <1>2, GateIs
<1>5. \A p \in Profiles : entry'[p] = IF entry[p] = "queued" THEN "cancelled" ELSE entry[p]
  OBVIOUS
<1>6. entry' \in [Profiles -> Launching \cup {"none", "ready", "failed", "cancelled"}]
  BY DEF IInv, TypeOK, Launching
<1>7. stops' \in 0 .. MaxStops
  BY Numbers DEF IInv, TypeOK
<1>8. TypeOK'
  BY <1>1, <1>3, <1>6, <1>7 DEF IInv, TypeOK, Jobs, JobStates, InHandStates, GateOK, Codes
<1>9. Threads(phase', job')
  BY <1>1, SameWorkKeeps DEF IInv
<1>10. BeforeScan(phase', entry', pending', admitted', gate')
  BY <1>4, <1>5 DEF IInv, BeforeScan
<1>11. Queue(phase', stopping', entry', pending', admitted')
  <2>1. \A i \in DOMAIN pending : pending[i] \in Profiles
    BY LenProperties, ElementOfSeq DEF IInv, TypeOK
  <2>2. \A i \in DOMAIN pending : entry'[pending[i]] = "cancelled"
    BY <1>5, <2>1 DEF IInv, Queue
  <2> QED BY <1>5, <2>2 DEF IInv, Queue
<1>12. InHand(job', entry')
  <2>1. InHand(job', entry)
    BY <1>1, SameWorkKeeps DEF IInv
  <2>2. \A p \in Profiles : \A x \in {"checking", "opening"} : entry'[p] = x <=> entry[p] = x
    BY <1>5
  <2>3. Holders(job', entry')
    BY <2>1, <2>2 DEF InHand, Holders, InHandStates
  <2>4. Held(job', entry')
    BY <2>1, <2>2 DEF InHand, Held
  <2> QED BY <2>1, <2>3, <2>4 DEF InHand
<1>13. Drained((phase = "running" /\ ~failed /\ ~stopping)', pending', job')
  BY DEF Drained
<1>14. Waiting(stopping', gate', entry', leaders', admitted') /\ WaitsFor(gate', job', entry', leaders')
  BY <1>4 DEF Waiting, WaitsFor
<1>15. HasItsStart((phase \in {"scanned", "running"} /\ ~stopping)', now', gate', entry', leaders', admitted')
  BY DEF HasItsStart
<1>16. Sleepers(stopping', now', holds', job', entry', gate', pending', leaders')
  BY <1>1 DEF Sleepers, NobodySleeps
<1> QED BY <1>8, <1>9, <1>10, <1>11, <1>12, <1>13, <1>14, <1>15, <1>16 DEF IInv

LEMMA ResumeInv ==
  ASSUME IInv, Resume
  PROVE  IInv'
<1> USE DEF Resume, runVars, queueVars, gateVars, Active
<1>1. TypeOK'
  BY DEF IInv, TypeOK
<1>2. stopping' => stopping
  OBVIOUS
<1>3. phase \in {"starting", "scanned", "running"} => stopping' = stopping
  BY DEF IInv, TypeOK
<1>4. phase \notin {"starting", "scanned", "running"} => pending = <<>>
  BY DEF IInv, TypeOK, BeforeScan, Queue
<1>5. Queue(phase', stopping', entry', pending', admitted')
  <2>1. pending = <<>> => DOMAIN pending = {}
    OBVIOUS
  <2>2. DOMAIN pending = {} \/ stopping' = stopping
    BY <1>3, <1>4, <2>1
  <2> QED BY <2>2 DEF IInv, Queue
<1>6. Drained((phase = "running" /\ ~failed /\ ~stopping)', pending', job')
  BY <1>3 DEF IInv, Drained
<1>7. Waiting(stopping', gate', entry', leaders', admitted')
  BY <1>2 DEF IInv, Waiting
<1>8. HasItsStart((phase \in {"scanned", "running"} /\ ~stopping)', now', gate', entry', leaders', admitted')
  BY <1>3 DEF IInv, HasItsStart
<1>9. Sleepers(stopping', now', holds', job', entry', gate', pending', leaders')
  BY <1>2 DEF IInv, Sleepers
<1> QED BY <1>1, <1>5, <1>6, <1>7, <1>8, <1>9 DEF IInv

-----------------------------------------------------------------------------
(* The steps of a launch.                                                  *)

(* Worker w has done with its profile, which is in that state now.         *)
Finishes(w, state) ==
  /\ job[w].state \in {"preparing", "opening"}
  /\ state \in {"ready", "failed", "cancelled"}
  /\ entry' = [entry EXCEPT ![job[w].profile] = state]
  /\ job' = [job EXCEPT ![w].state = "returned"]
  /\ UNCHANGED <<runVars, stopVars, pending, priority, gateVars, holds, clicks>>

(* Worker w gives up or finishes its launch, with entry state x.           *)
LEMMA FinishesInv ==
  ASSUME IInv, NEW w \in Workers, NEW x, Finishes(w, x)
  PROVE  IInv'
<1> DEFINE p == job[w].profile
<1> USE DEF Finishes, runVars, stopVars, gateVars
<1>1. /\ p \in Profiles /\ entry[p] \in {"checking", "opening"}
      /\ job[w].state = "preparing" => entry[p] = "checking"
      /\ job[w].state = "opening" => entry[p] = "opening"
  BY DEF IInv, InHand, Holders, InHandStates
<1> HIDE DEF p
<1>2. /\ entry \in [Profiles -> States] /\ job \in Jobs
      /\ pending \in Seq(Profiles) /\ leaders \in Seq(Profiles)
  BY DEF IInv, TypeOK, States, Jobs, JobStates, InHandStates
<1>3. \A q \in Profiles : entry'[q] = IF q = p THEN x ELSE entry[q]
  BY <1>1, <1>2 DEF p
<1>4. /\ job'[w].state = "returned" /\ job'[w].profile = p
      /\ \A v \in Workers : v # w => job'[v] = job[v]
  BY <1>2 DEF p, Jobs
<1>5. /\ \A i \in DOMAIN leaders : leaders[i] \in Profiles
      /\ \A i \in DOMAIN pending : pending[i] \in Profiles
  BY <1>2, LenProperties, ElementOfSeq
<1>6. entry' \in [Profiles -> States] /\ job' \in Jobs
  BY <1>1, <1>2 DEF States, Jobs, JobStates, InHandStates
<1>7. TypeOK'
  BY <1>6 DEF IInv, TypeOK, States, Jobs, JobStates, InHandStates
<1>8. phase = "running"
  BY DEF IInv, TypeOK, Threads
<1>9. Threads(phase', job') /\ BeforeScan(phase', entry', pending', admitted', gate')
  BY <1>8 DEF Threads, BeforeScan
<1>10. Queue(phase', stopping', entry', pending', admitted')
  <2>1. \A i \in DOMAIN pending : pending[i] # p
    BY <1>1 DEF IInv, Queue
  <2>2. \A i \in DOMAIN pending : entry'[pending[i]] = entry[pending[i]]
    BY <1>3, <1>5, <2>1
  <2>3. \A q \in Profiles : entry'[q] = "queued" => entry[q] = "queued"
    BY <1>3
  <2> QED BY <2>2, <2>3 DEF IInv, Queue
<1>11. InHand(job', entry')
  <2>1. Holders(job, entry) /\ Apart(job) /\ Held(job, entry)
    BY DEF IInv, InHand
  <2>2. \A v \in Workers : v # w /\ job[v].state \in {"preparing", "opening"} => job[v].profile # p
    BY <1>1, <2>1 DEF p, Holders, Apart
  <2>3. Holders(job', entry')
    BY <1>1, <1>3, <1>4, <2>1, <2>2 DEF Holders, InHandStates
  <2>4. Apart(job')
    BY <1>4, <2>1 DEF Apart
  <2>5. Held(job', entry')
    <3> SUFFICES ASSUME NEW q \in Profiles, NEW s \in {"checking", "opening"}, entry'[q] = s
                 PROVE  \E v \in Workers : job'[v].state = (IF s = "checking" THEN "preparing" ELSE "opening")
                                           /\ job'[v].profile = q
      BY DEF Held
    <3>1. q # p /\ entry[q] = s
      BY <1>3
    <3>2. PICK v \in Workers : job[v].state = (IF s = "checking" THEN "preparing" ELSE "opening")
                               /\ job[v].profile = q
      BY <2>1, <3>1 DEF Held
    <3>3. v # w
      BY <3>1, <3>2 DEF p
    <3> QED BY <1>4, <3>2, <3>3
  <2> QED BY <2>3, <2>4, <2>5 DEF InHand
<1>12. Drained((phase = "running" /\ ~failed /\ ~stopping)', pending', job')
  BY <1>4 DEF Drained, Somebody
<1>13. \A q \in Profiles : /\ entry'[q] \in Launching => entry[q] \in Launching
                           /\ entry[q] # "none" => entry'[q] # "none"
  BY <1>3 DEF Launching
<1>14. \A i \in DOMAIN leaders : NoneNewer(i, entry, leaders) => NoneNewer(i, entry', leaders)
  BY <1>2, <1>5, <1>13, LenProperties DEF NoneNewer
<1>15. Waiting(stopping', gate', entry', leaders', admitted')
  BY <1>13, <1>14 DEF IInv, Waiting, Dated, SpentAt
<1>16. WaitsFor(gate', job', entry', leaders')
  <2> SUFFICES ASSUME gate.state = "waiting" PROVE Returning(job', leaders) \/ StillOut(entry', leaders)
    BY DEF WaitsFor
  <2>1. Returning(job, leaders) => Returning(job', leaders)
    BY <1>4 DEF Returning
  <2>2. CASE \E i \in DOMAIN leaders : leaders[i] = p
    BY <1>4, <2>2 DEF Returning
  <2>3. CASE ~\E i \in DOMAIN leaders : leaders[i] = p
    <3>1. \A i \in DOMAIN leaders : entry'[leaders[i]] = entry[leaders[i]]
      BY <1>3, <1>5, <2>3
    <3>2. Len(leaders) \in DOMAIN leaders
      <4>1. leaders # <<>>
        BY DEF IInv, Waiting
      <4> QED BY <1>2, <4>1, LenProperties, EmptySeq
    <3>3. StillOut(entry, leaders) => StillOut(entry', leaders)
      BY <3>1, <3>2 DEF StillOut
    <3> QED BY <2>1, <3>3 DEF IInv, WaitsFor
  <2> QED BY <2>2, <2>3
<1>17. HasItsStart((phase \in {"scanned", "running"} /\ ~stopping)', now', gate', entry', leaders', admitted')
  <2>1. Awaited(now, entry', leaders, admitted) => Awaited(now, entry, leaders, admitted)
    <3> SUFFICES ASSUME leaders # <<>>, Awaited(now, entry', leaders, admitted)
                 PROVE  Awaited(now, entry, leaders, admitted)
      BY DEF Awaited
    <3>1. leaders[Len(leaders)] \in Profiles
      BY <1>2, <1>5, LenProperties, EmptySeq
    <3> QED BY <1>13, <3>1 DEF Awaited
  <2> QED BY <2>1 DEF IInv, HasItsStart
<1>18. Sleepers(stopping', now', holds', job', entry', gate', pending', leaders')
  <2>1. ForLimit(job', entry')
    BY <1>4 DEF ForLimit
  <2>2. \A v \in Workers : job'[v].state = "asleep" => job'[v] = job[v]
    BY <1>4
  <2> QED BY <1>13, <2>1, <2>2 DEF IInv, Sleepers
<1> QED BY <1>7, <1>9, <1>10, <1>11, <1>12, <1>15, <1>16, <1>17, <1>18 DEF IInv

Opens(w) ==
  /\ job[w].state = "preparing"
  /\ entry' = [entry EXCEPT ![job[w].profile] = "opening"]
  /\ job' = [job EXCEPT ![w].state = "opening"]
  /\ UNCHANGED <<runVars, stopVars, pending, priority, gateVars, holds, clicks>>

LEMMA OpensInv ==
  ASSUME IInv, NEW w \in Workers, Opens(w)
  PROVE  IInv'
<1> DEFINE p == job[w].profile
<1> USE DEF Opens, runVars, stopVars, gateVars
<1>1. p \in Profiles /\ entry[p] = "checking"
  BY DEF IInv, InHand, Holders, InHandStates
<1> HIDE DEF p
<1>2. /\ entry \in [Profiles -> States] /\ job \in Jobs
      /\ pending \in Seq(Profiles) /\ leaders \in Seq(Profiles)
  BY DEF IInv, TypeOK, States, Jobs, JobStates, InHandStates
<1>3. \A q \in Profiles : entry'[q] = IF q = p THEN "opening" ELSE entry[q]
  BY <1>1, <1>2 DEF p
<1>4. /\ job'[w].state = "opening" /\ job'[w].profile = p
      /\ \A v \in Workers : v # w => job'[v] = job[v]
  BY <1>2 DEF p, Jobs
<1>5. /\ \A i \in DOMAIN leaders : leaders[i] \in Profiles
      /\ \A i \in DOMAIN pending : pending[i] \in Profiles
  BY <1>2, LenProperties, ElementOfSeq
<1>6. entry' \in [Profiles -> States] /\ job' \in Jobs
  BY <1>1, <1>2 DEF States, Launching, Jobs, JobStates, InHandStates
<1>7. TypeOK'
  BY <1>6 DEF IInv, TypeOK, States, Jobs, JobStates, InHandStates
<1>8. phase = "running"
  BY DEF IInv, TypeOK, Threads
<1>9. Threads(phase', job') /\ BeforeScan(phase', entry', pending', admitted', gate')
  BY <1>8 DEF Threads, BeforeScan
<1>10. Queue(phase', stopping', entry', pending', admitted')
  <2>1. \A i \in DOMAIN pending : pending[i] # p
    BY <1>1 DEF IInv, Queue
  <2>2. \A i \in DOMAIN pending : entry'[pending[i]] = entry[pending[i]]
    BY <1>3, <1>5, <2>1
  <2>3. \A q \in Profiles : entry'[q] = "queued" => entry[q] = "queued"
    BY <1>3
  <2> QED BY <2>2, <2>3 DEF IInv, Queue
<1>11. InHand(job', entry')
  <2>1. Holders(job, entry) /\ Apart(job) /\ Held(job, entry)
    BY DEF IInv, InHand
  <2>2. \A v \in Workers : v # w /\ job[v].state \in {"preparing", "opening"} => job[v].profile # p
    BY <1>1, <2>1 DEF p, Holders, Apart
  <2>3. Holders(job', entry')
    BY <1>1, <1>3, <1>4, <2>1, <2>2 DEF Holders, InHandStates
  <2>4. Apart(job')
    BY <1>4, <2>1, <2>2 DEF Apart
  <2>5. Held(job', entry')
    <3>1. ASSUME NEW q \in Profiles, entry'[q] = "checking"
          PROVE  \E v \in Workers : job'[v].state = "preparing" /\ job'[v].profile = q
      <4>1. q # p /\ entry[q] = "checking"
        BY <1>3, <3>1
      <4>2. PICK v \in Workers : job[v].state = "preparing" /\ job[v].profile = q
        BY <2>1, <4>1 DEF Held
      <4>3. v # w
        BY <4>1, <4>2 DEF p
      <4> QED BY <1>4, <4>2, <4>3
    <3>2. ASSUME NEW q \in Profiles, entry'[q] = "opening"
          PROVE  \E v \in Workers : job'[v].state = "opening" /\ job'[v].profile = q
      <4>1. CASE q = p
        BY <1>4, <4>1
      <4>2. CASE q # p
        <5>1. entry[q] = "opening"
          BY <1>3, <3>2, <4>2
        <5>2. PICK v \in Workers : job[v].state = "opening" /\ job[v].profile = q
          BY <2>1, <5>1 DEF Held
        <5> QED BY <1>4, <5>2
      <4> QED BY <4>1, <4>2
    <3> QED BY <3>1, <3>2 DEF Held
  <2> QED BY <2>3, <2>4, <2>5 DEF InHand
<1>12. Drained((phase = "running" /\ ~failed /\ ~stopping)', pending', job')
  BY <1>4 DEF Drained, Somebody
<1>13. \A q \in Profiles : /\ entry'[q] \in Launching <=> entry[q] \in Launching
                           /\ entry'[q] = "ready" <=> entry[q] = "ready"
                           /\ entry[q] # "none" => entry'[q] # "none"
                           /\ entry'[q] \in Taken <=> entry[q] \in Taken
  BY <1>1, <1>3 DEF Launching, Taken
<1>14. \A i \in DOMAIN leaders : NoneNewer(i, entry, leaders) => NoneNewer(i, entry', leaders)
  BY <1>2, <1>5, <1>13, LenProperties DEF NoneNewer
<1>15. Waiting(stopping', gate', entry', leaders', admitted')
  BY <1>13, <1>14 DEF IInv, Waiting, Dated, SpentAt
<1>16. leaders # <<>> => leaders[Len(leaders)] \in Profiles
  BY <1>2, <1>5, LenProperties, EmptySeq
<1>17. WaitsFor(gate', job', entry', leaders')
  <2> SUFFICES ASSUME gate.state = "waiting" PROVE Returning(job', leaders) \/ StillOut(entry', leaders)
    BY DEF WaitsFor
  <2>1. Returning(job, leaders) => Returning(job', leaders)
    BY <1>4 DEF Returning
  <2>2. leaders # <<>>
    BY DEF IInv, Waiting
  <2>3. StillOut(entry, leaders) => StillOut(entry', leaders)
    BY <1>5, <1>13, <1>16, <2>2 DEF StillOut
  <2> QED BY <2>1, <2>3 DEF IInv, WaitsFor
<1>18. HasItsStart((phase \in {"scanned", "running"} /\ ~stopping)', now', gate', entry', leaders', admitted')
  <2>1. Awaited(now, entry', leaders, admitted) => Awaited(now, entry, leaders, admitted)
    BY <1>13, <1>16 DEF Awaited
  <2> QED BY <2>1 DEF IInv, HasItsStart
<1>19. Sleepers(stopping', now', holds', job', entry', gate', pending', leaders')
  <2>1. BusyIn(entry') = BusyIn(entry)
    <3>1. {q \in Profiles : entry'[q] \in Taken} = {q \in Profiles : entry[q] \in Taken}
      BY <1>13
    <3> QED BY <3>1 DEF BusyIn
  <2>2. ForLimit(job, entry) => ForLimit(job', entry')
    BY <1>4, <2>1 DEF ForLimit
  <2>3. \A v \in Workers : job'[v].state = "asleep" => job'[v] = job[v]
    BY <1>4
  <2> QED BY <1>13, <2>2, <2>3 DEF IInv, Sleepers
<1> QED BY <1>7, <1>9, <1>10, <1>11, <1>12, <1>15, <1>17, <1>18, <1>19 DEF IInv

LEMMA LaunchInv ==
  ASSUME IInv, NEW w \in Workers, Refuse(w) \/ Open(w) \/ Launched(w)
  PROVE  IInv'
<1>1. CASE \E x : Finishes(w, x)
  BY <1>1, FinishesInv
<1>2. CASE Opens(w)
  BY <1>2, OpensInv
<1>3. ASSUME Refuse(w) PROVE \E x : Finishes(w, x)
  <2>1. PICK x \in {"ready", "failed"} : entry' = [entry EXCEPT ![job[w].profile] = x]
    BY <1>3 DEF Refuse
  <2>2. job[w].state \in {"preparing", "opening"} /\ x \in {"ready", "failed", "cancelled"}
    BY <1>3 DEF Refuse
  <2>3. Finishes(w, x)
    BY <1>3, <2>1, <2>2, Zenon DEF Refuse, Finishes
  <2> QED BY <2>3
<1>4. ASSUME Launched(w) PROVE \E x : Finishes(w, x)
  <2>1. PICK x \in {"ready", "failed"} : entry' = [entry EXCEPT ![job[w].profile] = x]
    BY <1>4 DEF Launched
  <2>2. job[w].state \in {"preparing", "opening"} /\ x \in {"ready", "failed", "cancelled"}
    BY <1>4 DEF Launched
  <2>3. Finishes(w, x)
    BY <1>4, <2>1, <2>2, Zenon DEF Launched, Finishes
  <2> QED BY <2>3
<1>5. ASSUME Open(w) PROVE Opens(w) \/ \E x : Finishes(w, x)
  <2>1. CASE stopping
    <3>1. job[w].state \in {"preparing", "opening"} /\ "cancelled" \in {"ready", "failed", "cancelled"}
      BY <1>5 DEF Open
    <3>2. Finishes(w, "cancelled")
      BY <1>5, <2>1, <3>1, Zenon DEF Open, Finishes
    <3> QED BY <3>2
  <2>2. CASE ~stopping
    BY <1>5, <2>2, Zenon DEF Open, Opens
  <2> QED BY <2>1, <2>2
<1> QED BY <1>1, <1>2, <1>3, <1>4, <1>5

-----------------------------------------------------------------------------
(* The clicks that select a leader, and the return of a launch.            *)

(* Observing the gate keeps what the invariant says of it.                 *)
LEMMA ObservedType ==
  ASSUME IInv
  PROVE  LET g == Observed(gate)
         IN /\ GateOK(g) /\ (g.state = "none" <=> gate.state = "none")
            /\ g.state = "waiting" <=> gate.state = "waiting" /\ now < gate.at
            /\ \/ g = gate
               \/ /\ gate.state = "waiting" /\ gate.at <= now
                  /\ g.state = "released" /\ g.at = gate.at /\ g.code = gate.code
            /\ Waiting(stopping, g, entry, leaders, admitted)
            /\ WaitsFor(g, job, entry, leaders)
            /\ HasItsStart(phase \in {"scanned", "running"} /\ ~stopping,
                           now, g, entry, leaders, admitted)
<1> DEFINE g == Observed(gate)
<1>1. /\ now \in Nat /\ gate.at \in Nat /\ GateOK(gate)
      /\ gate.state = "waiting" => gate.code \in {"timeout", "cap"}
  BY DEF IInv, TypeOK, GateOK, Codes, Waiting, Dated
<1>2. CASE gate.state = "waiting" /\ gate.at <= now
  <2>1. g = Gate("released", gate.at, gate.code)
    BY <1>1, <1>2, ObservedIs
  <2> HIDE DEF g
  <2>2. g.state = "released" /\ g.at = gate.at /\ g.code = gate.code
    BY <2>1, GateIs
  <2>3. GateOK(g)
    BY <1>1, <2>2 DEF GateOK
  <2>4. HasItsStart(phase \in {"scanned", "running"} /\ ~stopping, now, g, entry, leaders, admitted)
    <3>1. \A p \in DOMAIN admitted : admitted[p] \in Nat
      BY <1>1 DEF IInv, TypeOK
    <3>2. ~(/\ phase \in {"scanned", "running"} /\ ~stopping
            /\ Awaited(now, entry, leaders, admitted))
      <4> SUFFICES ASSUME phase \in {"scanned", "running"}, ~stopping,
                          Awaited(now, entry, leaders, admitted)
                   PROVE  FALSE
        OBVIOUS
      <4>1. gate.at = Cap \/ (/\ leaders[Len(leaders)] \in DOMAIN admitted
                              /\ gate.at = admitted[leaders[Len(leaders)]] + HeadStart)
        BY DEF IInv, HasItsStart
      <4> QED BY <1>1, <1>2, <3>1, <4>1, Numbers DEF Awaited
    <3> QED BY <3>2 DEF HasItsStart
  <2> QED BY <1>1, <1>2, <2>2, <2>3, <2>4 DEF g, Waiting, WaitsFor
<1>3. CASE ~(gate.state = "waiting" /\ gate.at <= now)
  <2>1. g = gate
    BY <1>1, <1>3, ObservedIs
  <2> QED BY <1>1, <1>3, <2>1 DEF IInv
<1> QED BY <1>2, <1>3

LEMMA WokenByIs ==
  ASSUME NEW jobs \in Jobs, NEW g
  PROVE  /\ WokenBy(g, jobs) \in Jobs /\ SameWork(jobs, WokenBy(g, jobs))
         /\ NobodySleeps(WokenBy(g, jobs)) \/ (g = gate /\ WokenBy(g, jobs) = jobs)
BY WokenIs DEF WokenBy, SameWork

(* A click changes these two beside what it does for a leader.             *)
Clicked ==
  /\ priority' \in Profiles \cup {NoProfile}
  /\ clicks' \in 0 .. MaxClicks /\ clicks <= clicks'
  /\ UNCHANGED <<runVars, stopVars, entry, pending, admitted, holds>>

(* A profile becomes the newest leader.                                    *)
LEMMA LeadInv ==
  ASSUME IInv, NEW p \in Profiles, Lead(p), ~stopping, Clicked
  PROVE  IInv'
<1> DEFINE newest == Append(RemoveFirst(leaders, p), p)
           g == Observed(gate)
<1> USE DEF Clicked, runVars, stopVars
<1>1. job \in Jobs /\ leaders \in Seq(Profiles) /\ now \in 0 .. MaxTime
      /\ (\A q \in DOMAIN admitted : admitted[q] \in Nat)
  BY Numbers DEF IInv, TypeOK, Jobs, JobStates, InHandStates
<1>2. newest \in Seq(Profiles) /\ newest # <<>> /\ newest[Len(newest)] = p
  BY <1>1, NewestType
<1>3. \/ leaders' = newest /\ gate' = gate /\ job' = job /\ \A q \in Profiles : entry[q] = "none"
      \/ leaders' = leaders /\ gate' = gate /\ job' = job
      \/ leaders' = leaders /\ gate' = g /\ job' = WokenBy(g, job)
      \/ /\ leaders' = newest /\ gate' = Scheduled(entry, newest, admitted, "none")
         /\ job' = Woken(job) /\ entry[p] \in Launching /\ g.state = "waiting"
  BY DEF Lead, Known
<1> HIDE DEF newest, g
<1>4. leaders' \in Seq(Profiles)
  BY <1>1, <1>2, <1>3
<1>5. DOMAIN holds \subseteq 1 .. clicks'
  BY DEF IInv, TypeOK
<1>6. ASSUME job' \in Jobs, SameWork(job, job'), GateOK(gate'),
             gate.state = "none" => gate'.state = "none"
      PROVE  /\ TypeOK'
             /\ Threads(phase', job') /\ InHand(job', entry')
             /\ BeforeScan(phase', entry', pending', admitted', gate')
             /\ Queue(phase', stopping', entry', pending', admitted')
             /\ Drained((phase = "running" /\ ~failed /\ ~stopping)', pending', job')
  <2>1. TypeOK'
    BY <1>4, <1>5, <1>6 DEF IInv, TypeOK, Jobs, JobStates, InHandStates, GateOK, Codes
  <2>2. Threads(phase', job') /\ InHand(job', entry')
    BY <1>6, SameWorkKeeps DEF IInv
  <2>3. BeforeScan(phase', entry', pending', admitted', gate')
    BY <1>6 DEF IInv, BeforeScan
  <2>4. Queue(phase', stopping', entry', pending', admitted')
    BY DEF IInv
  <2>5. Drained((phase = "running" /\ ~failed /\ ~stopping)', pending', job')
    BY <1>6, SameWorkKeeps DEF IInv, Drained
  <2> QED BY <2>1, <2>2, <2>3, <2>4, <2>5
<1>7. CASE leaders' = newest /\ gate' = gate /\ job' = job /\ \A q \in Profiles : entry[q] = "none"
  <2>1. GateOK(gate) /\ SameWork(job, job) /\ gate.state # "waiting"
    BY <1>7 DEF IInv, TypeOK, GateOK, Codes, SameWork, Waiting
  <2>2. Waiting(stopping', gate', entry', leaders', admitted') /\ WaitsFor(gate', job', entry', leaders')
    BY <1>7, <2>1 DEF Waiting, WaitsFor
  <2>3. HasItsStart((phase \in {"scanned", "running"} /\ ~stopping)', now', gate', entry', leaders', admitted')
    BY <1>2, <1>7 DEF HasItsStart, Awaited, Launching
  <2>4. Sleepers(stopping', now', holds', job', entry', gate', pending', leaders')
    BY <1>7 DEF IInv, Sleepers
  <2> QED BY <1>1, <1>6, <1>7, <2>1, <2>2, <2>3, <2>4 DEF IInv
<1>8. CASE leaders' = leaders /\ gate' = gate /\ job' = job
  <2>1. GateOK(gate) /\ SameWork(job, job)
    BY DEF IInv, TypeOK, GateOK, Codes, SameWork
  <2> QED BY <1>1, <1>6, <1>8, <2>1 DEF IInv
<1>9. CASE leaders' = leaders /\ gate' = g /\ job' = WokenBy(g, job)
  <2>1. /\ GateOK(g) /\ (gate.state = "none" => g.state = "none")
        /\ Waiting(stopping, g, entry, leaders, admitted)
        /\ WaitsFor(g, job, entry, leaders)
        /\ HasItsStart(phase \in {"scanned", "running"} /\ ~stopping, now, g, entry, leaders, admitted)
    BY ObservedType DEF g
  <2>2. /\ job' \in Jobs /\ SameWork(job, job')
        /\ NobodySleeps(job') \/ (g = gate /\ job' = job)
    BY <1>1, <1>9, WokenByIs
  <2>3. WaitsFor(gate', job', entry', leaders')
    BY <1>9, <2>1, <2>2, SameWorkKeeps
  <2>4. Sleepers(stopping', now', holds', job', entry', gate', pending', leaders')
    BY <1>9, <2>2 DEF IInv, Sleepers, NobodySleeps
  <2> QED BY <1>6, <1>9, <2>1, <2>2, <2>3, <2>4 DEF IInv
<1>10. CASE /\ leaders' = newest /\ gate' = Scheduled(entry, newest, admitted, "none")
            /\ job' = Woken(job) /\ entry[p] \in Launching /\ g.state = "waiting"
  <2>1. /\ GateOK(gate') /\ gate'.state \in {"waiting", "released"}
        /\ gate'.state = "waiting" => Dated(gate', entry, newest, admitted)
        /\ HasItsStart(phase \in {"scanned", "running"} /\ ~stopping, now, gate', entry, newest, admitted)
    BY <1>1, <1>2, <1>10, ScheduledType
  <2>2. job' \in Jobs /\ SameWork(job, job') /\ NobodySleeps(job')
    BY <1>1, <1>10, WokenIs
  <2>3. gate.state # "none" /\ entry[p] # "none"
    BY <1>10, ObservedType DEF g, Launching
  <2>4. Waiting(stopping', gate', entry', leaders', admitted')
    BY <1>2, <1>10, <2>1, <2>3 DEF Waiting
  <2>5. WaitsFor(gate', job', entry', leaders')
    BY <1>2, <1>10 DEF WaitsFor, StillOut
  <2>6. Sleepers(stopping', now', holds', job', entry', gate', pending', leaders')
    BY <2>2 DEF Sleepers, NobodySleeps
  <2> QED BY <1>6, <1>10, <2>1, <2>2, <2>3, <2>4, <2>5, <2>6 DEF IInv
<1> QED BY <1>3, <1>7, <1>8, <1>9, <1>10

LEMMA ClickInv ==
  ASSUME IInv, NEW p \in Profiles, Prioritize(p) \/ Promote(p)
  PROVE  IInv'
<1>1. ~stopping /\ Clicked
  <2>1. clicks \in 0 .. MaxClicks /\ priority \in Profiles \cup {NoProfile}
    BY DEF IInv, TypeOK
  <2>2. CASE Prioritize(p)
    BY <2>1, <2>2, Numbers DEF Prioritize, Clicked, Click
  <2>3. CASE Promote(p)
    BY <2>1, <2>3, Numbers DEF Promote, Clicked, Click, queueVars
  <2> QED BY <2>2, <2>3
<1>2. Lead(p) \/ UNCHANGED <<leaders, gate, job>>
  BY DEF Prioritize, Promote
<1>3. CASE UNCHANGED <<leaders, gate, job>>
  <2>1. TypeOK'
    BY <1>1, <1>3 DEF IInv, TypeOK, Clicked, runVars, stopVars
  <2> QED BY <1>1, <1>3, <2>1 DEF IInv, Clicked, runVars, stopVars
<1> QED BY <1>1, <1>2, <1>3, LeadInv

(* The return of a launch settles the gate and wakes everybody.            *)
LEMMA ReturnInv ==
  ASSUME IInv, NEW w \in Workers, Return(w)
  PROVE  IInv'
<1> DEFINE g == Observed(gate)
           jobs == [job EXCEPT ![w] = Looking]
<1> USE DEF runVars, stopVars, queueVars
<1>1. /\ job \in Jobs /\ job[w].state = "returned" /\ job[w].profile \in Profiles
      /\ leaders \in Seq(Profiles)
  BY DEF Return, IInv, TypeOK, Jobs, JobStates, InHandStates, InHand, Holders
<1>2. /\ gate' = IF ~Leading(job[w].profile) THEN gate
                 ELSE IF g.state = "waiting" THEN Settled(gate) ELSE g
      /\ job' = Woken(jobs)
      /\ UNCHANGED <<runVars, stopVars, queueVars, leaders, admitted, holds, clicks>>
  BY DEF Return
<1>3. jobs \in Jobs
  <2>1. Looking \in [state : JobStates, profile : Profiles \cup {NoProfile}, wake : 0 .. MaxTime + Poll]
    BY Numbers DEF Looking, Job, JobStates
  <2> QED BY <1>1, <2>1 DEF Jobs
<1>4. jobs[w].state = "looking" /\ \A v \in Workers : v # w => jobs[v] = job[v]
  BY <1>1 DEF Looking, Job, Jobs
<1> HIDE DEF jobs, g
<1>5. job' \in Jobs /\ SameWork(jobs, job') /\ NobodySleeps(job')
  BY <1>2, <1>3, WokenIs
<1>6. phase = "running"
  BY <1>1 DEF IInv, TypeOK, Threads
<1>7. Leading(job[w].profile) <=> \E i \in DOMAIN leaders : leaders[i] = job[w].profile
  BY <1>1, LenProperties DEF Leading, Contains
<1>8. /\ GateOK(gate')
      /\ Waiting(stopping, gate', entry, leaders, admitted)
      /\ HasItsStart(phase \in {"scanned", "running"} /\ ~stopping, now, gate', entry, leaders, admitted)
      /\ gate'.state = "waiting" => Returning(jobs, leaders) \/ StillOut(entry, leaders)
  <2>1. Returning(job, leaders) /\ ~Leading(job[w].profile) => Returning(jobs, leaders)
    BY <1>4, <1>7 DEF Returning
  <2>2. CASE ~Leading(job[w].profile)
    BY <1>2, <2>1, <2>2 DEF IInv, TypeOK, GateOK, Codes, WaitsFor
  <2>3. CASE Leading(job[w].profile) /\ g.state = "waiting"
    <3>1. gate.state = "waiting" /\ now < gate.at
      BY <2>3, ObservedType DEF g
    <3>2. /\ ~stopping /\ leaders # <<>> /\ \E p \in Profiles : entry[p] # "none"
          /\ now \in Nat /\ gate.at \in Nat /\ TypeOK
      BY <3>1 DEF IInv, Waiting, TypeOK
    <3>3. gate' = Settled(gate)
      BY <1>2, <2>3
    <3>4. /\ GateOK(gate')
          /\ gate'.state = "waiting" => Dated(gate', entry, leaders, admitted) /\ StillOut(entry, leaders)
          /\ HasItsStart(phase \in {"scanned", "running"} /\ ~stopping, now, gate', entry, leaders, admitted)
      BY <3>1, <3>2, <3>3, SettledType
    <3> QED BY <3>2, <3>4 DEF Waiting
  <2>4. CASE Leading(job[w].profile) /\ g.state # "waiting"
    BY <1>2, <2>4, ObservedType DEF g
  <2> QED BY <2>2, <2>3, <2>4
<1>9. TypeOK'
  BY <1>2, <1>5, <1>8 DEF IInv, TypeOK, Jobs, JobStates, InHandStates, GateOK, Codes
<1>10. Threads(phase', job') /\ BeforeScan(phase', entry', pending', admitted', gate')
  BY <1>2, <1>6 DEF Threads, BeforeScan
<1>11. Queue(phase', stopping', entry', pending', admitted')
  BY <1>2 DEF IInv
<1>12. InHand(job', entry')
  <2>1. Holders(job, entry) /\ Apart(job) /\ Held(job, entry)
    BY DEF IInv, InHand
  <2>2. Holders(jobs, entry)
    BY <1>4, <2>1 DEF Holders, InHandStates
  <2>3. Apart(jobs)
    BY <1>4, <2>1 DEF Apart
  <2>4. Held(jobs, entry)
    BY <1>1, <1>4, <2>1 DEF Held
  <2>5. InHand(jobs, entry)
    BY <2>2, <2>3, <2>4 DEF InHand
  <2> QED BY <1>2, <1>5, <2>5, SameWorkKeeps
<1>13. Drained((phase = "running" /\ ~failed /\ ~stopping)', pending', job')
  <2>1. Somebody(jobs)
    BY <1>4 DEF Somebody
  <2> QED BY <1>5, <2>1, SameWorkKeeps DEF Drained
<1>14. Waiting(stopping', gate', entry', leaders', admitted')
  BY <1>2, <1>8
<1>15. WaitsFor(gate', job', entry', leaders')
  BY <1>2, <1>5, <1>8, SameWorkKeeps DEF WaitsFor
<1>16. HasItsStart((phase \in {"scanned", "running"} /\ ~stopping)', now', gate', entry', leaders', admitted')
  BY <1>2, <1>8
<1>17. Sleepers(stopping', now', holds', job', entry', gate', pending', leaders')
  BY <1>5 DEF Sleepers, NobodySleeps
<1> QED BY <1>9, <1>10, <1>11, <1>12, <1>13, <1>14, <1>15, <1>16, <1>17 DEF IInv

-----------------------------------------------------------------------------
(* The steps of the pass itself.                                           *)

LEMMA ScanInv ==
  ASSUME IInv, Scan
  PROVE  IInv'
<1> USE DEF stopVars
<1>1. /\ phase = "starting" /\ phase' = "scanned"
      /\ gate' = IF leaders' # <<>> /\ ~stopping
                 THEN Scheduled(entry', leaders', admitted, "none") ELSE gate
      /\ holds' \in [DOMAIN holds -> 0 .. HoldCap]
      /\ UNCHANGED <<now, failed, stopping, resumeLater, stops, priority, admitted, job, clicks>>
  BY DEF Scan
<1>2. PICK known \in SUBSET Profiles :
        /\ pending' \in SetToSeqs(known)
        /\ entry' = [p \in Profiles |-> IF p \in known THEN "queued" ELSE "none"]
        /\ leaders' \in SetToSeqs(known \cap Range(leaders))
  BY DEF Scan
<1>3. IsFiniteSet(known) /\ IsFiniteSet(known \cap Range(leaders))
  BY FS_Subset, NamesAssumption
<1>4. /\ pending' \in Seq(known) /\ \A p \in known : \E i \in DOMAIN pending' : pending'[i] = p
      /\ \A i, j \in DOMAIN pending' : pending'[i] = pending'[j] => i = j
  BY <1>2, <1>3, ListingType
<1>5. leaders' \in Seq(known \cap Range(leaders))
  BY <1>2, <1>3, ListingType
<1>6. /\ pending' \in Seq(Profiles) /\ \A i \in DOMAIN pending' : pending'[i] \in known
      /\ leaders' \in Seq(Profiles) /\ \A i \in DOMAIN leaders' : leaders'[i] \in known
  BY <1>4, <1>5, LenProperties, ElementOfSeq, SeqDef
<1>7. /\ \A w \in Workers : job[w].state = "idle"
      /\ DOMAIN admitted = {} /\ gate.state = "none" /\ now \in 0 .. MaxTime
  BY <1>1 DEF IInv, Threads, BeforeScan, TypeOK
<1>8. \A p \in Profiles : entry'[p] = IF p \in known THEN "queued" ELSE "none"
  BY <1>2
<1>9. leaders' # <<>> => Len(leaders') \in DOMAIN leaders' /\ entry'[leaders'[Len(leaders')]] = "queued"
  <2>1. leaders' # <<>> => Len(leaders') \in DOMAIN leaders'
    BY <1>6, LenProperties, EmptySeq
  <2> QED BY <1>6, <1>8, <2>1
<1>10. /\ GateOK(gate')
       /\ gate'.state = "waiting" => /\ ~stopping /\ leaders' # <<>>
                                     /\ Dated(gate', entry', leaders', admitted)
       /\ HasItsStart(phase' \in {"scanned", "running"} /\ ~stopping, now, gate', entry', leaders', admitted)
  <2>1. CASE leaders' # <<>> /\ ~stopping
    <3>1. gate' = Scheduled(entry', leaders', admitted, "none")
      BY <1>1, <2>1
    <3> QED BY <1>6, <1>7, <2>1, <3>1, ScheduledType
  <2>2. CASE ~(leaders' # <<>> /\ ~stopping)
    <3>1. gate' = gate /\ GateOK(gate)
      BY <1>1, <2>2 DEF IInv, TypeOK, GateOK, Codes
    <3> QED BY <1>7, <2>2, <3>1 DEF HasItsStart, Awaited
  <2> QED BY <2>1, <2>2
<1>11. TypeOK'
  <2>1. entry' \in [Profiles -> Launching \cup {"none", "ready", "failed", "cancelled"}]
    BY <1>2 DEF Launching
  <2>2. DOMAIN holds' = DOMAIN holds /\ \A t \in DOMAIN holds' : holds'[t] \in 0 .. MaxTime
    BY <1>1, Numbers
  <2>3. /\ DOMAIN holds' \subseteq 1 .. clicks' /\ now' \in 0 .. MaxTime /\ clicks' \in 0 .. MaxClicks
        /\ stops' \in 0 .. MaxStops /\ {failed, stopping, resumeLater}' \subseteq BOOLEAN
        /\ priority' \in Profiles \cup {NoProfile} /\ DOMAIN admitted' \subseteq Profiles
    BY <1>1, <2>2 DEF IInv, TypeOK
  <2>4. job' = job /\ job \in Jobs
    BY <1>1 DEF IInv, TypeOK, Jobs, JobStates, InHandStates
  <2> QED BY <1>1, <1>6, <1>7, <1>10, <2>1, <2>2, <2>3, <2>4
          DEF TypeOK, Jobs, JobStates, InHandStates, GateOK, Codes
<1>12. Threads(phase', job') /\ BeforeScan(phase', entry', pending', admitted', gate')
  BY <1>1, <1>7 DEF Threads, BeforeScan
<1>13. Queue(phase', stopping', entry', pending', admitted')
  BY <1>1, <1>4, <1>6, <1>7, <1>8 DEF Queue
<1>14. InHand(job', entry')
  BY <1>1, <1>7, <1>8 DEF InHand, Holders, Apart, Held, InHandStates
<1>15. Drained((phase = "running" /\ ~failed /\ ~stopping)', pending', job')
  BY <1>1 DEF Drained
<1>16. Waiting(stopping', gate', entry', leaders', admitted')
  <2>1. leaders' # <<>> => \E p \in Profiles : entry'[p] # "none"
    BY <1>6, <1>8, <1>9
  <2> QED BY <1>1, <1>10, <2>1 DEF Waiting
<1>17. WaitsFor(gate', job', entry', leaders')
  BY <1>9, <1>10 DEF WaitsFor, StillOut, Launching
<1>18. HasItsStart((phase \in {"scanned", "running"} /\ ~stopping)', now', gate', entry', leaders', admitted')
  BY <1>1, <1>10
<1>19. Sleepers(stopping', now', holds', job', entry', gate', pending', leaders')
  BY <1>1, <1>7 DEF Sleepers
<1> QED BY <1>11, <1>12, <1>13, <1>14, <1>15, <1>16, <1>17, <1>18, <1>19 DEF IInv

(* When every thread started, somebody drains.                             *)
LEMMA SomebodyStarts ==
  ASSUME NEW up \in SUBSET Workers,
         ~(Cardinality(up) < (IF Known = {} THEN 1
                              ELSE Min({Cardinality(Workers), Cardinality(Known)})))
  PROVE  up # {}
<1>1. Cardinality(Workers) \in Nat /\ Cardinality(Workers) # 0
  BY FS_CardinalityType, FS_EmptySet, NamesAssumption
<1>2. IsFiniteSet(Known)
  BY FS_Subset, NamesAssumption DEF Known
<1>3. Cardinality(Known) \in Nat /\ (Known # {} => Cardinality(Known) # 0)
  BY <1>2, FS_CardinalityType, FS_EmptySet
<1>4. Min({Cardinality(Workers), Cardinality(Known)}) \in {Cardinality(Workers), Cardinality(Known)}
  <2>1. {Cardinality(Workers), Cardinality(Known)} \subseteq Nat
    BY <1>1, <1>3
  <2> QED BY <2>1, LeastNat
<1>5. up = {} => Cardinality(up) = 0
  BY FS_EmptySet
<1> QED BY <1>1, <1>3, <1>4, <1>5

LEMMA StartWorkersInv ==
  ASSUME IInv, StartWorkers
  PROVE  IInv'
<1> USE DEF stopVars, queueVars, gateVars
<1>1. /\ phase = "scanned" /\ phase' = "running"
      /\ UNCHANGED <<now, stopVars, queueVars, gateVars, holds, clicks>>
  BY DEF StartWorkers
<1>2. PICK up \in SUBSET Workers :
        /\ job' = [w \in Workers |-> IF w \in up THEN Looking ELSE Done]
        /\ failed' = (Cardinality(up) < (IF Known = {} THEN 1
                              ELSE Min({Cardinality(Workers), Cardinality(Known)})))
  BY DEF StartWorkers
<1>3. Looking.state = "looking" /\ Done.state = "done"
  BY DEF Looking, Done, Job
<1>4. \A w \in Workers : /\ job'[w].state = IF w \in up THEN "looking" ELSE "done"
                         /\ job[w].state = "idle"
  BY <1>1, <1>2, <1>3 DEF IInv, Threads
<1>5. TypeOK'
  <2>1. {Looking, Done} \subseteq [state : JobStates, profile : Profiles \cup {NoProfile},
                                   wake : 0 .. MaxTime + Poll]
    BY Numbers DEF Looking, Done, Job, JobStates
  <2>2. job' \in Jobs
    BY <1>2, <2>1 DEF Jobs
  <2>3. failed' \in BOOLEAN
    BY <1>2
  <2> QED BY <1>1, <2>2, <2>3 DEF IInv, TypeOK, Jobs, JobStates, InHandStates
<1>6. Threads(phase', job') /\ BeforeScan(phase', entry', pending', admitted', gate')
  BY <1>1 DEF Threads, BeforeScan
<1>7. Queue(phase', stopping', entry', pending', admitted')
  BY <1>1 DEF IInv, Queue
<1>8. InHand(job', entry')
  <2>1. Held(job, entry)
    BY DEF IInv, InHand
  <2>2. Held(job', entry)
    BY <1>4, <2>1 DEF Held
  <2> QED BY <1>1, <1>4, <2>2 DEF InHand, Holders, Apart, InHandStates
<1>9. Drained((phase = "running" /\ ~failed /\ ~stopping)', pending', job')
  <2>1. ~failed' => up # {}
    BY <1>2, SomebodyStarts
  <2> QED BY <1>4, <2>1 DEF Drained, Somebody
<1>10. Waiting(stopping', gate', entry', leaders', admitted')
  BY <1>1 DEF IInv
<1>11. WaitsFor(gate', job', entry', leaders')
  BY <1>1, <1>4 DEF IInv, WaitsFor, Returning
<1>12. HasItsStart((phase \in {"scanned", "running"} /\ ~stopping)', now', gate', entry', leaders', admitted')
  BY <1>1 DEF IInv, HasItsStart
<1>13. Sleepers(stopping', now', holds', job', entry', gate', pending', leaders')
  BY <1>4 DEF Sleepers
<1> QED BY <1>5, <1>6, <1>7, <1>8, <1>9, <1>10, <1>11, <1>12, <1>13 DEF IInv

LEMMA EndPassInv ==
  ASSUME IInv, EndPass
  PROVE  IInv'
<1>1. /\ phase' = "ended" /\ pending' = <<>> /\ priority' = NoProfile
      /\ gate' = Released(gate, IF stopping THEN "stopped" ELSE "leader_failed")
      /\ stopping' = (stopping /\ ~resumeLater) /\ resumeLater' = FALSE
      /\ UNCHANGED <<now, stops, leaders, admitted, holds, job, clicks>>
      /\ failed' \in BOOLEAN
  BY DEF EndPass, IInv, TypeOK
<1>2. \A w \in Workers : job[w].state \in {"idle", "done"}
  <2>1. phase = "starting" \/ \A w \in Workers : job[w] = Done
    BY DEF EndPass
  <2>2. Done.state = "done"
    BY DEF Done, Job
  <2> QED BY <2>1, <2>2 DEF IInv, Threads
<1>3. \A p \in Profiles : entry'[p] = IF stopping /\ entry[p] \in {"queued", "checking"}
                                      THEN "cancelled" ELSE entry[p]
  BY DEF EndPass
<1>4. GateOK(gate') /\ gate'.state # "waiting"
  <2>1. GateOK(gate) /\ now \in 0 .. MaxTime
    BY DEF IInv, TypeOK, GateOK, Codes
  <2>2. \/ gate' = gate /\ gate.state # "waiting"
        \/ gate' = Gate("released", gate.at, gate.code)
        \/ gate' = Gate("released", now, "stopped")
        \/ gate' = Gate("released", now, "leader_failed")
    BY <1>1 DEF Released
  <2> QED BY <2>1, <2>2, GateIs DEF GateOK, Codes
<1>5. TypeOK'
  <2>1. entry' \in [Profiles -> Launching \cup {"none", "ready", "failed", "cancelled"}]
    BY DEF EndPass, IInv, TypeOK
  <2>2. <<>> \in Seq(Profiles)
    BY EmptySeq
  <2>3. job \in Jobs
    BY DEF IInv, TypeOK, Jobs, JobStates, InHandStates
  <2> QED BY <1>1, <1>4, <2>1, <2>2, <2>3 DEF IInv, TypeOK, Jobs, JobStates, InHandStates, GateOK, Codes
<1>6. Threads(phase', job') /\ BeforeScan(phase', entry', pending', admitted', gate')
  BY <1>1, <1>2 DEF Threads, BeforeScan
<1>7. Queue(phase', stopping', entry', pending', admitted')
  <2>1. \A p \in Profiles : entry'[p] = "queued" => p \notin DOMAIN admitted
    BY <1>3 DEF IInv, Queue
  <2>2. DOMAIN pending' = {}
    BY <1>1
  <2> QED BY <1>1, <2>1, <2>2 DEF Queue
<1>8. InHand(job', entry')
  <2>1. Held(job, entry)
    BY DEF IInv, InHand
  <2>2. \A p \in Profiles : entry'[p] \notin {"checking", "opening"}
    BY <1>2, <1>3, <2>1 DEF Held
  <2> QED BY <1>1, <1>2, <2>2 DEF InHand, Holders, Apart, Held, InHandStates
<1>9. Drained((phase = "running" /\ ~failed /\ ~stopping)', pending', job')
  BY <1>1 DEF Drained
<1>10. Waiting(stopping', gate', entry', leaders', admitted') /\ WaitsFor(gate', job', entry', leaders')
  BY <1>4 DEF Waiting, WaitsFor
<1>11. HasItsStart((phase \in {"scanned", "running"} /\ ~stopping)', now', gate', entry', leaders', admitted')
  BY <1>1 DEF HasItsStart
<1>12. Sleepers(stopping', now', holds', job', entry', gate', pending', leaders')
  BY <1>1, <1>2 DEF Sleepers
<1> QED BY <1>5, <1>6, <1>7, <1>8, <1>9, <1>10, <1>11, <1>12 DEF IInv

-----------------------------------------------------------------------------
(* A round of a worker.                                                    *)

(* Worker w, which holds no launch, has none after it either.              *)
LEMMA LetGo ==
  ASSUME NEW w \in Workers, NEW jobs, NEW others, NEW states,
         InHand(jobs, states), jobs[w].state \notin {"preparing", "opening"},
         others[w].state \notin InHandStates,
         \A v \in Workers : v # w => others[v] = jobs[v]
  PROVE  InHand(others, states)
<1>1. Holders(jobs, states) /\ Apart(jobs) /\ Held(jobs, states)
  BY DEF InHand
<1>2. Holders(others, states)
  BY <1>1 DEF Holders, InHandStates
<1>3. Apart(others)
  BY <1>1 DEF Apart, InHandStates
<1>4. Held(others, states)
  BY <1>1 DEF Held
<1> QED BY <1>2, <1>3, <1>4 DEF InHand

(* Forgetting the holds that are over shortens nobody's sleep.             *)
LEMMA LiveHoldsStay ==
  ASSUME TypeOK, holds' = [t \in LiveHolds |-> holds[t]]
  PROVE  /\ DOMAIN holds' \subseteq 1 .. clicks /\ \A t \in DOMAIN holds' : holds'[t] \in 0 .. MaxTime
         /\ \A wake \in Nat : now < wake /\ ForHold(wake, holds) => ForHold(wake, holds')
<1>1. DOMAIN holds' = LiveHolds /\ \A t \in LiveHolds : holds'[t] = holds[t]
  OBVIOUS
<1>2. now \in Nat /\ \A t \in DOMAIN holds : holds[t] \in 0 .. MaxTime /\ t \in 1 .. clicks
  BY DEF TypeOK
<1> QED BY <1>1, <1>2, Numbers DEF LiveHolds, ForHold

(* A worker that finds nothing pending, or a stop, is done.                *)
LEMMA EndsLookingInv ==
  ASSUME IInv, NEW w \in Workers, job[w].state \in {"looking", "asleep"},
         stopping \/ pending = <<>>,
         job' = [job EXCEPT ![w] = Done],
         UNCHANGED <<queueVars, gateVars, holds, runVars, stopVars, clicks>>
  PROVE  IInv'
<1> USE DEF queueVars, gateVars, runVars, stopVars
<1> DEFINE jobs == [job EXCEPT ![w] = Done]
<1>0. job' = jobs
  OBVIOUS
<1>1. job \in Jobs
  BY DEF IInv, TypeOK, Jobs, JobStates, InHandStates
<1>2. job'[w].state = "done" /\ \A v \in Workers : v # w => job'[v] = job[v]
  BY <1>1 DEF Jobs, Done, Job
<1>3. phase = "running"
  BY DEF IInv, TypeOK, Threads
<1>4. TypeOK'
  <2>1. Done \in [state : JobStates, profile : Profiles \cup {NoProfile}, wake : 0 .. MaxTime + Poll]
    BY Numbers DEF Done, Job, JobStates
  <2>2. job' \in Jobs
    BY <1>1, <2>1 DEF Jobs
  <2> QED BY <2>2 DEF IInv, TypeOK, Jobs, JobStates, InHandStates
<1>5. Threads(phase', job') /\ BeforeScan(phase', entry', pending', admitted', gate')
  BY <1>3 DEF Threads, BeforeScan
<1>6. InHand(job', entry')
  <2>1. job'[w].state \notin InHandStates /\ job[w].state \notin {"preparing", "opening"}
    BY <1>2 DEF InHandStates
  <2>2. InHand(job, entry)
    BY DEF IInv
  <2>3. jobs[w].state \notin InHandStates /\ \A v \in Workers : v # w => jobs[v] = job[v]
    BY <1>0, <1>2, <2>1
  <2>4. InHand(jobs, entry)
    <3> HIDE DEF jobs
    <3> QED BY <2>1, <2>2, <2>3, LetGo
  <2> QED BY <1>0, <2>4
<1>7. Drained((phase = "running" /\ ~failed /\ ~stopping)', pending', job')
  BY DEF Drained
<1>8. Returning(job, leaders) => Returning(job', leaders)
  BY <1>2 DEF Returning
<1>9. WaitsFor(gate', job', entry', leaders')
  BY <1>8 DEF IInv, WaitsFor
<1>10. Sleepers(stopping', now', holds', job', entry', gate', pending', leaders')
  <2>1. ForLimit(job, entry) => ForLimit(job', entry)
    BY <1>2 DEF ForLimit
  <2> QED BY <1>2, <2>1 DEF IInv, Sleepers
<1> QED BY <1>4, <1>5, <1>6, <1>7, <1>9, <1>10 DEF IInv

(* What w waits for when it cannot take a profile now.                     *)
Blocked(until, g, leading, limit) ==
  until = When(LiveHolds # {}, Max({holds[t] : t \in LiveHolds}))
            \cup When(g.state = "waiting" /\ leading = {}, g.at)
            \cup When(Busy >= limit /\ ~(g.state = "waiting" /\ leading # {}), now + Poll)

(* A worker goes to sleep for one of three reasons.                        *)
LEMMA SleepsInv ==
  ASSUME IInv, NEW w \in Workers, job[w].state \in {"looking", "asleep"}, ~stopping, pending # <<>>,
         NEW limit \in ParallelLimits, NEW g, NEW leading, NEW until,
         g = Observed(gate), leading = {p \in Range(pending) : Leading(p)},
         Blocked(until, g, leading, limit), until # {},
         holds' = [t \in LiveHolds |-> holds[t]],
         job' = WokenBy(g, [job EXCEPT ![w] = Job("asleep", NoProfile, Min(until))]),
         gate' = g,
         UNCHANGED <<queueVars, admitted, leaders, runVars, stopVars, clicks>>
  PROVE  IInv'
<1> DEFINE waiting == g.state = "waiting"
           limited == Busy >= limit /\ ~(waiting /\ leading # {})
           wake == Min(until)
           jobs == [job EXCEPT ![w] = Job("asleep", NoProfile, wake)]
           latest == Max({holds[t] : t \in LiveHolds})
<1> USE DEF queueVars, runVars, stopVars
<1>1. /\ job \in Jobs /\ pending \in Seq(Profiles) /\ leaders \in Seq(Profiles) /\ now \in 0 .. MaxTime
      /\ TypeOK
  BY DEF IInv, TypeOK, Jobs, JobStates, InHandStates
<1>2. /\ GateOK(g) /\ (g.state = "none" <=> gate.state = "none")
      /\ Waiting(stopping, g, entry, leaders, admitted)
      /\ WaitsFor(g, job, entry, leaders)
      /\ HasItsStart(phase \in {"scanned", "running"} /\ ~stopping, now, g, entry, leaders, admitted)
  BY ObservedType
<1>3. LiveHolds # {} => \E t \in LiveHolds : latest = holds[t]
  <2>1. {holds[t] : t \in LiveHolds} \subseteq 0 .. MaxTime
    BY <1>1 DEF TypeOK, LiveHolds
  <2>2. LiveHolds # {} => latest \in {holds[t] : t \in LiveHolds}
    <3>1. LiveHolds # {} => {holds[t] : t \in LiveHolds} # {}
      OBVIOUS
    <3> QED BY <2>1, <3>1, GreatestNat, Numbers
  <2> QED BY <2>2
<1>4. \A x \in until : \/ LiveHolds # {} /\ x = latest
                       \/ waiting /\ leading = {} /\ x = g.at
                       \/ limited /\ x = now + Poll
  BY DEF Blocked, When
<1>5. /\ LiveHolds # {} => latest \in until
      /\ waiting /\ leading = {} => g.at \in until
      /\ limited => now + Poll \in until
  BY DEF Blocked, When
<1> HIDE DEF latest
<1>6. until \subseteq 0 .. MaxTime + Poll
  <2>1. LiveHolds # {} => latest \in 0 .. MaxTime
    BY <1>1, <1>3 DEF TypeOK, LiveHolds
  <2>2. g.at \in 0 .. MaxTime
    BY <1>2 DEF GateOK
  <2> QED BY <1>1, <1>4, <2>1, <2>2, Numbers
<1>7. wake \in until /\ \A x \in until : wake <= x
  <2>1. until \subseteq Nat
    BY <1>6
  <2> QED BY <2>1, LeastNat
<1> HIDE DEF wake
<1>8. jobs \in Jobs
  <2>1. wake \in 0 .. MaxTime + Poll
    BY <1>6, <1>7
  <2>2. Job("asleep", NoProfile, wake) \in
          [state : JobStates, profile : Profiles \cup {NoProfile}, wake : 0 .. MaxTime + Poll]
    BY <2>1 DEF Job, JobStates
  <2> QED BY <1>1, <2>2 DEF Jobs
<1>9. /\ jobs[w].state = "asleep" /\ jobs[w].wake = wake
      /\ \A v \in Workers : v # w => jobs[v] = job[v]
  BY <1>1 DEF Jobs, Job
<1>10. job' = WokenBy(g, jobs)
  BY DEF wake
<1> HIDE DEF jobs
<1>11. /\ job' \in Jobs /\ SameWork(jobs, job')
       /\ NobodySleeps(job') \/ (g = gate /\ job' = jobs)
  BY <1>8, <1>10, WokenByIs
<1>12. phase = "running"
  BY DEF IInv, TypeOK, Threads
<1>13. TypeOK'
  <2>1. DOMAIN holds' \subseteq 1 .. clicks /\ \A t \in DOMAIN holds' : holds'[t] \in 0 .. MaxTime
    BY <1>1, LiveHoldsStay
  <2>2. gate' = g
    OBVIOUS
  <2> QED BY <1>1, <1>2, <1>11, <2>1, <2>2 DEF TypeOK, Jobs, JobStates, InHandStates, GateOK, Codes
<1>14. Threads(phase', job') /\ BeforeScan(phase', entry', pending', admitted', gate')
  BY <1>12 DEF Threads, BeforeScan
<1>15. Queue(phase', stopping', entry', pending', admitted')
  BY DEF IInv
<1>16. InHand(job', entry')
  <2>1. InHand(jobs, entry)
    BY <1>9, LetGo DEF IInv, InHandStates
  <2> QED BY <1>11, <2>1, SameWorkKeeps
<1>17. Drained((phase = "running" /\ ~failed /\ ~stopping)', pending', job')
  <2>1. Somebody(jobs)
    BY <1>9 DEF Somebody
  <2> QED BY <1>11, <2>1, SameWorkKeeps DEF Drained
<1>18. Waiting(stopping', gate', entry', leaders', admitted')
  BY <1>2
<1>19. WaitsFor(gate', job', entry', leaders')
  <2>1. Returning(job, leaders) => Returning(jobs, leaders)
    BY <1>9 DEF Returning
  <2> QED BY <1>2, <1>11, <2>1, SameWorkKeeps DEF WaitsFor
<1>20. HasItsStart((phase \in {"scanned", "running"} /\ ~stopping)', now', gate', entry', leaders', admitted')
  BY <1>2
<1>21. Sleepers(stopping', now', holds', job', entry', gate', pending', leaders')
  <2>1. CASE NobodySleeps(job')
    BY <2>1 DEF Sleepers, NobodySleeps
  <2>2. CASE g = gate /\ job' = jobs
    <3>1. \E p \in Profiles : entry[p] # "none"
      <4>1. 1 \in DOMAIN pending /\ pending[1] \in Profiles
        BY <1>1, LenProperties, EmptySeq, ElementOfSeq
      <4>2. entry[pending[1]] # "none"
        BY <4>1 DEF IInv, Queue
      <4> QED BY <4>1, <4>2
    <3>2. ASSUME NEW v \in Workers, v # w, job[v].state = "asleep", now < job[v].wake
          PROVE  \/ ForHold(job[v].wake, holds')
                 \/ ForGate(job[v].wake, g, pending, leaders)
                 \/ ForLimit(jobs, entry) /\ NoLeaderGoes(now, g, pending, leaders)
      <4>1. ForLimit(job, entry) => ForLimit(jobs, entry)
        BY <1>9 DEF ForLimit
      <4>2. job[v].wake \in Nat
        BY <1>1 DEF Jobs
      <4>3. ForHold(job[v].wake, holds) => ForHold(job[v].wake, holds')
        BY <1>1, <3>2, <4>2, LiveHoldsStay
      <4> QED BY <2>2, <3>2, <4>1, <4>3 DEF IInv, Sleepers
    <3>3. \/ ForHold(wake, holds')
          \/ ForGate(wake, g, pending, leaders)
          \/ ForLimit(jobs, entry) /\ NoLeaderGoes(now, g, pending, leaders)
      <4>1. leading = {} <=> ~LeadingPending(pending, leaders)
        <5>1. DOMAIN leaders = 1 .. Len(leaders)
          BY <1>1, LenProperties
        <5> QED BY <5>1 DEF LeadingPending, Leading, Contains, Range
      <4>2. CASE LiveHolds # {}
        <5>1. PICK t \in LiveHolds : latest = holds[t]
          BY <1>3, <4>2
        <5>2. wake <= holds'[t] /\ t \in DOMAIN holds'
          BY <1>5, <1>7, <4>2, <5>1
        <5> QED BY <5>2 DEF ForHold
      <4>3. CASE waiting /\ leading = {}
        BY <1>5, <1>7, <4>1, <4>3 DEF ForGate
      <4>4. CASE limited
        <5>1. limit <= Busy
          BY <4>4
        <5>2. ForLimit(jobs, entry)
          BY <5>1 DEF ForLimit, Busy, BusyIn
        <5>3. NoLeaderGoes(now, g, pending, leaders)
          BY <4>1, <4>4 DEF NoLeaderGoes
        <5> QED BY <5>2, <5>3
      <4> QED BY <1>4, <1>7, <4>2, <4>3, <4>4
    <3> QED BY <1>9, <2>2, <3>1, <3>2, <3>3 DEF Sleepers
  <2> QED BY <1>11, <2>1, <2>2
<1> QED BY <1>13, <1>14, <1>15, <1>16, <1>17, <1>18, <1>19, <1>20, <1>21 DEF IInv

(* Worker w takes p, a queued profile that leads if the gate waits.        *)
Takes(w, p, g, waiting) ==
  LET leads == g.state # "none" /\ Leading(p)
      jobs == [job EXCEPT ![w] = Job("preparing", p, 0)]
  IN /\ \E i \in DOMAIN pending : pending[i] = p
     /\ waiting => Leading(p)
     /\ pending' = RemoveFirst(pending, p) /\ priority' = NoProfile
     /\ entry' = [entry EXCEPT ![p] = "checking"]
     /\ admitted' = IF leads THEN [q \in DOMAIN admitted \cup {p} |->
                                     IF q = p THEN now ELSE admitted[q]]
                    ELSE admitted
     /\ IF leads /\ waiting
        THEN gate' = Scheduled(entry, leaders, admitted', "none") /\ job' = Woken(jobs)
        ELSE gate' = g /\ job' = WokenBy(g, jobs)

(* What a worker takes is queued, and leads while the gate waits.          *)
LEMMA TakeTakes ==
  ASSUME TypeOK, NEW w \in Workers, pending # <<>>, NEW g, NEW waiting, NEW leading,
         leading = {p \in Range(pending) : Leading(p)}, waiting => leading # {},
         Take(w, g, waiting, leading)
  PROVE  \E p : Takes(w, p, g, waiting)
<1> DEFINE choices == IF waiting THEN leading ELSE Range(pending)
           first(S) == pending[Min({i \in DOMAIN pending : pending[i] \in S})]
           rest == IF leading # {} THEN leading ELSE Range(pending)
           p == IF priority \in choices THEN priority ELSE first(rest)
<1>1. Len(pending) \in Nat \ {0} /\ DOMAIN pending = 1 .. Len(pending)
  BY LenProperties, EmptySeq DEF TypeOK
<1>2. rest # {} /\ rest \subseteq Range(pending)
  <2>1. pending[1] \in Range(pending)
    BY <1>1 DEF Range
  <2> QED BY <2>1
<1>3. first(rest) \in rest
  <2> DEFINE places == {i \in DOMAIN pending : pending[i] \in rest}
  <2>1. places # {} /\ places \subseteq Nat
    <3> HIDE DEF rest
    <3> QED BY <1>1, <1>2 DEF Range
  <2>2. Min(places) \in places
    <3> HIDE DEF places
    <3> QED BY <2>1, LeastNat
  <2> QED BY <2>2
<1>4. p \in Range(pending) /\ (waiting => p \in leading)
  BY <1>2, <1>3
<1>5. (\E i \in DOMAIN pending : pending[i] = p) /\ (waiting => Leading(p))
  <2> HIDE DEF p
  <2> QED BY <1>4 DEF Range
<1>6. Takes(w, p, g, waiting)
  BY <1>5, Zenon DEF Take, Takes
<1> QED BY <1>6

(* Launch limits and the launches that are out are numbers.                *)
LEMMA LimitsType == ParallelLimits \subseteq Int
<1>1. Cardinality(Workers) \in Nat
  BY FS_CardinalityType, NamesAssumption
<1>2. \A n \in {2, 3} : Min({Cardinality(Workers), n}) \in Nat
  <2> SUFFICES ASSUME NEW n \in {2, 3} PROVE Min({Cardinality(Workers), n}) \in Nat
    OBVIOUS
  <2>1. {Cardinality(Workers), n} \subseteq Nat
    BY <1>1
  <2> QED BY <2>1, LeastNat
<1> QED BY <1>1, <1>2 DEF ParallelLimits

LEMMA BusyType == BusyIn(entry) \in Nat
<1>1. IsFiniteSet({p \in Profiles : entry[p] \in Taken})
  BY FS_Subset, NamesAssumption
<1> QED BY <1>1, FS_CardinalityType DEF BusyIn

(* A worker takes a profile.                                               *)
LEMMA TakesInv ==
  ASSUME IInv, NEW w \in Workers, job[w].state \in {"looking", "asleep"}, ~stopping,
         NEW g, NEW waiting, g = Observed(gate), waiting <=> g.state = "waiting",
         NEW p, Takes(w, p, g, waiting),
         holds' = [t \in LiveHolds |-> holds[t]],
         UNCHANGED <<leaders, runVars, stopVars, clicks>>
  PROVE  IInv'
<1> DEFINE leads == g.state # "none" /\ Leading(p)
           jobs == [job EXCEPT ![w] = Job("preparing", p, 0)]
<1> USE DEF runVars, stopVars
<1>1. /\ job \in Jobs /\ entry \in [Profiles -> States]
      /\ pending \in Seq(Profiles) /\ leaders \in Seq(Profiles) /\ now \in 0 .. MaxTime
      /\ DOMAIN admitted \subseteq Profiles /\ (\A q \in DOMAIN admitted : admitted[q] \in 0 .. now)
      /\ TypeOK /\ phase = "running"
  BY DEF IInv, TypeOK, Jobs, JobStates, InHandStates, States, Threads
<1>2. /\ GateOK(g) /\ (g.state = "none" <=> gate.state = "none")
      /\ Waiting(stopping, g, entry, leaders, admitted)
      /\ WaitsFor(g, job, entry, leaders)
      /\ HasItsStart(phase \in {"scanned", "running"} /\ ~stopping, now, g, entry, leaders, admitted)
  BY ObservedType
<1>3. /\ \E i \in DOMAIN pending : pending[i] = p
      /\ waiting => Leading(p)
      /\ pending' = RemoveFirst(pending, p) /\ priority' = NoProfile
      /\ entry' = [entry EXCEPT ![p] = "checking"]
      /\ admitted' = IF leads THEN [q \in DOMAIN admitted \cup {p} |->
                                      IF q = p THEN now ELSE admitted[q]]
                     ELSE admitted
      /\ IF leads /\ waiting
         THEN gate' = Scheduled(entry, leaders, admitted', "none") /\ job' = Woken(jobs)
         ELSE gate' = g /\ job' = WokenBy(g, jobs)
  BY DEF Takes
<1>4. p \in Profiles /\ entry[p] = "queued" /\ p \notin DOMAIN admitted
  BY <1>1, <1>3, LenProperties, ElementOfSeq DEF IInv, Queue
<1>5. Leading(p) <=> \E i \in DOMAIN leaders : leaders[i] = p
  BY <1>1, LenProperties DEF Leading, Contains
<1>6. \A q \in Profiles : entry'[q] = IF q = p THEN "checking" ELSE entry[q]
  BY <1>1, <1>3, <1>4
<1>7. \A q \in Profiles : /\ entry'[q] \in Launching <=> entry[q] \in Launching
                          /\ entry'[q] = "ready" <=> entry[q] = "ready"
                          /\ entry'[q] # "none" <=> entry[q] # "none"
                          /\ entry[q] \in Taken => entry'[q] \in Taken
  BY <1>4, <1>6 DEF Launching, Taken
<1>8. /\ \A q \in DOMAIN admitted : q \in DOMAIN admitted' /\ admitted'[q] = admitted[q]
      /\ DOMAIN admitted' \subseteq Profiles /\ (\A q \in DOMAIN admitted' : admitted'[q] \in 0 .. now)
      /\ DOMAIN admitted' \subseteq DOMAIN admitted \cup {p}
      /\ ~leads => admitted' = admitted
  BY <1>1, <1>3, <1>4
<1>9. /\ \A i \in DOMAIN leaders : leaders[i] \in Profiles
      /\ \A i \in DOMAIN pending : pending[i] \in Profiles
      /\ DOMAIN leaders = 1 .. Len(leaders) /\ Len(leaders) \in Nat
      /\ leaders # <<>> => Len(leaders) \in DOMAIN leaders
  BY <1>1, LenProperties, ElementOfSeq, EmptySeq
<1> HIDE DEF leads
<1>10. jobs \in Jobs
  <2>1. Job("preparing", p, 0) \in
          [state : JobStates, profile : Profiles \cup {NoProfile}, wake : 0 .. MaxTime + Poll]
    BY <1>4, Numbers DEF Job, JobStates, InHandStates
  <2> QED BY <1>1, <2>1 DEF Jobs
<1>11. /\ jobs[w].state = "preparing" /\ jobs[w].profile = p
       /\ \A v \in Workers : v # w => jobs[v] = job[v]
  BY <1>1 DEF Jobs, Job
<1> HIDE DEF jobs
<1>12. /\ job' \in Jobs /\ SameWork(jobs, job')
       /\ NobodySleeps(job') \/ (gate' = gate /\ g = gate /\ job' = jobs)
  BY <1>3, <1>10, WokenIs, WokenByIs
<1>13. /\ GateOK(gate') /\ (gate.state = "none" => gate'.state = "none")
       /\ gate'.state = "waiting" => g.state = "waiting" /\ Dated(gate', entry, leaders, admitted')
       /\ HasItsStart(phase \in {"scanned", "running"} /\ ~stopping, now, gate', entry', leaders, admitted')
  <2>1. Awaited(now, entry', leaders, admitted') => Awaited(now, entry, leaders, admitted)
    <3> SUFFICES ASSUME leaders # <<>>, Awaited(now, entry', leaders, admitted')
                 PROVE  Awaited(now, entry, leaders, admitted)
      BY DEF Awaited
    <3>1. leaders[Len(leaders)] \in Profiles
      BY <1>9
    <3> QED BY <1>7, <1>8, <3>1 DEF Awaited
  <2>2. Awaited(now, entry', leaders, admitted') => Awaited(now, entry, leaders, admitted')
    <3> SUFFICES ASSUME leaders # <<>>, Awaited(now, entry', leaders, admitted')
                 PROVE  Awaited(now, entry, leaders, admitted')
      BY DEF Awaited
    <3>1. leaders[Len(leaders)] \in Profiles
      BY <1>9
    <3> QED BY <1>7, <3>1 DEF Awaited
  <2>3. CASE leads /\ waiting
    <3>1. gate' = Scheduled(entry, leaders, admitted', "none")
      BY <1>3, <2>3
    <3>2. \A q \in DOMAIN admitted' : admitted'[q] \in Nat
      BY <1>1, <1>8
    <3>3. /\ GateOK(gate')
          /\ gate'.state = "waiting" => Dated(gate', entry, leaders, admitted')
          /\ HasItsStart(phase \in {"scanned", "running"} /\ ~stopping, now, gate', entry, leaders, admitted')
      BY <1>1, <3>1, <3>2, ScheduledType
    <3>4. gate.state # "none"
      BY <1>2, <2>3
    <3> QED BY <2>2, <2>3, <3>3, <3>4 DEF HasItsStart
  <2>4. CASE ~(leads /\ waiting)
    <3>1. gate' = g
      BY <1>3, <2>4
    <3>2. g.state = "waiting" => ~leads
      BY <2>4
    <3>3. g.state = "waiting" => Dated(g, entry, leaders, admitted')
      BY <1>2, <1>8, <3>2 DEF Waiting
    <3>4. HasItsStart(phase \in {"scanned", "running"} /\ ~stopping, now, g, entry', leaders, admitted')
      BY <1>2, <1>8, <2>1, <3>2 DEF HasItsStart
    <3> QED BY <1>2, <3>1, <3>3, <3>4
  <2> QED BY <2>3, <2>4
<1>14. TypeOK'
  <2>1. DOMAIN holds' \subseteq 1 .. clicks /\ \A t \in DOMAIN holds' : holds'[t] \in 0 .. MaxTime
    BY <1>1, LiveHoldsStay
  <2>2. entry' \in [Profiles -> States]
    BY <1>1, <1>3, <1>4 DEF States, Launching
  <2>3. pending' \in Seq(Profiles)
    BY <1>1, <1>3, RemoveFirstType
  <2>4. /\ clicks' = clicks /\ now' = now /\ phase' = phase /\ failed' = failed /\ leaders' = leaders
        /\ stopping' = stopping /\ resumeLater' = resumeLater /\ stops' = stops
        /\ priority' = NoProfile
    BY <1>3
  <2> QED BY <1>1, <1>8, <1>12, <1>13, <2>1, <2>2, <2>3, <2>4
          DEF TypeOK, Jobs, JobStates, InHandStates, GateOK, Codes, States
<1>15. Threads(phase', job') /\ BeforeScan(phase', entry', pending', admitted', gate')
  BY <1>1 DEF Threads, BeforeScan
<1>16. Queue(phase', stopping', entry', pending', admitted')
  <2>1. \A i, j \in DOMAIN pending : pending[i] = pending[j] => i = j
    BY DEF IInv, Queue
  <2>2. /\ \A k \in DOMAIN pending' : \E i \in DOMAIN pending : pending[i] = pending'[k]
        /\ \A i \in DOMAIN pending : pending[i] # p => \E k \in DOMAIN pending' : pending'[k] = pending[i]
        /\ \A k \in DOMAIN pending' : pending'[k] # p
        /\ \A k, m \in DOMAIN pending' : pending'[k] = pending'[m] => k = m
    BY <1>1, <1>3, <2>1, RemoveFirstType
  <2>3. \A k \in DOMAIN pending' :
          entry'[pending'[k]] = "queued" \/ (stopping /\ entry'[pending'[k]] = "cancelled")
    <3> SUFFICES ASSUME NEW k \in DOMAIN pending'
                 PROVE  entry'[pending'[k]] = "queued" \/ (stopping /\ entry'[pending'[k]] = "cancelled")
      OBVIOUS
    <3>1. PICK i \in DOMAIN pending : pending[i] = pending'[k]
      BY <2>2
    <3>2. entry'[pending'[k]] = entry[pending[i]]
      BY <1>6, <1>9, <2>2, <3>1
    <3> QED BY <3>2 DEF IInv, Queue
  <2>4. \A q \in Profiles : entry'[q] = "queued" =>
          q \notin DOMAIN admitted' /\ \E k \in DOMAIN pending' : pending'[k] = q
    <3> SUFFICES ASSUME NEW q \in Profiles, entry'[q] = "queued"
                 PROVE  q \notin DOMAIN admitted' /\ \E k \in DOMAIN pending' : pending'[k] = q
      OBVIOUS
    <3>1. q # p /\ entry[q] = "queued"
      BY <1>6
    <3>2. q \notin DOMAIN admitted /\ \E i \in DOMAIN pending : pending[i] = q
      BY <1>1, <3>1 DEF IInv, Queue
    <3> QED BY <1>8, <2>2, <3>1, <3>2
  <2> QED BY <1>1, <2>2, <2>3, <2>4 DEF Queue
<1>17. InHand(job', entry')
  <2>1. Holders(job, entry) /\ Apart(job) /\ Held(job, entry)
    BY DEF IInv, InHand
  <2>2. \A v \in Workers : job[v].state \in {"preparing", "opening"} => job[v].profile # p
    BY <1>4, <2>1 DEF Holders
  <2>3. Holders(jobs, entry')
    BY <1>4, <1>6, <1>11, <2>1, <2>2 DEF Holders, InHandStates
  <2>4. Apart(jobs)
    BY <1>11, <2>1, <2>2 DEF Apart
  <2>5. Held(jobs, entry')
    BY <1>4, <1>6, <1>11, <2>1 DEF Held
  <2>6. InHand(jobs, entry')
    BY <2>3, <2>4, <2>5 DEF InHand
  <2> QED BY <1>12, <2>6, SameWorkKeeps
<1>18. Drained((phase = "running" /\ ~failed /\ ~stopping)', pending', job')
  <2>1. Somebody(jobs)
    BY <1>11 DEF Somebody
  <2> QED BY <1>12, <2>1, SameWorkKeeps DEF Drained
<1>19. Waiting(stopping', gate', entry', leaders', admitted')
  <2>1. \A i \in DOMAIN leaders : NoneNewer(i, entry, leaders) => NoneNewer(i, entry', leaders)
    BY <1>7, <1>9 DEF NoneNewer
  <2>2. Dated(gate', entry, leaders, admitted') => Dated(gate', entry', leaders, admitted')
    BY <2>1 DEF Dated, SpentAt
  <2>3. g.state = "waiting" => ~stopping /\ leaders # <<>> /\ \E q \in Profiles : entry'[q] # "none"
    BY <1>2, <1>7 DEF Waiting
  <2> QED BY <1>13, <2>2, <2>3 DEF Waiting
<1>20. WaitsFor(gate', job', entry', leaders')
  <2>1. Returning(job, leaders) => Returning(jobs, leaders)
    BY <1>11 DEF Returning
  <2>2. Returning(jobs, leaders) => Returning(job', leaders)
    BY <1>12, SameWorkKeeps
  <2>3. leaders # <<>> /\ StillOut(entry, leaders) => StillOut(entry', leaders)
    BY <1>7, <1>9 DEF StillOut
  <2> QED BY <1>2, <1>13, <2>1, <2>2, <2>3 DEF WaitsFor, Waiting
<1>21. HasItsStart((phase \in {"scanned", "running"} /\ ~stopping)', now', gate', entry', leaders', admitted')
  BY <1>13
<1>22. Sleepers(stopping', now', holds', job', entry', gate', pending', leaders')
  <2>1. CASE NobodySleeps(job')
    BY <2>1 DEF Sleepers, NobodySleeps
  <2>2. CASE gate' = gate /\ job' = jobs
    <3>1. LeadingPending(pending', leaders) => LeadingPending(pending, leaders)
      BY <1>1, <1>3, RemoveFirstType DEF LeadingPending
    <3>2. BusyIn(entry) <= BusyIn(entry') /\ BusyIn(entry) \in Nat /\ BusyIn(entry') \in Nat
      <4> DEFINE before == {q \in Profiles : entry[q] \in Taken}
                 after == {q \in Profiles : entry'[q] \in Taken}
      <4>1. IsFiniteSet(after) /\ before \subseteq after
        BY <1>7, FS_Subset, NamesAssumption
      <4>2. IsFiniteSet(before) /\ Cardinality(before) <= Cardinality(after)
        BY <4>1, FS_Subset
      <4> QED BY <4>1, <4>2, FS_CardinalityType DEF BusyIn
    <3>3. ParallelLimits \subseteq Int
      BY LimitsType
    <3>4. ForLimit(job, entry) => ForLimit(jobs, entry')
      <4>1. ASSUME NEW limit \in ParallelLimits, limit <= BusyIn(entry)
            PROVE  limit <= BusyIn(entry')
        <5>1. limit \in Int
          BY <3>3
        <5> HIDE DEF BusyIn
        <5> QED BY <3>2, <4>1, <5>1
      <4> QED BY <1>11, <4>1 DEF ForLimit
    <3>5. \A v \in Workers : job[v].wake \in Nat
      BY <1>1 DEF Jobs
    <3>6. \A v \in Workers : now < job[v].wake /\ ForHold(job[v].wake, holds) => ForHold(job[v].wake, holds')
      BY <1>1, <3>5, LiveHoldsStay
    <3>7. \A v \in Workers : jobs[v].state = "asleep" => v # w /\ jobs[v] = job[v]
      BY <1>11
    <3> QED BY <1>7, <2>2, <3>1, <3>4, <3>6, <3>7 DEF IInv, Sleepers, ForGate, NoLeaderGoes
  <2> QED BY <1>12, <2>1, <2>2
<1> QED BY <1>14, <1>15, <1>16, <1>17, <1>18, <1>19, <1>20, <1>21, <1>22 DEF IInv

(* What a round of a worker comes to.                                      *)
LEMMA LookIs ==
  ASSUME TypeOK, NEW w \in Workers, Look(w)
  PROVE  LET g == Observed(gate)
             leading == {p \in Range(pending) : Leading(p)}
         IN /\ job[w].state \in {"looking", "asleep"}
            /\ UNCHANGED <<leaders, runVars, stopVars, clicks>>
            /\ \/ /\ stopping \/ pending = <<>>
                  /\ job' = [job EXCEPT ![w] = Done]
                  /\ UNCHANGED <<queueVars, gateVars, holds>>
               \/ /\ ~stopping /\ pending # <<>> /\ holds' = [t \in LiveHolds |-> holds[t]]
                  /\ \/ \E p : Takes(w, p, g, g.state = "waiting")
                     \/ \E limit \in ParallelLimits : \E until :
                          /\ Blocked(until, g, leading, limit) /\ until # {}
                          /\ job' = WokenBy(g, [job EXCEPT ![w] = Job("asleep", NoProfile, Min(until))])
                          /\ gate' = g /\ UNCHANGED <<queueVars, admitted>>
<1>1. /\ job[w].state \in {"looking", "asleep"}
      /\ UNCHANGED <<leaders, runVars, stopVars, clicks>>
  BY DEF Look, gateVars
<1>2. CASE stopping \/ pending = <<>>
  <2>1. job' = [job EXCEPT ![w] = Done] /\ UNCHANGED <<queueVars, gateVars, holds>>
    BY <1>2 DEF Look
  <2> QED BY <1>1, <1>2, <2>1
<1>3. CASE ~(stopping \/ pending = <<>>)
  <2> DEFINE g == Observed(gate)
             waiting == g.state = "waiting"
             leading == {p \in Range(pending) : Leading(p)}
             limited(limit) == Busy >= limit /\ ~(waiting /\ leading # {})
             until(limit) == When(LiveHolds # {}, Max({holds[t] : t \in LiveHolds}))
                               \cup When(waiting /\ leading = {}, g.at)
                               \cup When(limited(limit), now + Poll)
  <2>1. PICK limit \in ParallelLimits :
          /\ holds' = [t \in LiveHolds |-> holds[t]]
          /\ \/ until(limit) = {} /\ Take(w, g, waiting, leading)
             \/ /\ until(limit) # {}
                /\ job' = WokenBy(g, [job EXCEPT ![w] =
                                        Job("asleep", NoProfile, Min(until(limit)))])
                /\ gate' = g
                /\ UNCHANGED <<queueVars, admitted>>
          /\ UNCHANGED leaders
    BY <1>3, Zenon DEF Look
  <2>2. CASE until(limit) = {} /\ Take(w, g, waiting, leading)
    <3>1. waiting => leading # {}
      BY <2>2 DEF When
    <3>2. \E p : Takes(w, p, g, waiting)
      <4> HIDE DEF g, waiting
      <4> QED BY <1>3, <2>2, <3>1, TakeTakes
    <3> QED BY <1>1, <1>3, <2>1, <3>2, Zenon
  <2>3. CASE /\ until(limit) # {}
             /\ job' = WokenBy(g, [job EXCEPT ![w] =
                                     Job("asleep", NoProfile, Min(until(limit)))])
             /\ gate' = g
             /\ UNCHANGED <<queueVars, admitted>>
    <3> DEFINE times == until(limit)
    <3>1. Blocked(times, g, leading, limit)
      BY DEF Blocked
    <3>2. /\ times # {} /\ gate' = g /\ UNCHANGED <<queueVars, admitted>>
          /\ job' = WokenBy(g, [job EXCEPT ![w] = Job("asleep", NoProfile, Min(times))])
      BY <2>3
    <3> HIDE DEF times
    <3> QED BY <1>1, <1>3, <2>1, <3>1, <3>2, Zenon
  <2> QED BY <2>1, <2>2, <2>3
<1> QED BY <1>2, <1>3

LEMMA LookInv ==
  ASSUME IInv, NEW w \in Workers, Look(w)
  PROVE  IInv'
<1> DEFINE g == Observed(gate)
           leading == {p \in Range(pending) : Leading(p)}
<1>1. /\ job[w].state \in {"looking", "asleep"}
      /\ UNCHANGED <<leaders, runVars, stopVars, clicks>>
      /\ \/ /\ stopping \/ pending = <<>>
            /\ job' = [job EXCEPT ![w] = Done]
            /\ UNCHANGED <<queueVars, gateVars, holds>>
         \/ /\ ~stopping /\ pending # <<>> /\ holds' = [t \in LiveHolds |-> holds[t]]
            /\ \/ \E p : Takes(w, p, g, g.state = "waiting")
               \/ \E limit \in ParallelLimits : \E until :
                    /\ Blocked(until, g, leading, limit) /\ until # {}
                    /\ job' = WokenBy(g, [job EXCEPT ![w] = Job("asleep", NoProfile, Min(until))])
                    /\ gate' = g /\ UNCHANGED <<queueVars, admitted>>
  BY LookIs, Zenon DEF IInv
<1>2. g = Observed(gate) /\ leading = {p \in Range(pending) : Leading(p)}
  OBVIOUS
<1> HIDE DEF g, leading
<1>3. CASE /\ stopping \/ pending = <<>>
           /\ job' = [job EXCEPT ![w] = Done]
           /\ UNCHANGED <<queueVars, gateVars, holds>>
  <2>1. UNCHANGED <<queueVars, gateVars, holds, runVars, stopVars, clicks>>
    BY <1>1, <1>3
  <2> QED BY <1>1, <1>3, <2>1, EndsLookingInv
<1>4. CASE /\ ~stopping /\ pending # <<>> /\ holds' = [t \in LiveHolds |-> holds[t]]
           /\ \E p : Takes(w, p, g, g.state = "waiting")
  <2> DEFINE waiting == g.state = "waiting"
  <2>1. PICK p : Takes(w, p, g, waiting)
    BY <1>4
  <2>2. UNCHANGED <<leaders, runVars, stopVars, clicks>>
    BY <1>1
  <2>3. waiting <=> g.state = "waiting"
    OBVIOUS
  <2> HIDE DEF waiting
  <2> QED BY <1>1, <1>2, <1>4, <2>1, <2>2, <2>3, TakesInv
<1>5. CASE /\ ~stopping /\ pending # <<>> /\ holds' = [t \in LiveHolds |-> holds[t]]
           /\ \E limit \in ParallelLimits : \E until :
                /\ Blocked(until, g, leading, limit) /\ until # {}
                /\ job' = WokenBy(g, [job EXCEPT ![w] = Job("asleep", NoProfile, Min(until))])
                /\ gate' = g /\ UNCHANGED <<queueVars, admitted>>
  <2>1. PICK limit \in ParallelLimits : \E until :
          /\ Blocked(until, g, leading, limit) /\ until # {}
          /\ job' = WokenBy(g, [job EXCEPT ![w] = Job("asleep", NoProfile, Min(until))])
          /\ gate' = g /\ UNCHANGED <<queueVars, admitted>>
    BY <1>5
  <2>2. PICK until :
          /\ Blocked(until, g, leading, limit) /\ until # {}
          /\ job' = WokenBy(g, [job EXCEPT ![w] = Job("asleep", NoProfile, Min(until))])
          /\ gate' = g /\ UNCHANGED <<queueVars, admitted>>
    BY <2>1
  <2>3. UNCHANGED <<queueVars, admitted, leaders, runVars, stopVars, clicks>>
    BY <1>1, <2>2
  <2> QED BY <1>1, <1>2, <1>5, <2>2, <2>3, SleepsInv
<1> QED BY <1>1, <1>3, <1>4, <1>5

-----------------------------------------------------------------------------
(* Every step keeps the invariant.                                         *)
LEMMA NextInv ==
  ASSUME IInv, [Next]_vars
  PROVE  IInv'
<1>1. CASE UNCHANGED vars
  <2>1. /\ now' = now /\ phase' = phase /\ failed' = failed /\ stopping' = stopping
        /\ resumeLater' = resumeLater /\ entry' = entry /\ pending' = pending
        /\ priority' = priority /\ leaders' = leaders /\ admitted' = admitted /\ gate' = gate
        /\ holds' = holds /\ job' = job /\ clicks' = clicks /\ stops' = stops
    BY <1>1 DEF vars
  <2>2. TypeOK'
    BY <2>1 DEF IInv, TypeOK
  <2>3. Sleepers(stopping', now', holds', job', entry', gate', pending', leaders')
    BY <2>1 DEF IInv
  <2> QED BY <2>1, <2>2, <2>3 DEF IInv
<1>2. CASE \E leader \in Profiles \cup {NoProfile} : Start(leader)
  BY <1>2, StartInv
<1>3. CASE Pass
  BY <1>3, ScanInv, StartWorkersInv, EndPassInv DEF Pass
<1>4. CASE Hold \/ Shutdown \/ Resume \/ Tick
  BY <1>4, HoldInv, ShutdownInv, ResumeInv, TickInv
<1>5. CASE \E w \in Workers : Work(w)
  BY <1>5, LookInv, LaunchInv, ReturnInv DEF Work
<1>6. CASE \E p \in Profiles : Prioritize(p) \/ Promote(p)
  BY <1>6, ClickInv
<1>7. CASE \E t \in 1 .. MaxClicks : ReleaseHold(t)
  BY <1>7, ReleaseHoldInv
<1> QED BY <1>1, <1>2, <1>3, <1>4, <1>5, <1>6, <1>7 DEF Next

(* Only the pass itself moves on, and only workers and exits change entries. *)
LEMMA PhaseMoves ==
  ASSUME [Next]_vars
  PROVE  \/ phase = "new" /\ phase' \in {"starting", "ended"} /\ failed' = (phase' = "ended")
         \/ Scan \/ StartWorkers \/ EndPass
         \/ /\ phase' = phase /\ failed' = failed
            /\ entry' = entry \/ Shutdown \/ \E w \in Workers : job[w].state \notin {"idle", "done"}
<1> USE DEF runVars, queueVars
<1>1. CASE UNCHANGED vars
  BY <1>1 DEF vars
<1>2. CASE \E leader \in Profiles \cup {NoProfile} : Start(leader)
  BY <1>2 DEF Start
<1>3. CASE Pass
  BY <1>3 DEF Pass
<1>4. CASE Hold \/ Shutdown \/ Resume \/ Tick
  BY <1>4 DEF Hold, Shutdown, Resume, Tick
<1>5. ASSUME NEW w \in Workers, Work(w)
      PROVE  /\ phase' = phase /\ failed' = failed
             /\ job[w].state \notin {"idle", "done"}
  BY <1>5, Zenon DEF Work, Look, Refuse, Open, Launched, Return
<1>6. CASE \E p \in Profiles : Prioritize(p) \/ Promote(p)
  BY <1>6, Zenon DEF Prioritize, Promote
<1>7. CASE \E t \in 1 .. MaxClicks : ReleaseHold(t)
  BY <1>7 DEF ReleaseHold
<1> QED BY <1>1, <1>2, <1>3, <1>4, <1>5, <1>6, <1>7 DEF Next

(* A pass whose threads started has finished every launch when it ends.    *)
Finished(ph, fail, states) ==
  ph = "ended" /\ ~fail => \A p \in Profiles : states[p] \notin Launching

LEMMA NextFinished ==
  ASSUME IInv, Finished(phase, failed, entry), [Next]_vars
  PROVE  Finished(phase', failed', entry')
<1> SUFFICES ASSUME phase' = "ended", ~failed', NEW p \in Profiles, entry'[p] \in Launching
             PROVE  FALSE
  BY DEF Finished
<1>1. entry \in [Profiles -> States]
  BY DEF IInv, TypeOK, States, Launching
<1>2. CASE phase = "ended"
  <2>1. /\ failed' = failed
        /\ entry' = entry \/ Shutdown
        /\ \A w \in Workers : job[w].state \in {"idle", "done"}
    BY <1>2, PhaseMoves DEF IInv, Threads, Scan, StartWorkers, EndPass
  <2>2. entry[p] \notin Launching
    BY <1>2, <2>1 DEF Finished
  <2>3. CASE Shutdown
    BY <2>2, <2>3 DEF Shutdown, Launching
  <2> QED BY <2>1, <2>2, <2>3
<1>3. CASE phase # "ended"
  <2>1. EndPass
    BY <1>3, PhaseMoves DEF Scan, StartWorkers
  <2>2. entry'[p] = IF stopping /\ entry[p] \in {"queued", "checking"} THEN "cancelled" ELSE entry[p]
    BY <2>1 DEF EndPass
  <2>3. CASE phase = "starting"
    BY <2>2, <2>3 DEF IInv, BeforeScan, Launching
  <2>4. CASE phase = "running" /\ \A w \in Workers : job[w] = Done
    <3>1. entry[p] \notin {"checking", "opening"}
      BY <2>4 DEF IInv, InHand, Held, Done, Job
    <3>2. entry[p] = "queued" /\ ~stopping
      BY <2>2, <3>1 DEF Launching
    <3>3. pending # <<>>
      <4>1. \E i \in DOMAIN pending : pending[i] = p
        BY <2>4, <3>2 DEF IInv, Queue
      <4> QED BY <4>1
    <3>4. ~failed
      BY <2>1, <2>4 DEF EndPass
    <3> QED BY <2>4, <3>2, <3>3, <3>4 DEF IInv, Drained, Somebody, Done, Job
  <2> QED BY <2>1, <2>3, <2>4 DEF EndPass
<1> QED BY <1>2, <1>3

(* The strengthening that every other theorem follows from holds always.   *)
THEOREM Inductive == Spec => [](IInv /\ Finished(phase, failed, entry))
<1>1. Init => IInv /\ Finished(phase, failed, entry)
  BY InitInv DEF Init, Finished
<1>2. IInv /\ Finished(phase, failed, entry) /\ [Next]_vars
        => IInv' /\ Finished(phase', failed', entry')
  BY NextInv, NextFinished
<1>3. (IInv /\ Finished(phase, failed, entry))' <=> IInv' /\ Finished(phase', failed', entry')
  BY DEF Finished
<1> QED BY <1>1, <1>2, <1>3, PTL DEF Spec

(* The variables keep their kinds of values.                               *)
THEOREM TypeCorrect == Spec => []TypeOK
BY Inductive, PTL DEF IInv

(* Each reason to sleep excludes that something can be taken.              *)
LEMMA AwakeInTime == ASSUME IInv PROVE NoLostWakeup
<1>1. /\ now \in Int /\ Len(leaders) \in Nat /\ DOMAIN leaders = 1 .. Len(leaders)
      /\ \A w \in Workers : job[w].wake \in Int
      /\ \A t \in DOMAIN holds : holds[t] \in Int
      /\ gate.at \in Int
  BY LenProperties DEF IInv, TypeOK
<1>2. LeadingPending(pending, leaders) <=> \E p \in Range(pending) : Leading(p)
  BY <1>1 DEF LeadingPending, Leading, Contains, Range
<1> SUFFICES ASSUME stopping \/ (Takeable /\ \A w \in Workers : job[w].state # "returned"),
                    NEW w \in Workers, job[w].state = "asleep", now < job[w].wake
             PROVE  FALSE
  BY DEF NoLostWakeup
<1>3. /\ ~stopping
      /\ \/ ForHold(job[w].wake, holds)
         \/ ForGate(job[w].wake, gate, pending, leaders)
         \/ ForLimit(job, entry) /\ NoLeaderGoes(now, gate, pending, leaders)
  BY DEF IInv, Sleepers
<1>4. /\ Takeable /\ \A v \in Workers : job[v].state # "returned"
  BY <1>3
<1>5. CASE ForHold(job[w].wake, holds)
  BY <1>1, <1>4, <1>5 DEF ForHold, Takeable, LiveHolds
<1>6. CASE ForGate(job[w].wake, gate, pending, leaders)
  BY <1>1, <1>2, <1>4, <1>6 DEF ForGate, Takeable
<1>7. CASE ForLimit(job, entry) /\ NoLeaderGoes(now, gate, pending, leaders)
  <2>1. PICK limit \in ParallelLimits : limit <= BusyIn(entry)
    BY <1>4, <1>7 DEF ForLimit
  <2>2. Busy \in Int /\ ParallelLimits \subseteq Int
    BY BusyType, LimitsType DEF Busy, BusyIn
  <2>3. ~(Busy < limit) 
    BY <2>1, <2>2 DEF Busy, BusyIn
  <2>4. gate.state = "waiting" /\ now < gate.at /\ \E p \in Range(pending) : Leading(p)
    BY <1>4, <2>3 DEF Takeable
  <2> QED BY <1>2, <1>7, <2>4 DEF NoLeaderGoes
<1> QED BY <1>3, <1>5, <1>6, <1>7

(* No lost wake-up: no worker sleeps through a stop, nor past the moment it *)
(* could take a profile unless a return that wakes it is on its way. What  *)
(* it waits for -- a hold, the deadline, a launch that is out -- is what   *)
(* notifies it (_next, release, _drain).                              *)
THEOREM WakeUps == Spec => []NoLostWakeup
BY Inductive, AwakeInTime, PTL

LEMMA LeaderAwaited == ASSUME IInv PROVE HeldForLeader
<1> SUFFICES ASSUME gate.state = "waiting"
             PROVE  HeldForLeader
  BY DEF HeldForLeader
<1>1. DOMAIN leaders = 1 .. Len(leaders)
  BY LenProperties DEF IInv, TypeOK
<1>2. CASE Returning(job, leaders)
  BY <1>1, <1>2 DEF Returning, HeldForLeader, Leading, Contains
<1>3. CASE StillOut(entry, leaders)
  BY <1>3 DEF StillOut, HeldForLeader, Last
<1> QED BY <1>2, <1>3 DEF IInv, WaitsFor

(* The gate holds the others for the sake of a leader: its launch is out or *)
(* its return, which opens the gate, is on its way (_settle, _schedule).   *)
THEOREM HeldForALeader == Spec => []HeldForLeader
BY Inductive, LeaderAwaited, PTL

(* A gate still waiting, or a launch still out, would be in a done hand.   *)
LEMMA PassSettles == ASSUME IInv, Finished(phase, failed, entry) PROVE PassSettled
<1> SUFFICES ASSUME phase = "running", ~failed, \A w \in Workers : job[w] = Done,
                    gate.state = "waiting"
             PROVE  FALSE
  BY DEF PassSettled, Finished
<1>1. \A w \in Workers : job[w].state = "done"
  BY DEF Done, Job
<1>2. ~stopping /\ leaders # <<>> /\ StillOut(entry, leaders)
  BY <1>1 DEF IInv, Waiting, WaitsFor, Returning
<1>3. \E i \in DOMAIN leaders : entry[leaders[i]] \in Launching
  <2>1. leaders \in Seq(Profiles)
    BY DEF IInv, TypeOK
  <2>2. Len(leaders) \in DOMAIN leaders
    BY <1>2, <2>1, LenProperties, EmptySeq
  <2> QED BY <1>2, <2>2 DEF StillOut
<1>4. PICK p \in Profiles : entry[p] \in Launching
  <2>1. \A i \in DOMAIN leaders : leaders[i] \in Profiles
    BY LenProperties, ElementOfSeq DEF IInv, TypeOK
  <2> QED BY <1>3, <2>1
<1>5. entry[p] = "queued"
  BY <1>1, <1>4 DEF IInv, InHand, Held, Launching
<1>6. \E i \in DOMAIN pending : pending[i] = p
  BY <1>5 DEF IInv, Queue
<1>7. pending # <<>>
  BY <1>6
<1> QED BY <1>1, <1>2, <1>7 DEF IInv, Drained, Somebody

(* By the time the workers are done every leader has opened the gate, and  *)
(* a pass that ends leaves no entry unfinished, whatever was clicked,      *)
(* stopped or resumed (the comment of line 421 and the end of _run).       *)
THEOREM PassSettlesAll == Spec => []PassSettled
BY Inductive, PassSettles, PTL

-----------------------------------------------------------------------------
(* What may be taken, and when the gate opens.                             *)

(* An entry turns from queued to checking in the hand of a worker only.    *)
LEMMA OnlyTaken ==
  ASSUME IInv, [Next]_vars, NEW p \in Profiles, entry[p] = "queued", entry'[p] = "checking"
  PROVE  /\ phase = "running" /\ ~stopping
         /\ LET g == Observed(gate)
            IN g.state = "waiting" => Leading(p)
<1>1. entry \in [Profiles -> States] /\ TypeOK
  BY DEF IInv, TypeOK, States, Launching
<1>2. CASE UNCHANGED vars
  BY <1>2 DEF vars
<1>3. CASE \E leader \in Profiles \cup {NoProfile} : Start(leader)
  BY <1>3 DEF Start, queueVars
<1>4. CASE Pass
  BY <1>4 DEF Pass, Scan, StartWorkers, EndPass, queueVars
<1>5. CASE Hold \/ Shutdown \/ Resume \/ Tick
  BY <1>5 DEF Hold, Shutdown, Resume, Tick, queueVars
<1>6. ASSUME NEW w \in Workers, Look(w)
      PROVE  /\ phase = "running" /\ ~stopping
             /\ LET g == Observed(gate)
                IN g.state = "waiting" => Leading(p)
  <2> DEFINE g == Observed(gate)
             waiting == g.state = "waiting"
  <2>1. /\ job[w].state \in {"looking", "asleep"}
        /\ entry' = entry \/ (~stopping /\ \E q : Takes(w, q, g, waiting))
    BY <1>1, <1>6, LookIs, Zenon DEF queueVars
  <2>2. PICK q : Takes(w, q, g, waiting)
    BY <2>1
  <2>3. entry' = [entry EXCEPT ![q] = "checking"] /\ (waiting => Leading(q))
    BY <2>2, Zenon DEF Takes
  <2>4. q = p
    BY <1>1, <2>3
  <2>5. phase = "running"
    BY <2>1 DEF IInv, TypeOK, Threads
  <2> QED BY <2>1, <2>3, <2>4, <2>5
<1>7. ASSUME NEW w \in Workers, Refuse(w) \/ Open(w) \/ Launched(w) \/ Return(w)
      PROVE  FALSE
  <2>1. \/ \E state \in {"ready", "failed", "cancelled", "opening"} :
             entry' = [entry EXCEPT ![job[w].profile] = state]
        \/ entry' = entry
    <3>1. CASE Refuse(w)
      BY <3>1, Zenon DEF Refuse
    <3>2. CASE Open(w)
      <4>1. entry' = [entry EXCEPT ![job[w].profile] = IF stopping THEN "cancelled" ELSE "opening"]
        BY <3>2, Zenon DEF Open
      <4> QED BY <4>1
    <3>3. CASE Launched(w)
      BY <3>3, Zenon DEF Launched
    <3>4. CASE Return(w)
      BY <3>4 DEF Return, queueVars
    <3> QED BY <1>7, <3>1, <3>2, <3>3, <3>4
  <2> QED BY <1>1, <2>1
<1>8. CASE \E q \in Profiles : Prioritize(q) \/ Promote(q)
  BY <1>8, Zenon DEF Prioritize, Promote, queueVars
<1>9. CASE \E t \in 1 .. MaxClicks : ReleaseHold(t)
  BY <1>9 DEF ReleaseHold, queueVars
<1> QED BY <1>2, <1>3, <1>4, <1>5, <1>6, <1>7, <1>8, <1>9 DEF Next, Work

LEMMA OthersWaitStep ==
  ASSUME IInv, [Next]_vars
  PROVE  OthersWait
<1> DEFINE newest == leaders[Len(leaders)]
           g == Observed(gate)
<1> SUFFICES ASSUME leaders # <<>>, entry[newest] \in Launching, now < Cap,
                    ~(newest \in DOMAIN admitted /\ admitted[newest] + HeadStart <= now),
                    NEW p \in Profiles, entry[p] = "queued", entry'[p] = "checking"
             PROVE  Leading(p)
  BY DEF OthersWait, Last
<1>1. phase = "running" /\ ~stopping /\ (g.state = "waiting" => Leading(p))
  BY OnlyTaken
<1>2. Awaited(now, entry, leaders, admitted)
  BY DEF Awaited
<1>3. HasItsStart(phase \in {"scanned", "running"} /\ ~stopping, now, g, entry, leaders, admitted)
  BY ObservedType
<1> QED BY <1>1, <1>2, <1>3 DEF HasItsStart

(* The promise to the profile the user waits for: nobody takes another one *)
(* while the launch of the newest leader is out and neither its head start *)
(* nor the cap has passed, whichever clicks, returns or stops came between *)
(* (the docstring of line 118, kept by _schedule and _next).               *)
THEOREM OthersWaitAlways == Spec => OthersWaitForNewest
<1>1. (IInv /\ Finished(phase, failed, entry)) /\ [Next]_vars => [OthersWait]_vars
  BY OthersWaitStep
<1> QED BY Inductive, <1>1, PTL DEF Spec, OthersWaitForNewest

(* A gate that somebody finds past its deadline opened then, for its code. *)
LEMMA OpensAtDeadline ==
  ASSUME IInv, gate.state = "waiting", gate.at <= now,
         gate' = Gate("released", gate.at, gate.code), leaders' = leaders
  PROVE  OpensForReason
<1>1. Dated(gate, entry, leaders, admitted) /\ gate.at \in Nat
  BY Numbers DEF IInv, Waiting, TypeOK
<1>2. gate'.state = "released" /\ gate'.at = gate.at /\ gate'.code = gate.code
  BY GateIs
<1>3. gate.code \in {"timeout", "cap"} /\ (gate.code = "cap" => gate.at = Cap)
  BY <1>1 DEF Dated
<1>4. gate.code = "timeout" =>
        \E i \in DOMAIN leaders' :
          /\ leaders'[i] \in DOMAIN admitted
          /\ admitted[leaders'[i]] + HeadStart <= gate.at
          /\ \A j \in i + 1 .. Len(leaders') : entry[leaders'[j]] \notin Launching
  BY <1>1 DEF Dated, SpentAt, NoneNewer
<1> QED BY <1>1, <1>2, <1>3, <1>4 DEF OpensForReason

(* A re-armed gate that has to open at once: a head start is over.         *)
LEMMA OpensByHeadStart ==
  ASSUME IInv, gate.state = "waiting", now < gate.at,
         leaders' \in Seq(Profiles), NEW since,
         gate' = Scheduled(entry, leaders', since, "none"),
         \A p \in DOMAIN since :
           /\ since[p] \in Nat
           /\ since[p] = now \/ (p \in DOMAIN admitted /\ admitted[p] = since[p])
  PROVE  OpensForReason
<1>1. now \in Nat /\ gate.at \in Nat /\ gate.at <= Cap
  BY Numbers DEF IInv, TypeOK
<1>2. PICK at : /\ Deadline(at, entry, leaders', since)
                /\ at <= now => gate' = Gate("released", now, Reason(at))
                /\ ~(at <= now) => gate' = Gate("waiting", at, Reason(at))
  <2>1. \A p \in DOMAIN since : since[p] \in Nat
    OBVIOUS
  <2> QED BY <2>1, ScheduledIs
<1> SUFFICES ASSUME gate'.state = "released" PROVE OpensForReason
  BY DEF OpensForReason
<1>3. at \in Nat /\ at <= now /\ at < Cap
  BY <1>1, <1>2, GateIs, Numbers DEF Deadline
<1>4. gate'.at = now /\ gate'.code = "timeout"
  BY <1>2, <1>3, GateIs DEF Reason
<1>5. PICK i \in DOMAIN leaders' :
        Out(i, entry, leaders', since) /\ at = since[leaders'[i]] + HeadStart
  BY <1>2, <1>3 DEF Deadline
<1>6. leaders'[i] \in DOMAIN admitted /\ admitted[leaders'[i]] + HeadStart <= now
  <2>1. leaders'[i] \in DOMAIN since
    BY <1>5 DEF Out
  <2>2. since[leaders'[i]] # now
    BY <1>1, <1>3, <1>5, Numbers
  <2> QED BY <1>3, <1>5, <2>1, <2>2
<1>7. \A j \in i + 1 .. Len(leaders') : entry[leaders'[j]] \notin Launching
  BY <1>5 DEF Out, NoneNewer
<1>8. \E k \in DOMAIN leaders' :
        /\ leaders'[k] \in DOMAIN admitted
        /\ admitted[leaders'[k]] + HeadStart <= gate'.at
        /\ \A j \in k + 1 .. Len(leaders') : entry[leaders'[j]] \notin Launching
  BY <1>4, <1>6, <1>7
<1>9. gate'.at <= now /\ gate'.at <= gate.at
  BY <1>1, <1>4
<1> QED BY <1>4, <1>8, <1>9 DEF OpensForReason

(* The return of a leader opens the gate for what the entries say.         *)
LEMMA OpensBySettling ==
  ASSUME IInv, gate.state = "waiting", now < gate.at,
         gate' = Settled(gate), leaders' = leaders
  PROVE  OpensForReason
<1> DEFINE newest == entry[leaders[Len(leaders)]]
           armed(spent) == Scheduled(entry, leaders, admitted, spent)
           readies == \E i \in DOMAIN leaders : entry[leaders[i]] = "ready"
<1>1. /\ now \in Nat /\ gate.at \in Nat /\ gate.at <= Cap /\ ~(now >= gate.at)
      /\ leaders \in Seq(Profiles) /\ \A p \in DOMAIN admitted : admitted[p] \in Nat
  BY Numbers DEF IInv, TypeOK
<1>2. /\ DOMAIN leaders = 1 .. Len(leaders) /\ Len(leaders) \in DOMAIN leaders
  BY <1>1, LenProperties, EmptySeq DEF IInv, Waiting
<1>3. \A reason : Released(gate, reason) = Gate("released", now, reason)
  BY <1>1 DEF Released
<1>4. "ready" \notin Launching
  BY DEF Launching
<1>5. \/ newest \notin Launching /\ readies /\ gate' = Gate("released", now, "leader_ready")
      \/ newest \in Launching /\ gate' = armed("none")
      \/ newest \notin Launching /\ ~readies /\ gate' = armed("leader_failed")
      \/ /\ \A i \in DOMAIN leaders : entry[leaders[i]] \notin Launching
         /\ ~readies /\ gate' = Gate("released", now, "leader_failed")
  <2> HIDE DEF armed
  <2>1. gate' = IF newest = "ready" \/ (newest \notin Launching /\ \E i \in DOMAIN leaders : entry[leaders[i]] \in {"ready"})
                THEN Gate("released", now, "leader_ready")
                ELSE IF newest \in Launching THEN armed("none")
                ELSE IF \E i \in DOMAIN leaders : entry[leaders[i]] \in Launching THEN armed("leader_failed")
                ELSE Gate("released", now, "leader_failed")
    BY <1>3 DEF Settled, armed
  <2> QED BY <1>2, <1>4, <2>1
<1>6. CASE newest \notin Launching /\ readies /\ gate' = Gate("released", now, "leader_ready")
  <2>1. gate'.at = now /\ gate'.code = "leader_ready"
    BY <1>6, GateIs
  <2> QED BY <1>1, <1>2, <1>6, <2>1 DEF OpensForReason
<1>7. CASE newest \in Launching /\ gate' = armed("none")
  <2>1. \A p \in DOMAIN admitted :
          admitted[p] \in Nat /\ (admitted[p] = now \/ (p \in DOMAIN admitted /\ admitted[p] = admitted[p]))
    BY <1>1
  <2>2. leaders' \in Seq(Profiles)
    BY <1>1
  <2>3. gate' = Scheduled(entry, leaders', admitted, "none")
    BY <1>7
  <2> QED BY <2>1, <2>2, <2>3, OpensByHeadStart
<1>8. CASE newest \notin Launching /\ ~readies /\ gate' = armed("leader_failed")
  <2>1. PICK at : /\ Deadline(at, entry, leaders, admitted)
                  /\ at <= now => gate' = Gate("released", now, "leader_failed")
                  /\ ~(at <= now) => gate' = Gate("waiting", at, Reason(at))
    BY <1>1, <1>8, ScheduledIs
  <2> SUFFICES ASSUME gate'.state = "released" PROVE OpensForReason
    BY DEF OpensForReason
  <2>2. at \in Nat /\ at <= now /\ at < Cap
    BY <1>1, <2>1, GateIs, Numbers DEF Deadline
  <2>3. gate'.at = now /\ gate'.code = "leader_failed"
    BY <2>1, <2>2, GateIs
  <2>4. PICK n \in DOMAIN leaders : Out(n, entry, leaders, admitted) /\ at = admitted[leaders[n]] + HeadStart
    BY <2>1, <2>2 DEF Deadline
  <2>5. ASSUME NEW i \in 1 .. Len(leaders), entry[leaders[i]] \in Launching,
               \A j \in i + 1 .. Len(leaders) : entry[leaders[j]] \notin Launching
        PROVE  leaders[i] \in DOMAIN admitted /\ admitted[leaders[i]] + HeadStart <= now
    <3>1. i = n
      BY <1>2, <2>4, <2>5, LenProperties DEF Out, NoneNewer
    <3> QED BY <2>2, <2>4, <3>1 DEF Out
  <2> QED BY <1>1, <1>2, <1>8, <2>3, <2>5 DEF OpensForReason
<1>9. CASE /\ \A i \in DOMAIN leaders : entry[leaders[i]] \notin Launching
           /\ ~readies /\ gate' = Gate("released", now, "leader_failed")
  <2>1. gate'.at = now /\ gate'.code = "leader_failed"
    BY <1>9, GateIs
  <2> QED BY <1>1, <1>2, <1>9, <2>1 DEF OpensForReason
<1> QED BY <1>5, <1>6, <1>7, <1>8, <1>9

(* A worker that takes a leader, or finds the deadline past.               *)
LEMMA OpensByTaking ==
  ASSUME IInv, gate.state = "waiting", leaders' = leaders,
         NEW w, NEW p, Takes(w, p, Observed(gate), Observed(gate).state = "waiting")
  PROVE  OpensForReason
<1> DEFINE g == Observed(gate)
           waiting == g.state = "waiting"
<1>1. now \in Nat /\ gate.at \in Nat /\ \A q \in DOMAIN admitted : admitted[q] \in Nat
  BY Numbers DEF IInv, TypeOK
<1>2. /\ waiting <=> now < gate.at
      /\ waiting => g = gate
      /\ ~waiting => g = Gate("released", gate.at, gate.code)
  <2>1. gate.code # "stopped"
    BY DEF IInv, Waiting, Dated
  <2> QED BY <1>1, <2>1, ObservedIs, GateIs
<1>3. Takes(w, p, g, waiting)
  OBVIOUS
<1> HIDE DEF g, waiting
<1>4. /\ waiting => Leading(p)
      /\ IF (g.state # "none" /\ Leading(p)) /\ waiting
         THEN /\ gate' = Scheduled(entry, leaders, admitted', "none")
              /\ admitted' = [q \in DOMAIN admitted \cup {p} |-> IF q = p THEN now ELSE admitted[q]]
         ELSE gate' = g
  BY <1>3, Zenon DEF Takes
<1>5. CASE ~waiting
  <2>1. gate.at <= now /\ gate' = Gate("released", gate.at, gate.code)
    BY <1>1, <1>2, <1>4, <1>5
  <2> QED BY <2>1, OpensAtDeadline
<1>6. CASE waiting
  <2>1. now < gate.at /\ g.state # "none"
    BY <1>2, <1>6
  <2>2. /\ gate' = Scheduled(entry, leaders', admitted', "none")
        /\ admitted' = [q \in DOMAIN admitted \cup {p} |-> IF q = p THEN now ELSE admitted[q]]
    BY <1>4, <1>6, <2>1
  <2>3. leaders' \in Seq(Profiles)
    BY DEF IInv, TypeOK
  <2> DEFINE since == admitted'
  <2>4. \A q \in DOMAIN since :
          /\ since[q] \in Nat
          /\ since[q] = now \/ (q \in DOMAIN admitted /\ admitted[q] = since[q])
    BY <1>1, <2>2
  <2>5. gate' = Scheduled(entry, leaders', since, "none")
    BY <2>2
  <2> HIDE DEF since
  <2> QED BY <2>1, <2>3, <2>4, <2>5, OpensByHeadStart
<1> QED BY <1>5, <1>6

LEMMA OpensByClick ==
  ASSUME IInv, gate.state = "waiting", NEW p \in Profiles, UNCHANGED admitted,
         Lead(p) \/ UNCHANGED <<leaders, gate>>
  PROVE  OpensForReason
<1> DEFINE g == Observed(gate)
           newest == Append(RemoveFirst(leaders, p), p)
<1>1. now \in Nat /\ gate.at \in Nat /\ \A q \in DOMAIN admitted : admitted[q] \in Nat
  BY Numbers DEF IInv, TypeOK
<1>2. /\ g.state = "waiting" => now < gate.at
      /\ g.state # "waiting" => now >= gate.at /\ g = Gate("released", gate.at, gate.code)
  <2>1. gate.code # "stopped"
    BY DEF IInv, Waiting, Dated
  <2> QED BY <1>1, <2>1, ObservedIs, GateIs
<1>3. Known # {}
  BY DEF IInv, Waiting, Known
<1>4. newest \in Seq(Profiles)
  <2>1. leaders \in Seq(Profiles)
    BY DEF IInv, TypeOK
  <2> QED BY <2>1, NewestType
<1>5. \/ UNCHANGED <<leaders, gate>>
      \/ g.state # "waiting" /\ gate' = g /\ UNCHANGED leaders
      \/ g.state = "waiting" /\ leaders' = newest /\ gate' = Scheduled(entry, newest, admitted, "none")
  BY <1>3, Zenon DEF Lead
<1> HIDE DEF g, newest
<1>6. CASE UNCHANGED <<leaders, gate>>
  BY <1>6 DEF OpensForReason
<1>7. CASE g.state # "waiting" /\ gate' = g /\ UNCHANGED leaders
  <2>1. gate.at <= now /\ gate' = Gate("released", gate.at, gate.code)
    BY <1>1, <1>2, <1>7
  <2> QED BY <1>7, <2>1, OpensAtDeadline
<1>8. CASE g.state = "waiting" /\ leaders' = newest /\ gate' = Scheduled(entry, newest, admitted, "none")
  <2>1. leaders' \in Seq(Profiles) /\ gate' = Scheduled(entry, leaders', admitted, "none")
    BY <1>4, <1>8
  <2>2. \A q \in DOMAIN admitted :
          admitted[q] \in Nat /\ (admitted[q] = now \/ (q \in DOMAIN admitted /\ admitted[q] = admitted[q]))
    BY <1>1
  <2> QED BY <1>2, <1>8, <2>1, <2>2, OpensByHeadStart
<1> QED BY <1>5, <1>6, <1>7, <1>8

(* A stop opens a waiting gate; the end of the pass finds one only past its *)
(* deadline, or when its threads failed.                                   *)
LEMMA OpensByStop ==
  ASSUME IInv, gate.state = "waiting", Shutdown
  PROVE  OpensForReason
<1>1. now \in Nat
  BY Numbers DEF IInv, TypeOK
<1>2. gate' = Gate("released", now, "stopped") /\ stopping' = TRUE
  BY DEF Shutdown, Released
<1>3. gate'.at = now /\ gate'.code = "stopped"
  BY <1>2, GateIs
<1> QED BY <1>1, <1>2, <1>3 DEF OpensForReason

LEMMA OpensByEnd ==
  ASSUME IInv, Finished(phase, failed, entry), gate.state = "waiting", EndPass
  PROVE  OpensForReason
<1>1. now \in Nat /\ gate.at \in Nat
  BY Numbers DEF IInv, TypeOK
<1>2. ~stopping /\ phase # "starting"
  BY DEF IInv, Waiting, BeforeScan
<1>3. failed
  <2>1. phase = "running" /\ \A w \in Workers : job[w] = Done
    BY <1>2 DEF EndPass
  <2> QED BY <2>1, PassSettles DEF PassSettled
<1>4. gate' = Released(gate, "leader_failed") /\ leaders' = leaders
  BY <1>2 DEF EndPass
<1>5. CASE now >= gate.at
  <2>1. gate' = Gate("released", gate.at, gate.code)
    BY <1>4, <1>5 DEF Released
  <2> QED BY <1>1, <1>4, <1>5, <2>1, OpensAtDeadline
<1>6. CASE ~(now >= gate.at)
  <2>1. gate' = Gate("released", now, "leader_failed")
    BY <1>4, <1>6 DEF Released
  <2>2. gate'.at = now /\ gate'.code = "leader_failed"
    BY <2>1, GateIs
  <2> QED BY <1>1, <1>3, <1>6, <2>2 DEF OpensForReason
<1> QED BY <1>5, <1>6

LEMMA OpensByReturn ==
  ASSUME IInv, gate.state = "waiting", NEW w \in Workers, Return(w)
  PROVE  OpensForReason
<1> DEFINE g == Observed(gate)
<1>1. now \in Nat /\ gate.at \in Nat
  BY Numbers DEF IInv, TypeOK
<1>2. /\ g.state = "waiting" => now < gate.at
      /\ g.state # "waiting" => now >= gate.at /\ g = Gate("released", gate.at, gate.code)
  <2>1. gate.code # "stopped"
    BY DEF IInv, Waiting, Dated
  <2> QED BY <1>1, <2>1, ObservedIs, GateIs
<1>3. /\ leaders' = leaders
      /\ \/ gate' = gate
         \/ g.state = "waiting" /\ gate' = Settled(gate)
         \/ g.state # "waiting" /\ gate' = g
  BY DEF Return
<1> HIDE DEF g
<1>4. CASE gate' = gate
  BY <1>4 DEF OpensForReason
<1>5. CASE g.state = "waiting" /\ gate' = Settled(gate)
  BY <1>2, <1>3, <1>5, OpensBySettling
<1>6. CASE g.state # "waiting" /\ gate' = g
  <2>1. gate.at <= now /\ gate' = Gate("released", gate.at, gate.code)
    BY <1>1, <1>2, <1>6
  <2> QED BY <1>3, <2>1, OpensAtDeadline
<1> QED BY <1>3, <1>4, <1>5, <1>6

LEMMA OpensByLook ==
  ASSUME IInv, gate.state = "waiting", NEW w \in Workers, Look(w)
  PROVE  OpensForReason
<1> DEFINE g == Observed(gate)
           waiting == g.state = "waiting"
<1>1. now \in Nat /\ gate.at \in Nat
  BY Numbers DEF IInv, TypeOK
<1>2. g = gate \/ (now >= gate.at /\ g = Gate("released", gate.at, gate.code))
  <2>1. gate.code # "stopped"
    BY DEF IInv, Waiting, Dated
  <2> QED BY <1>1, <2>1, ObservedIs, GateIs
<1>3. /\ leaders' = leaders
      /\ \/ gate' = gate
         \/ gate' = g
         \/ \E p : Takes(w, p, g, waiting)
  BY LookIs, Zenon DEF gateVars, IInv
<1>4. CASE gate' = gate
  BY <1>4 DEF OpensForReason
<1>5. CASE \E p : Takes(w, p, g, waiting)
  BY <1>3, <1>5, OpensByTaking
<1>6. CASE gate' = g /\ gate' # gate
  <2>1. gate.at <= now /\ gate' = Gate("released", gate.at, gate.code)
    <3> HIDE DEF g
    <3> QED BY <1>1, <1>2, <1>6
  <2> QED BY <1>3, <2>1, OpensAtDeadline
<1> QED BY <1>3, <1>4, <1>5, <1>6

(* No other step opens a waiting gate.                                     *)
LEMMA GateStep ==
  ASSUME IInv, Finished(phase, failed, entry), [Next]_vars, gate.state = "waiting"
  PROVE  OpensForReason
<1>1. ASSUME gate' = gate PROVE OpensForReason
  BY <1>1 DEF OpensForReason
<1>2. CASE UNCHANGED vars
  BY <1>1, <1>2 DEF vars
<1>3. CASE \E leader \in Profiles \cup {NoProfile} : Start(leader)
  BY <1>1, <1>3 DEF Start
<1>4. CASE Scan
  BY <1>4 DEF Scan, IInv, BeforeScan
<1>5. CASE StartWorkers
  BY <1>1, <1>5 DEF StartWorkers, gateVars
<1>6. CASE EndPass
  BY <1>6, OpensByEnd
<1>7. CASE Shutdown
  BY <1>7, OpensByStop
<1>8. CASE Hold \/ Resume \/ Tick
  BY <1>1, <1>8 DEF Hold, Resume, Tick, gateVars
<1>9. ASSUME NEW w \in Workers, Refuse(w) \/ Open(w) \/ Launched(w)
      PROVE  gate' = gate
  BY <1>9, Zenon DEF Refuse, Open, Launched, gateVars
<1>10. CASE \E w \in Workers : Work(w)
  BY <1>1, <1>9, <1>10, OpensByLook, OpensByReturn DEF Work
<1>11. CASE \E p \in Profiles : Prioritize(p) \/ Promote(p)
  <2>1. PICK p \in Profiles : Prioritize(p) \/ Promote(p)
    BY <1>11
  <2>2. UNCHANGED admitted /\ (Lead(p) \/ UNCHANGED <<leaders, gate>>)
    BY <2>1, Zenon DEF Prioritize, Promote
  <2> QED BY <2>2, OpensByClick
<1>12. CASE \E t \in 1 .. MaxClicks : ReleaseHold(t)
  BY <1>1, <1>12 DEF ReleaseHold, gateVars
<1> QED BY <1>2, <1>3, <1>4, <1>5, <1>6, <1>7, <1>8, <1>10, <1>11, <1>12 DEF Next, Pass

(* The gate opens for the reason it reports, at the time it reports, and   *)
(* never after the deadline in force: whoever observes a deadline late     *)
(* dates the opening back, and no click, return or stop names another      *)
(* reason than what the leaders' entries bear out (_release, _settle).     *)
THEOREM GateReportedAlways == Spec => GateReported
<1>1. (IInv /\ Finished(phase, failed, entry)) /\ [Next]_vars
        => [gate.state = "waiting" => OpensForReason]_vars
  BY GateStep
<1> QED BY Inductive, <1>1, PTL DEF Spec, GateReported

=============================================================================

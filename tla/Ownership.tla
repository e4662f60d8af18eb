------------------------------ MODULE Ownership ------------------------------
(***************************************************************************)
(* What the durable owner records promise: a conversation has one owner at *)
(* a time, only its owner has a recorder open on it, and ownership moves   *)
(* only while nobody has, each move under a new epoch.                     *)
(***************************************************************************)
EXTENDS Naturals

CONSTANTS Threads, Profiles, NoProfile, NoGrant, MaxEpoch

VARIABLES
  record,  \* per conversation, its owner and epoch (NoGrant: not created)
  writer   \* per conversation, the profile whose recorder is open, or NoProfile

vars == <<record, writer>>

Init ==
  /\ record \in [Threads -> [owner : Profiles, epoch : {1}] \cup {NoGrant}]
  /\ writer = [t \in Threads |-> NoProfile]

Create(t, p) ==
  /\ record[t] = NoGrant
  /\ record' = [record EXCEPT ![t] = [owner |-> p, epoch |-> 1]]
  /\ UNCHANGED writer

Open(t) ==
  /\ writer[t] = NoProfile /\ record[t] # NoGrant
  /\ writer' = [writer EXCEPT ![t] = record[t].owner]
  /\ UNCHANGED record

(* A recorder is closed alone, or with the others of its runtime.          *)
Close(T) ==
  /\ writer' = [t \in Threads |-> IF t \in T THEN NoProfile ELSE writer[t]]
  /\ UNCHANGED record

Move(t, p) ==
  /\ writer[t] = NoProfile /\ record[t] # NoGrant
  /\ p # record[t].owner
  /\ record[t].epoch < MaxEpoch
  /\ record' = [record EXCEPT ![t] = [owner |-> p, epoch |-> @.epoch + 1]]
  /\ UNCHANGED writer

Next ==
  \/ \E t \in Threads : Open(t) \/ \E p \in Profiles : Create(t, p) \/ Move(t, p)
  \/ \E T \in SUBSET Threads : Close(T)

Spec == Init /\ [][Next]_vars
=============================================================================

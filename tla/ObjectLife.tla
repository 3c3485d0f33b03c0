----------------------------- MODULE ObjectLife -----------------------------
(***************************************************************************)
(* What the object service promises about one account's files, without its *)
(* storage calls, requests and clocks: the life cycle of an object row     *)
(* (column objects.state) and the bookings of the usage ledger.            *)
(*                                                                         *)
(* ObjectLifecycle is the detailed specification; it implements this one.  *)
(***************************************************************************)
EXTENDS Naturals

CONSTANT Object          \* the identifiers createObject can hand out

VARIABLES
  state,                 \* objects.state; "absent" before the INSERT
  stores,                \* number of 'store' rows of the object in usage_ledger
  deletes                \* number of 'delete' rows of the object in usage_ledger

lifeVars == <<state, stores, deletes>>

\* The states in which the account pays for the object's bytes.
Held  == {"stored", "version", "trashed"}
State == {"absent", "uploading", "failed", "deleted"} \cup Held

LifeTypeOK ==
  /\ state   \in [Object -> State]
  /\ stores  \in [Object -> Nat]
  /\ deletes \in [Object -> Nat]

LifeInit ==
  /\ state   = [o \in Object |-> "absent"]
  /\ stores  = [o \in Object |-> 0]
  /\ deletes = [o \in Object |-> 0]

\* An upload starts: the quota is reserved, nothing is booked yet.
Reserve(o) ==
  /\ state[o] = "absent"
  /\ state' = [state EXCEPT ![o] = "uploading"]
  /\ UNCHANGED <<stores, deletes>>

\* An upload is finished: state and booking change together.
Book(o) ==
  /\ state[o] = "uploading"
  /\ state'  = [state  EXCEPT ![o] = "stored"]
  /\ stores' = [stores EXCEPT ![o] = @ + 1]
  /\ UNCHANGED deletes

\* An abandoned upload gives its reservation back.
Release(o) ==
  /\ state[o] = "uploading"
  /\ state' = [state EXCEPT ![o] = "failed"]
  /\ UNCHANGED <<stores, deletes>>

\* Trash, restore, keep as version, promote a version: objects move between
\* the held states, and the account goes on paying.
Shelve ==
  /\ state' \in [Object -> State]
  /\ \A o \in Object : state'[o] # state[o] => {state[o], state'[o]} \subseteq Held
  /\ UNCHANGED <<stores, deletes>>

\* The end of an object. It is booked at most once, and only if the upload was.
Remove(o) ==
  /\ state[o] \notin {"absent", "deleted"}
  /\ state' = [state EXCEPT ![o] = "deleted"]
  /\ \/ UNCHANGED deletes
     \/ /\ stores[o] > deletes[o]
        /\ deletes' = [deletes EXCEPT ![o] = @ + 1]
  /\ UNCHANGED stores

LifeNext ==
  \/ \E o \in Object : Reserve(o) \/ Book(o) \/ Release(o) \/ Remove(o)
  \/ Shelve

LifeSpec == LifeInit /\ [][LifeNext]_lifeVars

-----------------------------------------------------------------------------
\* The ledger agrees with the row: a held object was booked exactly once and
\* not yet written off, an object that was never finished was never booked.
Booked(o) ==
  /\ state[o] \in Held => stores[o] = 1 /\ deletes[o] = 0
  /\ state[o] \in {"absent", "uploading", "failed"} => stores[o] = 0 /\ deletes[o] = 0
  /\ deletes[o] <= stores[o] /\ stores[o] <= 1

LedgerAgrees == \A o \in Object : Booked(o)
=============================================================================

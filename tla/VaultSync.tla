------------------------------ MODULE VaultSync ------------------------------
(***************************************************************************)
(* The devices of one account and their vault index: mutate, flush, lock   *)
(* and enter of AccountProvider, saveIndex and loadIndex of                *)
(* features/vault/sync.ts, and the server's putIndex as one atomic step    *)
(* (VersionedRegister; VaultIndex shows how far putIndex is one).          *)
(*                                                                         *)
(* JavaScript runs to the next await: a step of a device is what happens   *)
(* between two answers of the server.                                      *)
(***************************************************************************)
EXTENDS VaultMerge, FiniteSets

CONSTANTS
  Device,
  MaxEdits,       \* bound: edits in a run
  MaxLocks,       \* bound: how often a device is locked
  MaxRetry,       \* bound: from this version on nobody retries
  Attempts,       \* saveIndex: puts it tries
  MayDelete,      \* TRUE: entries can be deleted
  MayTouch,       \* TRUE: an edit can leave the stamp alone (move, pin)
  MayLoseAnswer   \* TRUE: the answer to an accepted put can be lost

ASSUME BoundAssumption  == {MaxEdits, MaxLocks, MaxRetry} \subseteq Nat
ASSUME TriesAssumption  == Attempts \in Nat \ {0}
ASSUME SwitchAssumption == {MayDelete, MayTouch, MayLoseAnswer} \subseteq BOOLEAN

VARIABLES
  version, value,   \* the server: version and container
  edits,            \* edits so far; also the clock that stamps them
  app,              \* per device: the refs of AccountProvider
  save,             \* per device: the flush that is running, if any
  done,             \* history, per device: the last stamped revision it made of an entry
  deleted,          \* history: the entries some device has deleted, <<id, rev>>
  lost              \* history: an answer was lost

vars == <<version, value, edits, app, save, done, deleted, lost>>

Container == [Id -> Entry]
State     == [version : Nat, container : Container]
Nothing   == [version |-> 0, container |-> Empty]

\* key: which unlock the master key in keyRef is from, 0 if there is none.
\* locks: how often the device was locked.  failed: syncError is shown.
App == [key : Nat, locks : Nat, base : State, local : Container,
        saving : BOOLEAN, dirty : BOOLEAN, failed : BOOLEAN]

\* The flush: the key it started with, what it sent, and saveIndex's variables.
Save == [at : {"none", "put", "conflict", "saved", "error"}, key : Nat,
         sent : Container, b : State, n : Container, attempt : 0..(Attempts + 1)]

NoSave == [at |-> "none", key |-> 0, sent |-> Empty, b |-> Nothing, n |-> Empty, attempt |-> 0]

TypeOK ==
  /\ version \in Nat
  /\ value \in Container
  /\ edits \in 0..MaxEdits
  /\ app \in [Device -> App]
  /\ save \in [Device -> Save]
  /\ done \in [Device -> [Id -> Nat]]
  /\ deleted \subseteq Id \X Nat
  /\ lost \in BOOLEAN

Fresh(state, key, locks) ==
  [key |-> key, locks |-> locks, base |-> state, local |-> state.container,
   saving |-> FALSE, dirty |-> FALSE, failed |-> FALSE]

\* Every device is unlocked and has an empty vault.
Init ==
  /\ version = 0
  /\ value = Empty
  /\ edits = 0
  /\ app = [d \in Device |-> Fresh(Nothing, 1, 0)]
  /\ save = [d \in Device |-> NoSave]
  /\ done = [d \in Device |-> [i \in Id |-> 0]]
  /\ deleted = {}
  /\ lost = FALSE

server  == <<version, value>>
history == <<done, deleted, lost>>
Server == [version |-> version, container |-> value]

\* saveIndex(mk, acc.id, base, sent) is called.
Send(a) == [at |-> "put", key |-> a.key, sent |-> a.local, b |-> a.base,
            n |-> a.local, attempt |-> 1]

-----------------------------------------------------------------------------
(* mutate, which calls flush                                               *)

\* flush on the refs a of device d: it starts, or asks the flush that is running
\* for another round.
Flush(d, a) ==
  IF a.saving
  THEN /\ app' = [app EXCEPT ![d] = [a EXCEPT !.dirty = TRUE]]
       /\ UNCHANGED save
  ELSE /\ app'  = [app EXCEPT ![d] = [a EXCEPT !.saving = TRUE, !.dirty = FALSE]]
       /\ save' = [save EXCEPT ![d] = Send(a)]

Mutate(d, local) ==
  /\ app[d].key # 0
  /\ edits < MaxEdits
  /\ edits' = edits + 1
  /\ Flush(d, [app[d] EXCEPT !.local = local])
  /\ UNCHANGED server

\* retrySync, the button beside the error
Retry(d) ==
  /\ app[d].key # 0 /\ app[d].failed
  /\ version < MaxRetry
  /\ Flush(d, app[d])
  /\ UNCHANGED <<server, edits, history>>

\* A new or changed entry, stamped with the clock.
Edit(d, i) ==
  /\ Mutate(d, [app[d].local EXCEPT ![i] = [stamp |-> edits + 1, rev |-> edits + 1]])
  /\ done' = [done EXCEPT ![d][i] = edits + 1]
  /\ UNCHANGED <<deleted, lost>>

\* A change that keeps the stamp: a file that moves to another folder, a pinned note.
Touch(d, i) ==
  /\ MayTouch
  /\ app[d].local[i] # Absent
  /\ Mutate(d, [app[d].local EXCEPT ![i] = [stamp |-> @.stamp, rev |-> edits + 1]])
  /\ UNCHANGED history

Delete(d, i) ==
  /\ MayDelete
  /\ app[d].local[i] # Absent
  /\ Mutate(d, [app[d].local EXCEPT ![i] = Absent])
  /\ deleted' = deleted \cup {<<i, app[d].local[i].rev>>}
  /\ UNCHANGED <<done, lost>>

-----------------------------------------------------------------------------
(* saveIndex                                                               *)

Saving(d, step) == save[d].at = step
Go(d, s)        == save' = [save EXCEPT ![d] = s]

\* putIndex accepts only the current base version.
PutAccepted(d) ==
  /\ Saving(d, "put")
  /\ save[d].b.version = version
  /\ version' = version + 1
  /\ value' = save[d].n
  /\ \/ /\ Go(d, [save[d] EXCEPT !.at = "saved", !.b = [version |-> version + 1, container |-> save[d].n]])
        /\ UNCHANGED lost
     \/ /\ MayLoseAnswer
        /\ Go(d, [save[d] EXCEPT !.at = "error"])
        /\ lost' = TRUE
  /\ UNCHANGED <<edits, app, done, deleted>>

PutConflict(d) ==
  /\ Saving(d, "put")
  /\ save[d].b.version # version
  /\ Go(d, [save[d] EXCEPT !.at = "conflict"])
  /\ UNCHANGED <<server, edits, app, history>>

\* loadIndex, merge, and the next attempt, if there is one.
Rebase(d) ==
  /\ Saving(d, "conflict")
  /\ LET s == save[d] IN
       Go(d, [s EXCEPT !.n = Merge(s.b.container, s.n, value), !.b = Server,
                          !.at = IF s.attempt < Attempts THEN "put" ELSE "error",
                          !.attempt = @ + 1])
  /\ UNCHANGED <<server, edits, app, history>>

-----------------------------------------------------------------------------
(* The rest of flush                                                       *)

\* The device was locked meanwhile (and perhaps unlocked again): flush returns.
Abandon(d) ==
  /\ Saving(d, "saved")
  /\ app[d].key # save[d].key
  /\ app' = [app EXCEPT ![d].saving = FALSE]
  /\ Go(d, NoSave)
  /\ UNCHANGED <<server, edits, history>>

\* Faulty variants of Finish: edits made meanwhile are overwritten, and the key is
\* not compared after the await.
FinishOverwriting(d) ==
  /\ Saving(d, "saved")
  /\ app[d].key = save[d].key
  /\ app' = [app EXCEPT ![d] = [@ EXCEPT !.base = save[d].b, !.local = save[d].b.container,
                                         !.saving = FALSE, !.dirty = FALSE, !.failed = FALSE]]
  /\ Go(d, NoSave)
  /\ UNCHANGED <<server, edits, history>>
FinishForAnyKey(d) ==
  /\ Saving(d, "saved")
  /\ app' = [app EXCEPT ![d] = [@ EXCEPT !.base = save[d].b, !.local = save[d].b.container,
                                         !.saving = FALSE, !.failed = FALSE]]
  /\ Go(d, NoSave)
  /\ UNCHANGED <<server, edits, history>>

\* The result becomes base and local; edits made meanwhile are merged and sent.
Finish(d) ==
  /\ Saving(d, "saved")
  /\ app[d].key = save[d].key
  /\ LET s == save[d]
         a == app[d]
         again == [a EXCEPT !.base = s.b, !.dirty = FALSE,
                            !.local = Merge(s.sent, a.local, s.b.container)]
     IN IF a.dirty
        THEN /\ app' = [app EXCEPT ![d] = again]
             /\ Go(d, Send(again))
        ELSE /\ app' = [app EXCEPT ![d] = [a EXCEPT !.base = s.b, !.local = s.b.container,
                                                    !.saving = FALSE, !.failed = FALSE]]
             /\ Go(d, NoSave)
  /\ UNCHANGED <<server, edits, history>>

\* An exception: the error is shown; the next edit or the button will try again.
Fail(d) ==
  /\ Saving(d, "error")
  /\ app' = [app EXCEPT ![d].saving = FALSE, ![d].failed = TRUE]
  /\ Go(d, NoSave)
  /\ UNCHANGED <<server, edits, history>>

-----------------------------------------------------------------------------
(* lock and enter                                                          *)

\* lock clears the key and the containers, not savingRef and dirtyRef.
Lock(d) ==
  /\ app[d].key # 0
  /\ app[d].locks < MaxLocks
  /\ app' = [app EXCEPT ![d] = [@ EXCEPT !.key = 0, !.locks = app[d].locks + 1,
                                         !.base = Nothing, !.local = Empty]]
  /\ UNCHANGED <<server, edits, save, history>>

\* enter, after its loadIndex: a new key, the server's state, no error.
Enter(d) ==
  /\ app[d].key = 0
  /\ app' = [app EXCEPT ![d] = [@ EXCEPT !.key = app[d].locks + 1, !.base = Server,
                                         !.local = value, !.failed = FALSE]]
  /\ UNCHANGED <<server, edits, save, history>>

-----------------------------------------------------------------------------
Run(d) == PutAccepted(d) \/ PutConflict(d) \/ Rebase(d) \/ Abandon(d) \/ Finish(d) \/ Fail(d)

Next ==
  \E d \in Device :
    \/ \E i \in Id : Edit(d, i) \/ Touch(d, i) \/ Delete(d, i)
    \/ Retry(d) \/ Run(d) \/ Lock(d) \/ Enter(d)

Spec == Init /\ [][Next]_vars

-----------------------------------------------------------------------------
(* Properties                                                              *)

\* A device that shows "saved": unlocked, no flush, no error.
Synced(d) == app[d].key # 0 /\ ~app[d].saving /\ ~app[d].failed

\* Every stamped edit of a device that shows "saved" is on the server, or something
\* newer is, or it was deleted.
Saved(d) ==
  \A i \in Id : \/ value[i].rev >= done[d][i]
              \/ \E x \in deleted : x[1] = i /\ x[2] >= done[d][i]

\* Edits made during a flush, conflicts, retries and lost answers lose nothing, on
\* a device that was never locked, whatever the other devices do.
SyncedMeansSaved == \A d \in Device : Synced(d) /\ app[d].locks = 0 => Saved(d)

\* The server never goes back to an older revision of an entry.
RevisionsAdvance ==
  [][\A i \in Id : value[i] # Absent /\ value'[i] # Absent
                     => value'[i].rev >= value[i].rev]_vars

\* The server never goes back to an older stamp of an entry, with edits that keep
\* the stamp and devices that are locked in the middle of a flush.
StampsAdvance ==
  [][\A i \in Id : value[i] # Absent /\ value'[i] # Absent
                     => value'[i].stamp >= value[i].stamp]_vars

\* A locked device holds no plaintext: the answer to a flush that was under way
\* when it was locked does not bring the containers back.
LockedHoldsNothing ==
  \A d \in Device : app[d].key = 0 => app[d].base = Nothing /\ app[d].local = Empty

\* A deletion stays: once every device shows "saved", no deleted revision is left,
\* unless an answer was lost or a device locked.  It holds for two devices: of three,
\* one may keep an older edit on the server, another its unchanged copy of what the
\* third has deleted, and where both sides have an entry merge3 takes the newer one.
DeletionsStay ==
  ~lost /\ (\A d \in Device : Synced(d) /\ app[d].locks = 0)
    => \A i \in Id : <<i, value[i].rev>> \notin deleted

\* --- what the code breaks: the same on a device that is locked during a flush ---

\* The edits that flush collected in the meantime are sent or shown as failed.
LockedMeansSaved == \A d \in Device : Synced(d) => Saved(d)
=============================================================================

----------------------------- MODULE VaultIndex -----------------------------
(***************************************************************************)
(* The encrypted vault index of one account on the server: putIndex and    *)
(* getIndex of server/vault/service.ts over the table vault_indexes and    *)
(* the blob storage, one step per await.                                   *)
(*                                                                         *)
(* The key of a blob has a random part, so two writers of the same version *)
(* have two keys.  A key is modelled as the version it is for and the      *)
(* worker that made it; it stands for the body stored under it, too.       *)
(***************************************************************************)
EXTENDS Integers, FiniteSets

CONSTANTS
  Worker,          \* handlers that can run at the same time
  Keep,            \* KEEP_VERSIONS
  MaxVersion,      \* bound: versions written in a run
  None,            \* "no key"
  MayCrash,        \* TRUE: a handler can die, a statement can fail
  MayLoseAnswer    \* TRUE: an INSERT can commit although it reports an error

ASSUME KeepAssumption   == Keep \in Nat \ {0}
ASSUME BoundAssumption  == MaxVersion \in Nat
ASSUME SwitchAssumption == MayCrash \in BOOLEAN /\ MayLoseAnswer \in BOOLEAN

Key == [version : 1..MaxVersion, by : Worker]

ASSUME NoneAssumption == None \notin Key

VARIABLES
  rows,            \* the rows of vault_indexes: the keys they point to
  blob,            \* the keys in the storage
  task             \* per worker: the step it is at, its key, what it deleted

vars == <<rows, blob, task>>

Task == [at : {"idle", "upload", "insert", "undo", "clean", "purge", "fetch"},
         key : Key \cup {None}, old : SUBSET Key]

Idle == [at |-> "idle", key |-> None, old |-> {}]

TypeOK ==
  /\ rows \subseteq Key
  /\ blob \subseteq Key
  /\ task \in [Worker -> Task]

Init ==
  /\ rows = {}
  /\ blob = {}
  /\ task = [w \in Worker |-> Idle]

\* SELECT ... ORDER BY version DESC LIMIT 1; version 0 stands for "no row".
Newest(k)    == k \in rows /\ \A r \in rows : r.version <= k.version
IsCurrent(v) == /\ \A r \in rows : r.version <= v
                /\ v = 0 \/ \E r \in rows : r.version = v

At(w, step) == task[w].at = step
Do(w, t)    == task' = [task EXCEPT ![w] = t]
Go(w, step) == Do(w, [at |-> step, key |-> task[w].key, old |-> {}])
Return(w)   == Do(w, Idle)

-----------------------------------------------------------------------------
(* putIndex                                                                *)

\* The base version of the request is the current one: else VERSION_CONFLICT.
Put(w) ==
  /\ At(w, "idle")
  /\ \E base \in 0..(MaxVersion - 1) :
       /\ IsCurrent(base)
       /\ Do(w, [at |-> "upload", key |-> [version |-> base + 1, by |-> w], old |-> {}])
  /\ UNCHANGED <<rows, blob>>

\* storage.putSmall
Upload(w) ==
  /\ At(w, "upload")
  /\ blob' = blob \cup {task[w].key}
  /\ Go(w, "insert")
  /\ UNCHANGED rows

Taken(k) == \E r \in rows : r.version = k.version

\* Faulty variant of Insert: no primary key, so that two writers both win.
InsertAnyway(w) ==
  /\ At(w, "insert")
  /\ rows' = rows \cup {task[w].key}
  /\ Go(w, "clean")
  /\ UNCHANGED blob

\* INSERT; the primary key (account_id, version) lets one writer win.
Insert(w) ==
  /\ At(w, "insert")
  /\ ~Taken(task[w].key)
  /\ rows' = rows \cup {task[w].key}
  /\ Go(w, "clean")
  /\ UNCHANGED blob

Lose(w) ==
  /\ At(w, "insert")
  /\ Taken(task[w].key)
  /\ Go(w, "undo")
  /\ UNCHANGED <<rows, blob>>

\* The INSERT reports another error; the row may be there all the same.
InsertFails(w) ==
  /\ MayCrash
  /\ At(w, "insert")
  /\ \/ UNCHANGED rows
     \/ /\ MayLoseAnswer
        /\ ~Taken(task[w].key)
        /\ rows' = rows \cup {task[w].key}
  /\ Go(w, "undo")
  /\ UNCHANGED blob

\* Faulty variant of Undo: the blobs of that version are deleted, whoever wrote them.
UndoVersion(w) ==
  /\ At(w, "undo")
  /\ blob' = {k \in blob : k.version # task[w].key.version}
  /\ Return(w)
  /\ UNCHANGED rows

\* After any error of the INSERT the own blob is deleted, errors swallowed.
Undo(w) ==
  /\ At(w, "undo")
  /\ blob' \in {blob, blob \ {task[w].key}}
  /\ Return(w)
  /\ UNCHANGED rows

\* Faulty variant of Clean: one version too many is deleted.
CleanOneTooMany(w) ==
  /\ At(w, "clean")
  /\ LET old == {r \in rows : r.version <= task[w].key.version - Keep + 1} IN
       /\ rows' = rows \ old
       /\ Do(w, [at |-> "purge", key |-> task[w].key, old |-> old])
  /\ UNCHANGED blob

\* DELETE ... version <= own version - KEEP_VERSIONS RETURNING storage_key
Clean(w) ==
  /\ At(w, "clean")
  /\ LET old == {r \in rows : r.version <= task[w].key.version - Keep} IN
       /\ rows' = rows \ old
       /\ Do(w, [at |-> "purge", key |-> task[w].key, old |-> old])
  /\ UNCHANGED blob

\* The blobs of the deleted rows; errors are swallowed, so some may stay.
Purge(w) ==
  /\ At(w, "purge")
  /\ \E gone \in SUBSET task[w].old : blob' = blob \ gone
  /\ Return(w)
  /\ UNCHANGED rows

-----------------------------------------------------------------------------
(* getIndex                                                                *)

Get(w) ==
  /\ At(w, "idle")
  /\ \E k \in rows :
       /\ Newest(k)
       /\ Do(w, [at |-> "fetch", key |-> k, old |-> {}])
  /\ UNCHANGED <<rows, blob>>

\* storage.getSmall, and the answer: the body, or STORAGE_UNAVAILABLE.
Fetch(w) ==
  /\ At(w, "fetch")
  /\ Return(w)
  /\ UNCHANGED <<rows, blob>>

-----------------------------------------------------------------------------
Crash(w) ==
  /\ MayCrash
  /\ ~At(w, "idle")
  /\ Return(w)
  /\ UNCHANGED <<rows, blob>>

Next ==
  \E w \in Worker :
    \/ Put(w) \/ Upload(w) \/ Insert(w) \/ Lose(w) \/ InsertFails(w) \/ Undo(w)
    \/ Clean(w) \/ Purge(w) \/ Get(w) \/ Fetch(w) \/ Crash(w)

Spec == Init /\ [][Next]_vars

-----------------------------------------------------------------------------
(* Properties                                                              *)

\* Every row of the table has its blob: rows are inserted after the upload and
\* deleted before the purge, and a loser never deletes the winner's blob.
EveryRowHasItsBlob == rows \subseteq blob

\* The newest Keep versions are there, whatever the cleanups of slow writers do.
NewestAreKept ==
  \A top \in 1..MaxVersion : IsCurrent(top) =>
    \A v \in 1..top : top - Keep < v => \E r \in rows : r.version = v

\* Version v is so old that a cleanup may have removed its row.
Outpaced(v) == \E r \in rows : r.version >= v + Keep

\* A reader misses its blob only if Keep newer versions were written meanwhile.
OnlyOutpacedReadsFail ==
  \A w \in Worker : At(w, "fetch") /\ task[w].key \notin blob => Outpaced(task[w].key.version)

\* The row the INSERT of this step, if any, adds.
Added(k) == k \in rows' \ rows

\* An accepted write that is not the newest one afterwards was outpaced: the row
\* with its version was inserted by another device and cleaned up already.
OnlyOutpacedWritesAreLost ==
  [][\A k \in Key : Added(k) => Newest(k)' \/ Outpaced(k.version)]_vars

\* The table and the storage implement one register with a version.
Register == INSTANCE VersionedRegister WITH
  Value <- Worker, NoValue <- None,
  version <- CHOOSE v \in 0..MaxVersion : IsCurrent(v),
  value   <- IF rows = {} THEN None ELSE (CHOOSE k \in rows : Newest(k)).by
ImplementsRegister == Register!RegSpec

\* --- a statement of the code's comments that the code breaks ---

\* putIndex: a write is accepted only if its base version is the current one.
AcceptedOnCurrentOnly ==
  [][\A k \in Key : Added(k) => IsCurrent(k.version - 1)]_vars
=============================================================================

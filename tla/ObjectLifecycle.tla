--------------------------- MODULE ObjectLifecycle ---------------------------
(***************************************************************************)
(* The object service of one account (server/objects/service.ts) over the  *)
(* database and the blob storage.                                          *)
(*                                                                         *)
(* Every request handler and the maintenance job is a worker that runs     *)
(* step by step: one step per await that touches shared state.  A single   *)
(* SQL statement or transaction is one step, a call of the storage for one *)
(* piece is one step.  What a handler read earlier it keeps in its task    *)
(* record, so that the record can be out of date when it is used.          *)
(***************************************************************************)
EXTENDS ObjectLife

CONSTANTS
  Piece,        \* the pieces of a file (every object has all of them)
  Request,      \* request handlers that can be running at the same time
  Cron,         \* maintenance runs that can be active at the same time
  None,         \* "no object" in a task record
  MayAbort,     \* TRUE: a worker can die or meet an exception at any await
  MayStall      \* TRUE: an upload can hang for more than 24 hours

ASSUME NoneAssumption   == None \notin Object
ASSUME WorkerAssumption == Request \cap Cron = {}
ASSUME SwitchAssumption == MayAbort \in BOOLEAN /\ MayStall \in BOOLEAN

Worker == Request \cup Cron

VARIABLES
  purgeAfter,   \* objects.purge_after: "null", "ahead" of now() or "past"
  aged,         \* the objects whose created_at is more than 24 hours ago
  blob,         \* the pieces that lie in the storage
  urls,         \* the objects with a presigned PUT URL that is still valid
  task          \* what each worker is doing

vars == <<state, stores, deletes, purgeAfter, aged, blob, urls, task>>

Shelf == {"version", "trashed"}       \* the states that have a deadline

Step == {"idle", "head", "trash", "restore", "version", "loadCurrent",
         "promote", "erase", "sweep", "release", "relErase", "presign"}

\* at: the next step.  obj, cur: the object ids of the request.  seen: the state
\* the handler read.  todo: pieces still to visit.  queue: rows still to visit.
Task == [at : Step, obj : Object \cup {None}, cur : Object \cup {None},
         seen : State, todo : SUBSET Piece, queue : SUBSET Object]

\* A task on object o (and on c), which will visit every piece of it.
On(step, o, c, seen, queue) ==
  [at |-> step, obj |-> o, cur |-> c, seen |-> seen, todo |-> Piece, queue |-> queue]

\* A task between two rows of its queue.
Between(step, queue) ==
  [at |-> step, obj |-> None, cur |-> None, seen |-> "absent", todo |-> {}, queue |-> queue]

Idle == Between("idle", {})

TypeOK ==
  /\ LifeTypeOK
  /\ purgeAfter \in [Object -> {"null", "ahead", "past"}]
  /\ aged \subseteq Object
  /\ blob \subseteq Object \X Piece
  /\ urls \subseteq Object
  /\ task \in [Worker -> Task]

Init ==
  /\ LifeInit
  /\ purgeAfter = [o \in Object |-> "null"]
  /\ aged = {}
  /\ blob = {}
  /\ urls = {}
  /\ task = [w \in Worker |-> Idle]

ledger  == <<stores, deletes>>
outside == <<aged, urls>>

\* Worker w goes on with task t.
Go(w, t)  == task' = [task EXCEPT ![w] = t]
Return(w) == Go(w, Idle)
At(w, step) == task[w].at = step
Present(w)  == {p \in Piece : <<task[w].obj, p>> \in blob}

-----------------------------------------------------------------------------
(* Loading: every handler on an existing object starts with loadOwned.     *)

\* The row is read and the worker goes on at `step`, if the row has one of the
\* states the handler accepts.  Otherwise the request ends with an error, which
\* changes nothing.
Load(w, o, step, accepted) ==
  /\ At(w, "idle")
  /\ state[o] \in accepted
  /\ Go(w, On(step, o, None, state[o], {}))
  /\ UNCHANGED <<lifeVars, purgeAfter, aged, blob, urls>>

StartComplete(w, o) == Load(w, o, "head", {"uploading"})
StartTrash(w, o)    == Load(w, o, "trash", {"stored"})
StartRestore(w, o)  == Load(w, o, "restore", {"trashed"})
StartVersion(w, o)  == Load(w, o, "version", {"stored"})
StartRefresh(w, o)  == Load(w, o, "presign", {"uploading"})
StartPromote(w, o)  == Load(w, o, "loadCurrent", {"version"})
StartDelete(w, o)   == Load(w, o, "erase", State \ {"absent", "deleted"})

-----------------------------------------------------------------------------
(* createObject, with the release of uploads that hang                     *)

\* The stale uploads are selected.
StartCreate(w) ==
  /\ At(w, "idle")
  /\ Go(w, Between("release", {o \in aged : state[o] = "uploading"}))
  /\ UNCHANGED <<lifeVars, purgeAfter, aged, blob, urls>>

NextStale(w) ==
  /\ At(w, "release")
  /\ \E o \in task[w].queue :
       Go(w, On("relErase", o, None, "uploading", task[w].queue \ {o}))
  /\ UNCHANGED <<lifeVars, purgeAfter, aged, blob, urls>>

\* storage.delete of one piece; an error is swallowed and the piece stays.
EraseStale(w) ==
  /\ At(w, "relErase")
  /\ \E p \in task[w].todo :
       /\ blob' \in {blob, blob \ {<<task[w].obj, p>>}}
       /\ Go(w, [task[w] EXCEPT !.todo = @ \ {p}])
  /\ UNCHANGED <<lifeVars, purgeAfter, aged, urls>>

\* Faulty variant of FailStale: the UPDATE has no WHERE state = 'uploading'.
FailStaleAlways(w) ==
  /\ At(w, "relErase") /\ task[w].todo = {}
  /\ state' = [state EXCEPT ![task[w].obj] = "failed"]
  /\ Go(w, Between("release", task[w].queue))
  /\ UNCHANGED <<ledger, purgeAfter, aged, blob, urls>>

\* UPDATE ... 'failed' WHERE state = 'uploading'
FailStale(w) ==
  /\ At(w, "relErase") /\ task[w].todo = {}
  /\ LET o == task[w].obj IN
       state' = IF state[o] = "uploading" THEN [state EXCEPT ![o] = "failed"] ELSE state
  /\ Go(w, Between("release", task[w].queue))
  /\ UNCHANGED <<ledger, purgeAfter, aged, blob, urls>>

\* The transaction that checks the quota and inserts the row and its pieces.
Insert(w) ==
  /\ At(w, "release") /\ task[w].queue = {}
  /\ \E o \in Object :
       /\ Reserve(o)
       /\ Go(w, On("presign", o, None, "uploading", {}))
  /\ UNCHANGED <<purgeAfter, aged, blob, urls>>

\* No quota, a closed account or a stalled Filecoin backup: no row is inserted.
RefuseCreate(w) ==
  /\ At(w, "release") /\ task[w].queue = {}
  /\ Return(w)
  /\ UNCHANGED <<lifeVars, purgeAfter, aged, blob, urls>>

\* The PUT URLs of the object's pieces go to the client.
Presign(w) ==
  /\ At(w, "presign")
  /\ urls' = urls \cup {task[w].obj}
  /\ Return(w)
  /\ UNCHANGED <<lifeVars, purgeAfter, aged, blob>>

-----------------------------------------------------------------------------
(* completeObject                                                          *)

\* Faulty variant of CheckPiece: the answer of storage.head is not looked at.
CheckPieceBlindly(w) ==
  /\ At(w, "head")
  /\ \E p \in task[w].todo : Go(w, [task[w] EXCEPT !.todo = @ \ {p}])
  /\ UNCHANGED <<lifeVars, purgeAfter, aged, blob, urls>>

\* storage.head of one piece; a missing piece ends the request.
CheckPiece(w) ==
  /\ At(w, "head")
  /\ \E p \in task[w].todo :
       Go(w, IF p \in Present(w) THEN [task[w] EXCEPT !.todo = @ \ {p}] ELSE Idle)
  /\ UNCHANGED <<lifeVars, purgeAfter, aged, blob, urls>>

\* UPDATE ... 'stored' WHERE state = 'uploading', and the booking if a row changed.
Store(w) ==
  /\ At(w, "head") /\ task[w].todo = {}
  /\ IF state[task[w].obj] = "uploading" THEN Book(task[w].obj) ELSE UNCHANGED lifeVars
  /\ Return(w)
  /\ UNCHANGED <<purgeAfter, aged, blob, urls>>

-----------------------------------------------------------------------------
(* deleteObject and purgeExpiredTrash, both through purgeObject            *)

\* Faulty variant of Select: expired versions are forgotten.
SelectTrashOnly(w) ==
  /\ At(w, "idle")
  /\ LET due == {o \in Object : state[o] = "trashed" /\ purgeAfter[o] = "past"} IN
       /\ due # {}
       /\ Go(w, Between("sweep", due))
  /\ UNCHANGED <<lifeVars, purgeAfter, aged, blob, urls>>

\* purgeExpiredTrash selects the rows whose deadline has passed.
Select(w) ==
  /\ At(w, "idle")
  /\ LET due == {o \in Object : state[o] \in Shelf /\ purgeAfter[o] = "past"} IN
       /\ due # {}
       /\ Go(w, Between("sweep", due))
  /\ UNCHANGED <<lifeVars, purgeAfter, aged, blob, urls>>

\* It purges them one by one; whatever the row says now, it passes 'trashed'.
Sweep(w) ==
  /\ At(w, "sweep")
  /\ \E o \in task[w].queue :
       Go(w, On("erase", o, None, "trashed", task[w].queue \ {o}))
  /\ UNCHANGED <<lifeVars, purgeAfter, aged, blob, urls>>

\* storage.delete of one piece
Erase(w) ==
  /\ At(w, "erase")
  /\ \E p \in task[w].todo :
       /\ blob' = blob \ {<<task[w].obj, p>>}
       /\ Go(w, [task[w] EXCEPT !.todo = @ \ {p}])
  /\ UNCHANGED <<lifeVars, purgeAfter, aged, urls>>

\* Back to purgeExpiredTrash's loop, or the end of the request.
AfterPurge(w) ==
  IF task[w].queue = {} THEN Return(w)
  ELSE Go(w, Between("sweep", task[w].queue))

\* Faulty variant of Forget: every deletion is booked, also of an unfinished upload.
ForgetAndAlwaysBook(w) ==
  /\ At(w, "erase") /\ task[w].todo = {}
  /\ LET o == task[w].obj IN
       IF state[o] = "deleted"
       THEN UNCHANGED <<lifeVars, purgeAfter>>
       ELSE /\ state'      = [state EXCEPT ![o] = "deleted"]
            /\ purgeAfter' = [purgeAfter EXCEPT ![o] = "null"]
            /\ deletes'    = [deletes EXCEPT ![o] = @ + 1]
            /\ UNCHANGED stores
  /\ AfterPurge(w)
  /\ UNCHANGED <<aged, blob, urls>>

\* UPDATE ... 'deleted' WHERE state <> 'deleted'.  The booking follows the state
\* that was read before the storage was called.
Forget(w) ==
  /\ At(w, "erase") /\ task[w].todo = {}
  /\ LET o == task[w].obj IN
       IF state[o] = "deleted"
       THEN UNCHANGED <<lifeVars, purgeAfter>>
       ELSE /\ state'      = [state EXCEPT ![o] = "deleted"]
            /\ purgeAfter' = [purgeAfter EXCEPT ![o] = "null"]
            /\ deletes'    = IF task[w].seen \in Held
                             THEN [deletes EXCEPT ![o] = @ + 1] ELSE deletes
            /\ UNCHANGED stores
  /\ AfterPurge(w)
  /\ UNCHANGED <<aged, blob, urls>>

-----------------------------------------------------------------------------
(* Trash and versions: one conditional UPDATE each                         *)

\* Faulty variant of Move: the parameters of the UPDATE in the wrong order.
MoveSwapped(o, from, to, deadline) ==
  IF state[o] = from
  THEN /\ state'      = [state EXCEPT ![o] = deadline]
       /\ purgeAfter' = [purgeAfter EXCEPT ![o] = to]
  ELSE UNCHANGED <<state, purgeAfter>>

\* UPDATE objects SET state = to, purge_after = deadline WHERE id = o AND state = from
Move(o, from, to, deadline) ==
  IF state[o] = from
  THEN /\ state'      = [state EXCEPT ![o] = to]
       /\ purgeAfter' = [purgeAfter EXCEPT ![o] = deadline]
  ELSE UNCHANGED <<state, purgeAfter>>

MoveStep(w, step, from, to, deadline) ==
  /\ At(w, step)
  /\ Move(task[w].obj, from, to, deadline)
  /\ Return(w)
  /\ UNCHANGED <<ledger, aged, blob, urls>>

Trash(w)   == MoveStep(w, "trash",   "stored",  "trashed", "ahead")
\* Faulty variant of Restore: the deadline of the trash is kept.
RestoreKeepingDeadline(w) == MoveStep(w, "restore", "trashed", "stored", "ahead")
Restore(w) == MoveStep(w, "restore", "trashed", "stored",  "null")
Version(w) == MoveStep(w, "version", "stored",  "version", "ahead")

\* promoteVersion reads the current object's row after the version's row.
LoadCurrent(w) ==
  /\ At(w, "loadCurrent")
  /\ \/ \E c \in Object \ {task[w].obj} :
          /\ state[c] = "stored"
          /\ Go(w, On("promote", task[w].obj, c, "version", {}))
     \/ Return(w)                 \* it is missing or not 'stored'
  /\ UNCHANGED <<lifeVars, purgeAfter, aged, blob, urls>>

\* Two conditional UPDATEs in one transaction; neither's row count is looked at.
Promote(w) ==
  /\ At(w, "promote")
  /\ LET v == task[w].obj
         c == task[w].cur
         up   == state[v] = "version"
         down == state[c] = "stored"
     IN /\ state' = [state EXCEPT ![v] = IF up THEN "stored" ELSE @,
                                  ![c] = IF down THEN "version" ELSE @]
        /\ purgeAfter' = [purgeAfter EXCEPT ![v] = IF up THEN "null" ELSE @,
                                            ![c] = IF down THEN "ahead" ELSE @]
  /\ Return(w)
  /\ UNCHANGED <<ledger, aged, blob, urls>>

-----------------------------------------------------------------------------
(* Failure and the world outside the server                                *)

\* The process dies, or an exception of the storage or the database ends it.
Abort(w) ==
  /\ MayAbort
  /\ ~At(w, "idle")
  /\ Return(w)
  /\ UNCHANGED <<lifeVars, purgeAfter, aged, blob, urls>>

\* The client (or one of its retries) uploads a piece with a valid URL.
Put(o, p) ==
  /\ o \in urls
  /\ blob' = blob \cup {<<o, p>>}
  /\ UNCHANGED <<lifeVars, purgeAfter, aged, urls, task>>

\* 60 minutes pass.
UrlExpires(o) ==
  /\ o \in urls
  /\ urls' = urls \ {o}
  /\ UNCHANGED <<lifeVars, purgeAfter, aged, blob, task>>

\* 24 hours pass.
Age(o) ==
  /\ MayStall
  /\ state[o] = "uploading" /\ o \notin aged
  /\ aged' = aged \cup {o}
  /\ UNCHANGED <<lifeVars, purgeAfter, blob, urls, task>>

\* The retention period passes.
Deadline(o) ==
  /\ purgeAfter[o] = "ahead"
  /\ purgeAfter' = [purgeAfter EXCEPT ![o] = "past"]
  /\ UNCHANGED <<lifeVars, aged, blob, urls, task>>

-----------------------------------------------------------------------------
Start(w, o) ==
  \/ StartComplete(w, o) \/ StartRefresh(w, o) \/ StartDelete(w, o)
  \/ StartTrash(w, o) \/ StartRestore(w, o) \/ StartVersion(w, o) \/ StartPromote(w, o)

\* What a worker does once it has started: it runs on unless it dies.
Continue(w) ==
  \/ NextStale(w) \/ EraseStale(w) \/ FailStale(w) \/ Insert(w) \/ RefuseCreate(w)
  \/ Presign(w) \/ CheckPiece(w) \/ Store(w) \/ Sweep(w) \/ Erase(w) \/ Forget(w)
  \/ Trash(w) \/ Restore(w) \/ Version(w) \/ LoadCurrent(w) \/ Promote(w)

Environment ==
  \E o \in Object :
    \/ UrlExpires(o) \/ Age(o) \/ Deadline(o)
    \/ \E p \in Piece : Put(o, p)

Next ==
  \/ \E w \in Request : StartCreate(w) \/ \E o \in Object : Start(w, o)
  \/ \E w \in Cron : Select(w)
  \/ \E w \in Worker : Continue(w) \/ Abort(w)
  \/ Environment

Spec == Init /\ [][Next]_vars

\* Handlers run to their end and the maintenance job is started again and again
\* (setInterval in foc/worker.ts, the cron route on Vercel).
Fairness ==
  /\ \A w \in Worker : WF_vars(Continue(w))
  /\ \A w \in Cron   : WF_vars(Select(w))
FairSpec == Spec /\ Fairness

-----------------------------------------------------------------------------
(* The inductive invariant behind the ledger                               *)

\* An object whose upload was booked; it never becomes unbooked again.
Settled(o) == state[o] \in Held \cup {"deleted"}

\* An object that has a row; rows are never removed.
Known(o) == state[o] # "absent"

\* What a task record may rely on, however old it is: a worker that is about to
\* act has an object with a row, and what a purge believes to be booked was booked.
Sound(t) ==
  /\ t.at \notin {"idle", "sweep", "release"} => t.obj \in Object /\ Known(t.obj)
  /\ t.at = "promote" => t.cur \in Object
  /\ \A o \in t.queue : Known(o)
  /\ t.at = "erase" /\ t.seen \in Held => Settled(t.obj)
  /\ t.at \in {"erase", "sweep"} => \A o \in t.queue : Settled(o)

\* Whatever a purge has read of an object stays true enough to book its end.
TasksAreSound == \A w \in Worker : Sound(task[w])

-----------------------------------------------------------------------------
(* Properties                                                              *)

\* Only shelved objects carry a deadline, and every shelved object does: else
\* purgeExpiredTrash would never free it (trash/restore/version/promote races).
DeadlineIffShelved == \A o \in Object : purgeAfter[o] = "null" <=> state[o] \notin Shelf

\* The bytes of a held object are complete, unless a purge of this very object
\* is under way (purgeObject erases before it updates the row).
Erasing(o) == \E w \in Worker : At(w, "erase") /\ task[w].obj = o
HeldHasBytes ==
  \A o \in Object : state[o] \in Held =>
    \/ \A p \in Piece : <<o, p>> \in blob
    \/ Erasing(o)

\* The detailed service implements the life cycle and ledger it promises.
ImplementsLife == LifeSpec

\* What a due entry of the trash or a due version must come to.
DueIsPurged ==
  \A o \in Object : (state[o] \in Shelf /\ purgeAfter[o] = "past")
                      ~> ~(state[o] \in Shelf /\ purgeAfter[o] = "past")

\* --- statements of the code's comments and documents that the code breaks ---

\* usage_ledger after a deletion sums to zero (service.test.ts: 'store' is
\* followed by 'delete').
LedgerClosed ==
  \A o \in Object : state[o] = "deleted" => stores[o] = deletes[o]

\* completeObject: when the object starts to count as stored, every piece lies
\* in the storage, or the owner is deleting it at this moment.
StoredWhenComplete ==
  [][\A o \in Object : state[o] = "uploading" /\ state'[o] = "stored" =>
       Erasing(o) \/ \A p \in Piece : <<o, p>> \in blob]_vars

\* The maintenance job removes expired entries of the trash, never a file that
\* is (again) stored.
CronPurgesShelfOnly ==
  [][\A w \in Cron, o \in Object :
       task'[w] # task[w] /\ state'[o] # state[o] => state[o] \in Shelf]_vars

\* promoteVersion: when the current object becomes a version, the chosen version
\* becomes the current one.
PromoteSwaps ==
  [][\A w \in Request :
       /\ At(w, "promote") /\ task'[w] = Idle
       /\ state'[task[w].cur] # state[task[w].cur]
       => state'[task[w].obj] = "stored"]_vars

\* A deleted object leaves nothing behind in the storage.
DeletedLeavesNothing ==
  \A o \in Object : state[o] = "deleted" => \A p \in Piece : <<o, p>> \notin blob

\* An upload that hangs for more than 24 hours is released.
StaleIsReleased ==
  \A o \in Object : (state[o] = "uploading" /\ o \in aged) ~> state[o] # "uploading"
=============================================================================

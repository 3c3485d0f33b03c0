------------------------------- MODULE S3Store -------------------------------
(***************************************************************************)
(* The S3 store of an account (server/s3/store.ts), seen from one key of   *)
(* one bucket: PUT, DELETE, retention (Object Lock) and multipart uploads, *)
(* over the tables s3_objects, s3_uploads, s3_parts, objects,              *)
(* object_pieces and the blob storage.  One step per await that matters;   *)
(* a transaction is one step unless another one can slip in.               *)
(*                                                                         *)
(* A body fits in one piece.  The upload id of a multipart upload is its   *)
(* object.  The quota check is FamilyPool's subject: a refused request     *)
(* changes nothing and is not modelled here.                               *)
(***************************************************************************)
EXTENDS ObjectLife

CONSTANTS
  Part,         \* part numbers of multipart uploads
  Whole,        \* the number of a piece outside any part: index below 1000
  Request,      \* request handlers that can run at the same time
  Mode,         \* retention modes in use: subset of GOVERNANCE, COMPLIANCE
  MaxTime,      \* bound: the last instant a retention can name
  None,         \* "no object"
  MayRepeat,    \* TRUE: a client sends a request for an upload again, or another
                \* one for it, before the first is answered
  Failing,      \* the requests whose handlers can die or meet an exception at any await
  MayStall      \* TRUE: an upload can take longer than 24 hours

ASSUME NoneAssumption   == None \notin Object
ASSUME PartAssumption   == Whole \notin Part
ASSUME ModeAssumption   == Mode \subseteq {"GOVERNANCE", "COMPLIANCE"}
ASSUME TimeAssumption   == MaxTime \in Nat
ASSUME SwitchAssumption == {MayRepeat, MayStall} \subseteq BOOLEAN

VARIABLES
  now,          \* the clock, in instants that retentions name
  entry,        \* the row of s3_objects at the key
  piece,        \* rows of object_pieces: <<object, slot of the storage key, part>>
  blob,         \* the storage: <<object, slot>>
  upload,       \* rows of s3_uploads: the retention an open upload asks for
  noted,        \* rows of s3_parts, per upload
  task          \* what each handler is doing

vars == <<state, stores, deletes, now, entry, piece, blob, upload, noted, task>>

Slot      == Part \cup {Whole}
NoLock    == [mode |-> "none", until |-> 0]
Retention == {NoLock} \cup [mode : Mode, until : 1..MaxTime]
Closed    == [mode |-> "closed", until |-> 0]
NoEntry   == [obj |-> None, ret |-> NoLock]
Entry     == {NoEntry} \cup [obj : Object, ret : Retention]

Step == {"idle", "new", "open", "write", "list", "commit", "upsert", "free", "remove",
         "retain", "clear", "clearBlob", "survey", "discard", "discardBlob", "number",
         "close", "drop", "dropBlob", "mark"}
Kind == {"none", "put", "create", "part", "complete", "abort", "delete", "retention"}

\* kind: the request.  obj: its object.  ret: its retention.  parts: the slot it
\* writes, or the parts it names.  rows: the rows <<slot, part>> it has read of
\* obj, to delete them or their blobs.  prey: the object it replaces or deletes.
Task == [kind : Kind, at : Step, obj : Object \cup {None}, ret : Retention,
         parts : SUBSET Slot, rows : SUBSET (Slot \X Slot), prey : Object \cup {None}]

Idle == [kind |-> "none", at |-> "idle", obj |-> None, ret |-> NoLock,
         parts |-> {}, rows |-> {}, prey |-> None]

TypeOK ==
  /\ LifeTypeOK
  /\ now \in 0..MaxTime
  /\ entry \in Entry
  /\ piece \subseteq Object \X Slot \X Slot
  /\ blob \subseteq Object \X Slot
  /\ upload \in [Object -> Retention \cup {Closed}]
  /\ noted \in [Object -> SUBSET Part]
  /\ task \in [Request -> Task]

Init ==
  /\ LifeInit
  /\ now = 0
  /\ entry = NoEntry
  /\ piece = {}
  /\ blob = {}
  /\ upload = [o \in Object |-> Closed]
  /\ noted = [o \in Object |-> {}]
  /\ task = [w \in Request |-> Idle]

tables  == <<piece, upload, noted>>
nothing == <<lifeVars, now, entry, tables, blob>>

At(w, step)   == task[w].at = step
For(w, kind)  == task[w].kind = kind
Begin(w, t)   == At(w, "idle") /\ task' = [task EXCEPT ![w] = t]
Goto(w, step) == task' = [task EXCEPT ![w].at = step]
Keep(w, step, rows) == task' = [task EXCEPT ![w].at = step, ![w].rows = rows]
Return(w)     == task' = [task EXCEPT ![w] = Idle]

\* One request per upload at a time, unless clients repeat themselves.
MayServe(o) == MayRepeat \/ \A w \in Request : task[w].obj # o

\* locked(): the entry is protected from a request.
Locked(e, bypass) == e.ret.until > now /\ (e.ret.mode = "COMPLIANCE" \/ ~bypass)

\* The rows of an object, and the storage without the blobs of some rows.
Rows(o)        == {r \in Slot \X Slot : <<o, r[1], r[2]>> \in piece}
Without(o, rs) == {b \in blob : b[1] = o => \A r \in rs : r[1] # b[2]}

-----------------------------------------------------------------------------
(* put                                                                     *)

StartPut(w, ret) ==
  /\ ~Locked(entry, FALSE)
  /\ Begin(w, [Idle EXCEPT !.kind = "put", !.at = "new", !.ret = ret, !.parts = {Whole}])
  /\ UNCHANGED nothing

\* newObject, also for mpCreate
NewObject(w) ==
  /\ At(w, "new")
  /\ \E o \in Object :
       /\ Reserve(o)
       /\ task' = [task EXCEPT ![w].obj = o, ![w].at = IF For(w, "put") THEN "write" ELSE "open"]
  /\ UNCHANGED <<now, entry, tables, blob>>

\* assertQuota refuses a put, or the INSERT fails.
Refuse(w) ==
  /\ At(w, "new")
  /\ Return(w)
  /\ UNCHANGED nothing

\* writePieces: the blob, then its row.
WriteBlob(w) ==
  /\ At(w, "write")
  /\ blob' = blob \cup ({task[w].obj} \X task[w].parts)
  /\ Goto(w, "list")
  /\ UNCHANGED <<lifeVars, now, entry, tables>>

ListPiece(w) ==
  /\ At(w, "list") /\ For(w, "put")
  /\ piece' = piece \cup {<<task[w].obj, Whole, Whole>>}
  /\ Goto(w, "commit")
  /\ UNCHANGED <<lifeVars, now, entry, upload, noted, blob>>

-----------------------------------------------------------------------------
(* commit, for put and mpComplete                                          *)

\* The object of w becomes the key's object and replaces e's, if that is stored.
\* The UPDATE of the new object to 'stored' has no condition on its state.
Publish(w, e) ==
  LET o      == task[w].obj
      stored == [state EXCEPT ![o] = "stored"]
      dead   == {d \in Object : d = e.obj /\ stored[d] = "stored"}
  IN /\ state'   = [d \in Object |-> IF d \in dead THEN "deleted" ELSE stored[d]]
     /\ stores'  = [stores EXCEPT ![o] = @ + 1]
     /\ deletes' = [d \in Object |-> IF d \in dead THEN deletes[d] + 1 ELSE deletes[d]]
     /\ entry'   = [obj |-> o, ret |-> task[w].ret]
     /\ task'    = [task EXCEPT ![w].at = "free", ![w].prey = IF dead = {} THEN None ELSE e.obj]

\* Faulty variant of Commit: the lock is not looked at again.
CommitUnchecked(w) ==
  /\ At(w, "commit")
  /\ IF entry = NoEntry THEN Goto(w, "upsert") /\ UNCHANGED <<lifeVars, entry>>
     ELSE Publish(w, entry)
  /\ UNCHANGED <<now, tables, blob>>

\* SELECT ... FOR UPDATE: the lock is looked at.  If the key has a row, nobody can
\* touch it until the commit; if it has none, there is nothing to hold.
Commit(w) ==
  /\ At(w, "commit")
  /\ ~Locked(entry, FALSE)
  /\ IF entry = NoEntry THEN Goto(w, "upsert") /\ UNCHANGED <<lifeVars, entry>>
     ELSE Publish(w, entry)
  /\ UNCHANGED <<now, tables, blob>>

\* INSERT ... ON CONFLICT DO UPDATE, after a SELECT that found no row.
Upsert(w) ==
  /\ At(w, "upsert")
  /\ Publish(w, NoEntry)
  /\ UNCHANGED <<now, tables, blob>>

\* The key is locked: put drops its object, mpComplete ends with an error.
CommitRefused(w) ==
  /\ At(w, "commit")
  /\ Locked(entry, FALSE)
  /\ IF For(w, "put") THEN Goto(w, "drop") ELSE Return(w)
  /\ UNCHANGED nothing

\* Faulty variant of Free: what is freed is looked up by the key, not by the object read.
FreeCurrent(w) ==
  /\ At(w, "free")
  /\ blob' \in {blob, IF task[w].prey = None \/ entry = NoEntry THEN blob
                      ELSE Without(entry.obj, Rows(entry.obj))}
  /\ IF For(w, "complete") THEN Goto(w, "close") ELSE Return(w)
  /\ UNCHANGED <<lifeVars, now, entry, tables>>

\* After the commit: the blobs of the replaced or deleted object, errors swallowed.
Free(w) ==
  /\ At(w, "free")
  /\ blob' \in {blob, IF task[w].prey = None THEN blob
                      ELSE Without(task[w].prey, Rows(task[w].prey))}
  /\ IF For(w, "complete") THEN Goto(w, "close") ELSE Return(w)
  /\ UNCHANGED <<lifeVars, now, entry, tables>>

-----------------------------------------------------------------------------
(* delete and setRetention                                                 *)

StartDelete(w, bypass) ==
  /\ entry # NoEntry
  /\ ~Locked(entry, bypass)
  /\ Begin(w, [Idle EXCEPT !.kind = "delete", !.at = "remove", !.prey = entry.obj])
  /\ UNCHANGED nothing

\* Faulty variant of RemoveEntry: the booking ignores the UPDATE's row count.
RemoveAndAlwaysBook(w) ==
  /\ At(w, "remove")
  /\ entry' = NoEntry
  /\ state'   = [state EXCEPT ![task[w].prey] = "deleted"]
  /\ deletes' = [deletes EXCEPT ![task[w].prey] = @ + 1]
  /\ Goto(w, "free")
  /\ UNCHANGED <<stores, now, tables, blob>>

\* The transaction deletes the row of the key, and the object that was read.
RemoveEntry(w) ==
  /\ At(w, "remove")
  /\ entry' = NoEntry
  /\ LET d == task[w].prey IN
       IF state[d] = "stored"
       THEN /\ state'   = [state EXCEPT ![d] = "deleted"]
            /\ deletes' = [deletes EXCEPT ![d] = @ + 1]
       ELSE UNCHANGED <<state, deletes>>
  /\ Goto(w, "free")
  /\ UNCHANGED <<stores, now, tables, blob>>

\* Shortening or weakening an active retention is refused, except GOVERNANCE with
\* the bypass header.
StartRetention(w, ret, bypass) ==
  /\ entry # NoEntry /\ ret # NoLock
  /\ LET old     == entry.ret
         shorter == /\ old.until > now
                    /\ \/ ret.until < old.until
                       \/ old.mode = "COMPLIANCE" /\ ret.mode = "GOVERNANCE"
     IN ~(shorter /\ (old.mode = "COMPLIANCE" \/ ~bypass))
  /\ Begin(w, [Idle EXCEPT !.kind = "retention", !.at = "retain", !.ret = ret])
  /\ UNCHANGED nothing

\* UPDATE s3_objects WHERE key = ...: the row that is there now, if any.
Retain(w) ==
  /\ At(w, "retain")
  /\ entry' = IF entry = NoEntry THEN entry ELSE [obj |-> entry.obj, ret |-> task[w].ret]
  /\ Return(w)
  /\ UNCHANGED <<lifeVars, now, tables, blob>>

-----------------------------------------------------------------------------
(* Multipart uploads                                                       *)

StartCreate(w, ret) ==
  /\ ~Locked(entry, FALSE)
  /\ Begin(w, [Idle EXCEPT !.kind = "create", !.at = "new", !.ret = ret])
  /\ UNCHANGED nothing

OpenUpload(w) ==
  /\ At(w, "open")
  /\ upload' = [upload EXCEPT ![task[w].obj] = task[w].ret]
  /\ Return(w)
  /\ UNCHANGED <<lifeVars, now, entry, piece, noted, blob>>

\* The requests for an upload read its row, which has the retention of the object.
StartOn(w, o, kind, step, parts) ==
  /\ upload[o] # Closed /\ MayServe(o)
  /\ Begin(w, [Idle EXCEPT !.kind = kind, !.at = step, !.obj = o, !.ret = upload[o],
                           !.parts = parts])
  /\ UNCHANGED nothing

StartPart(w, o, p) == StartOn(w, o, "part", "clear", {p})
StartAbort(w, o)   == StartOn(w, o, "abort", "drop", {})
StartComplete(w, o, chosen) ==
  /\ chosen # {} /\ chosen \subseteq noted[o]      \* else InvalidPart
  /\ StartOn(w, o, "complete", "survey", chosen)

\* Faulty variant of ClearPart: the rows of all parts are deleted.
ClearAllParts(w) ==
  /\ At(w, "clear")
  /\ LET o == task[w].obj IN
        /\ piece' = piece \ {<<o, r[1], r[2]>> : r \in Rows(o)}
        /\ Keep(w, "clearBlob", Rows(o))
  /\ UNCHANGED <<lifeVars, now, entry, upload, noted, blob>>

\* mpPart: the rows of an earlier attempt, then their blobs, then the new ones.
ClearPart(w) ==
  /\ At(w, "clear")
  /\ LET o   == task[w].obj
         old == {r \in Rows(o) : r[2] \in task[w].parts}
     IN /\ piece' = piece \ {<<o, r[1], r[2]>> : r \in old}
        /\ Keep(w, "clearBlob", old)
  /\ UNCHANGED <<lifeVars, now, entry, upload, noted, blob>>

ClearBlob(w) ==
  /\ At(w, "clearBlob")
  /\ blob' \in {blob, Without(task[w].obj, task[w].rows)}
  /\ Goto(w, "write")
  /\ UNCHANGED <<lifeVars, now, entry, tables>>

\* INSERT INTO object_pieces, then INTO s3_parts.  The first fails if the row is
\* there, the second if the upload is closed.
ListPart(w) ==
  /\ At(w, "list") /\ For(w, "part")
  /\ LET o    == task[w].obj
         rows == {<<o, p, p>> : p \in task[w].parts}
     IN IF rows \subseteq piece
        THEN UNCHANGED <<piece, noted>>
        ELSE /\ piece' = piece \cup rows
             /\ noted' = IF upload[o] = Closed THEN noted
                         ELSE [noted EXCEPT ![o] = @ \cup task[w].parts]
  /\ Return(w)
  /\ UNCHANGED <<lifeVars, now, entry, upload, blob>>

\* mpComplete: the rows of parts that are not named, by the part their index says.
Survey(w) ==
  /\ At(w, "survey")
  /\ Keep(w, "discard", {r \in Rows(task[w].obj) : r[2] \notin task[w].parts})
  /\ UNCHANGED nothing

Discard(w) ==
  /\ At(w, "discard")
  /\ piece' = piece \ {<<task[w].obj, r[1], r[2]>> : r \in task[w].rows}
  /\ Goto(w, "discardBlob")
  /\ UNCHANGED <<lifeVars, now, entry, upload, noted, blob>>

DiscardBlob(w) ==
  /\ At(w, "discardBlob")
  /\ blob' \in {blob, Without(task[w].obj, task[w].rows)}
  /\ Goto(w, "number")
  /\ UNCHANGED <<lifeVars, now, entry, tables>>

\* The two UPDATEs that number the pieces from 0: their index no longer says a part.
Number(w) ==
  /\ At(w, "number")
  /\ LET o == task[w].obj IN
       piece' = {IF x[1] = o THEN <<o, x[2], Whole>> ELSE x : x \in piece}
  /\ Goto(w, "commit")
  /\ UNCHANGED <<lifeVars, now, entry, upload, noted, blob>>

\* DELETE FROM s3_uploads, which takes the s3_parts along.
CloseUpload(w) ==
  /\ At(w, "close")
  /\ upload' = [upload EXCEPT ![task[w].obj] = Closed]
  /\ noted'  = [noted EXCEPT ![task[w].obj] = {}]
  /\ Return(w)
  /\ UNCHANGED <<lifeVars, now, entry, piece, blob>>

-----------------------------------------------------------------------------
(* dropObject, for mpAbort and for a put that failed                       *)

DropRead(w) ==
  /\ At(w, "drop")
  /\ Keep(w, "dropBlob", Rows(task[w].obj))
  /\ UNCHANGED nothing

DropBlob(w) ==
  /\ At(w, "dropBlob")
  /\ blob' \in {blob, Without(task[w].obj, task[w].rows)}
  /\ Goto(w, "mark")
  /\ UNCHANGED <<lifeVars, now, entry, tables>>

\* UPDATE ... 'deleted', whatever the state is
MarkDropped(w) ==
  /\ At(w, "mark")
  /\ state' = [state EXCEPT ![task[w].obj] = "deleted"]
  /\ IF For(w, "abort") THEN Goto(w, "close") ELSE Return(w)
  /\ UNCHANGED <<stores, deletes, now, entry, tables, blob>>

-----------------------------------------------------------------------------
(* Failures and the world outside                                          *)

\* The process dies.
Die(w) ==
  /\ \E kind \in Failing : For(w, kind)
  /\ Return(w)
  /\ UNCHANGED nothing

\* An exception in put after newObject is caught: dropObject, then the error.  The try
\* also holds the commit and what follows it: when the answer to the COMMIT is lost, or
\* the SELECT of the pieces to free fails, the object is the key's already.
PutFails(w) ==
  /\ "put" \in Failing /\ For(w, "put")
  /\ task[w].at \in {"write", "list", "commit", "upsert", "free"}
  /\ Goto(w, "drop")
  /\ UNCHANGED nothing

\* createObject of the owner's web app releases what is 'uploading' for 24 hours
\* (releaseStaleUploads, ObjectLifecycle's subject; here in one step): what died
\* handlers left behind, and an upload that is still open or running by then.
ReleaseStale(o) ==
  /\ \/ MayStall
     \/ upload[o] = Closed /\ \A w \in Request : task[w].obj # o
  /\ state[o] = "uploading"
  /\ blob' \in {blob, Without(o, Rows(o))}
  /\ Release(o)
  /\ UNCHANGED <<now, entry, tables, task>>

Tick ==
  /\ now < MaxTime
  /\ now' = now + 1
  /\ UNCHANGED <<lifeVars, entry, tables, blob, task>>

-----------------------------------------------------------------------------
Start(w) ==
  \/ \E ret \in Retention :
       \/ StartPut(w, ret) \/ StartCreate(w, ret)
       \/ \E bypass \in BOOLEAN : StartRetention(w, ret, bypass)
  \/ \E bypass \in BOOLEAN : StartDelete(w, bypass)
  \/ \E o \in Object :
       \/ StartAbort(w, o)
       \/ \E p \in Part : StartPart(w, o, p)
       \/ \E chosen \in SUBSET Part : StartComplete(w, o, chosen)

Continue(w) ==
  \/ NewObject(w) \/ Refuse(w) \/ WriteBlob(w) \/ ListPiece(w) \/ Commit(w) \/ Upsert(w)
  \/ CommitRefused(w) \/ Free(w) \/ RemoveEntry(w) \/ Retain(w) \/ OpenUpload(w)
  \/ ClearPart(w) \/ ClearBlob(w) \/ ListPart(w) \/ Survey(w) \/ Discard(w)
  \/ DiscardBlob(w) \/ Number(w) \/ CloseUpload(w) \/ DropRead(w) \/ DropBlob(w)
  \/ MarkDropped(w)

Next ==
  \/ \E w \in Request : Start(w) \/ Continue(w) \/ Die(w) \/ PutFails(w)
  \/ \E o \in Object : ReleaseStale(o)
  \/ Tick

Spec == Init /\ [][Next]_vars

-----------------------------------------------------------------------------
(* Properties                                                              *)

\* An object that a GET can read: stored, and its pieces are all there.
Complete(o) ==
  /\ state[o] = "stored"
  /\ Rows(o) # {}
  /\ \A r \in Rows(o) : <<o, r[1]>> \in blob

\* What an upload that a client may still complete has: the bytes of its parts.
PartsAreKept ==
  \A o \in Object : upload[o] # Closed /\ state[o] = "uploading"
                    /\ (\A w \in Request : task[w].obj # o) =>
    \A p \in noted[o] : \E r \in Rows(o) : r[1] = p /\ <<o, p>> \in blob
=============================================================================

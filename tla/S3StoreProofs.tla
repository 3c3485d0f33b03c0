---------------------------- MODULE S3StoreProofs ----------------------------
(***************************************************************************)
(* For any objects, parts, handlers and instants: the types of the S3      *)
(* store, Object Lock with requests at the same time, the ledger, the life *)
(* cycle of the rows it shares with the object service, and, for careful   *)
(* clients, that what a key names can be read.                             *)
(*                                                                         *)
(* One invariant per question, each on top of the one before it.  StoreInv *)
(* says at which steps a request can be and what its task then carries.    *)
(* LockInv: what a handler saw still holds, unless the row has changed.     *)
(* OwnInv: no two handlers have the same object (clients wait for their    *)
(* answers).  LedgerInv: what may still be published is not booked.        *)
(* LifeInv: what is worked on, or open, is an upload.                      *)
(* BytesInv: how far each handler is with the pieces of its object, and    *)
(* that the objects nobody works on are whole.                             *)
(***************************************************************************)
EXTENDS S3History, TLAPS

USE NoneAssumption, PartAssumption, ModeAssumption, TimeAssumption

-----------------------------------------------------------------------------
(* The types                                                               *)

\* The steps of each kind of request, and what its task carries.
Fits(t) ==
  /\ t.kind = "none"      <=> t.at = "idle"
  /\ t.kind = "put"       => /\ t.at \in {"new", "write", "list", "commit", "upsert", "free",
                                          "drop", "dropBlob", "mark"}
                             /\ t.parts = {Whole}
  /\ t.kind = "create"    => t.at \in {"new", "open"}
  /\ t.kind = "part"      => /\ t.at \in {"clear", "clearBlob", "write", "list"}
                             /\ \E p \in Part : t.parts = {p}
  /\ t.kind = "complete"  => /\ t.at \in {"survey", "discard", "discardBlob", "number",
                                          "commit", "upsert", "free", "close"}
                             /\ t.parts \subseteq Part /\ t.parts # {}
  /\ t.kind = "abort"     => t.at \in {"drop", "dropBlob", "mark", "close"}
  /\ t.kind = "delete"    => t.at \in {"remove", "free"} /\ t.prey \in Object
  /\ t.kind = "retention" => t.at = "retain" /\ t.ret # NoLock
  /\ t.obj = None         <=> t.at \in {"idle", "new"} \/ t.kind \in {"delete", "retention"}

TasksFit == \A w \in Request : Fits(task[w])

StoreInv == TypeOK /\ TasksFit

LEMMA IdleFits == Idle \in Task /\ Fits(Idle)
BY DEF Idle, Task, Kind, Step, Retention, NoLock, Fits

LEMMA StoreInit == Init => StoreInv
<1> SUFFICES ASSUME Init PROVE StoreInv
  OBVIOUS
<1>1. LifeTypeOK
  BY DEF Init, LifeInit, LifeTypeOK, State, Held
<1>2. entry \in Entry /\ upload \in [Object -> Retention \cup {Closed}] /\ now \in 0..MaxTime
  BY DEF Init, Entry
<1>3. piece \subseteq Object \X Slot \X Slot /\ blob \subseteq Object \X Slot
      /\ noted \in [Object -> SUBSET Part]
  BY DEF Init
<1>4. task \in [Request -> Task] /\ TasksFit
  BY IdleFits DEF Init, TasksFit
<1>5. QED
  BY <1>1, <1>2, <1>3, <1>4 DEF StoreInv, TypeOK

\* A handler goes on with task t.
Takes(w, t) == task' = [task EXCEPT ![w] = t]

LEMMA TakesFits ==
  ASSUME StoreInv, NEW w \in Request, NEW t \in Task, Fits(t), Takes(w, t)
  PROVE  task' \in [Request -> Task] /\ TasksFit'
BY DEF StoreInv, TypeOK, TasksFit, Takes

LEMMA ReturnFits ==
  ASSUME StoreInv, NEW w \in Request, Return(w)
  PROVE  task' \in [Request -> Task] /\ TasksFit'
BY IdleFits DEF StoreInv, TypeOK, TasksFit, Return

LEMMA TaskFields ==
  ASSUME StoreInv, NEW w \in Request
  PROVE  /\ task[w] \in Task /\ Fits(task[w])
         /\ task[w].kind \in Kind /\ task[w].at \in Step /\ task[w].obj \in Object \cup {None}
         /\ task[w].ret \in Retention /\ task[w].parts \subseteq Slot
         /\ task[w].rows \subseteq Slot \X Slot /\ task[w].prey \in Object \cup {None}
BY DEF StoreInv, TypeOK, TasksFit, Task

\* The tasks after a step of w.
LEMMA TakesTo ==
  ASSUME StoreInv, NEW w \in Request, NEW t, Takes(w, t)
  PROVE  /\ task'[w] = t
         /\ \A v \in Request : v # w => task'[v] = task[v]
BY DEF StoreInv, TypeOK, Takes

LEMMA ReturnTo ==
  ASSUME StoreInv, NEW w \in Request, Return(w)
  PROVE  /\ task'[w] = Idle
         /\ \A v \in Request : v # w => task'[v] = task[v]
BY DEF StoreInv, TypeOK, Return

LEMMA GotoTo ==
  ASSUME StoreInv, NEW w \in Request, NEW s, Goto(w, s)
  PROVE  /\ task'[w].at = s
         /\ task'[w].kind = task[w].kind /\ task'[w].obj = task[w].obj
         /\ task'[w].ret = task[w].ret /\ task'[w].parts = task[w].parts
         /\ task'[w].rows = task[w].rows /\ task'[w].prey = task[w].prey
         /\ \A v \in Request : v # w => task'[v] = task[v]
<1> DEFINE t == [task[w] EXCEPT !.at = s]
<1>1. Takes(w, t)
  BY DEF Goto, Takes
<1>2. /\ t.at = s /\ t.kind = task[w].kind /\ t.obj = task[w].obj /\ t.ret = task[w].ret
      /\ t.parts = task[w].parts /\ t.rows = task[w].rows /\ t.prey = task[w].prey
  BY TaskFields DEF Task
<1>3. task'[w] = t /\ \A v \in Request : v # w => task'[v] = task[v]
  BY <1>1, TakesTo
<1>4. QED
  BY <1>2, <1>3

LEMMA KeepTo ==
  ASSUME StoreInv, NEW w \in Request, NEW s, NEW rows, Keep(w, s, rows)
  PROVE  /\ task'[w].at = s /\ task'[w].rows = rows
         /\ task'[w].kind = task[w].kind /\ task'[w].obj = task[w].obj
         /\ task'[w].ret = task[w].ret /\ task'[w].parts = task[w].parts
         /\ task'[w].prey = task[w].prey
         /\ \A v \in Request : v # w => task'[v] = task[v]
<1> DEFINE t == [task[w] EXCEPT !.at = s, !.rows = rows]
<1>1. Takes(w, t)
  BY DEF Keep, Takes
<1>2. /\ t.at = s /\ t.rows = rows /\ t.kind = task[w].kind /\ t.obj = task[w].obj
      /\ t.ret = task[w].ret /\ t.parts = task[w].parts /\ t.prey = task[w].prey
  BY TaskFields DEF Task
<1>3. task'[w] = t /\ \A v \in Request : v # w => task'[v] = task[v]
  BY <1>1, TakesTo
<1>4. QED
  BY <1>2, <1>3

LEMMA GotoFits ==
  ASSUME StoreInv, NEW w \in Request, NEW s \in Step, Goto(w, s),
         Fits([task[w] EXCEPT !.at = s])
  PROVE  task' \in [Request -> Task] /\ TasksFit'
<1>1. [task[w] EXCEPT !.at = s] \in Task
  BY TaskFields DEF Task
<1>2. Takes(w, [task[w] EXCEPT !.at = s])
  BY DEF Goto, Takes
<1>3. QED
  BY <1>1, <1>2, TakesFits

LEMMA KeepFits ==
  ASSUME StoreInv, NEW w \in Request, NEW s \in Step, NEW rows \in SUBSET (Slot \X Slot),
         Keep(w, s, rows), Fits([task[w] EXCEPT !.at = s, !.rows = rows])
  PROVE  task' \in [Request -> Task] /\ TasksFit'
<1>1. [task[w] EXCEPT !.at = s, !.rows = rows] \in Task
  BY TaskFields DEF Task
<1>2. Takes(w, [task[w] EXCEPT !.at = s, !.rows = rows])
  BY DEF Keep, Takes
<1>3. QED
  BY <1>1, <1>2, TakesFits

LEMMA BeginFits ==
  ASSUME StoreInv, NEW w \in Request, NEW t \in Task, Fits(t), Begin(w, t)
  PROVE  task' \in [Request -> Task] /\ TasksFit'
BY TakesFits DEF Begin, Takes

LEMMA Quiet ==
  ASSUME StoreInv, UNCHANGED nothing, task' \in [Request -> Task], TasksFit'
  PROVE  StoreInv'
BY DEF StoreInv, TypeOK, LifeTypeOK, nothing, lifeVars, tables

LEMMA RetainedEntry ==
  ASSUME NEW o \in Object, NEW r \in Retention
  PROVE  [obj |-> o, ret |-> r] \in Entry
BY DEF Entry

LEMMA EntryFields ==
  ASSUME StoreInv
  PROVE  /\ entry.ret \in Retention /\ entry.obj \in Object \cup {None}
         /\ entry # NoEntry => entry.obj \in Object
BY DEF StoreInv, TypeOK, Entry, NoEntry, NoLock, Retention

\* The task that StartOn gives its handler.
OnUpload(o, kind, step, parts) ==
  [Idle EXCEPT !.kind = kind, !.at = step, !.obj = o, !.ret = upload[o], !.parts = parts]

LEMMA OnUploadIsTask ==
  ASSUME StoreInv, NEW o \in Object, NEW kind \in Kind, NEW step \in Step,
         NEW parts \in SUBSET Slot, upload[o] # Closed
  PROVE  OnUpload(o, kind, step, parts) \in Task
<1>1. upload[o] \in Retention
  BY DEF StoreInv, TypeOK
<1>2. QED
  BY <1>1, IdleFits DEF OnUpload, Idle, Task

LEMMA StartOnStep ==
  ASSUME StoreInv, NEW w \in Request, NEW o \in Object, NEW kind \in Kind, NEW step \in Step,
         NEW parts \in SUBSET Slot, StartOn(w, o, kind, step, parts),
         Fits(OnUpload(o, kind, step, parts))
  PROVE  StoreInv'
<1>1. OnUpload(o, kind, step, parts) \in Task
  BY OnUploadIsTask DEF StartOn
<1>2. Begin(w, OnUpload(o, kind, step, parts)) /\ UNCHANGED nothing
  BY DEF StartOn, OnUpload
<1>3. QED
  BY <1>1, <1>2, BeginFits, Quiet

\* The starts: the task is one of its kind, and nothing else changes.
LEMMA StartStep ==
  ASSUME StoreInv, NEW w \in Request, Start(w)
  PROVE  StoreInv'
<1>1. ASSUME NEW ret \in Retention, StartPut(w, ret)
      PROVE  StoreInv'
  <2>1. PICK t \in Task : t = [Idle EXCEPT !.kind = "put", !.at = "new", !.ret = ret, !.parts = {Whole}]
    BY DEF Idle, Task, Kind, Step, Slot, NoLock, Retention
  <2>2. Begin(w, t) /\ UNCHANGED nothing
    BY <1>1, <2>1 DEF StartPut
  <2>3. Fits(t)
    BY <2>1 DEF Fits, Idle
  <2>4. QED
    BY <2>2, <2>3, BeginFits, Quiet
<1>2. ASSUME NEW ret \in Retention, StartCreate(w, ret)
      PROVE  StoreInv'
  <2>1. PICK t \in Task : t = [Idle EXCEPT !.kind = "create", !.at = "new", !.ret = ret]
    BY DEF Idle, Task, Kind, Step, NoLock, Retention
  <2>2. Begin(w, t) /\ UNCHANGED nothing
    BY <1>2, <2>1 DEF StartCreate
  <2>3. Fits(t)
    BY <2>1 DEF Fits, Idle
  <2>4. QED
    BY <2>2, <2>3, BeginFits, Quiet
<1>3. ASSUME NEW ret \in Retention, NEW bypass \in BOOLEAN, StartRetention(w, ret, bypass)
      PROVE  StoreInv'
  <2>1. PICK t \in Task : t = [Idle EXCEPT !.kind = "retention", !.at = "retain", !.ret = ret]
    BY DEF Idle, Task, Kind, Step, NoLock, Retention
  <2>2. Begin(w, t) /\ UNCHANGED nothing /\ ret # NoLock
    BY <1>3, <2>1 DEF StartRetention
  <2>3. Fits(t)
    BY <2>1, <2>2 DEF Fits, Idle
  <2>4. QED
    BY <2>2, <2>3, BeginFits, Quiet
<1>4. ASSUME NEW bypass \in BOOLEAN, StartDelete(w, bypass)
      PROVE  StoreInv'
  <2>0. entry.obj \in Object
    BY <1>4, EntryFields DEF StartDelete
  <2>1. PICK t \in Task : t = [Idle EXCEPT !.kind = "delete", !.at = "remove", !.prey = entry.obj]
    BY <2>0 DEF Idle, Task, Kind, Step, NoLock, Retention
  <2>2. Begin(w, t) /\ UNCHANGED nothing
    BY <1>4, <2>1 DEF StartDelete
  <2>3. Fits(t)
    BY <2>0, <2>1 DEF Fits, Idle
  <2>4. QED
    BY <2>2, <2>3, BeginFits, Quiet
<1>5. ASSUME NEW o \in Object, StartAbort(w, o)
      PROVE  StoreInv'
  <2>1. Fits(OnUpload(o, "abort", "drop", {}))
    BY DEF OnUpload, Fits, Idle
  <2>2. StartOn(w, o, "abort", "drop", {})
    BY <1>5 DEF StartAbort
  <2>3. "abort" \in Kind /\ "drop" \in Step /\ {} \in SUBSET Slot
    BY DEF Kind, Step, Slot
  <2>4. QED
    BY <2>1, <2>2, <2>3, StartOnStep
<1>6. ASSUME NEW o \in Object, NEW p \in Part, StartPart(w, o, p)
      PROVE  StoreInv'
  <2>1. Fits(OnUpload(o, "part", "clear", {p}))
    BY DEF OnUpload, Fits, Idle
  <2>2. StartOn(w, o, "part", "clear", {p})
    BY <1>6 DEF StartPart
  <2>3. "part" \in Kind /\ "clear" \in Step /\ {p} \in SUBSET Slot
    BY DEF Kind, Step, Slot
  <2>4. QED
    BY <2>1, <2>2, <2>3, StartOnStep
<1>7. ASSUME NEW o \in Object, NEW chosen \in SUBSET Part, StartComplete(w, o, chosen)
      PROVE  StoreInv'
  <2>1. Fits(OnUpload(o, "complete", "survey", chosen))
    BY <1>7 DEF OnUpload, StartComplete, Fits, Idle
  <2>2. StartOn(w, o, "complete", "survey", chosen)
    BY <1>7 DEF StartComplete
  <2>3. "complete" \in Kind /\ "survey" \in Step /\ chosen \in SUBSET Slot
    BY DEF Kind, Step, Slot
  <2>4. QED
    BY <2>1, <2>2, <2>3, StartOnStep
<1>8. QED
  BY <1>1, <1>2, <1>3, <1>4, <1>5, <1>6, <1>7 DEF Start

LEMMA FreeingIsTask ==
  ASSUME NEW t \in Task, NEW prey \in Object \cup {None}
  PROVE  [t EXCEPT !.at = "free", !.prey = prey] \in Task
BY DEF Task, Step

\* A commit keeps the types of the four variables it changes.
LEMMA PublishTypes ==
  ASSUME StoreInv, NEW w \in Request, NEW e \in Entry, Publish(w, e), task[w].obj \in Object,
         task[w].at \in {"commit", "upsert"}
  PROVE  LifeTypeOK' /\ entry' \in Entry /\ task' \in [Request -> Task] /\ TasksFit'
<1> DEFINE o == task[w].obj
           stored == [state EXCEPT ![o] = "stored"]
           dead   == {d \in Object : d = e.obj /\ stored[d] = "stored"}
           prey   == IF dead = {} THEN None ELSE e.obj
           t      == [task[w] EXCEPT !.at = "free", !.prey = prey]
<1>1. state \in [Object -> State] /\ stores \in [Object -> Nat] /\ deletes \in [Object -> Nat]
  BY DEF StoreInv, TypeOK, LifeTypeOK
<1>2. state' \in [Object -> State]
  BY <1>1 DEF Publish, State, Held
<1>3. stores' \in [Object -> Nat] /\ deletes' \in [Object -> Nat]
  BY <1>1 DEF Publish
<1>4. entry' \in Entry
  BY TaskFields, RetainedEntry DEF Publish
<1>5. prey \in Object \cup {None}
  OBVIOUS
<1>6. t \in Task
  <2>1. task[w] \in Task
    BY TaskFields
  <2> HIDE DEF prey
  <2>2. QED
    BY <1>5, <2>1, FreeingIsTask
<1>7. Fits(t)
  BY TaskFields DEF Fits
<1>8. Takes(w, t)
  BY DEF Publish, Takes
<1>9. QED
  BY <1>2, <1>3, <1>4, <1>6, <1>7, <1>8, TakesFits DEF LifeTypeOK

LEMMA PublishTo ==
  ASSUME StoreInv, NEW w \in Request, NEW e, Publish(w, e)
  PROVE  /\ task'[w].at = "free"
         /\ task'[w].kind = task[w].kind /\ task'[w].obj = task[w].obj
         /\ task'[w].prey \in {None, e.obj}
         /\ task'[w].prey # None => task'[w].prey \in Object /\ state'[task'[w].prey] = "deleted"
         /\ \A v \in Request : v # w => task'[v] = task[v]
<1> DEFINE o == task[w].obj
           stored == [state EXCEPT ![o] = "stored"]
           dead   == {d \in Object : d = e.obj /\ stored[d] = "stored"}
           prey   == IF dead = {} THEN None ELSE e.obj
           t      == [task[w] EXCEPT !.at = "free", !.prey = prey]
<1>1. Takes(w, t)
  BY DEF Publish, Takes
<1>2. task[w] \in Task
  BY TaskFields
<1>3. t.at = "free" /\ t.kind = task[w].kind /\ t.obj = task[w].obj /\ t.prey = prey
  BY <1>2 DEF Task
<1>4. prey # None => prey \in Object /\ state'[prey] = "deleted"
  BY DEF Publish
<1>5. task'[w] = t /\ \A v \in Request : v # w => task'[v] = task[v]
  BY <1>1, TakesTo
<1>6. prey \in {None, e.obj}
  OBVIOUS
<1> HIDE DEF t, prey
<1>7. QED
  BY <1>3, <1>4, <1>5, <1>6

\* The object a handler works on.
LEMMA HasObject ==
  ASSUME StoreInv, NEW w \in Request, task[w].at \notin {"idle", "new", "retain", "remove"},
         ~For(w, "delete")
  PROVE  task[w].obj \in Object
BY TaskFields DEF Fits, For

LEMMA ContinueStep ==
  ASSUME StoreInv, NEW w \in Request, Continue(w)
  PROVE  StoreInv'
<1>1. CASE NewObject(w)
  <2>1. PICK o \in Object : Reserve(o) /\ task' = [task EXCEPT ![w].obj = o, ![w].at = IF For(w, "put") THEN "write" ELSE "open"]
    BY <1>1 DEF NewObject
  <2> DEFINE t == [task[w] EXCEPT !.obj = o, !.at = IF For(w, "put") THEN "write" ELSE "open"]
  <2>2. Takes(w, t)
    BY <2>1 DEF Takes
  <2>3. t \in Task
    <3>1. task[w] \in Task /\ {"write", "open"} \subseteq Step
      BY TaskFields DEF Step
    <3>2. QED
      BY <3>1 DEF Task
  <2>4. Fits(t)
    BY <1>1, TaskFields DEF Fits, NewObject, At, For
  <2>5. LifeTypeOK'
    BY <2>1 DEF StoreInv, TypeOK, LifeTypeOK, Reserve, State
  <2>6. QED
    BY <1>1, <2>2, <2>3, <2>4, <2>5, TakesFits DEF StoreInv, TypeOK, NewObject, tables
<1>2. CASE Refuse(w)
  BY <1>2, ReturnFits, Quiet DEF Refuse
<1>3. CASE WriteBlob(w)
  <2>1. Fits([task[w] EXCEPT !.at = "list"])
    BY <1>3, TaskFields DEF Fits, WriteBlob, At
  <2>2. task' \in [Request -> Task] /\ TasksFit'
    BY <1>3, <2>1, GotoFits DEF WriteBlob, Step
  <2>3. blob' \subseteq Object \X Slot
    BY <1>3, TaskFields, HasObject DEF WriteBlob, At, StoreInv, TypeOK, Fits, For
  <2>4. QED
    BY <1>3, <2>2, <2>3 DEF StoreInv, TypeOK, LifeTypeOK, WriteBlob, tables, lifeVars
<1>4. CASE ListPiece(w)
  <2>1. Fits([task[w] EXCEPT !.at = "commit"])
    BY <1>4, TaskFields DEF Fits, ListPiece, At, For
  <2>2. task' \in [Request -> Task] /\ TasksFit'
    BY <1>4, <2>1, GotoFits DEF ListPiece, Step
  <2>3. piece' \subseteq Object \X Slot \X Slot
    BY <1>4, HasObject DEF ListPiece, At, StoreInv, TypeOK, Slot, For
  <2>4. QED
    BY <1>4, <2>2, <2>3 DEF StoreInv, TypeOK, LifeTypeOK, ListPiece, lifeVars
<1>5. CASE Commit(w)
  <2>1. task[w].obj \in Object
    BY <1>5, HasObject, TaskFields DEF Commit, At, For, Fits
  <2>2. CASE entry = NoEntry
    <3>1. Fits([task[w] EXCEPT !.at = "upsert"])
      BY <1>5, TaskFields DEF Fits, Commit, At
    <3>2. task' \in [Request -> Task] /\ TasksFit'
      BY <1>5, <2>2, <3>1, GotoFits DEF Commit, Step
    <3>3. QED
      BY <1>5, <2>2, <3>2 DEF StoreInv, TypeOK, LifeTypeOK, Commit, lifeVars, tables
  <2>3. CASE entry # NoEntry
    <3>1. Publish(w, entry) /\ entry \in Entry /\ At(w, "commit")
      BY <1>5, <2>3 DEF Commit, StoreInv, TypeOK
    <3>2. LifeTypeOK' /\ entry' \in Entry /\ task' \in [Request -> Task] /\ TasksFit'
      BY <2>1, <3>1, PublishTypes DEF At
    <3>3. QED
      BY <1>5, <3>2 DEF StoreInv, TypeOK, Commit, tables
  <2>4. QED
    BY <2>2, <2>3
<1>6. CASE Upsert(w)
  <2>1. task[w].obj \in Object
    BY <1>6, HasObject, TaskFields DEF Upsert, At, For, Fits
  <2>2. Publish(w, NoEntry) /\ NoEntry \in Entry /\ At(w, "upsert")
    BY <1>6 DEF Upsert, Entry
  <2>3. LifeTypeOK' /\ entry' \in Entry /\ task' \in [Request -> Task] /\ TasksFit'
    BY <2>1, <2>2, PublishTypes DEF At
  <2>4. QED
    BY <1>6, <2>3 DEF StoreInv, TypeOK, Upsert, tables
<1>7. CASE CommitRefused(w)
  <2>1. CASE For(w, "put")
    <3>1. Fits([task[w] EXCEPT !.at = "drop"])
      BY <1>7, <2>1, TaskFields DEF Fits, CommitRefused, At, For
    <3>2. QED
      BY <1>7, <2>1, <3>1, GotoFits, Quiet DEF CommitRefused, Step
  <2>2. CASE ~For(w, "put")
    BY <1>7, <2>2, ReturnFits, Quiet DEF CommitRefused
  <2>3. QED
    BY <2>1, <2>2
<1>8. CASE Free(w)
  <2>1. task' \in [Request -> Task] /\ TasksFit'
    <3>1. CASE For(w, "complete")
      <4>1. Fits([task[w] EXCEPT !.at = "close"])
        BY <1>8, <3>1, TaskFields DEF Fits, Free, At, For
      <4>2. QED
        BY <1>8, <3>1, <4>1, GotoFits DEF Free, Step
    <3>2. QED
      BY <1>8, <3>1, ReturnFits DEF Free
  <2>2. blob' \subseteq blob
    BY <1>8 DEF Free, Without
  <2>3. QED
    BY <1>8, <2>1, <2>2 DEF StoreInv, TypeOK, LifeTypeOK, Free, lifeVars, tables
<1>9. CASE RemoveEntry(w)
  <2>1. Fits([task[w] EXCEPT !.at = "free"])
    BY <1>9, TaskFields DEF Fits, RemoveEntry, At
  <2>2. task' \in [Request -> Task] /\ TasksFit'
    BY <1>9, <2>1, GotoFits DEF RemoveEntry, Step
  <2>3. LifeTypeOK'
    BY <1>9 DEF StoreInv, TypeOK, LifeTypeOK, RemoveEntry, State
  <2>4. entry' \in Entry
    BY <1>9 DEF RemoveEntry, Entry
  <2>5. QED
    BY <1>9, <2>2, <2>3, <2>4 DEF StoreInv, TypeOK, RemoveEntry, tables
<1>10. CASE Retain(w)
  <2>1. task' \in [Request -> Task] /\ TasksFit'
    BY <1>10, ReturnFits DEF Retain
  <2>2. entry' \in Entry
    BY <1>10, TaskFields, EntryFields, RetainedEntry DEF Retain, Entry
  <2>3. QED
    BY <1>10, <2>1, <2>2 DEF StoreInv, TypeOK, LifeTypeOK, Retain, lifeVars, tables
<1>11. CASE OpenUpload(w)
  <2>1. task' \in [Request -> Task] /\ TasksFit'
    BY <1>11, ReturnFits DEF OpenUpload
  <2>2. upload' \in [Object -> Retention \cup {Closed}]
    BY <1>11, TaskFields DEF OpenUpload, StoreInv, TypeOK
  <2>3. QED
    BY <1>11, <2>1, <2>2 DEF StoreInv, TypeOK, LifeTypeOK, OpenUpload, lifeVars
<1>12. CASE ClearPart(w)
  <2> DEFINE old == {r \in Rows(task[w].obj) : r[2] \in task[w].parts}
  <2>1. Fits([task[w] EXCEPT !.at = "clearBlob", !.rows = old])
    BY <1>12, TaskFields DEF Fits, ClearPart, At
  <2>2. Keep(w, "clearBlob", old) /\ "clearBlob" \in Step /\ old \in SUBSET (Slot \X Slot)
    BY <1>12 DEF ClearPart, Rows, Step
  <2>3. task' \in [Request -> Task] /\ TasksFit'
    BY <2>1, <2>2, KeepFits
  <2>4. piece' \subseteq piece
    BY <1>12 DEF ClearPart
  <2>5. QED
    BY <1>12, <2>3, <2>4 DEF StoreInv, TypeOK, LifeTypeOK, ClearPart, lifeVars
<1>13. CASE ClearBlob(w)
  <2>1. Fits([task[w] EXCEPT !.at = "write"])
    BY <1>13, TaskFields DEF Fits, ClearBlob, At
  <2>2. task' \in [Request -> Task] /\ TasksFit'
    BY <1>13, <2>1, GotoFits DEF ClearBlob, Step
  <2>3. blob' \subseteq blob
    BY <1>13 DEF ClearBlob, Without
  <2>4. QED
    BY <1>13, <2>2, <2>3 DEF StoreInv, TypeOK, LifeTypeOK, ClearBlob, lifeVars, tables
<1>14. CASE ListPart(w)
  <2>1. task' \in [Request -> Task] /\ TasksFit'
    BY <1>14, ReturnFits DEF ListPart
  <2>2. task[w].obj \in Object /\ task[w].parts \subseteq Part
    BY <1>14, HasObject, TaskFields DEF ListPart, At, For, Fits
  <2>3. piece' \subseteq Object \X Slot \X Slot
    BY <1>14, <2>2 DEF ListPart, StoreInv, TypeOK, Slot
  <2>4. noted' \in [Object -> SUBSET Part]
    BY <1>14, <2>2 DEF ListPart, StoreInv, TypeOK
  <2>5. QED
    BY <1>14, <2>1, <2>3, <2>4 DEF StoreInv, TypeOK, LifeTypeOK, ListPart, lifeVars
<1>15. CASE Survey(w)
  <2> DEFINE others == {r \in Rows(task[w].obj) : r[2] \notin task[w].parts}
  <2>1. Fits([task[w] EXCEPT !.at = "discard", !.rows = others])
    BY <1>15, TaskFields DEF Fits, Survey, At
  <2>2. Keep(w, "discard", others) /\ "discard" \in Step /\ others \in SUBSET (Slot \X Slot)
    BY <1>15 DEF Survey, Rows, Step
  <2>3. QED
    BY <1>15, <2>1, <2>2, KeepFits, Quiet DEF Survey
<1>16. CASE Discard(w)
  <2>1. Fits([task[w] EXCEPT !.at = "discardBlob"])
    BY <1>16, TaskFields DEF Fits, Discard, At
  <2>2. task' \in [Request -> Task] /\ TasksFit'
    BY <1>16, <2>1, GotoFits DEF Discard, Step
  <2>3. QED
    BY <1>16, <2>2 DEF StoreInv, TypeOK, LifeTypeOK, Discard, lifeVars
<1>17. CASE DiscardBlob(w)
  <2>1. Fits([task[w] EXCEPT !.at = "number"])
    BY <1>17, TaskFields DEF Fits, DiscardBlob, At
  <2>2. task' \in [Request -> Task] /\ TasksFit'
    BY <1>17, <2>1, GotoFits DEF DiscardBlob, Step
  <2>3. blob' \subseteq blob
    BY <1>17 DEF DiscardBlob, Without
  <2>4. QED
    BY <1>17, <2>2, <2>3 DEF StoreInv, TypeOK, LifeTypeOK, DiscardBlob, lifeVars, tables
<1>18. CASE Number(w)
  <2>1. Fits([task[w] EXCEPT !.at = "commit"])
    BY <1>18, TaskFields DEF Fits, Number, At
  <2>2. task' \in [Request -> Task] /\ TasksFit'
    BY <1>18, <2>1, GotoFits DEF Number, Step
  <2>3. piece' \subseteq Object \X Slot \X Slot
    BY <1>18 DEF Number, StoreInv, TypeOK, Slot
  <2>4. QED
    BY <1>18, <2>2, <2>3 DEF StoreInv, TypeOK, LifeTypeOK, Number, lifeVars
<1>19. CASE CloseUpload(w)
  <2>1. task' \in [Request -> Task] /\ TasksFit'
    BY <1>19, ReturnFits DEF CloseUpload
  <2>2. upload' \in [Object -> Retention \cup {Closed}] /\ noted' \in [Object -> SUBSET Part]
    BY <1>19 DEF CloseUpload, StoreInv, TypeOK
  <2>3. QED
    BY <1>19, <2>1, <2>2 DEF StoreInv, TypeOK, LifeTypeOK, CloseUpload, lifeVars
<1>20. CASE DropRead(w)
  <2>1. Fits([task[w] EXCEPT !.at = "dropBlob", !.rows = Rows(task[w].obj)])
    BY <1>20, TaskFields DEF Fits, DropRead, At
  <2>2. Keep(w, "dropBlob", Rows(task[w].obj)) /\ "dropBlob" \in Step
        /\ Rows(task[w].obj) \in SUBSET (Slot \X Slot)
    BY <1>20 DEF DropRead, Rows, Step
  <2>3. QED
    BY <1>20, <2>1, <2>2, KeepFits, Quiet DEF DropRead
<1>21. CASE DropBlob(w)
  <2>1. Fits([task[w] EXCEPT !.at = "mark"])
    BY <1>21, TaskFields DEF Fits, DropBlob, At
  <2>2. task' \in [Request -> Task] /\ TasksFit'
    BY <1>21, <2>1, GotoFits DEF DropBlob, Step
  <2>3. blob' \subseteq blob
    BY <1>21 DEF DropBlob, Without
  <2>4. QED
    BY <1>21, <2>2, <2>3 DEF StoreInv, TypeOK, LifeTypeOK, DropBlob, lifeVars, tables
<1>22. CASE MarkDropped(w)
  <2>1. task' \in [Request -> Task] /\ TasksFit'
    <3>1. CASE For(w, "abort")
      <4>1. Fits([task[w] EXCEPT !.at = "close"])
        BY <1>22, <3>1, TaskFields DEF Fits, MarkDropped, At, For
      <4>2. QED
        BY <1>22, <3>1, <4>1, GotoFits DEF MarkDropped, Step
    <3>2. QED
      BY <1>22, <3>1, ReturnFits DEF MarkDropped
  <2>2. LifeTypeOK'
    BY <1>22 DEF MarkDropped, StoreInv, TypeOK, LifeTypeOK, State
  <2>3. QED
    BY <1>22, <2>1, <2>2 DEF StoreInv, TypeOK, MarkDropped, tables
<1>23. QED
  BY <1>1, <1>2, <1>3, <1>4, <1>5, <1>6, <1>7, <1>8, <1>9, <1>10, <1>11, <1>12, <1>13, <1>14,
     <1>15, <1>16, <1>17, <1>18, <1>19, <1>20, <1>21, <1>22 DEF Continue

LEMMA StoreStep == StoreInv /\ [Next]_vars => StoreInv'
<1> SUFFICES ASSUME StoreInv, [Next]_vars PROVE StoreInv'
  OBVIOUS
<1>1. ASSUME NEW w \in Request, Start(w) \/ Continue(w)
      PROVE  StoreInv'
  BY <1>1, StartStep, ContinueStep
<1>2. ASSUME NEW w \in Request, Die(w)
      PROVE  StoreInv'
  BY <1>2, ReturnFits, Quiet DEF Die
<1>3. ASSUME NEW w \in Request, PutFails(w)
      PROVE  StoreInv'
  <2>1. Fits([task[w] EXCEPT !.at = "drop"])
    BY <1>3, TaskFields DEF Fits, PutFails, For
  <2>2. QED
    BY <1>3, <2>1, GotoFits, Quiet DEF PutFails, Step
<1>4. ASSUME NEW o \in Object, ReleaseStale(o)
      PROVE  StoreInv'
  <2>1. LifeTypeOK'
    BY <1>4 DEF ReleaseStale, Release, StoreInv, TypeOK, LifeTypeOK, State
  <2>2. blob' \subseteq blob
    BY <1>4 DEF ReleaseStale, Without
  <2>3. QED
    BY <1>4, <2>1, <2>2 DEF ReleaseStale, StoreInv, TypeOK, TasksFit, tables
<1>5. CASE Tick
  BY <1>5 DEF Tick, StoreInv, TypeOK, LifeTypeOK, TasksFit, tables, lifeVars
<1>6. CASE UNCHANGED vars
  BY <1>6 DEF vars, StoreInv, TypeOK, LifeTypeOK, TasksFit
<1>7. QED
  BY <1>1, <1>2, <1>3, <1>4, <1>5, <1>6 DEF Next

LEMMA AlwaysStore == Spec => []StoreInv
BY StoreInit, StoreStep, PTL DEF Spec

\* The store keeps its types, and every handler is at a step of its request.
THEOREM S3Types == Spec => []TypeOK
<1>1. StoreInv => TypeOK
  BY DEF StoreInv
<1>2. QED
  BY <1>1, AlwaysStore, PTL

\* A handler that has begun goes on with its object, or returns.
LEMMA Moves ==
  ASSUME StoreInv, NEW w \in Request, Continue(w), ~NewObject(w)
  PROVE  /\ \A v \in Request : v # w => task'[v] = task[v]
         /\ task'[w].obj = None \/ (task'[w].obj = task[w].obj /\ task'[w].kind = task[w].kind)
<1>1. \/ Return(w)
      \/ \E s \in Step : Goto(w, s) \/ \E rows : Keep(w, s, rows)
      \/ \E e : Publish(w, e)
  BY DEF Continue, Refuse, WriteBlob, ListPiece, Commit, Upsert, CommitRefused, Free, RemoveEntry,
     Retain, OpenUpload, ClearPart, ClearBlob, ListPart, Survey, Discard, DiscardBlob, Number,
     CloseUpload, DropRead, DropBlob, MarkDropped, Step
<1>2. CASE Return(w)
  BY <1>2, ReturnTo DEF Idle
<1>3. ASSUME NEW s \in Step, Goto(w, s)
      PROVE  /\ \A v \in Request : v # w => task'[v] = task[v]
             /\ task'[w].obj = task[w].obj /\ task'[w].kind = task[w].kind
  BY <1>3, GotoTo
<1>4. ASSUME NEW s \in Step, NEW rows, Keep(w, s, rows)
      PROVE  /\ \A v \in Request : v # w => task'[v] = task[v]
             /\ task'[w].obj = task[w].obj /\ task'[w].kind = task[w].kind
  BY <1>4, KeepTo
<1>5. ASSUME NEW e, Publish(w, e)
      PROVE  /\ \A v \in Request : v # w => task'[v] = task[v]
             /\ task'[w].obj = task[w].obj /\ task'[w].kind = task[w].kind
  BY <1>5, PublishTo
<1>6. QED
  BY <1>1, <1>2, <1>3, <1>4, <1>5

\* A start: the task is new, has an object only for an open upload, and that one alone.
LEMMA Begins ==
  ASSUME StoreInv, NEW w \in Request, Start(w)
  PROVE  /\ task[w].at = "idle" /\ UNCHANGED nothing
         /\ \A v \in Request : v # w => task'[v] = task[v]
         /\ \/ task'[w].obj = None
            \/ \E o \in Object : /\ task'[w].obj = o /\ upload[o] # Closed /\ MayServe(o)
                                 /\ task'[w].kind \notin {"put", "create"}
<1>1. ASSUME NEW t, Begin(w, t)
      PROVE  /\ task[w].at = "idle" /\ task'[w] = t
             /\ \A v \in Request : v # w => task'[v] = task[v]
  BY <1>1, TakesTo DEF Begin, At, Takes
<1>2. ASSUME NEW ret \in Retention, NEW bypass \in BOOLEAN,
             StartPut(w, ret) \/ StartCreate(w, ret) \/ StartRetention(w, ret, bypass)
             \/ StartDelete(w, bypass)
      PROVE  UNCHANGED nothing /\ \E t : Begin(w, t) /\ t.obj = None
  <2>1. CASE StartPut(w, ret)
    <3> DEFINE t == [Idle EXCEPT !.kind = "put", !.at = "new", !.ret = ret, !.parts = {Whole}]
    <3>1. t.obj = None
      BY DEF Idle
    <3>2. UNCHANGED nothing /\ Begin(w, t)
      BY <2>1 DEF StartPut
    <3>3. QED
      BY <3>1, <3>2
  <2>2. CASE StartCreate(w, ret)
    <3> DEFINE t == [Idle EXCEPT !.kind = "create", !.at = "new", !.ret = ret]
    <3>1. t.obj = None
      BY DEF Idle
    <3>2. UNCHANGED nothing /\ Begin(w, t)
      BY <2>2 DEF StartCreate
    <3>3. QED
      BY <3>1, <3>2
  <2>3. CASE StartRetention(w, ret, bypass)
    <3> DEFINE t == [Idle EXCEPT !.kind = "retention", !.at = "retain", !.ret = ret]
    <3>1. t.obj = None
      BY DEF Idle
    <3>2. UNCHANGED nothing /\ Begin(w, t)
      BY <2>3 DEF StartRetention
    <3>3. QED
      BY <3>1, <3>2
  <2>4. CASE StartDelete(w, bypass)
    <3> DEFINE t == [Idle EXCEPT !.kind = "delete", !.at = "remove", !.prey = entry.obj]
    <3>1. t.obj = None
      BY DEF Idle
    <3>2. UNCHANGED nothing /\ Begin(w, t)
      BY <2>4 DEF StartDelete
    <3>3. QED
      BY <3>1, <3>2
  <2>5. QED
    BY <1>2, <2>1, <2>2, <2>3, <2>4
<1>3. ASSUME NEW o \in Object, NEW kind \in Kind \ {"put", "create"}, NEW step, NEW parts,
             StartOn(w, o, kind, step, parts)
      PROVE  /\ UNCHANGED nothing /\ upload[o] # Closed /\ MayServe(o)
             /\ \E t : Begin(w, t) /\ t.obj = o /\ t.kind = kind
  <2>1. Begin(w, OnUpload(o, kind, step, parts)) /\ UNCHANGED nothing /\ upload[o] # Closed /\ MayServe(o)
    BY <1>3 DEF StartOn, OnUpload
  <2>2. OnUpload(o, kind, step, parts).obj = o /\ OnUpload(o, kind, step, parts).kind = kind
    BY DEF OnUpload, Idle
  <2>3. QED
    BY <2>1, <2>2
<1>4. CASE \E ret \in Retention, bypass \in BOOLEAN :
             StartPut(w, ret) \/ StartCreate(w, ret) \/ StartRetention(w, ret, bypass)
             \/ StartDelete(w, bypass)
  BY <1>1, <1>2, <1>4
<1>5. CASE \E o \in Object, kind \in Kind \ {"put", "create"} :
             \E step, parts : StartOn(w, o, kind, step, parts)
  BY <1>1, <1>3, <1>5
<1>6. CASE \E ret \in Retention : StartPut(w, ret) \/ StartCreate(w, ret)
  BY <1>1, <1>2, <1>6
<1>7. CASE \E bypass \in BOOLEAN : StartDelete(w, bypass)
  <2>1. NoLock \in Retention
    BY DEF Retention
  <2>2. QED
    BY <1>4, <1>7, <2>1
<1>8. CASE \E o \in Object : StartAbort(w, o) \/ (\E p \in Part : StartPart(w, o, p))
                             \/ \E chosen \in SUBSET Part : StartComplete(w, o, chosen)
  BY <1>5, <1>8 DEF StartAbort, StartPart, StartComplete, Kind
<1>9. QED
  BY <1>4, <1>6, <1>7, <1>8 DEF Start

-----------------------------------------------------------------------------
(* Object Lock                                                             *)

\* What a handler saw, if the row has not changed since: nothing that forbids its write.
CheckHolds(t) ==
  /\ t.at = "remove" => ~Compliant(entry)
  /\ t.at = "upsert" => entry = NoEntry
  /\ t.at = "retain" /\ Compliant(entry) =>
       t.ret.until >= entry.ret.until /\ t.ret.mode = "COMPLIANCE"

LockInv == StoreInv /\ \A w \in Request : w \in stale \/ CheckHolds(task[w])

\* An instant later nothing is locked that was not.
LEMMA LocksExpire ==
  ASSUME StoreInv, entry' = entry, now' \in 0..MaxTime, now' >= now, Compliant(entry)'
  PROVE  Compliant(entry)
BY EntryFields DEF StoreInv, TypeOK, Compliant, Protected, Retention, NoLock

LEMMA LockedIfCompliant ==
  ASSUME NEW bypass \in BOOLEAN
  PROVE  /\ Compliant(entry) => Locked(entry, bypass)
         /\ Protected(entry) => Locked(entry, FALSE)
BY DEF Compliant, Protected, Locked

LEMMA LockStart ==
  ASSUME LockInv, NEW w \in Request, Start(w)
  PROVE  CheckHolds(task[w])'
<1>1. StoreInv /\ entry' = entry /\ now' = now
  BY DEF LockInv, Start, StartPut, StartCreate, StartRetention, StartDelete, StartAbort,
         StartPart, StartComplete, StartOn, nothing
<1>2. task \in [Request -> Task]
  BY <1>1 DEF StoreInv, TypeOK
<1>3. ASSUME NEW ret \in Retention, NEW bypass \in BOOLEAN, StartRetention(w, ret, bypass)
      PROVE  CheckHolds(task[w])'
  <2>1. task'[w].at = "retain" /\ task'[w].ret = ret
    BY <1>2, <1>3 DEF StartRetention, Begin, Idle
  <2>2. ret.until \in Nat /\ entry.ret.until \in Nat /\ ret.mode \in {"GOVERNANCE", "COMPLIANCE"}
    BY <1>1, <1>3, EntryFields DEF StartRetention, Retention, NoLock
  <2>3. Compliant(entry) => ret.until >= entry.ret.until /\ ret.mode = "COMPLIANCE"
    BY <1>3, <2>2 DEF StartRetention, Compliant, Protected
  <2>4. QED
    BY <1>1, <2>1, <2>3 DEF CheckHolds, Compliant, Protected
<1>4. ASSUME NEW bypass \in BOOLEAN, StartDelete(w, bypass)
      PROVE  CheckHolds(task[w])'
  <2>1. task'[w].at = "remove"
    BY <1>2, <1>4 DEF StartDelete, Begin, Idle
  <2>2. ~Compliant(entry)
    BY <1>4, LockedIfCompliant DEF StartDelete
  <2>3. QED
    BY <1>1, <2>1, <2>2 DEF CheckHolds, Compliant, Protected
<1>5. ASSUME task'[w].at \notin {"remove", "upsert", "retain"}
      PROVE  CheckHolds(task[w])'
  BY <1>5 DEF CheckHolds
<1>6. ASSUME NEW t, Begin(w, t), t.at \notin {"remove", "upsert", "retain"}
      PROVE  CheckHolds(task[w])'
  <2>1. task'[w] = t
    BY <1>1, <1>6, TakesTo DEF Begin, Takes
  <2>2. QED
    BY <1>5, <1>6, <2>1
<1>7. ASSUME NEW ret \in Retention, StartPut(w, ret)
      PROVE  CheckHolds(task[w])'
  <2> DEFINE t == [Idle EXCEPT !.kind = "put", !.at = "new", !.ret = ret, !.parts = {Whole}]
  <2>1. t.at = "new" /\ Begin(w, t)
    BY <1>7 DEF StartPut, Idle
  <2>2. QED
    BY <1>6, <2>1
<1>8. ASSUME NEW ret \in Retention, StartCreate(w, ret)
      PROVE  CheckHolds(task[w])'
  <2> DEFINE t == [Idle EXCEPT !.kind = "create", !.at = "new", !.ret = ret]
  <2>1. t.at = "new" /\ Begin(w, t)
    BY <1>8 DEF StartCreate, Idle
  <2>2. QED
    BY <1>6, <2>1
<1>9. ASSUME NEW o \in Object, StartAbort(w, o) \/ (\E p \in Part : StartPart(w, o, p))
                               \/ \E chosen \in SUBSET Part : StartComplete(w, o, chosen)
      PROVE  CheckHolds(task[w])'
  <2>1. PICK kind, step, parts : StartOn(w, o, kind, step, parts) /\ step \in {"clear", "drop", "survey"}
    BY <1>9 DEF StartAbort, StartPart, StartComplete
  <2>2. OnUpload(o, kind, step, parts).at = step /\ Begin(w, OnUpload(o, kind, step, parts))
    BY <2>1 DEF StartOn, OnUpload, Idle
  <2>3. QED
    BY <1>6, <2>1, <2>2
<1>10. QED
  BY <1>3, <1>4, <1>7, <1>8, <1>9 DEF Start

\* A commit that finds no row changes nothing yet; everything else ends elsewhere.
LEMMA LockContinue ==
  ASSUME LockInv, NEW w \in Request, Continue(w)
  PROVE  CheckHolds(task[w])'
<1>1. StoreInv
  BY DEF LockInv
<1>2. CASE Commit(w) /\ entry = NoEntry
  <2>1. task'[w].at = "upsert" /\ entry' = NoEntry
    BY <1>1, <1>2, GotoTo DEF Commit
  <2>2. QED
    BY <2>1 DEF CheckHolds
<1>3. CASE task'[w].at \notin {"remove", "upsert", "retain"}
  BY <1>3 DEF CheckHolds
<1>4. ASSUME Commit(w), entry # NoEntry
      PROVE  task'[w].at = "free"
  BY <1>1, <1>4, PublishTo DEF Commit
<1>5. ASSUME Upsert(w)
      PROVE  task'[w].at = "free"
  BY <1>1, <1>5, PublishTo DEF Upsert
<1>6. ASSUME NewObject(w)
      PROVE  task'[w].at \in {"write", "open"}
  <2>1. PICK o \in Object : task' = [task EXCEPT ![w].obj = o, ![w].at = IF For(w, "put") THEN "write" ELSE "open"]
    BY <1>6 DEF NewObject
  <2> DEFINE t == [task[w] EXCEPT !.obj = o, !.at = IF For(w, "put") THEN "write" ELSE "open"]
  <2>2. Takes(w, t)
    BY <2>1 DEF Takes
  <2>3. t.at \in {"write", "open"}
    BY <1>1, TaskFields DEF Task
  <2>4. task'[w] = t
    BY <1>1, <2>2, TakesTo
  <2>5. QED
    BY <2>3, <2>4
<1>7. ASSUME ~(Commit(w) \/ Upsert(w) \/ NewObject(w))
      PROVE  \/ Return(w)
             \/ \E s \in Step \ {"remove", "upsert", "retain"} :
                  Goto(w, s) \/ \E rows : Keep(w, s, rows)
  BY <1>7 DEF Continue, Refuse, WriteBlob, ListPiece, CommitRefused, Free, RemoveEntry,
     Retain, OpenUpload, ClearPart, ClearBlob, ListPart, Survey, Discard, DiscardBlob, Number,
     CloseUpload, DropRead, DropBlob, MarkDropped, Step
<1>8. QED
  <2>1. CASE Return(w)
    BY <1>1, <1>3, <2>1, ReturnTo DEF Idle
  <2>2. ASSUME NEW s \in Step \ {"remove", "upsert", "retain"}, Goto(w, s)
        PROVE  CheckHolds(task[w])'
    BY <1>1, <1>3, <2>2, GotoTo
  <2>3. ASSUME NEW s \in Step \ {"remove", "upsert", "retain"}, NEW rows, Keep(w, s, rows)
        PROVE  CheckHolds(task[w])'
    BY <1>1, <1>3, <2>3, KeepTo
  <2>4. QED
    BY <1>2, <1>3, <1>4, <1>5, <1>6, <1>7, <2>1, <2>2, <2>3

LEMMA LockStarts == HistoryInit => LockInv
<1> SUFFICES ASSUME Init PROVE LockInv
  BY DEF HistoryInit
<1>1. \A w \in Request : task[w].at = "idle"
  BY DEF Init, Idle
<1>2. QED
  BY <1>1, StoreInit DEF LockInv, CheckHolds

\* Nobody but w moves in a step of w.
LEMMA OnlyOneMoves ==
  ASSUME StoreInv, NEW w \in Request, Start(w) \/ Continue(w) \/ Die(w) \/ PutFails(w)
  PROVE  \A v \in Request : v # w => task'[v] = task[v]
<1>1. CASE Start(w)
  BY <1>1, Begins
<1>2. CASE Continue(w) /\ ~NewObject(w)
  BY <1>2, Moves
<1>3. CASE NewObject(w)
  <2>1. PICK t : Takes(w, t)
    BY <1>3 DEF NewObject, Takes
  <2>2. QED
    BY <2>1, TakesTo
<1>4. CASE Die(w) \/ PutFails(w)
  BY <1>4, ReturnTo, GotoTo DEF Die, PutFails
<1>5. QED
  BY <1>1, <1>2, <1>3, <1>4

LEMMA LockStep == LockInv /\ [HistoryNext]_historyVars => LockInv'
<1> SUFFICES ASSUME LockInv, [HistoryNext]_historyVars PROVE LockInv'
  OBVIOUS
<1>0. [Next]_vars /\ StoreInv
  BY DEF HistoryNext, historyVars, LockInv
<1>1. StoreInv'
  BY <1>0, StoreStep
\* Who is not stale and not the one that moves saw the row as it still is.
<1>2. ASSUME HistoryNext, NEW v \in Request, task'[v] = task[v], v \notin stale',
             now' = now \/ (entry' = entry /\ now' >= now /\ now' \in 0..MaxTime)
      PROVE  CheckHolds(task[v])'
  <2>1. CASE ~HasLooked(task[v])
    BY <1>2, <2>1 DEF CheckHolds, HasLooked
  <2>2. CASE HasLooked(task[v])
    <3>1. entry' = entry /\ v \notin stale
      BY <1>2, <2>2 DEF HistoryNext
    <3>2. CheckHolds(task[v])
      BY <3>1 DEF LockInv
    <3>3. Compliant(entry)' => Compliant(entry)
      <4>1. CASE now' = now
        BY <3>1, <4>1 DEF Compliant, Protected
      <4>2. CASE now' >= now /\ now' \in 0..MaxTime
        BY <1>0, <3>1, <4>2, LocksExpire
      <4>3. QED
        BY <1>2, <4>1, <4>2
    <3>4. QED
      BY <1>2, <3>1, <3>2, <3>3 DEF CheckHolds
  <2>3. QED
    BY <2>1, <2>2
<1>4. ASSUME HistoryNext, NEW w \in Request, Start(w) \/ Continue(w)
      PROVE  LockInv'
  <2>1. now' = now
    BY <1>4 DEF Start, StartPut, StartCreate, StartRetention, StartDelete, StartAbort,
       StartPart, StartComplete, StartOn, nothing, Continue, NewObject, Refuse, WriteBlob, ListPiece,
       Commit, Upsert, CommitRefused, Free, RemoveEntry, Retain, OpenUpload, ClearPart, ClearBlob,
       ListPart, Survey, Discard, DiscardBlob, Number, CloseUpload, DropRead, DropBlob, MarkDropped
  <2>2. CheckHolds(task[w])'
    BY <1>0, <1>4, LockStart, LockContinue
  <2>3. \A v \in Request : v # w => task'[v] = task[v]
    BY <1>0, <1>4, OnlyOneMoves
  <2>4. QED
    BY <1>1, <1>2, <1>4, <2>1, <2>2, <2>3 DEF LockInv
<1>5. ASSUME HistoryNext, NEW w \in Request, Die(w) \/ PutFails(w)
      PROVE  LockInv'
  <2>1. StoreInv /\ (Return(w) \/ Goto(w, "drop")) /\ now' = now
    BY <1>0, <1>5 DEF Die, PutFails, nothing
  <2>2. Idle.at = "idle"
    BY DEF Idle
  <2>3. task'[w].at \in {"idle", "drop"}
    BY <2>1, <2>2, GotoTo, ReturnTo
  <2>4. CheckHolds(task[w])'
    BY <2>3 DEF CheckHolds
  <2>5. \A v \in Request : v # w => task'[v] = task[v]
    BY <1>0, <1>5, OnlyOneMoves
  <2>6. QED
    BY <1>1, <1>2, <1>5, <2>1, <2>4, <2>5 DEF LockInv
<1>6. ASSUME HistoryNext, task' = task, entry' = entry, now' \in 0..MaxTime, now' >= now
      PROVE  LockInv'
  BY <1>1, <1>2, <1>6 DEF LockInv
<1>7. now \in 0..MaxTime
  BY <1>0 DEF StoreInv, TypeOK
<1>8. CASE HistoryNext /\ ((\E o \in Object : ReleaseStale(o)) \/ Tick)
  BY <1>6, <1>7, <1>8 DEF ReleaseStale, Tick
<1>9. CASE UNCHANGED historyVars
  BY <1>1, <1>9 DEF historyVars, vars, LockInv, CheckHolds, Compliant, Protected
<1>10. QED
  BY <1>4, <1>5, <1>8, <1>9 DEF HistoryNext, Next

LEMMA AlwaysLocked == HistorySpec => []LockInv
BY LockStarts, LockStep, PTL DEF HistorySpec

\* The steps that change the row of the key.
LEMMA EntryChanges ==
  ASSUME Next, entry' # entry
  PROVE  \E w \in Request : Commit(w) \/ Upsert(w) \/ RemoveEntry(w) \/ Retain(w)
<1>1. ASSUME NEW w \in Request, Start(w)
      PROVE  entry' = entry
  BY <1>1 DEF Start, StartPut, StartCreate, StartRetention, StartDelete, StartAbort,
     StartPart, StartComplete, StartOn, nothing
<1>2. ASSUME NEW w \in Request, Continue(w)
      PROVE  Commit(w) \/ Upsert(w) \/ RemoveEntry(w) \/ Retain(w) \/ entry' = entry
  BY <1>2 DEF Continue, NewObject, Refuse, WriteBlob, ListPiece, CommitRefused, Free, OpenUpload,
     ClearPart, ClearBlob, ListPart, Survey, Discard, DiscardBlob, Number, CloseUpload,
     DropRead, DropBlob, MarkDropped, nothing
<1>3. QED
  BY <1>1, <1>2 DEF Next, Die, PutFails, ReleaseStale, Tick, nothing

\* Whose write breaks a lock did not see the row as it is.
LEMMA WhoBreaks ==
  ASSUME LockInv, HistoryNext, Breaks
  PROVE  \E w \in stale : task'[w] # task[w]
<1>1. /\ entry.ret.until \in Nat /\ StoreInv /\ Next
      /\ Compliant(entry) => Protected(entry)
      /\ Compliant(entry) => entry.ret.mode = "COMPLIANCE"
      /\ Protected(entry) => entry # NoEntry /\ entry.obj \in Object
  BY EntryFields DEF LockInv, StoreInv, TypeOK, Compliant, Protected, NoEntry, NoLock, Retention,
     HistoryNext
<1>2. Protected(entry) /\ entry' # entry
  BY <1>1 DEF Breaks
<1>3. ASSUME NEW w \in Request, Commit(w)
      PROVE  FALSE
  BY <1>2, <1>3, LockedIfCompliant DEF Commit
<1>4. ASSUME NEW w \in Request, Upsert(w)
      PROVE  w \in stale /\ task'[w] # task[w]
  <2>1. task[w].at = "upsert" /\ task'[w].at = "free"
    BY <1>1, <1>4, PublishTo DEF Upsert, At
  <2>2. QED
    BY <1>1, <1>2, <2>1 DEF LockInv, CheckHolds
<1>5. ASSUME NEW w \in Request, RemoveEntry(w)
      PROVE  w \in stale /\ task'[w] # task[w]
  <2>1. entry' = NoEntry /\ task[w].at = "remove" /\ task'[w].at = "free"
    BY <1>1, <1>5, GotoTo DEF RemoveEntry, At
  <2>2. Compliant(entry)
    BY <1>1, <2>1, NoneAssumption DEF Breaks, NoEntry
  <2>3. QED
    BY <2>1, <2>2 DEF LockInv, CheckHolds
<1>6. ASSUME NEW w \in Request, Retain(w)
      PROVE  w \in stale /\ task'[w] # task[w]
  <2>1. /\ task[w].at = "retain" /\ Return(w)
        /\ entry'.obj = entry.obj /\ entry'.ret = task[w].ret /\ entry' # NoEntry
    BY <1>1, <1>2, <1>6, NoneAssumption DEF Retain, NoEntry, At
  <2>2. task'[w].at = "idle"
    BY <1>1, <2>1, ReturnTo DEF Idle
  <2>3. Compliant(entry) /\ (task[w].ret.until < entry.ret.until \/ task[w].ret.mode = "GOVERNANCE")
    BY <2>1 DEF Breaks
  <2>4. task[w].ret.until \in Nat
    BY <1>1, TaskFields DEF Retention, NoLock
  <2>5. ~CheckHolds(task[w])
    BY <1>1, <2>1, <2>3, <2>4 DEF CheckHolds
  <2>6. QED
    BY <2>1, <2>2, <2>5 DEF LockInv
<1>7. QED
  BY <1>1, <1>2, <1>3, <1>4, <1>5, <1>6, EntryChanges

\* For any handlers at the same time, failures and clocks included: who takes away an
\* active lock looked at the row before it last changed, so that once the requests that
\* were under way are answered, no deletion, PUT, completion or retention breaks it
\* (LocksHold).
THEOREM LocksOutliveTheirRequests == HistorySpec => LocksHold
<1>1. LockInv /\ [HistoryNext]_historyVars =>
        [Breaks => \E w \in stale : task'[w] # task[w]]_historyVars
  BY WhoBreaks
<1>2. QED
  BY <1>1, AlwaysLocked, PTL DEF HistorySpec, LocksHold

-----------------------------------------------------------------------------
(* One handler per object: clients that wait for their answers             *)

\* No two handlers work on the same object.
Apart == \A v, w \in Request : v # w /\ task[v].obj # None => task[v].obj # task[w].obj

\* The object of a handler and of an open upload has its row; one that is not yet
\* offered to the client has no open upload.
Present ==
  /\ \A w \in Request : task[w].obj # None => state[task[w].obj] # "absent"
  /\ \A o \in Object : upload[o] # Closed => state[o] # "absent"
  /\ \A w \in Request : task[w].kind \in {"put", "create"} /\ task[w].obj # None =>
       upload[task[w].obj] = Closed

OwnInv == StoreInv /\ Apart /\ Present

\* Nobody loses the row of an object, and nobody but w changes what it works on.
OnlyActs(w) ==
  /\ \A v \in Request : v # w => task'[v] = task[v]
  /\ \A o \in Object : state[o] # "absent" => state'[o] # "absent"

LEMMA OwnGoesOn ==
  ASSUME OwnInv, StoreInv', NEW w \in Request, OnlyActs(w),
         task'[w].obj = None \/ (task'[w].obj = task[w].obj /\ task'[w].kind = task[w].kind),
         \A o \in Object : upload'[o] \in {upload[o], Closed}
  PROVE  OwnInv'
<1>1. \A v \in Request : /\ task[v].obj \in Object \cup {None}
                         /\ task'[v].obj \in Object \cup {None}
  BY DEF OwnInv, StoreInv, TypeOK, Task
<1>2. \A v \in Request : task'[v].obj # None => task'[v].obj = task[v].obj /\ task'[v].kind = task[v].kind
  BY DEF OnlyActs
<1>3. Apart'
  BY <1>2 DEF OwnInv, Apart
<1>4. Present'
  BY <1>1, <1>2 DEF OwnInv, Present, OnlyActs
<1>5. QED
  BY <1>3, <1>4 DEF OwnInv

\* A handler takes up an object that no other one works on.
LEMMA OwnTakesUp ==
  ASSUME OwnInv, StoreInv', NEW w \in Request, OnlyActs(w), NEW o \in Object,
         task'[w].obj = o, \A v \in Request : task[v].obj # o,
         state'[o] # "absent", UNCHANGED upload,
         task'[w].kind \in {"put", "create"} => upload[o] = Closed
  PROVE  OwnInv'
<1>1. \A v \in Request : task[v].obj \in Object \cup {None}
  BY DEF OwnInv, StoreInv, TypeOK, Task
<1>2. Apart'
  BY DEF OwnInv, Apart, OnlyActs
<1>3. Present'
  BY <1>1 DEF OwnInv, Present, OnlyActs
<1>4. QED
  BY <1>2, <1>3 DEF OwnInv

\* What a step of a handler does to its task: it moves, returns, publishes or begins.
LEMMA StateStays ==
  ASSUME StoreInv, NEW w \in Request, Start(w) \/ Continue(w) \/ Die(w) \/ PutFails(w)
  PROVE  \A o \in Object : state[o] # "absent" => state'[o] # "absent"
<1>1. state \in [Object -> State]
  BY DEF StoreInv, TypeOK, LifeTypeOK
<1>2. ASSUME NewObject(w)
      PROVE  \A o \in Object : state[o] # "absent" => state'[o] # "absent"
  BY <1>1, <1>2 DEF NewObject, Reserve
<1>3. ASSUME NEW e, Publish(w, e)
      PROVE  \A o \in Object : state[o] # "absent" => state'[o] # "absent"
  BY <1>1, <1>3 DEF Publish
<1>4. ASSUME RemoveEntry(w) \/ MarkDropped(w)
      PROVE  \A o \in Object : state[o] # "absent" => state'[o] # "absent"
  BY <1>1, <1>4 DEF RemoveEntry, MarkDropped
<1>5. ASSUME Start(w) \/ Die(w) \/ PutFails(w)
      PROVE  state' = state
  BY <1>5 DEF Start, StartPut, StartCreate, StartRetention, StartDelete, StartAbort,
     StartPart, StartComplete, StartOn, Die, PutFails, nothing, lifeVars
<1>6. ASSUME Continue(w), ~(NewObject(w) \/ RemoveEntry(w) \/ MarkDropped(w))
      PROVE  state' = state \/ \E e : Publish(w, e)
  BY <1>6 DEF Continue, Refuse, WriteBlob, ListPiece, Commit, Upsert, CommitRefused, Free, Retain,
     OpenUpload, ClearPart, ClearBlob, ListPart, Survey, Discard, DiscardBlob, Number, CloseUpload,
     DropRead, DropBlob, nothing, lifeVars
<1>7. QED
  BY <1>2, <1>3, <1>4, <1>5, <1>6

LEMMA UploadsClose ==
  ASSUME StoreInv, NEW w \in Request, Continue(w), ~OpenUpload(w)
  PROVE  \A o \in Object : upload'[o] \in {upload[o], Closed}
<1>1. upload \in [Object -> Retention \cup {Closed}]
  BY DEF StoreInv, TypeOK
<1>2. CASE CloseUpload(w)
  BY <1>1, <1>2 DEF CloseUpload
<1>3. CASE ~CloseUpload(w)
  <2>1. upload' = upload
    BY <1>3 DEF Continue, NewObject, Refuse, WriteBlob, ListPiece, Commit, Upsert, CommitRefused,
       Free, RemoveEntry, Retain, ClearPart, ClearBlob, ListPart, Survey, Discard, DiscardBlob,
       Number, DropRead, DropBlob, MarkDropped, nothing, tables
  <2>2. QED
    BY <2>1
<1>4. QED
  BY <1>2, <1>3

LEMMA OwnStep == ~MayRepeat /\ OwnInv /\ [Next]_vars => OwnInv'
<1> SUFFICES ASSUME ~MayRepeat, OwnInv, [Next]_vars PROVE OwnInv'
  OBVIOUS
<1>1. StoreInv /\ StoreInv' /\ Present
  BY StoreStep DEF OwnInv
<1>2. ASSUME NEW w \in Request, Start(w)
      PROVE  OwnInv'
  <2>1. OnlyActs(w) /\ UNCHANGED upload
    BY <1>1, <1>2, Begins, StateStays DEF OnlyActs, nothing, tables
  <2>2. CASE task'[w].obj = None
    BY <1>1, <2>1, <2>2, OwnGoesOn
  <2>3. ASSUME NEW o \in Object, task'[w].obj = o, upload[o] # Closed, MayServe(o),
               task'[w].kind \notin {"put", "create"}
        PROVE  OwnInv'
    <3>1. \A v \in Request : task[v].obj # o
      BY <2>3 DEF MayServe
    <3>2. state'[o] # "absent"
      BY <1>1, <2>1, <2>3 DEF Present, OnlyActs
    <3>3. QED
      BY <1>1, <2>1, <2>3, <3>1, <3>2, OwnTakesUp
  <2>4. QED
    BY <1>1, <1>2, <2>2, <2>3, Begins
<1>3. ASSUME NEW w \in Request, Continue(w), ~NewObject(w), ~OpenUpload(w)
      PROVE  OwnInv'
  BY <1>1, <1>3, Moves, StateStays, UploadsClose, OwnGoesOn DEF OnlyActs
<1>4. ASSUME NEW w \in Request, NewObject(w)
      PROVE  OwnInv'
  <2>1. PICK o \in Object : Reserve(o) /\ task' = [task EXCEPT ![w].obj = o, ![w].at = IF For(w, "put") THEN "write" ELSE "open"]
    BY <1>4 DEF NewObject
  <2> DEFINE t == [task[w] EXCEPT !.obj = o, !.at = IF For(w, "put") THEN "write" ELSE "open"]
  <2>2. Takes(w, t)
    BY <2>1 DEF Takes
  <2>3. t.obj = o
    BY <1>1, TaskFields DEF Task
  <2>4. OnlyActs(w)
    BY <1>1, <1>4, <2>2, TakesTo, StateStays DEF OnlyActs, Continue
  <2>5. task'[w].obj = o
    BY <1>1, <2>2, <2>3, TakesTo
  <2>6. state[o] = "absent" /\ state'[o] # "absent"
    BY <1>1, <2>1 DEF Reserve, StoreInv, TypeOK, LifeTypeOK
  <2>7. (\A v \in Request : task[v].obj # o) /\ upload[o] = Closed
    BY <1>1, <2>6, NoneAssumption DEF Present
  <2>8. UNCHANGED upload
    BY <1>4 DEF NewObject, tables
  <2>9. QED
    BY <1>1, <2>4, <2>5, <2>6, <2>7, <2>8, OwnTakesUp
<1>5. ASSUME NEW w \in Request, OpenUpload(w)
      PROVE  OwnInv'
  <2>1. (\A v \in Request : v # w => task'[v] = task[v]) /\ task'[w] = Idle
    BY <1>1, <1>5, ReturnTo DEF OpenUpload
  <2>2. \A o \in Object : state'[o] = state[o] /\ (o # task[w].obj => upload'[o] = upload[o])
    BY <1>1, <1>5 DEF OpenUpload, lifeVars, StoreInv, TypeOK
  <2>3. \A v \in Request : task[v].obj \in Object \cup {None}
    BY <1>1, TaskFields
  <2>4. Apart'
    BY <2>1 DEF OwnInv, Apart, Idle
  <2>5. \A v \in Request : v # w /\ task[v].obj # None => task[v].obj # task[w].obj
    BY DEF OwnInv, Apart
  <2>6. task[w].obj # None
    BY <1>1, <1>5, TaskFields DEF OpenUpload, At, Fits
  <2>7. Present'
    BY <1>1, <2>1, <2>2, <2>3, <2>5, <2>6 DEF Present, Idle
  <2>8. QED
    BY <1>1, <2>4, <2>7 DEF OwnInv
<1>6. ASSUME NEW w \in Request, Die(w) \/ PutFails(w)
      PROVE  OwnInv'
  <2>1. (Return(w) \/ Goto(w, "drop")) /\ UNCHANGED upload
    BY <1>6 DEF Die, PutFails, nothing, tables
  <2>2. /\ \A v \in Request : v # w => task'[v] = task[v]
        /\ task'[w].obj = None \/ (task'[w].obj = task[w].obj /\ task'[w].kind = task[w].kind)
    <3>1. CASE Return(w)
      BY <1>1, <3>1, ReturnTo DEF Idle
    <3>2. CASE Goto(w, "drop")
      BY <1>1, <3>2, GotoTo
    <3>3. QED
      BY <2>1, <3>1, <3>2
  <2>3. QED
    BY <1>1, <1>6, <2>1, <2>2, StateStays, OwnGoesOn DEF OnlyActs
<1>7. CASE \E o \in Object : ReleaseStale(o)
  <2>1. UNCHANGED <<task, upload>>
    BY <1>7 DEF ReleaseStale, tables
  <2>2. \A o \in Object : state[o] # "absent" => state'[o] # "absent"
    BY <1>1, <1>7 DEF ReleaseStale, Release, StoreInv, TypeOK, LifeTypeOK
  <2>3. QED
    BY <1>1, <2>1, <2>2, TaskFields DEF OwnInv, Apart, Present
<1>8. CASE Tick \/ UNCHANGED vars
  <2>1. UNCHANGED <<task, upload, state>>
    BY <1>8 DEF Tick, vars, tables, lifeVars
  <2>2. QED
    BY <1>1, <2>1, TaskFields DEF OwnInv, Apart, Present
<1>9. QED
  BY <1>2, <1>3, <1>4, <1>5, <1>6, <1>7, <1>8 DEF Next

LEMMA OwnInit == Init => OwnInv
<1> SUFFICES ASSUME Init PROVE OwnInv
  OBVIOUS
<1>1. \A w \in Request : task[w].obj = None
  BY DEF Init, Idle
<1>2. \A o \in Object : upload[o] = Closed
  BY DEF Init
<1>3. QED
  BY <1>1, <1>2, StoreInit DEF OwnInv, Apart, Present

-----------------------------------------------------------------------------
(* The ledger                                                              *)

\* What a handler has not published yet is not booked.  A put that drops its object may
\* have published it.
Before(t)   == t.obj # None /\ (t.at \in {"free", "close", "drop", "dropBlob", "mark"} => t.kind = "abort")
Unbooked(t) == Before(t) => stores[t.obj] = 0

\* Nor is what a client may complete, unless that has just been done.
OpenUnbooked(o) ==
  upload[o] # Closed => \/ stores[o] = 0
                        \/ \E w \in Request : /\ task[w].obj = o /\ task[w].kind = "complete"
                                              /\ task[w].at \in {"free", "close"}

LedgerInv ==
  /\ OwnInv /\ LedgerAgrees
  /\ \A w \in Request : Unbooked(task[w])
  /\ \A o \in Object : OpenUnbooked(o)

LEMMA LedgerInit == Init => LedgerInv
<1> SUFFICES ASSUME Init PROVE LedgerInv
  OBVIOUS
<1>1. \A w \in Request : task[w].obj = None
  BY DEF Init, Idle
<1>2. LedgerAgrees
  <2>1. \A o \in Object : state[o] = "absent" /\ stores[o] = 0 /\ deletes[o] = 0
    BY DEF Init, LifeInit
  <2>2. ASSUME NEW o \in Object
        PROVE  Booked(o)
    BY <2>1 DEF Booked, Held
  <2>3. QED
    BY <2>2 DEF LedgerAgrees
<1>3. \A o \in Object : OpenUnbooked(o)
  BY DEF Init, OpenUnbooked
<1>4. \A w \in Request : Unbooked(task[w])
  BY <1>1 DEF Unbooked, Before
<1>5. QED
  BY <1>2, <1>3, <1>4, OwnInit DEF LedgerInv

\* A commit books its own object, which was not booked, and writes off at most the
\* one it replaces.
LEMMA PublishBooks ==
  ASSUME LedgerInv, NEW w \in Request, NEW e, Publish(w, e), task[w].obj \in Object,
         stores[task[w].obj] = 0
  PROVE  LedgerAgrees' /\ \A o \in Object : o # task[w].obj => stores'[o] = stores[o]
<1> DEFINE o == task[w].obj
           stored == [state EXCEPT ![o] = "stored"]
           dead   == {d \in Object : d = e.obj /\ stored[d] = "stored"}
<1>1. /\ state \in [Object -> State] /\ stores \in [Object -> Nat] /\ deletes \in [Object -> Nat]
      /\ \A d \in Object : Booked(d)
  BY DEF LedgerInv, OwnInv, StoreInv, TypeOK, LifeTypeOK, LedgerAgrees
<1>2. /\ state'   = [d \in Object |-> IF d \in dead THEN "deleted" ELSE stored[d]]
      /\ stores'  = [stores EXCEPT ![o] = @ + 1]
      /\ deletes' = [d \in Object |-> IF d \in dead THEN deletes[d] + 1 ELSE deletes[d]]
  BY DEF Publish
<1>3. ASSUME NEW d \in Object
      PROVE  Booked(d)'
  <2>1. Booked(d) /\ stores[d] \in Nat /\ deletes[d] \in Nat /\ state[d] \in State
    BY <1>1
  <2>2. CASE d = o
    <3>1. stores[d] = 0 /\ deletes[d] = 0 /\ stores'[d] = 1
      BY <1>1, <1>2, <2>1, <2>2 DEF Booked
    <3>2. \/ state'[d] = "deleted" /\ deletes'[d] = 1
          \/ state'[d] = "stored" /\ deletes'[d] = 0
      BY <1>1, <1>2, <2>2, <3>1
    <3>3. QED
      BY <3>1, <3>2 DEF Booked, Held
  <2>3. CASE d # o /\ d \in dead
    <3>1. stores[d] = 1 /\ deletes[d] = 0
      BY <1>1, <2>1, <2>3 DEF Booked, Held
    <3>2. state'[d] = "deleted" /\ deletes'[d] = 1 /\ stores'[d] = 1
      BY <1>1, <1>2, <2>3, <3>1
    <3>3. QED
      BY <3>2 DEF Booked, Held
  <2>4. CASE d # o /\ d \notin dead
    <3>1. state'[d] = state[d] /\ deletes'[d] = deletes[d] /\ stores'[d] = stores[d]
      BY <1>1, <1>2, <2>4
    <3>2. QED
      BY <2>1, <3>1 DEF Booked
  <2>5. QED
    BY <2>2, <2>3, <2>4
<1>4. QED
  BY <1>1, <1>2, <1>3 DEF LedgerAgrees

\* All other steps book nothing, and write off only what is stored.
LEMMA OthersBook ==
  ASSUME LedgerInv, NEW w \in Request, Start(w) \/ Continue(w) \/ Die(w) \/ PutFails(w),
         ~Upsert(w), ~(Commit(w) /\ entry # NoEntry)
  PROVE  LedgerAgrees' /\ stores' = stores
<1>1. /\ state \in [Object -> State] /\ stores \in [Object -> Nat] /\ deletes \in [Object -> Nat]
      /\ \A d \in Object : Booked(d)
  BY DEF LedgerInv, OwnInv, StoreInv, TypeOK, LifeTypeOK, LedgerAgrees
<1>2. CASE NewObject(w)
  BY <1>1, <1>2 DEF NewObject, Reserve, LedgerAgrees, Booked, Held
<1>3. CASE RemoveEntry(w)
  BY <1>1, <1>3 DEF RemoveEntry, LedgerAgrees, Booked, Held
<1>4. CASE MarkDropped(w)
  BY <1>1, <1>4 DEF MarkDropped, LedgerAgrees, Booked, Held
<1>5. CASE UNCHANGED lifeVars
  BY <1>1, <1>5 DEF lifeVars, LedgerAgrees, Booked
<1>6. ASSUME Start(w) \/ Die(w) \/ PutFails(w)
      PROVE  UNCHANGED lifeVars
  BY <1>6 DEF Start, StartPut, StartCreate, StartRetention, StartDelete, StartAbort,
     StartPart, StartComplete, StartOn, Die, PutFails, nothing
<1>7. ASSUME Continue(w), ~(NewObject(w) \/ RemoveEntry(w) \/ MarkDropped(w))
      PROVE  UNCHANGED lifeVars
  BY <1>7 DEF Continue, Refuse, WriteBlob, ListPiece, Commit, Upsert, CommitRefused, Free, Retain,
     OpenUpload, ClearPart, ClearBlob, ListPart, Survey, Discard, DiscardBlob, Number, CloseUpload,
     DropRead, DropBlob, nothing
<1>8. QED
  BY <1>2, <1>3, <1>4, <1>5, <1>6, <1>7

\* Nothing is booked: it is enough that who goes on worked on its object before, and
\* that no upload is opened for an object that is booked.
LEMMA LedgerGoesOn ==
  ASSUME LedgerInv, OwnInv', LedgerAgrees', UNCHANGED stores, NEW w \in Request,
         \A v \in Request : v # w => task'[v] = task[v],
         Unbooked(task[w])',
         \A o \in Object : upload'[o] # Closed => upload[o] # Closed \/ stores[o] = 0,
         task[w].kind = "complete" /\ task[w].at \in {"free", "close"} =>
           \/ task'[w].kind = "complete" /\ task'[w].at \in {"free", "close"}
              /\ task'[w].obj = task[w].obj
           \/ upload'[task[w].obj] = Closed
  PROVE  LedgerInv'
<1>1. ASSUME NEW v \in Request
      PROVE  Unbooked(task[v])'
  <2>1. CASE v = w
    BY <2>1
  <2>2. CASE v # w
    <3>1. task'[v] = task[v] /\ Unbooked(task[v])
      BY <2>2 DEF LedgerInv
    <3>2. QED
      BY <3>1 DEF Unbooked, Before
  <2>3. QED
    BY <2>1, <2>2
<1>2. ASSUME NEW o \in Object, upload'[o] # Closed, stores[o] # 0
      PROVE  OpenUnbooked(o)'
  <2>1. PICK v \in Request : /\ task[v].obj = o /\ task[v].kind = "complete"
                             /\ task[v].at \in {"free", "close"}
    BY <1>2 DEF LedgerInv, OpenUnbooked
  <2>2. /\ task'[v].obj = o /\ task'[v].kind = "complete"
        /\ task'[v].at \in {"free", "close"}
    BY <1>2, <2>1
  <2>3. QED
    BY <2>2 DEF OpenUnbooked
<1>3. \A o \in Object : OpenUnbooked(o)'
  BY <1>2 DEF OpenUnbooked
<1>4. QED
  BY <1>1, <1>3 DEF LedgerInv

LEMMA LedgerPublish ==
  ASSUME LedgerInv, OwnInv', NEW w \in Request, NEW e, Publish(w, e),
         task[w].at \in {"commit", "upsert"}, UNCHANGED upload
  PROVE  LedgerInv'
<1> DEFINE o == task[w].obj
<1>1. StoreInv /\ Apart /\ Present
  BY DEF LedgerInv, OwnInv
<1>2. o \in Object /\ task[w].kind \in {"put", "complete"}
  BY <1>1, TaskFields DEF Fits, Kind
<1>3. stores[o] = 0
  BY <1>2, NoneAssumption DEF LedgerInv, Unbooked, Before
<1>4. LedgerAgrees' /\ \A x \in Object : x # o => stores'[x] = stores[x]
  BY <1>2, <1>3, PublishBooks
<1>5. /\ task'[w].at = "free" /\ task'[w].kind = task[w].kind /\ task'[w].obj = o
      /\ \A v \in Request : v # w => task'[v] = task[v]
  BY <1>1, PublishTo
<1>6. ASSUME NEW v \in Request
      PROVE  Unbooked(task[v])'
  <2>1. CASE v = w
    BY <1>2, <1>5, <2>1 DEF Unbooked, Before
  <2>2. CASE v # w /\ task[v].obj = None
    BY <1>5, <2>2 DEF Unbooked, Before
  <2>3. CASE v # w /\ task[v].obj # None
    <3>1. task[v].obj \in Object /\ task[v].obj # o
      BY <1>1, <2>3, TaskFields DEF Apart
    <3>2. Unbooked(task[v]) /\ task'[v] = task[v]
      BY <1>5, <2>3 DEF LedgerInv
    <3>3. QED
      BY <1>4, <3>1, <3>2 DEF Unbooked, Before
  <2>4. QED
    BY <2>1, <2>2, <2>3
<1>7. ASSUME NEW x \in Object, upload'[x] # Closed
      PROVE  OpenUnbooked(x)'
  <2>1. CASE x = o
    <3>1. task[w].kind = "complete"
      BY <1>1, <1>2, <1>7, <2>1 DEF Present
    <3>2. QED
      BY <1>5, <2>1, <3>1 DEF OpenUnbooked
  <2>2. CASE x # o /\ stores[x] = 0
    BY <1>4, <2>2 DEF OpenUnbooked
  <2>3. CASE x # o /\ stores[x] # 0
    <3>1. PICK v \in Request : /\ task[v].obj = x /\ task[v].kind = "complete"
                               /\ task[v].at \in {"free", "close"}
      BY <1>7, <2>3 DEF LedgerInv, OpenUnbooked
    <3>2. task'[v] = task[v]
      BY <1>5, <2>3, <3>1
    <3>3. QED
      BY <3>1, <3>2 DEF OpenUnbooked
  <2>4. QED
    BY <2>1, <2>2, <2>3
<1>8. \A x \in Object : OpenUnbooked(x)'
  BY <1>7 DEF OpenUnbooked
<1>9. QED
  BY <1>4, <1>6, <1>8 DEF LedgerInv

\* What is left to do after "free" and "close".
LEMMA AfterFree ==
  ASSUME StoreInv, NEW w \in Request, Continue(w), task[w].at \in {"free", "close"}
  PROVE  Free(w) \/ CloseUpload(w)
<1>1. task[w].at # "new" /\ task[w].at # "write"
  OBVIOUS
<1>2. QED
  BY DEF Continue, NewObject, Refuse, WriteBlob, ListPiece, Commit, Upsert, CommitRefused,
     RemoveEntry, Retain, OpenUpload, ClearPart, ClearBlob, ListPart, Survey, Discard,
     DiscardBlob, Number, DropRead, DropBlob, MarkDropped, At

\* A handler that drops its object goes on to do so, or has done.
LEMMA AfterDrop ==
  ASSUME StoreInv, NEW w \in Request, Continue(w), task[w].at \in {"drop", "dropBlob", "mark"}
  PROVE  /\ DropRead(w) \/ DropBlob(w) \/ MarkDropped(w)
         /\ task'[w].at \in {"dropBlob", "mark"} \/ task[w].kind = "abort" \/ task'[w] = Idle
<1>1. DropRead(w) \/ DropBlob(w) \/ MarkDropped(w)
  BY DEF Continue, NewObject, Refuse, WriteBlob, ListPiece, Commit, Upsert, CommitRefused, Free,
     RemoveEntry, Retain, OpenUpload, ClearPart, ClearBlob, ListPart, Survey, Discard,
     DiscardBlob, Number, CloseUpload, At
<1>2. CASE DropRead(w)
  BY <1>2, KeepTo DEF DropRead
<1>3. CASE DropBlob(w)
  BY <1>3, GotoTo DEF DropBlob
<1>4. CASE MarkDropped(w)
  BY <1>4, ReturnTo DEF MarkDropped, For
<1>5. QED
  BY <1>1, <1>2, <1>3, <1>4

LEMMA LedgerStep == ~MayRepeat /\ "complete" \notin Failing /\ LedgerInv /\ [Next]_vars => LedgerInv'
<1> SUFFICES ASSUME ~MayRepeat, "complete" \notin Failing, LedgerInv, [Next]_vars
             PROVE  LedgerInv'
  OBVIOUS
<1>1. OwnInv /\ OwnInv' /\ StoreInv /\ StoreInv' /\ Present /\ LedgerAgrees
  BY OwnStep DEF LedgerInv, OwnInv
<1>2. \A w \in Request : Unbooked(task[w])
  BY DEF LedgerInv
<1>3. ASSUME NEW w \in Request, Start(w)
      PROVE  LedgerInv'
  <2>1. /\ task[w].at = "idle" /\ UNCHANGED nothing
        /\ \A v \in Request : v # w => task'[v] = task[v]
    BY <1>1, <1>3, Begins
  <2>3. LedgerAgrees' /\ stores' = stores /\ upload' = upload
    BY <1>1, <2>1 DEF nothing, lifeVars, tables, LedgerAgrees, Booked
  <2>4. Unbooked(task[w])'
    <3>1. CASE task'[w].obj = None
      BY <3>1 DEF Unbooked, Before
    <3>2. ASSUME NEW o \in Object, task'[w].obj = o, upload[o] # Closed, MayServe(o)
          PROVE  Unbooked(task[w])'
      <4>1. \A v \in Request : task[v].obj # o
        BY <3>2 DEF MayServe
      <4>2. stores[o] = 0
        BY <3>2, <4>1 DEF LedgerInv, OpenUnbooked
      <4>3. QED
        BY <2>3, <3>2, <4>2 DEF Unbooked
    <3>3. QED
      BY <1>1, <1>3, <3>1, <3>2, Begins
  <2>5. QED
    BY <1>1, <2>1, <2>3, <2>4, LedgerGoesOn
<1>4. ASSUME NEW w \in Request, Upsert(w) \/ (Commit(w) /\ entry # NoEntry)
      PROVE  LedgerInv'
  <2>1. task[w].at \in {"commit", "upsert"} /\ UNCHANGED upload /\ \E e : Publish(w, e)
    BY <1>4 DEF Commit, Upsert, At, tables
  <2>2. QED
    BY <1>1, <2>1, LedgerPublish
<1>5. ASSUME NEW w \in Request, Continue(w), ~NewObject(w), ~Upsert(w), ~(Commit(w) /\ entry # NoEntry)
      PROVE  LedgerInv'
  <2>1. LedgerAgrees' /\ stores' = stores
    BY <1>1, <1>5, OthersBook
  <2>2. /\ \A v \in Request : v # w => task'[v] = task[v]
        /\ task'[w].obj = None \/ (task'[w].obj = task[w].obj /\ task'[w].kind = task[w].kind)
    BY <1>1, <1>5, Moves
  <2>3. CASE task[w].at \notin {"free", "close"}
    <3>1. Before(task'[w]) => Before(task[w]) /\ task'[w].obj = task[w].obj
      BY <1>1, <1>5, <2>2, <2>3, AfterDrop DEF Before, Idle
    <3>2. Unbooked(task[w])'
      BY <1>2, <2>1, <3>1 DEF Unbooked, Before
    <3>3. \A o \in Object : upload'[o] # Closed => upload[o] # Closed \/ stores[o] = 0
      <4>1. CASE ~OpenUpload(w)
        BY <1>1, <1>5, <4>1, UploadsClose
      <4>2. CASE OpenUpload(w)
        <5>1. \A o \in Object : o # task[w].obj => upload'[o] = upload[o]
          BY <1>1, <4>2 DEF OpenUpload, StoreInv, TypeOK
        <5>2. task[w].obj # None /\ task[w].at = "open"
          BY <1>1, <4>2, TaskFields DEF OpenUpload, At, Fits
        <5>3. stores[task[w].obj] = 0
          BY <1>2, <5>2 DEF Unbooked, Before
        <5>4. QED
          BY <5>1, <5>3
      <4>3. QED
        BY <4>1, <4>2
    <3>4. QED
      BY <1>1, <2>1, <2>2, <2>3, <3>2, <3>3, LedgerGoesOn
  <2>4. CASE task[w].at \in {"free", "close"}
    <3>1. Free(w) \/ CloseUpload(w)
      BY <1>1, <1>5, <2>4, AfterFree
    <3>2. \A o \in Object : upload'[o] # Closed => upload[o] # Closed
      BY <1>1, <1>5, <2>4, UploadsClose DEF OpenUpload, At
    <3>3. CASE Free(w)
      <4>1. CASE For(w, "complete")
        <5>1. task'[w].at = "close" /\ task'[w].kind = "complete" /\ task'[w].obj = task[w].obj
          BY <1>1, <3>3, <4>1, GotoTo DEF Free, For
        <5>2. Unbooked(task[w])'
          BY <5>1 DEF Unbooked, Before
        <5>3. QED
          BY <1>1, <2>1, <2>2, <3>2, <5>1, <5>2, LedgerGoesOn
      <4>2. CASE ~For(w, "complete")
        <5>1. task'[w].obj = None
          BY <1>1, <3>3, <4>2, ReturnTo DEF Free, Idle
        <5>2. Unbooked(task[w])'
          BY <5>1 DEF Unbooked, Before
        <5>3. QED
          BY <1>1, <2>1, <2>2, <3>2, <4>2, <5>2, LedgerGoesOn DEF For
      <4>3. QED
        BY <4>1, <4>2
    <3>4. CASE CloseUpload(w)
      <4>1. task'[w].obj = None
        BY <1>1, <3>4, ReturnTo DEF CloseUpload, Idle
      <4>2. Unbooked(task[w])'
        BY <4>1 DEF Unbooked, Before
      <4>3. task[w].kind = "complete" => upload'[task[w].obj] = Closed
        BY <1>1, <2>4, <3>4, HasObject DEF CloseUpload, StoreInv, TypeOK, For, At
      <4>4. QED
        BY <1>1, <2>1, <2>2, <3>2, <4>2, <4>3, LedgerGoesOn
    <3>5. QED
      BY <3>1, <3>3, <3>4
  <2>5. QED
    BY <2>3, <2>4
<1>6. ASSUME NEW w \in Request, NewObject(w)
      PROVE  LedgerInv'
  <2>1. PICK o \in Object : Reserve(o) /\ task' = [task EXCEPT ![w].obj = o, ![w].at = IF For(w, "put") THEN "write" ELSE "open"]
    BY <1>6 DEF NewObject
  <2> DEFINE t == [task[w] EXCEPT !.obj = o, !.at = IF For(w, "put") THEN "write" ELSE "open"]
  <2>2. Takes(w, t)
    BY <2>1 DEF Takes
  <2>3. t.obj = o
    BY <1>1, TaskFields DEF Task
  <2>4. task'[w].obj = o /\ \A v \in Request : v # w => task'[v] = task[v]
    BY <1>1, <2>2, <2>3, TakesTo
  <2>5. stores[o] = 0
    BY <1>1, <2>1 DEF Reserve, LedgerAgrees, Booked
  <2>6. LedgerAgrees' /\ stores' = stores
    BY <1>1, <1>6, OthersBook DEF Continue, NewObject, Upsert, Commit, At
  <2>7. Unbooked(task[w])'
    BY <2>4, <2>5, <2>6 DEF Unbooked, Before
  <2>8. UNCHANGED upload /\ task[w].at = "new"
    BY <1>6 DEF NewObject, tables, At
  <2>9. QED
    BY <1>1, <2>4, <2>6, <2>7, <2>8, LedgerGoesOn
<1>7. ASSUME NEW w \in Request, Die(w) \/ PutFails(w)
      PROVE  LedgerInv'
  <2>1. (Return(w) \/ Goto(w, "drop")) /\ UNCHANGED nothing /\ task[w].kind # "complete"
    BY <1>7 DEF Die, PutFails, For
  <2>2. LedgerAgrees' /\ stores' = stores /\ upload' = upload
    BY <1>1, <2>1 DEF nothing, lifeVars, tables, LedgerAgrees, Booked
  <2>3. CASE Die(w)
    <3>1. task'[w].obj = None /\ \A v \in Request : v # w => task'[v] = task[v]
      BY <1>1, <2>3, ReturnTo DEF Die, Idle
    <3>2. Unbooked(task[w])'
      BY <3>1 DEF Unbooked, Before
    <3>3. QED
      BY <1>1, <2>1, <2>2, <3>1, <3>2, LedgerGoesOn
  <2>4. CASE PutFails(w)
    <3>1. /\ task'[w].obj = task[w].obj /\ task'[w].at = "drop" /\ task'[w].kind = "put"
          /\ \A v \in Request : v # w => task'[v] = task[v]
      BY <1>1, <2>4, GotoTo DEF PutFails, For
    <3>2. Unbooked(task[w])'
      BY <3>1 DEF Unbooked, Before
    <3>3. QED
      BY <1>1, <2>1, <2>2, <3>1, <3>2, LedgerGoesOn
  <2>5. QED
    BY <1>7, <2>3, <2>4
<1>8. CASE \E o \in Object : ReleaseStale(o)
  <2>1. UNCHANGED <<task, upload, stores, deletes>>
    BY <1>8 DEF ReleaseStale, Release, tables
  <2>2. LedgerAgrees'
    BY <1>1, <1>8 DEF ReleaseStale, Release, LedgerAgrees, Booked, Held, StoreInv, TypeOK, LifeTypeOK
  <2>3. QED
    BY <1>1, <2>1, <2>2 DEF LedgerInv, Unbooked, Before, OpenUnbooked
<1>9. CASE Tick \/ UNCHANGED vars
  <2>1. UNCHANGED <<task, upload, state, stores, deletes>>
    BY <1>9 DEF Tick, vars, tables, lifeVars
  <2>2. QED
    BY <1>1, <2>1 DEF LedgerInv, Unbooked, Before, OpenUnbooked, LedgerAgrees, Booked
<1>10. QED
  BY <1>3, <1>4, <1>5, <1>6, <1>7, <1>8, <1>9 DEF Next

\* If clients wait for their answers and no CompleteMultipartUpload dies, every object is
\* booked once when it is published and written off at most once, however many other
\* requests fail and uploads stall (LedgerAgrees).
THEOREM StoreLedger == ASSUME ~MayRepeat, "complete" \notin Failing PROVE Spec => []LedgerAgrees
<1>1. LedgerInv /\ [Next]_vars => LedgerInv'
  BY LedgerStep
<1>2. LedgerInv => LedgerAgrees
  BY DEF LedgerInv
<1>3. QED
  BY <1>1, <1>2, LedgerInit, PTL DEF Spec

-----------------------------------------------------------------------------
(* The life cycle                                                          *)

\* The transaction of a commit that replaces an object: Book(o) and Remove(d) at once.
Replace(o, d) ==
  /\ o # d
  /\ state[o] = "uploading" /\ state[d] = "stored" /\ stores[d] > deletes[d]
  /\ state'   = [state EXCEPT ![o] = "stored", ![d] = "deleted"]
  /\ stores'  = [stores EXCEPT ![o] = @ + 1]
  /\ deletes' = [deletes EXCEPT ![d] = @ + 1]

KeepsTheLife ==
  LifeInit /\ [][LifeNext \/ \E o, d \in Object : Replace(o, d)]_lifeVars

\* Until it is published or dropped, the object of a handler is an upload; so is that of
\* an open upload, unless the handler that is about to close it has just ended it.
Drops(t)   == t.kind = "put" /\ t.at \in {"drop", "dropBlob", "mark"}
Uploads(t) == t.obj # None /\ t.at \notin {"free", "close"} /\ ~Drops(t)
Ended(t)  == t.obj # None /\ t.at \in {"free", "close"}
OpenFits(o) ==
  upload[o] # Closed => \/ state[o] = "uploading"
                        \/ \E w \in Request : task[w].obj = o /\ task[w].at \in {"free", "close"}

\* What the key names is no upload any more.
EntryEnds == entry # NoEntry => state[entry.obj] \in {"stored", "deleted"}

LifeInv ==
  /\ LedgerInv /\ EntryEnds
  /\ \A w \in Request : Uploads(task[w]) => state[task[w].obj] = "uploading"
  /\ \A o \in Object : OpenFits(o)

\* Clients await their answers and finish within a day, and neither a completion nor an
\* abort dies.
Orderly == ~MayRepeat /\ ~MayStall /\ Failing \cap {"complete", "abort"} = {}

LEMMA LifeStarts == Init => LifeInv
<1> SUFFICES ASSUME Init PROVE LifeInv
  OBVIOUS
<1>1. \A w \in Request : task[w].obj = None
  BY DEF Init, Idle
<1>2. entry = NoEntry /\ \A o \in Object : upload[o] = Closed
  BY DEF Init
<1>3. QED
  BY <1>1, <1>2, LedgerInit DEF LifeInv, EntryEnds, Uploads, OpenFits

\* A step of w ends no upload but its own, and leaves that one open only as an upload or
\* until w closes it.
LEMMA LifeGoesOn ==
  ASSUME LifeInv, LedgerInv', EntryEnds', NEW w \in Request,
         \A v \in Request : v # w => task'[v] = task[v],
         Uploads(task'[w]) => state'[task'[w].obj] = "uploading",
         \A x \in Object : state[x] = "uploading" /\ x # task[w].obj => state'[x] = "uploading",
         \A x \in Object : upload'[x] # Closed => upload[x] # Closed \/ x = task[w].obj,
         task[w].obj # None => \/ upload'[task[w].obj] = Closed
                               \/ state'[task[w].obj] = "uploading"
                               \/ Ended(task'[w]) /\ task'[w].obj = task[w].obj
  PROVE  LifeInv'
<1>1. StoreInv /\ Apart
  BY DEF LifeInv, LedgerInv, OwnInv
<1>2. ASSUME NEW v \in Request, Uploads(task'[v])
      PROVE  state'[task'[v].obj] = "uploading"
  <2>1. CASE v = w
    BY <1>2, <2>1
  <2>2. CASE v # w
    <3>1. task'[v] = task[v] /\ task[v].obj \in Object
      BY <1>1, <1>2, <2>2, TaskFields DEF Uploads
    <3>2. state[task[v].obj] = "uploading" /\ task[v].obj # task[w].obj
      BY <1>1, <1>2, <2>2, <3>1 DEF LifeInv, Apart, Uploads
    <3>3. QED
      BY <3>1, <3>2
  <2>3. QED
    BY <2>1, <2>2
<1>3. ASSUME NEW x \in Object
      PROVE  OpenFits(x)'
  <2>1. CASE x = task[w].obj
    <3>1. x # None
      BY NoneAssumption
    <3>2. QED
      BY <2>1, <3>1 DEF OpenFits, Ended
  <2>2. ASSUME x # task[w].obj, upload'[x] # Closed
        PROVE  OpenFits(x)'
    <3>1. CASE state[x] = "uploading"
      BY <2>2, <3>1 DEF OpenFits
    <3>2. CASE state[x] # "uploading"
      <4>1. PICK v \in Request : task[v].obj = x /\ task[v].at \in {"free", "close"}
        BY <2>2, <3>2 DEF LifeInv, OpenFits
      <4>2. task'[v] = task[v]
        BY <2>2, <4>1
      <4>3. QED
        BY <4>1, <4>2 DEF OpenFits
    <3>3. QED
      BY <3>1, <3>2
  <2>3. QED
    BY <2>1, <2>2 DEF OpenFits
<1>4. QED
  BY <1>2, <1>3 DEF LifeInv

\* What has ended stays ended, and the key keeps its object unless it is published,
\* deleted or gets another retention.
LEMMA EntryKept ==
  ASSUME StoreInv, EntryEnds, entry' = entry,
         \A x \in Object : state[x] \in {"stored", "deleted"} => state'[x] \in {"stored", "deleted"}
  PROVE  EntryEnds'
<1>1. entry # NoEntry => entry.obj \in Object
  BY EntryFields
<1>2. QED
  BY <1>1 DEF EntryEnds

\* A published object was an upload of its own; what it replaces is written off.
LEMMA PublishReplaces ==
  ASSUME LifeInv, NEW w \in Request, NEW e, Publish(w, e), e = NoEntry \/ e = entry,
         task[w].at \in {"commit", "upsert"}
  PROVE  /\ LifeNext \/ \E o, d \in Object : Replace(o, d)
         /\ EntryEnds'
         /\ \A x \in Object : state[x] = "uploading" /\ x # task[w].obj => state'[x] = "uploading"
<1> DEFINE o == task[w].obj
           stored == [state EXCEPT ![o] = "stored"]
           dead   == {d \in Object : d = e.obj /\ stored[d] = "stored"}
<1>1. StoreInv /\ LedgerAgrees /\ EntryEnds
  BY DEF LifeInv, LedgerInv, OwnInv
<1>2. o \in Object
  BY <1>1, TaskFields DEF Fits, Kind
<1>3. state[o] = "uploading"
  BY <1>2, NoneAssumption DEF LifeInv, Uploads, Drops
<1>4. /\ state \in [Object -> State] /\ stores \in [Object -> Nat] /\ deletes \in [Object -> Nat]
  BY <1>1 DEF StoreInv, TypeOK, LifeTypeOK
<1>5. /\ state'   = [d \in Object |-> IF d \in dead THEN "deleted" ELSE stored[d]]
      /\ stores'  = [stores EXCEPT ![o] = @ + 1]
      /\ deletes' = [d \in Object |-> IF d \in dead THEN deletes[d] + 1 ELSE deletes[d]]
      /\ entry'   = [obj |-> o, ret |-> task[w].ret]
  BY DEF Publish
<1>6. o \notin dead
  <2>1. CASE e = NoEntry
    BY <1>2, <2>1, NoneAssumption DEF NoEntry
  <2>2. CASE e = entry /\ entry # NoEntry
    BY <1>1, <1>3, <2>2 DEF EntryEnds
  <2>3. QED
    BY <2>1, <2>2
<1>7. entry'.obj = o /\ state'[o] = "stored"
  BY <1>2, <1>4, <1>5, <1>6
<1>8. CASE dead = {}
  <2>1. state' = stored /\ deletes' = deletes
    BY <1>4, <1>5, <1>8
  <2>2. Book(o)
    BY <1>3, <1>5, <2>1 DEF Book
  <2>3. QED
    BY <1>2, <1>4, <1>7, <2>1, <2>2 DEF LifeNext, EntryEnds
<1>9. ASSUME NEW d \in dead
      PROVE  /\ Replace(o, d)
             /\ \A x \in Object : state[x] = "uploading" /\ x # o => state'[x] = "uploading"
  <2>1. d \in Object /\ d # o /\ dead = {d} /\ state[d] = "stored"
    BY <1>4, <1>6, <1>9
  <2>2. stores[d] > deletes[d]
    BY <1>1, <1>4, <2>1 DEF LedgerAgrees, Booked, Held
  <2>3. /\ state'   = [state EXCEPT ![o] = "stored", ![d] = "deleted"]
        /\ deletes' = [deletes EXCEPT ![d] = @ + 1]
    BY <1>2, <1>4, <1>5, <2>1
  <2>4. \A x \in Object : state[x] = "uploading" /\ x # o => state'[x] = "uploading"
    BY <1>4, <2>1, <2>3
  <2>5. QED
    BY <1>3, <1>5, <2>1, <2>2, <2>3, <2>4 DEF Replace
<1>10. QED
  BY <1>2, <1>7, <1>8, <1>9 DEF EntryEnds

\* The other steps of a handler that change a state.
LEMMA LifeNewObject ==
  ASSUME LifeInv, LedgerInv', NEW w \in Request, NewObject(w)
  PROVE  LifeNext /\ LifeInv'
<1>1. StoreInv /\ EntryEnds /\ state \in [Object -> State]
  BY DEF LifeInv, LedgerInv, OwnInv, StoreInv, TypeOK, LifeTypeOK
<1>2. PICK o \in Object : Reserve(o) /\ task' = [task EXCEPT ![w].obj = o, ![w].at = IF For(w, "put") THEN "write" ELSE "open"]
  BY DEF NewObject
<1> DEFINE t == [task[w] EXCEPT !.obj = o, !.at = IF For(w, "put") THEN "write" ELSE "open"]
<1>3. Takes(w, t)
  BY <1>2 DEF Takes
<1>4. t.obj = o
  BY <1>1, TaskFields DEF Task
<1>5. task'[w].obj = o /\ \A v \in Request : v # w => task'[v] = task[v]
  BY <1>1, <1>3, <1>4, TakesTo
<1>6. UNCHANGED <<upload, entry>> /\ task[w].obj = None
  BY <1>1, TaskFields DEF NewObject, tables, At, Fits
<1>7. state'[o] = "uploading" /\ \A x \in Object : x # o => state'[x] = state[x]
  BY <1>1, <1>2 DEF Reserve
<1>8. state[o] = "absent"
  BY <1>2 DEF Reserve
<1>9. EntryEnds'
  BY <1>1, <1>6, <1>7, <1>8, EntryKept
<1>10. QED
  BY <1>2, <1>5, <1>6, <1>7, <1>8, <1>9, LifeGoesOn DEF LifeNext

LEMMA LifePublish ==
  ASSUME LifeInv, LedgerInv', NEW w \in Request, NEW e, Publish(w, e),
         e = NoEntry \/ e = entry, task[w].at \in {"commit", "upsert"}, UNCHANGED upload
  PROVE  (LifeNext \/ \E o, d \in Object : Replace(o, d)) /\ LifeInv'
<1>1. StoreInv
  BY DEF LifeInv, LedgerInv, OwnInv
<1>2. /\ LifeNext \/ \E o, d \in Object : Replace(o, d)
      /\ EntryEnds'
      /\ \A x \in Object : state[x] = "uploading" /\ x # task[w].obj => state'[x] = "uploading"
  BY PublishReplaces
<1>3. /\ task'[w].at = "free" /\ task'[w].obj = task[w].obj
      /\ \A v \in Request : v # w => task'[v] = task[v]
  BY <1>1, PublishTo
<1>4. QED
  BY <1>2, <1>3, LifeGoesOn DEF Uploads, Ended

LEMMA LifeRemoveEntry ==
  ASSUME LifeInv, LedgerInv', NEW w \in Request, RemoveEntry(w)
  PROVE  (LifeNext \/ UNCHANGED lifeVars) /\ LifeInv'
<1>1. StoreInv /\ LedgerAgrees
  BY DEF LifeInv, LedgerInv, OwnInv
<1>2. state \in [Object -> State] /\ stores \in [Object -> Nat] /\ deletes \in [Object -> Nat]
  BY <1>1 DEF StoreInv, TypeOK, LifeTypeOK
<1>3. task[w].kind = "delete" /\ task[w].obj = None /\ task[w].prey \in Object
  BY <1>1, TaskFields DEF RemoveEntry, At, Fits, Kind
<1>4. task'[w].obj = None /\ \A v \in Request : v # w => task'[v] = task[v]
  BY <1>1, <1>3, GotoTo DEF RemoveEntry
<1>5. UNCHANGED <<upload, stores>> /\ entry' = NoEntry
  BY DEF RemoveEntry, tables
<1> DEFINE d == task[w].prey
<1>6. CASE state[d] = "stored"
  <2>1. state' = [state EXCEPT ![d] = "deleted"] /\ deletes' = [deletes EXCEPT ![d] = @ + 1]
    BY <1>6 DEF RemoveEntry
  <2>2. stores[d] > deletes[d]
    BY <1>1, <1>2, <1>3, <1>6 DEF LedgerAgrees, Booked, Held
  <2>3. Remove(d)
    BY <1>5, <1>6, <2>1, <2>2 DEF Remove
  <2>4. LifeNext
    BY <1>3, <2>3 DEF LifeNext
  <2>5. \A x \in Object : state[x] = "uploading" => state'[x] = "uploading"
    BY <1>2, <1>6, <2>1
  <2> HIDE DEF d
  <2>6. QED
    BY <1>3, <1>4, <1>5, <2>4, <2>5, LifeGoesOn DEF EntryEnds, Uploads
<1>7. CASE state[d] # "stored"
  <2>1. UNCHANGED <<state, deletes>>
    BY <1>7 DEF RemoveEntry
  <2> HIDE DEF d
  <2>2. QED
    BY <1>3, <1>4, <1>5, <2>1, LifeGoesOn DEF EntryEnds, Uploads, lifeVars
<1>8. QED
  BY <1>6, <1>7

LEMMA LifeMarkDropped ==
  ASSUME LifeInv, LedgerInv', NEW w \in Request, MarkDropped(w)
  PROVE  (LifeNext \/ UNCHANGED lifeVars) /\ LifeInv'
<1>1. StoreInv /\ EntryEnds /\ Present /\ state \in [Object -> State]
  BY DEF LifeInv, LedgerInv, OwnInv, StoreInv, TypeOK, LifeTypeOK
<1> DEFINE o == task[w].obj
<1>2. task[w].at = "mark" /\ task[w].kind \in {"put", "abort"} /\ o \in Object
  BY <1>1, TaskFields DEF MarkDropped, At, Fits, Kind
<1>3. state[o] # "absent"
  BY <1>1, <1>2, NoneAssumption DEF Present
<1>4. state' = [state EXCEPT ![o] = "deleted"] /\ UNCHANGED <<stores, deletes, entry, upload>>
  BY DEF MarkDropped, tables
<1>5. LifeNext \/ UNCHANGED lifeVars
  <2>1. CASE state[o] = "deleted"
    BY <1>1, <1>2, <1>4, <2>1 DEF lifeVars
  <2>2. CASE state[o] # "deleted"
    <3>1. Remove(o)
      BY <1>3, <1>4, <2>2 DEF Remove
    <3>2. QED
      BY <1>2, <3>1 DEF LifeNext
  <2>3. QED
    BY <2>1, <2>2
<1>6. \A x \in Object : state[x] = "uploading" /\ x # o => state'[x] = "uploading"
  BY <1>1, <1>4
<1>7. \A x \in Object : state[x] \in {"stored", "deleted"} => state'[x] \in {"stored", "deleted"}
  BY <1>1, <1>4
<1>8. EntryEnds'
  BY <1>1, <1>4, <1>7, EntryKept
<1>9. CASE task[w].kind = "put"
  <2>1. task'[w].obj = None /\ \A v \in Request : v # w => task'[v] = task[v]
    BY <1>1, <1>9, ReturnTo DEF MarkDropped, For, Idle
  <2>2. upload'[o] = Closed
    BY <1>1, <1>2, <1>4, <1>9, NoneAssumption DEF Present
  <2>3. QED
    BY <1>2, <1>4, <1>5, <1>6, <1>8, <2>1, <2>2, LifeGoesOn DEF Uploads
<1>10. CASE task[w].kind = "abort"
  <2>1. task'[w].obj = o /\ task'[w].at = "close" /\ \A v \in Request : v # w => task'[v] = task[v]
    BY <1>1, <1>10, GotoTo DEF MarkDropped, For
  <2>2. QED
    BY <1>2, <1>4, <1>5, <1>6, <1>8, <2>1, LifeGoesOn DEF Uploads, Ended
<1>11. QED
  BY <1>2, <1>9, <1>10

\* The steps that change no row of `objects`.
LEMMA LifeQuiet ==
  ASSUME LifeInv, LedgerInv', NEW w \in Request, UNCHANGED lifeVars,
         EntryEnds' \/ entry' = entry,
         \A v \in Request : v # w => task'[v] = task[v],
         Uploads(task'[w]) => state[task'[w].obj] = "uploading",
         \A x \in Object : upload'[x] # Closed => upload[x] # Closed \/ x = task[w].obj,
         task[w].obj # None /\ ~Uploads(task[w]) =>
           upload'[task[w].obj] = Closed \/ (Ended(task'[w]) /\ task'[w].obj = task[w].obj)
  PROVE  LifeInv'
<1>1. StoreInv /\ EntryEnds /\ state' = state
  BY DEF LifeInv, LedgerInv, OwnInv, lifeVars
<1>2. EntryEnds'
  BY <1>1, EntryKept
<1>3. task[w].obj # None => \/ upload'[task[w].obj] = Closed
                            \/ state'[task[w].obj] = "uploading"
                            \/ Ended(task'[w]) /\ task'[w].obj = task[w].obj
  BY <1>1 DEF LifeInv
<1>4. QED
  BY <1>1, <1>2, <1>3, LifeGoesOn

LEMMA LifeStart ==
  ASSUME ~MayRepeat, LifeInv, LedgerInv', NEW w \in Request, Start(w)
  PROVE  UNCHANGED lifeVars /\ LifeInv'
<1>1. StoreInv
  BY DEF LifeInv, LedgerInv, OwnInv
<1>2. /\ task[w].at = "idle" /\ UNCHANGED nothing
      /\ \A v \in Request : v # w => task'[v] = task[v]
      /\ \/ task'[w].obj = None
         \/ \E o \in Object : task'[w].obj = o /\ upload[o] # Closed /\ MayServe(o)
  BY <1>1, Begins
<1>3. Uploads(task'[w]) => state[task'[w].obj] = "uploading"
  <2> SUFFICES ASSUME Uploads(task'[w]) PROVE state[task'[w].obj] = "uploading"
    OBVIOUS
  <2>1. PICK o \in Object : task'[w].obj = o /\ upload[o] # Closed /\ MayServe(o)
    BY <1>2 DEF Uploads
  <2>2. \A v \in Request : task[v].obj # o
    BY <2>1 DEF MayServe
  <2>3. QED
    BY <2>1, <2>2 DEF LifeInv, OpenFits
<1>4. task[w].obj = None
  BY <1>1, <1>2, TaskFields DEF Fits
<1>5. QED
  BY <1>2, <1>3, <1>4, LifeQuiet DEF nothing, tables

LEMMA LifeContinue ==
  ASSUME LifeInv, LedgerInv', NEW w \in Request, Continue(w), ~NewObject(w), ~Upsert(w),
         ~(Commit(w) /\ entry # NoEntry), ~RemoveEntry(w), ~MarkDropped(w)
  PROVE  UNCHANGED lifeVars /\ LifeInv'
<1>1. StoreInv /\ EntryEnds /\ Present
  BY DEF LifeInv, LedgerInv, OwnInv
<1>2. UNCHANGED lifeVars
  BY DEF Continue, Refuse, WriteBlob, ListPiece, Commit, Upsert, CommitRefused, Free, Retain,
     OpenUpload, ClearPart, ClearBlob, ListPart, Survey, Discard, DiscardBlob, Number, CloseUpload,
     DropRead, DropBlob, nothing
<1>3. entry' = entry \/ Retain(w)
  BY DEF Continue, Refuse, WriteBlob, ListPiece, Commit, Upsert, CommitRefused, Free,
     OpenUpload, ClearPart, ClearBlob, ListPart, Survey, Discard, DiscardBlob, Number, CloseUpload,
     DropRead, DropBlob, nothing
<1>4. EntryEnds' \/ entry' = entry
  <2>1. ASSUME Retain(w)
        PROVE  entry' = NoEntry \/ (entry # NoEntry /\ entry'.obj = entry.obj)
    BY <1>1, <2>1 DEF Retain
  <2>2. QED
    BY <1>1, <1>2, <1>3, <2>1 DEF EntryEnds, lifeVars
<1>5. /\ \A v \in Request : v # w => task'[v] = task[v]
      /\ task'[w].obj = None \/ (task'[w].obj = task[w].obj /\ task'[w].kind = task[w].kind)
  BY <1>1, Moves
<1>6. \A x \in Object : upload'[x] # Closed => upload[x] # Closed \/ x = task[w].obj
  <2>1. CASE ~OpenUpload(w)
    BY <1>1, <2>1, UploadsClose
  <2>2. CASE OpenUpload(w)
    BY <1>1, <2>2 DEF OpenUpload, StoreInv, TypeOK
  <2>3. QED
    BY <2>1, <2>2
<1>7. CASE task[w].at \notin {"free", "close"} /\ ~Drops(task[w])
  <2>1. Uploads(task'[w]) => state[task'[w].obj] = "uploading"
    BY <1>5, <1>7 DEF LifeInv, Uploads
  <2>2. QED
    BY <1>2, <1>4, <1>5, <1>6, <1>7, <2>1, LifeQuiet DEF Uploads
<1>10. CASE Drops(task[w])
  <2>1. ~Uploads(task'[w])
    BY <1>1, <1>5, <1>10, AfterDrop DEF Drops, Uploads, Idle
  <2>2. task[w].obj # None => upload'[task[w].obj] = Closed
    <3>1. task[w].obj # None => upload[task[w].obj] = Closed
      BY <1>1, <1>10 DEF Present, Drops
    <3>2. upload' = upload
      BY <1>1, <1>10, AfterDrop DEF Drops, DropRead, DropBlob, MarkDropped, nothing, tables
    <3>3. QED
      BY <3>1, <3>2
  <2>3. QED
    BY <1>2, <1>4, <1>5, <1>6, <2>1, <2>2, LifeQuiet
<1>8. CASE task[w].at \in {"free", "close"}
  <2>1. Free(w) \/ CloseUpload(w)
    BY <1>1, <1>8, AfterFree
  <2>2. CASE Free(w) /\ For(w, "complete")
    <3>1. task'[w].at = "close" /\ task'[w].obj = task[w].obj
      BY <1>1, <2>2, GotoTo DEF Free
    <3>2. QED
      BY <1>2, <1>4, <1>5, <1>6, <3>1, LifeQuiet DEF Uploads, Ended
  <2>3. CASE Free(w) /\ ~For(w, "complete")
    <3>1. task'[w].obj = None
      BY <1>1, <2>3, ReturnTo DEF Free, Idle
    <3>2. task[w].obj # None => upload[task[w].obj] = Closed
      BY <1>1, <2>3, TaskFields DEF Free, For, At, Fits, Kind, Present
    <3>3. upload' = upload
      BY <2>3 DEF Free, tables
    <3>4. QED
      BY <1>2, <1>4, <1>5, <1>6, <3>1, <3>2, <3>3, LifeQuiet DEF Uploads
  <2>4. CASE CloseUpload(w)
    <3>1. task'[w].obj = None
      BY <1>1, <2>4, ReturnTo DEF CloseUpload, Idle
    <3>2. task[w].obj # None => upload'[task[w].obj] = Closed
      BY <1>1, <2>4, TaskFields DEF CloseUpload, StoreInv, TypeOK
    <3>3. QED
      BY <1>2, <1>4, <1>5, <1>6, <3>1, <3>2, LifeQuiet DEF Uploads
  <2>5. QED
    BY <2>1, <2>2, <2>3, <2>4
<1>9. QED
  BY <1>2, <1>7, <1>8, <1>10

LEMMA LifeBreaksOff ==
  ASSUME Failing \cap {"complete", "abort"} = {}, LifeInv, LedgerInv', NEW w \in Request,
         Die(w) \/ PutFails(w)
  PROVE  UNCHANGED lifeVars /\ LifeInv'
<1>1. StoreInv /\ Present
  BY DEF LifeInv, LedgerInv, OwnInv
<1>2. (Return(w) \/ Goto(w, "drop")) /\ UNCHANGED nothing
  BY DEF Die, PutFails
<1>3. task[w].obj # None /\ ~Uploads(task[w]) => task[w].kind = "put"
  BY <1>1, TaskFields DEF Die, PutFails, For, Fits, Kind, Uploads, Drops
<1>4. task[w].obj # None /\ ~Uploads(task[w]) => upload[task[w].obj] = Closed
  BY <1>1, <1>3 DEF Present
<1>5. CASE Die(w)
  <2>1. task'[w].obj = None /\ \A v \in Request : v # w => task'[v] = task[v]
    BY <1>1, <1>5, ReturnTo DEF Die, Idle
  <2>2. QED
    BY <1>2, <1>4, <2>1, LifeQuiet DEF nothing, tables, Uploads
<1>6. CASE PutFails(w)
  <2>1. /\ task'[w].kind = "put" /\ task'[w].at = "drop"
        /\ \A v \in Request : v # w => task'[v] = task[v]
    BY <1>1, <1>6, GotoTo DEF PutFails, For
  <2>2. ~Uploads(task'[w])
    BY <2>1 DEF Uploads, Drops
  <2>3. QED
    BY <1>2, <1>4, <2>1, <2>2, LifeQuiet DEF nothing, tables
<1>7. QED
  BY <1>5, <1>6

LEMMA LifeRelease ==
  ASSUME ~MayStall, LifeInv, LedgerInv', NEW o \in Object, ReleaseStale(o)
  PROVE  LifeNext /\ LifeInv'
<1>1. StoreInv /\ EntryEnds /\ state \in [Object -> State]
  BY DEF LifeInv, LedgerInv, OwnInv, StoreInv, TypeOK, LifeTypeOK
<1>2. /\ Release(o) /\ UNCHANGED <<entry, upload, task>>
      /\ upload[o] = Closed /\ \A w \in Request : task[w].obj # o
  BY DEF ReleaseStale, tables
<1>3. state[o] = "uploading" /\ \A x \in Object : x # o => state'[x] = state[x]
  BY <1>1, <1>2 DEF Release
<1>4. EntryEnds'
  BY <1>1, <1>2, <1>3, EntryKept
<1>5. \A w \in Request : task[w].obj \in Object \cup {None}
  BY <1>1, TaskFields
<1>6. \A w \in Request : Uploads(task'[w]) => state'[task'[w].obj] = "uploading"
  BY <1>2, <1>3, <1>5 DEF LifeInv, Uploads
<1>7. \A x \in Object : OpenFits(x)'
  BY <1>2, <1>3 DEF LifeInv, OpenFits
<1>8. QED
  BY <1>2, <1>4, <1>6, <1>7 DEF LifeInv, LifeNext

LEMMA LifeStep ==
  ASSUME Orderly, LifeInv, [Next]_vars
  PROVE  /\ LifeNext \/ (\E o, d \in Object : Replace(o, d)) \/ UNCHANGED lifeVars
         /\ LifeInv'
<1>1. ~MayRepeat /\ ~MayStall /\ Failing \cap {"complete", "abort"} = {}
  BY DEF Orderly
<1>2. LedgerInv'
  BY <1>1, LedgerStep DEF LifeInv
<1>3. ASSUME NEW w \in Request, Start(w)
      PROVE  UNCHANGED lifeVars /\ LifeInv'
  BY <1>1, <1>2, <1>3, LifeStart
<1>4. ASSUME NEW w \in Request, Upsert(w) \/ (Commit(w) /\ entry # NoEntry)
      PROVE  (LifeNext \/ \E o, d \in Object : Replace(o, d)) /\ LifeInv'
  <2>1. /\ task[w].at \in {"commit", "upsert"} /\ UNCHANGED upload
        /\ \E e : Publish(w, e) /\ (e = NoEntry \/ e = entry)
    BY <1>4 DEF Commit, Upsert, At, tables
  <2>2. QED
    BY <1>2, <2>1, LifePublish
<1>5. ASSUME NEW w \in Request, Continue(w)
      PROVE  /\ LifeNext \/ (\E o, d \in Object : Replace(o, d)) \/ UNCHANGED lifeVars
             /\ LifeInv'
  BY <1>2, <1>4, <1>5, LifeNewObject, LifeRemoveEntry, LifeMarkDropped, LifeContinue
<1>6. ASSUME NEW w \in Request, Die(w) \/ PutFails(w)
      PROVE  UNCHANGED lifeVars /\ LifeInv'
  BY <1>1, <1>2, <1>6, LifeBreaksOff
<1>7. ASSUME NEW o \in Object, ReleaseStale(o)
      PROVE  LifeNext /\ LifeInv'
  BY <1>1, <1>2, <1>7, LifeRelease
<1>8. CASE Tick \/ UNCHANGED vars
  <2>1. UNCHANGED <<lifeVars, entry, upload, task>>
    BY <1>8 DEF Tick, vars, tables, lifeVars
  <2>2. state' = state
    BY <2>1 DEF lifeVars
  <2>3. QED
    BY <1>2, <2>1, <2>2 DEF LifeInv, EntryEnds, Uploads, OpenFits
<1>9. QED
  BY <1>3, <1>5, <1>6, <1>7, <1>8 DEF Next

\* If clients await their answers and finish within a day and neither a completion nor an
\* abort dies, the S3 store keeps to the life cycle that the object service promises for
\* the rows of `objects` both of them write, ledger included: every step is one of it, or
\* a booking and the removal of the object that is replaced, or changes no row.
THEOREM StoreKeepsTheLife == ASSUME Orderly PROVE Spec => KeepsTheLife
<1>1. Init => LifeInit
  BY DEF Init
<1>2. LifeInv /\ [Next]_vars =>
        LifeInv' /\ [LifeNext \/ \E o, d \in Object : Replace(o, d)]_lifeVars
  BY LifeStep
<1>3. QED
  BY <1>1, <1>2, LifeStarts, PTL DEF Spec, KeepsTheLife

-----------------------------------------------------------------------------
(* The bytes                                                               *)

\* Clients wait for their answers and finish within a day, nothing is locked, and no
\* request for an upload dies.
Careful == /\ ~MayRepeat /\ ~MayStall /\ Mode = {}
           /\ Failing \cap {"part", "complete", "abort"} = {}

\* The pieces of o are those of the parts P, not numbered yet, and their bytes lie.
PartsLie(o, P) ==
  /\ \A s, p \in Slot : <<o, s, p>> \in piece <=> s \in P /\ p = s
  /\ \A s \in P : <<o, s>> \in blob

\* The pieces of o are those of P, numbered, and their bytes lie.
Numbered(o, P) ==
  /\ P \subseteq Slot /\ P # {}
  /\ \A s, p \in Slot : <<o, s, p>> \in piece <=> s \in P /\ p = Whole
  /\ \A s \in P : <<o, s>> \in blob

Bare(o) == \A s, p \in Slot : <<o, s, p>> \notin piece

\* How far the handler of each kind of request is with its object.
PutFits(t) ==
  t.kind = "put" =>
    /\ t.at \in {"write", "list"} => Bare(t.obj)
    /\ t.at = "list" => <<t.obj, Whole>> \in blob
    /\ t.at \in {"commit", "upsert"} => Numbered(t.obj, t.parts)

CreateFits(t) == t.kind = "create" /\ t.at = "open" => Bare(t.obj) /\ noted[t.obj] = {}

PartFits(t) ==
  t.kind = "part" =>
    /\ upload[t.obj] # Closed
    /\ t.at = "clear" => PartsLie(t.obj, noted[t.obj])
    /\ t.at \in {"clearBlob", "write", "list"} => PartsLie(t.obj, noted[t.obj] \ t.parts)
    /\ t.at = "clearBlob" => \A r \in t.rows : r[1] \in t.parts
    /\ t.at = "list" => \A p \in t.parts : <<t.obj, p>> \in blob

CompleteFits(t) ==
  t.kind = "complete" =>
    /\ t.at \in {"survey", "discard"} => PartsLie(t.obj, noted[t.obj]) /\ t.parts \subseteq noted[t.obj]
    /\ t.at = "discard" => \A s, p \in Slot : <<s, p>> \in t.rows <=> s \in noted[t.obj] \ t.parts /\ p = s
    /\ t.at \in {"discardBlob", "number"} => PartsLie(t.obj, t.parts)
    /\ t.at = "discardBlob" => \A r \in t.rows : r[1] \notin t.parts
    /\ t.at \in {"commit", "upsert"} => Numbered(t.obj, t.parts)

\* Until it is published or dropped, the object of a handler is an upload of its own.
Working(t) == t.obj # None /\ t.at \notin {"free", "close"}

WorkFits(t) ==
  Working(t) /\ t.obj \notin undone =>
                /\ state[t.obj] = "uploading"
                /\ PutFits(t) /\ CreateFits(t) /\ PartFits(t) /\ CompleteFits(t)

\* An object that was published and then dropped is touched only by the put that drops
\* it, and was never offered for parts.
SpoiltFits(t) == t.obj \in undone => Drops(t)
Spoilt(o)     == o \in undone => state[o] \in {"stored", "deleted"} /\ upload[o] = Closed

\* What a handler frees or removes is replaced or deleted, or is still to be.  What a put
\* has just published may have been deleted since.
PreyFits(t) ==
  /\ t.at = "free" /\ t.kind = "put" => state[t.obj] \in {"stored", "deleted"}
  /\ t.at = "free" /\ t.prey # None => state[t.prey] = "deleted"
  /\ t.at = "remove" => state[t.prey] \in {"stored", "deleted"}

\* An object before its INSERT, one that may still be completed and nobody works on,
\* and one that is stored and not being dropped.
Kept(o) ==
  /\ state[o] = "absent" => Bare(o) /\ noted[o] = {}
  /\ upload[o] # Closed /\ (\A w \in Request : task[w].obj # o) =>
       state[o] = "uploading" /\ PartsLie(o, noted[o])
  /\ state[o] = "stored" => o \in undone \/ \E P \in SUBSET Slot : Numbered(o, P)

EntryStored == entry # NoEntry => state[entry.obj] = "stored" \/ entry.obj \in undone

BytesInv ==
  /\ OwnInv /\ EntryStored /\ undone \subseteq Object
  /\ \A w \in Request : WorkFits(task[w]) /\ PreyFits(task[w]) /\ SpoiltFits(task[w])
  /\ \A o \in Object : Kept(o) /\ Spoilt(o)

LEMMA BytesInit == HistoryInit => BytesInv
<1> SUFFICES ASSUME Init, undone = {} PROVE BytesInv
  BY DEF HistoryInit
<1>1. \A w \in Request : task[w].obj = None /\ task[w].at = "idle"
  BY DEF Init, Idle
<1>2. \A o \in Object : state[o] = "absent" /\ upload[o] = Closed /\ noted[o] = {} /\ Bare(o)
  BY DEF Init, LifeInit, Bare
<1>3. \A o \in Object : Kept(o) /\ Spoilt(o)
  BY <1>2 DEF Kept, Spoilt
<1>4. \A w \in Request : WorkFits(task[w]) /\ PreyFits(task[w]) /\ SpoiltFits(task[w])
  BY <1>1 DEF WorkFits, Working, PreyFits, SpoiltFits
<1>5. EntryStored
  BY DEF Init, EntryStored
<1>6. QED
  BY <1>3, <1>4, <1>5, OwnInit DEF BytesInv

\* What a step leaves alone of an object.
SameBytes(x) ==
  /\ \A s, p \in Slot : <<x, s, p>> \in piece' <=> <<x, s, p>> \in piece
  /\ \A s \in Slot : <<x, s>> \in blob' <=> <<x, s>> \in blob
Untouched(x) ==
  state'[x] = state[x] /\ upload'[x] = upload[x] /\ noted'[x] = noted[x] /\ SameBytes(x)

\* A stored object that is replaced or deleted, and a deleted one, may lose its bytes.
Shed(x) == /\ state[x] \in {"stored", "deleted"} /\ state'[x] = "deleted"
           /\ upload'[x] = upload[x]

LEMMA WorkStays ==
  ASSUME StoreInv, undone \subseteq undone', NEW v \in Request, task'[v] = task[v], WorkFits(task[v]),
         task[v].obj \in Object, Untouched(task[v].obj)
  PROVE  WorkFits(task[v])'
<1> DEFINE t == task[v]
           x == t.obj
<1>1. x \in Object /\ t.parts \subseteq Slot /\ SameBytes(x) /\ noted[x] \subseteq Slot
  BY TaskFields DEF Untouched, StoreInv, TypeOK, Slot
<1>2. state'[x] = state[x] /\ noted'[x] = noted[x] /\ upload'[x] = upload[x]
  BY DEF Untouched
<1>3. /\ PartsLie(x, noted[x]) => PartsLie(x, noted[x])'
      /\ PartsLie(x, noted[x] \ t.parts) => PartsLie(x, noted[x] \ t.parts)'
      /\ PartsLie(x, t.parts) => PartsLie(x, t.parts)'
      /\ Numbered(x, t.parts) => Numbered(x, t.parts)'
      /\ Bare(x) => Bare(x)'
  BY <1>1, <1>2 DEF SameBytes, PartsLie, Numbered, Bare
<1>4. \A s \in Slot : <<x, s>> \in blob => <<x, s>> \in blob'
  BY <1>1 DEF SameBytes
<1>5. CASE ~Working(t) \/ t.obj \in undone
  BY <1>5 DEF WorkFits, Working
<1>6. CASE Working(t) /\ t.obj \notin undone
  <2>1. /\ state[x] = "uploading"
        /\ PutFits(t) /\ CreateFits(t) /\ PartFits(t) /\ CompleteFits(t)
    BY <1>6 DEF WorkFits
  <2>2. PutFits(t)'
    BY <1>3, <1>4, <2>1 DEF PutFits, Slot
  <2>3. CreateFits(t)'
    BY <1>2, <1>3, <2>1 DEF CreateFits
  <2>4. PartFits(t)'
    BY <1>1, <1>2, <1>3, <1>4, <2>1 DEF PartFits
  <2>5. CompleteFits(t)'
    BY <1>2, <1>3, <2>1 DEF CompleteFits
  <2>6. QED
    BY <1>2, <2>1, <2>2, <2>3, <2>4, <2>5 DEF WorkFits
<1>7. QED
  BY <1>5, <1>6

\* A step that touches the objects in A only, except for what it sheds.
LEMMA Gather ==
  ASSUME BytesInv, OwnInv', EntryStored', NEW A, A \subseteq Object,
         undone \subseteq undone', undone' \subseteq undone \cup A,
         \A x \in Object \ A : Untouched(x) \/ Shed(x),
         \A x \in A : Kept(x)' /\ Spoilt(x)',
         \A x \in Object : /\ state[x] = "deleted" => state'[x] = "deleted"
                           /\ state[x] = "stored" => state'[x] \in {"stored", "deleted"},
         \A v \in Request : \/ task'[v] = task[v] /\ task[v].obj \notin A
                            \/ task[v].obj \in A \cup {None} /\ WorkFits(task[v])' /\ PreyFits(task[v])'
                             /\ SpoiltFits(task[v])'
  PROVE  BytesInv'
<1>1. StoreInv /\ \A v \in Request : WorkFits(task[v]) /\ PreyFits(task[v]) /\ SpoiltFits(task[v])
  BY DEF BytesInv, OwnInv
<1>2. ASSUME NEW v \in Request, task'[v] = task[v], task[v].obj \notin A
      PROVE  WorkFits(task[v])'
  <2>1. CASE ~Working(task[v]) \/ task[v].obj \in undone
    BY <1>2, <2>1 DEF WorkFits, Working
  <2>2. CASE Working(task[v]) /\ task[v].obj \notin undone
    <3>1. task[v].obj \in Object /\ state[task[v].obj] = "uploading"
      BY <1>1, <2>2, TaskFields DEF Working, WorkFits
    <3>2. Untouched(task[v].obj)
      BY <1>2, <3>1 DEF Shed
    <3>3. QED
      BY <1>1, <1>2, <3>1, <3>2, WorkStays
  <2>3. QED
    BY <2>1, <2>2
<1>3. ASSUME NEW v \in Request, task'[v] = task[v]
      PROVE  PreyFits(task[v])'
  <2>1. task[v].prey \in Object \cup {None} /\ PreyFits(task[v])
        /\ (task[v].at = "remove" => task[v].prey \in Object)
        /\ (task[v].at = "free" /\ task[v].kind = "put" => task[v].obj \in Object)
    BY <1>1, TaskFields DEF Fits, Kind
  <2>2. QED
    BY <1>3, <2>1 DEF PreyFits
<1>4. ASSUME NEW x \in Object \ A
      PROVE  Kept(x)'
  <2>1. Kept(x) /\ noted[x] \subseteq Slot
    BY DEF BytesInv, OwnInv, StoreInv, TypeOK, Slot
  <2>2. (\A w \in Request : task'[w].obj # x) => \A w \in Request : task[w].obj # x
    BY NoneAssumption
  <2>3. CASE Untouched(x)
    <3>1. state'[x] = state[x] /\ upload'[x] = upload[x] /\ noted'[x] = noted[x]
      BY <2>3 DEF Untouched
    <3>2. /\ Bare(x) => Bare(x)'
          /\ PartsLie(x, noted[x]) => PartsLie(x, noted[x])'
          /\ \A P \in SUBSET Slot : Numbered(x, P) => Numbered(x, P)'
      BY <2>1, <2>3, <3>1 DEF Untouched, SameBytes, PartsLie, Numbered, Bare
    <3>3. QED
      BY <2>1, <2>2, <3>1, <3>2 DEF Kept
  <2>4. CASE Shed(x)
    BY <2>1, <2>2, <2>4 DEF Shed, Kept
  <2>5. QED
    BY <2>3, <2>4
<1>6. ASSUME NEW v \in Request, task'[v] = task[v], task[v].obj \notin A
      PROVE  SpoiltFits(task[v])'
  BY <1>1, <1>6 DEF SpoiltFits, Drops
<1>7. ASSUME NEW x \in Object \ A
      PROVE  Spoilt(x)'
  BY DEF BytesInv, Spoilt, Untouched, Shed
<1>8. undone' \subseteq Object
  BY DEF BytesInv
<1>5. QED
  BY <1>2, <1>3, <1>4, <1>6, <1>7, <1>8 DEF BytesInv

\* A step of w on its own object, which is still an upload.
LEMMA WorkStep ==
  ASSUME BytesInv, OwnInv', undone' = undone, NEW w \in Request, NEW o \in Object, task[w].obj = o,
         state[o] = "uploading", entry' = entry,
         \A v \in Request : v # w => task'[v] = task[v],
         \A x \in Object : x # o => Untouched(x),
         WorkFits(task[w])', task'[w].at \notin {"free", "remove"}, Kept(o)',
         task'[w].obj = o \/ task'[w] = Idle
  PROVE  BytesInv'
<1>1. StoreInv /\ Apart /\ EntryStored /\ undone \subseteq Object /\ Spoilt(o)
  BY DEF BytesInv, OwnInv
<1>0. o \notin undone
  BY <1>1 DEF Spoilt
<1>2. EntryStored'
  <2>1. CASE entry = NoEntry
    BY <2>1 DEF EntryStored
  <2>2. CASE entry # NoEntry
    <3>1. entry.obj \in Object /\ (state[entry.obj] = "stored" \/ entry.obj \in undone)
      BY <1>1, <2>2, EntryFields DEF EntryStored
    <3>2. QED
      BY <3>1 DEF Untouched, EntryStored
  <2>3. QED
    BY <2>1, <2>2
<1>3. PreyFits(task[w])' /\ SpoiltFits(task[w])'
  BY <1>0, <1>1, NoneAssumption DEF PreyFits, SpoiltFits, Idle
<1>4. \A v \in Request : v # w => task[v].obj # o
  BY <1>1, NoneAssumption DEF Apart
<1>5. \A x \in Object : /\ state[x] = "deleted" => state'[x] = "deleted"
                        /\ state[x] = "stored" => state'[x] \in {"stored", "deleted"}
  BY DEF Untouched
<1> DEFINE A == {o}
<1>6. A \subseteq Object /\ (\A x \in Object \ A : Untouched(x) \/ Shed(x))
  OBVIOUS
<1>7. \A x \in A : Kept(x)' /\ Spoilt(x)'
  BY <1>0 DEF Spoilt
<1>8. \A v \in Request : \/ task'[v] = task[v] /\ task[v].obj \notin A
                         \/ task[v].obj \in A \cup {None} /\ WorkFits(task[v])' /\ PreyFits(task[v])'
                             /\ SpoiltFits(task[v])'
  BY <1>3, <1>4
<1> HIDE DEF A
<1>9. QED
  BY <1>2, <1>5, <1>6, <1>7, <1>8, Gather

\* The object of a handler that is at work.
LEMMA AtWork ==
  ASSUME BytesInv, NEW w \in Request,
         task[w].at \in {"write", "list", "commit", "upsert", "open", "clear", "clearBlob",
                         "survey", "discard", "discardBlob", "number"}
  PROVE  /\ task[w].obj \notin undone
         /\ StoreInv /\ Fits(task[w])
         /\ task[w].obj \in Object /\ state[task[w].obj] = "uploading" /\ Working(task[w])
         /\ task[w].obj # None
         /\ task[w].parts \subseteq Slot /\ noted[task[w].obj] \subseteq Part
         /\ PutFits(task[w]) /\ CreateFits(task[w]) /\ PartFits(task[w]) /\ CompleteFits(task[w])
<1>1. StoreInv /\ WorkFits(task[w]) /\ task[w].obj \notin undone
  BY DEF BytesInv, OwnInv, SpoiltFits, Drops
<1>2. Fits(task[w]) /\ task[w].obj \in Object \cup {None} /\ task[w].parts \subseteq Slot
      /\ task[w].kind \in Kind
  BY <1>1, TaskFields
<1>3. task[w].obj # None
  BY <1>2 DEF Fits, Kind
<1>4. Working(task[w]) /\ task[w].obj \in Object
  BY <1>2, <1>3 DEF Working
<1>5. noted[task[w].obj] \subseteq Part
  BY <1>1, <1>4 DEF StoreInv, TypeOK
<1>6. QED
  BY <1>1, <1>2, <1>3, <1>4, <1>5 DEF WorkFits

\* The object of a handler that drops it: an upload still, or published before.
LEMMA AtDrop ==
  ASSUME BytesInv, NEW w \in Request, task[w].at \in {"drop", "dropBlob", "mark"}
  PROVE  /\ StoreInv /\ Fits(task[w]) /\ task[w].kind \in {"put", "abort"}
         /\ task[w].obj \in Object /\ task[w].obj # None
         /\ task[w].obj \notin undone => state[task[w].obj] = "uploading"
         /\ task[w].obj \in undone => /\ task[w].kind = "put" /\ upload[task[w].obj] = Closed
                                      /\ state[task[w].obj] \in {"stored", "deleted"}
<1>1. StoreInv /\ WorkFits(task[w]) /\ SpoiltFits(task[w])
  BY DEF BytesInv, OwnInv
<1>2. /\ Fits(task[w]) /\ task[w].kind \in {"put", "abort"} /\ task[w].obj \in Object
      /\ task[w].obj # None
  BY <1>1, TaskFields DEF Fits, Kind
<1>3. Spoilt(task[w].obj)
  BY <1>2 DEF BytesInv
<1>4. QED
  BY <1>1, <1>2, <1>3 DEF WorkFits, Working, SpoiltFits, Drops, Spoilt

\* A step of a put on the object that it published and drops.
LEMMA SpoiltStep ==
  ASSUME BytesInv, OwnInv', undone' = undone, NEW w \in Request, NEW o \in Object,
         task[w].obj = o, o \in undone, entry' = entry,
         \A v \in Request : v # w => task'[v] = task[v],
         \A x \in Object : x # o => Untouched(x),
         state'[o] \in {state[o], "deleted"}, upload'[o] = Closed,
         task'[w] = Idle \/ (task'[w].obj = o /\ Drops(task'[w]))
  PROVE  BytesInv'
<1>1. StoreInv /\ Apart /\ EntryStored /\ undone \subseteq Object /\ Spoilt(o)
  BY DEF BytesInv, OwnInv
<1>2. state[o] \in {"stored", "deleted"}
  BY <1>1 DEF Spoilt
<1>3. EntryStored'
  <2>1. CASE entry # NoEntry
    <3>1. entry.obj \in Object /\ (state[entry.obj] = "stored" \/ entry.obj \in undone)
      BY <1>1, <2>1, EntryFields DEF EntryStored
    <3>2. QED
      BY <3>1 DEF Untouched, EntryStored
  <2>2. QED
    BY <2>1 DEF EntryStored
<1>4. WorkFits(task[w])' /\ PreyFits(task[w])' /\ SpoiltFits(task[w])'
  BY <1>1, NoneAssumption DEF WorkFits, Working, PreyFits, SpoiltFits, Drops, Idle
<1>5. \A v \in Request : v # w => task[v].obj # o
  BY <1>1, NoneAssumption DEF Apart
<1>6. \A x \in Object : /\ state[x] = "deleted" => state'[x] = "deleted"
                        /\ state[x] = "stored" => state'[x] \in {"stored", "deleted"}
  BY <1>2 DEF Untouched
<1> DEFINE A == {o}
<1>7. A \subseteq Object /\ (\A x \in Object \ A : Untouched(x) \/ Shed(x))
  OBVIOUS
<1>8. \A x \in A : Kept(x)' /\ Spoilt(x)'
  BY <1>2 DEF Kept, Spoilt
<1>9. \A v \in Request : \/ task'[v] = task[v] /\ task[v].obj \notin A
                         \/ task[v].obj \in A \cup {None} /\ WorkFits(task[v])' /\ PreyFits(task[v])'
                             /\ SpoiltFits(task[v])'
  BY <1>4, <1>5
<1> HIDE DEF A
<1>10. QED
  BY <1>3, <1>6, <1>7, <1>8, <1>9, Gather

\* While a handler has an upload, nothing more is asked of it.
LEMMA InWork ==
  ASSUME NEW w \in Request, NEW o \in Object, task'[w].obj = o,
         state'[o] \notin {"absent", "stored"}
  PROVE  Kept(o)'
BY DEF Kept

\* The pieces and the storage after some have gone.
LEMMA RowsOf ==
  ASSUME NEW o, NEW s \in Slot, NEW p \in Slot
  PROVE  <<s, p>> \in Rows(o) <=> <<o, s, p>> \in piece
BY DEF Rows

LEMMA Remaining ==
  ASSUME NEW o, NEW rs, NEW x, NEW s
  PROVE  /\ <<x, s>> \in Without(o, rs) => <<x, s>> \in blob
         /\ <<x, s>> \in blob /\ (x # o \/ \A r \in rs : r[1] # s) => <<x, s>> \in Without(o, rs)
BY DEF Without

LEMMA BytesWrite ==
  ASSUME BytesInv, OwnInv', undone' = undone, NEW w \in Request, WriteBlob(w)
  PROVE  BytesInv'
<1> DEFINE t == task[w]
<1>0. PICK o \in Object : o = t.obj
  BY AtWork DEF WriteBlob, At
<1>1. /\ t.at = "write" /\ Goto(w, "list") /\ blob' = blob \cup ({o} \X t.parts)
      /\ UNCHANGED <<state, entry, piece, upload, noted>>
  BY <1>0 DEF WriteBlob, At, lifeVars, tables
<1>2. /\ StoreInv /\ Fits(t) /\ o \in Object /\ state[o] = "uploading" /\ o # None
      /\ t.parts \subseteq Slot /\ noted[o] \subseteq Part
      /\ PutFits(t) /\ PartFits(t)
  BY <1>0, <1>1, AtWork
<1>3. /\ task'[w].at = "list" /\ task'[w].kind = t.kind /\ task'[w].obj = o /\ task'[w].parts = t.parts
      /\ \A v \in Request : v # w => task'[v] = task[v]
  BY <1>0, <1>1, <1>2, GotoTo
<1>4. t.kind \in {"put", "part"}
  BY <1>1, <1>2, TaskFields DEF Fits, Kind
<1>5. \A x \in Object : x # o => Untouched(x)
  BY <1>1 DEF Untouched, SameBytes
<1>6. \A s \in t.parts : <<o, s>> \in blob'
  BY <1>1
<1>7. PutFits(task[w])'
  <2>1. ASSUME t.kind = "put"
        PROVE  Bare(o)' /\ <<o, Whole>> \in blob'
    BY <1>0, <1>1, <1>2, <1>6, <2>1 DEF PutFits, Bare, Fits
  <2>2. QED
    BY <1>3, <2>1 DEF PutFits, Bare
<1>8. PartFits(task[w])'
  BY <1>0, <1>1, <1>2, <1>3, <1>6 DEF PartFits, PartsLie
<1>9. WorkFits(task[w])'
  BY <1>1, <1>2, <1>3, <1>4, <1>7, <1>8 DEF WorkFits, CreateFits, CompleteFits
<1>10. Kept(o)'
  BY <1>1, <1>2, <1>3, InWork
<1>11. QED
  BY <1>0, <1>1, <1>2, <1>3, <1>5, <1>9, <1>10, WorkStep

LEMMA BytesListPiece ==
  ASSUME BytesInv, OwnInv', undone' = undone, NEW w \in Request, ListPiece(w)
  PROVE  BytesInv'
<1> DEFINE t == task[w]
<1>0. PICK o \in Object : o = t.obj
  BY AtWork DEF ListPiece, At
<1>1. /\ t.at = "list" /\ t.kind = "put" /\ Goto(w, "commit")
      /\ piece' = piece \cup {<<o, Whole, Whole>>}
      /\ UNCHANGED <<state, entry, upload, noted, blob>>
  BY <1>0 DEF ListPiece, At, For, lifeVars
<1>2. /\ StoreInv /\ Fits(t) /\ o \in Object /\ state[o] = "uploading" /\ PutFits(t)
  BY <1>0, <1>1, AtWork
<1>3. /\ task'[w].at = "commit" /\ task'[w].kind = t.kind /\ task'[w].obj = o /\ task'[w].parts = t.parts
      /\ \A v \in Request : v # w => task'[v] = task[v]
  BY <1>0, <1>1, <1>2, GotoTo
<1>4. \A x \in Object : x # o => Untouched(x)
  BY <1>1 DEF Untouched, SameBytes
<1>5. t.parts = {Whole} /\ Bare(o) /\ <<o, Whole>> \in blob
  BY <1>0, <1>1, <1>2 DEF Fits, PutFits
<1>6. Numbered(o, t.parts)'
  BY <1>1, <1>2, <1>3, <1>5 DEF Numbered, Bare, Slot
<1>7. WorkFits(task[w])'
  BY <1>1, <1>2, <1>3, <1>6 DEF WorkFits, PutFits, CreateFits, PartFits, CompleteFits, Numbered
<1>8. Kept(o)'
  BY <1>1, <1>2, <1>3, InWork
<1>9. QED
  BY <1>0, <1>1, <1>2, <1>3, <1>4, <1>7, <1>8, WorkStep

LEMMA BytesClearPart ==
  ASSUME BytesInv, OwnInv', undone' = undone, NEW w \in Request, ClearPart(w)
  PROVE  BytesInv'
<1> DEFINE t == task[w]
<1>0. PICK o \in Object : o = t.obj
  BY AtWork DEF ClearPart, At
<1> DEFINE old == {r \in Rows(o) : r[2] \in t.parts}
<1>1. /\ t.at = "clear" /\ Keep(w, "clearBlob", old)
      /\ piece' = piece \ {<<o, r[1], r[2]>> : r \in old}
      /\ UNCHANGED <<state, entry, upload, noted, blob>>
  BY <1>0 DEF ClearPart, At, lifeVars
<1>2. /\ StoreInv /\ Fits(t) /\ state[o] = "uploading" /\ PartFits(t) /\ t.parts \subseteq Slot
      /\ noted[o] \subseteq Part
  BY <1>0, <1>1, AtWork
<1>3. /\ task'[w].at = "clearBlob" /\ task'[w].kind = t.kind /\ task'[w].obj = o
      /\ task'[w].parts = t.parts /\ task'[w].rows = old
      /\ \A v \in Request : v # w => task'[v] = task[v]
  BY <1>0, <1>1, <1>2, KeepTo
<1>4. \A x \in Object : x # o => Untouched(x)
  BY <1>1 DEF Untouched, SameBytes
<1>5. t.kind = "part" /\ PartsLie(o, noted[o]) /\ upload[o] # Closed
  BY <1>0, <1>1, <1>2, TaskFields DEF Fits, Kind, PartFits
<1>6. \A s, p \in Slot : <<o, s, p>> \in piece' <=> <<o, s, p>> \in piece /\ p \notin t.parts
  <2>1. ASSUME NEW s \in Slot, NEW p \in Slot, <<o, s, p>> \in piece, p \in t.parts
        PROVE  <<o, s, p>> \notin piece'
    <3>1. <<s, p>> \in old
      BY <2>1, RowsOf
    <3>2. QED
      BY <1>1, <3>1
  <2>2. ASSUME NEW s \in Slot, NEW p \in Slot, <<o, s, p>> \in piece, p \notin t.parts
        PROVE  <<o, s, p>> \in piece'
    BY <1>1, <2>2
  <2>3. QED
    BY <1>1, <2>1, <2>2
<1>7. PartsLie(o, noted[o] \ t.parts)'
  BY <1>1, <1>2, <1>3, <1>5, <1>6 DEF PartsLie, Slot
<1>8. \A r \in old : r[1] \in t.parts
  BY <1>5 DEF Rows, PartsLie
<1>9. WorkFits(task[w])'
  BY <1>1, <1>2, <1>3, <1>5, <1>7, <1>8 DEF WorkFits, PutFits, CreateFits, PartFits, CompleteFits, PartsLie
<1>10. Kept(o)'
  BY <1>1, <1>2, <1>3, InWork
<1>11. QED
  BY <1>0, <1>1, <1>2, <1>3, <1>4, <1>9, <1>10, WorkStep

LEMMA BytesClearBlob ==
  ASSUME BytesInv, OwnInv', undone' = undone, NEW w \in Request, ClearBlob(w)
  PROVE  BytesInv'
<1> DEFINE t == task[w]
<1>0. PICK o \in Object : o = t.obj
  BY AtWork DEF ClearBlob, At
<1>1. /\ t.at = "clearBlob" /\ Goto(w, "write")
      /\ blob' \in {blob, Without(o, t.rows)}
      /\ UNCHANGED <<state, entry, piece, upload, noted>>
  BY <1>0 DEF ClearBlob, At, lifeVars, tables
<1>2. /\ StoreInv /\ Fits(t) /\ state[o] = "uploading" /\ PartFits(t)
      /\ noted[o] \subseteq Part
  BY <1>0, <1>1, AtWork
<1>3. /\ task'[w].at = "write" /\ task'[w].kind = t.kind /\ task'[w].obj = o
      /\ task'[w].parts = t.parts
      /\ \A v \in Request : v # w => task'[v] = task[v]
  BY <1>0, <1>1, <1>2, GotoTo
<1>4. \A x \in Object : x # o => Untouched(x)
  BY <1>1, Remaining DEF Untouched, SameBytes
<1>5. /\ t.kind = "part" /\ PartsLie(o, noted[o] \ t.parts) /\ upload[o] # Closed
      /\ \A r \in t.rows : r[1] \in t.parts
  BY <1>0, <1>1, <1>2, TaskFields DEF Fits, Kind, PartFits
<1>6. \A s \in noted[o] \ t.parts : <<o, s>> \in blob'
  BY <1>1, <1>5, Remaining DEF PartsLie
<1>7. PartsLie(o, noted[o] \ t.parts)'
  BY <1>1, <1>3, <1>5, <1>6 DEF PartsLie
<1>8. WorkFits(task[w])'
  BY <1>1, <1>2, <1>3, <1>5, <1>7 DEF WorkFits, PutFits, CreateFits, PartFits, CompleteFits, PartsLie
<1>9. Kept(o)'
  BY <1>1, <1>2, <1>3, InWork
<1>10. QED
  BY <1>0, <1>1, <1>2, <1>3, <1>4, <1>8, <1>9, WorkStep

LEMMA BytesListPart ==
  ASSUME BytesInv, OwnInv', undone' = undone, NEW w \in Request, ListPart(w)
  PROVE  BytesInv'
<1> DEFINE t == task[w]
<1>0. PICK o \in Object : o = t.obj
  BY AtWork DEF ListPart, At
<1>1. t.at = "list" /\ t.kind = "part" /\ Return(w) /\ UNCHANGED <<state, entry, upload, blob>>
  BY <1>0 DEF ListPart, At, For, lifeVars
<1>2. /\ StoreInv /\ Fits(t) /\ state[o] = "uploading" /\ PartFits(t) /\ noted[o] \subseteq Part
  BY <1>0, <1>1, AtWork
<1>3. task'[w] = Idle /\ \A v \in Request : v # w => task'[v] = task[v]
  BY <1>1, <1>2, ReturnTo
<1>4. /\ upload[o] # Closed /\ PartsLie(o, noted[o] \ t.parts)
      /\ \A p \in t.parts : <<o, p>> \in blob
  BY <1>0, <1>1, <1>2 DEF PartFits
<1>5. PICK p \in Part : t.parts = {p}
  BY <1>1, <1>2 DEF Fits
<1>6. <<o, p, p>> \notin piece
  BY <1>4, <1>5 DEF PartsLie, Slot
<1>7. piece' = piece \cup {<<o, p, p>>} /\ noted' = [noted EXCEPT ![o] = @ \cup {p}]
  BY <1>0, <1>1, <1>4, <1>5, <1>6 DEF ListPart
<1>8. noted'[o] = noted[o] \cup {p}
      /\ \A x \in Object : x # o => noted'[x] = noted[x]
  BY <1>2, <1>7 DEF StoreInv, TypeOK
<1>9. \A x \in Object : x # o => Untouched(x)
  BY <1>1, <1>7, <1>8 DEF Untouched, SameBytes
<1>10. PartsLie(o, noted[o])'
  <2>1. \A s, q \in Slot : <<o, s, q>> \in piece' <=> s \in noted'[o] /\ q = s
    BY <1>4, <1>5, <1>7, <1>8 DEF PartsLie, Slot
  <2>2. \A s \in noted'[o] : <<o, s>> \in blob'
    BY <1>1, <1>4, <1>5, <1>8 DEF PartsLie
  <2>3. QED
    BY <2>1, <2>2 DEF PartsLie
<1>11. Kept(o)'
  BY <1>1, <1>2, <1>10 DEF Kept
<1>12. WorkFits(task[w])' /\ task'[w].at \notin {"free", "remove"}
  BY <1>3 DEF WorkFits, Working, Idle
<1>13. QED
  BY <1>0, <1>1, <1>2, <1>3, <1>9, <1>11, <1>12, WorkStep

LEMMA BytesOpenUpload ==
  ASSUME BytesInv, OwnInv', undone' = undone, NEW w \in Request, OpenUpload(w)
  PROVE  BytesInv'
<1> DEFINE t == task[w]
<1>0. PICK o \in Object : o = t.obj
  BY AtWork DEF OpenUpload, At
<1>1. /\ t.at = "open" /\ Return(w) /\ upload' = [upload EXCEPT ![o] = t.ret]
      /\ UNCHANGED <<state, entry, piece, noted, blob>>
  BY <1>0 DEF OpenUpload, At, lifeVars
<1>2. /\ StoreInv /\ Fits(t) /\ state[o] = "uploading" /\ CreateFits(t)
  BY <1>0, <1>1, AtWork
<1>3. task'[w] = Idle /\ \A v \in Request : v # w => task'[v] = task[v]
  BY <1>1, <1>2, ReturnTo
<1>4. Bare(o) /\ noted[o] = {}
  BY <1>0, <1>1, <1>2, TaskFields DEF CreateFits, Fits, Kind
<1>5. \A x \in Object : x # o => Untouched(x)
  BY <1>1, <1>2 DEF Untouched, SameBytes, StoreInv, TypeOK
<1>6. PartsLie(o, noted[o])'
  BY <1>1, <1>4 DEF PartsLie, Bare
<1>7. Kept(o)'
  BY <1>1, <1>2, <1>6 DEF Kept
<1>8. WorkFits(task[w])' /\ task'[w].at \notin {"free", "remove"}
  BY <1>3 DEF WorkFits, Working, Idle
<1>9. QED
  BY <1>0, <1>1, <1>2, <1>3, <1>5, <1>7, <1>8, WorkStep

LEMMA BytesSurvey ==
  ASSUME BytesInv, OwnInv', undone' = undone, NEW w \in Request, Survey(w)
  PROVE  BytesInv'
<1> DEFINE t == task[w]
<1>0. PICK o \in Object : o = t.obj
  BY AtWork DEF Survey, At
<1> DEFINE others == {r \in Rows(o) : r[2] \notin t.parts}
<1>1. /\ t.at = "survey" /\ Keep(w, "discard", others)
      /\ UNCHANGED <<state, entry, piece, upload, noted, blob>>
  BY <1>0 DEF Survey, At, nothing, lifeVars, tables
<1>2. /\ StoreInv /\ Fits(t) /\ state[o] = "uploading" /\ CompleteFits(t)
  BY <1>0, <1>1, AtWork
<1>3. /\ task'[w].at = "discard" /\ task'[w].kind = t.kind /\ task'[w].obj = o
      /\ task'[w].parts = t.parts /\ task'[w].rows = others
      /\ \A v \in Request : v # w => task'[v] = task[v]
  BY <1>0, <1>1, <1>2, KeepTo
<1>4. \A x \in Object : x # o => Untouched(x)
  BY <1>1 DEF Untouched, SameBytes
<1>5. t.kind = "complete" /\ PartsLie(o, noted[o]) /\ t.parts \subseteq noted[o]
  BY <1>0, <1>1, <1>2, TaskFields DEF Fits, Kind, CompleteFits
<1>6. \A s, p \in Slot : <<s, p>> \in others <=> s \in noted[o] \ t.parts /\ p = s
  BY <1>5, RowsOf DEF PartsLie
<1>7. PartsLie(o, noted[o])'
  BY <1>1, <1>3, <1>5 DEF PartsLie
<1>8. WorkFits(task[w])'
  BY <1>1, <1>2, <1>3, <1>5, <1>6, <1>7 DEF WorkFits, PutFits, CreateFits, PartFits, CompleteFits, PartsLie
<1>9. Kept(o)'
  BY <1>1, <1>2, <1>3, InWork
<1>10. QED
  BY <1>0, <1>1, <1>2, <1>3, <1>4, <1>8, <1>9, WorkStep

LEMMA BytesDiscard ==
  ASSUME BytesInv, OwnInv', undone' = undone, NEW w \in Request, Discard(w)
  PROVE  BytesInv'
<1> DEFINE t == task[w]
<1>0. PICK o \in Object : o = t.obj
  BY AtWork DEF Discard, At
<1>1. /\ t.at = "discard" /\ Goto(w, "discardBlob")
      /\ piece' = piece \ {<<o, r[1], r[2]>> : r \in t.rows}
      /\ UNCHANGED <<state, entry, upload, noted, blob>>
  BY <1>0 DEF Discard, At, lifeVars
<1>2. /\ StoreInv /\ Fits(t) /\ state[o] = "uploading" /\ CompleteFits(t)
      /\ noted[o] \subseteq Part /\ t.rows \subseteq Slot \X Slot
  BY <1>0, <1>1, AtWork, TaskFields
<1>3. /\ task'[w].at = "discardBlob" /\ task'[w].kind = t.kind /\ task'[w].obj = o
      /\ task'[w].parts = t.parts /\ task'[w].rows = t.rows
      /\ \A v \in Request : v # w => task'[v] = task[v]
  BY <1>0, <1>1, <1>2, GotoTo
<1>4. \A x \in Object : x # o => Untouched(x)
  BY <1>1 DEF Untouched, SameBytes
<1>5. /\ t.kind = "complete" /\ PartsLie(o, noted[o]) /\ t.parts \subseteq noted[o]
      /\ \A s, p \in Slot : <<s, p>> \in t.rows <=> s \in noted[o] \ t.parts /\ p = s
  BY <1>0, <1>1, <1>2, TaskFields DEF Fits, Kind, CompleteFits
<1>6. \A s, p \in Slot : <<o, s, p>> \in piece' <=> <<o, s, p>> \in piece /\ <<s, p>> \notin t.rows
  <2>1. ASSUME NEW s \in Slot, NEW p \in Slot, <<o, s, p>> \in piece, <<s, p>> \in t.rows
        PROVE  <<o, s, p>> \notin piece'
    BY <1>1, <2>1
  <2>2. ASSUME NEW s \in Slot, NEW p \in Slot, <<o, s, p>> \in piece, <<s, p>> \notin t.rows
        PROVE  <<o, s, p>> \in piece'
    <3>1. \A r \in t.rows : r = <<r[1], r[2]>>
      BY <1>2
    <3>2. QED
      BY <1>1, <2>2, <3>1
  <2>3. QED
    BY <1>1, <2>1, <2>2
<1>7. PartsLie(o, t.parts)'
  <2>1. \A s, p \in Slot : <<o, s, p>> \in piece' <=> s \in t.parts /\ p = s
    BY <1>5, <1>6 DEF PartsLie
  <2>2. \A s \in t.parts : <<o, s>> \in blob'
    BY <1>1, <1>5 DEF PartsLie
  <2>3. QED
    BY <1>3, <2>1, <2>2 DEF PartsLie
<1>8. ASSUME NEW r \in t.rows
      PROVE  r[1] \notin t.parts
  <2>1. r[1] \in Slot /\ r[2] \in Slot /\ <<r[1], r[2]>> \in t.rows
    BY <1>2
  <2>2. QED
    BY <1>5, <2>1
<1>9. WorkFits(task[w])'
  BY <1>1, <1>2, <1>3, <1>5, <1>7, <1>8 DEF WorkFits, PutFits, CreateFits, PartFits, CompleteFits, PartsLie
<1>10. Kept(o)'
  BY <1>1, <1>2, <1>3, InWork
<1>11. QED
  BY <1>0, <1>1, <1>2, <1>3, <1>4, <1>9, <1>10, WorkStep

LEMMA BytesDiscardBlob ==
  ASSUME BytesInv, OwnInv', undone' = undone, NEW w \in Request, DiscardBlob(w)
  PROVE  BytesInv'
<1> DEFINE t == task[w]
<1>0. PICK o \in Object : o = t.obj
  BY AtWork DEF DiscardBlob, At
<1>1. /\ t.at = "discardBlob" /\ Goto(w, "number")
      /\ blob' \in {blob, Without(o, t.rows)}
      /\ UNCHANGED <<state, entry, piece, upload, noted>>
  BY <1>0 DEF DiscardBlob, At, lifeVars, tables
<1>2. /\ StoreInv /\ Fits(t) /\ state[o] = "uploading" /\ CompleteFits(t)
  BY <1>0, <1>1, AtWork
<1>3. /\ task'[w].at = "number" /\ task'[w].kind = t.kind /\ task'[w].obj = o
      /\ task'[w].parts = t.parts
      /\ \A v \in Request : v # w => task'[v] = task[v]
  BY <1>0, <1>1, <1>2, GotoTo
<1>4. \A x \in Object : x # o => Untouched(x)
  BY <1>1, Remaining DEF Untouched, SameBytes
<1>5. /\ t.kind = "complete" /\ PartsLie(o, t.parts) /\ \A r \in t.rows : r[1] \notin t.parts
  BY <1>0, <1>1, <1>2, TaskFields DEF Fits, Kind, CompleteFits
<1>6. \A s \in t.parts : <<o, s>> \in blob'
  BY <1>1, <1>5, Remaining DEF PartsLie
<1>7. PartsLie(o, t.parts)'
  BY <1>1, <1>3, <1>5, <1>6 DEF PartsLie
<1>8. WorkFits(task[w])'
  BY <1>1, <1>2, <1>3, <1>5, <1>7 DEF WorkFits, PutFits, CreateFits, PartFits, CompleteFits, PartsLie
<1>9. Kept(o)'
  BY <1>1, <1>2, <1>3, InWork
<1>10. QED
  BY <1>0, <1>1, <1>2, <1>3, <1>4, <1>8, <1>9, WorkStep

LEMMA BytesNumber ==
  ASSUME BytesInv, OwnInv', undone' = undone, NEW w \in Request, Number(w)
  PROVE  BytesInv'
<1> DEFINE t == task[w]
<1>0. PICK o \in Object : o = t.obj
  BY AtWork DEF Number, At
<1>1. /\ t.at = "number" /\ Goto(w, "commit")
      /\ piece' = {IF x[1] = o THEN <<o, x[2], Whole>> ELSE x : x \in piece}
      /\ UNCHANGED <<state, entry, upload, noted, blob>>
  BY <1>0 DEF Number, At, lifeVars
<1>2. /\ StoreInv /\ Fits(t) /\ state[o] = "uploading" /\ CompleteFits(t)
      /\ piece \subseteq Object \X Slot \X Slot
  BY <1>0, <1>1, AtWork DEF StoreInv, TypeOK
<1>3. /\ task'[w].at = "commit" /\ task'[w].kind = t.kind /\ task'[w].obj = o
      /\ task'[w].parts = t.parts
      /\ \A v \in Request : v # w => task'[v] = task[v]
  BY <1>0, <1>1, <1>2, GotoTo
<1>4. /\ \A x \in Object, s, p \in Slot : x # o => (<<x, s, p>> \in piece' <=> <<x, s, p>> \in piece)
      /\ \A s, p \in Slot : <<o, s, p>> \in piece' <=> p = Whole /\ \E q \in Slot : <<o, s, q>> \in piece
  <2>1. ASSUME NEW x \in Object, NEW s \in Slot, NEW p \in Slot, <<x, s, p>> \in piece
        PROVE  (IF x = o THEN <<o, s, Whole>> ELSE <<x, s, p>>) \in piece'
    BY <1>1, <2>1
  <2>2. ASSUME NEW x \in Object, NEW s \in Slot, NEW p \in Slot, <<x, s, p>> \in piece'
        PROVE  IF x = o THEN p = Whole /\ \E q \in Slot : <<o, s, q>> \in piece
                        ELSE <<x, s, p>> \in piece
    <3>1. PICK y \in piece : <<x, s, p>> = IF y[1] = o THEN <<o, y[2], Whole>> ELSE y
      BY <1>1, <2>2
    <3>2. PICK a \in Object, b \in Slot, c \in Slot : y = <<a, b, c>>
      BY <1>2
    <3>3. QED
      BY <3>1, <3>2
  <2>3. Whole \in Slot
    BY DEF Slot
  <2>4. QED
    BY <2>1, <2>2, <2>3
<1>5. \A x \in Object : x # o => Untouched(x)
  BY <1>1, <1>4 DEF Untouched, SameBytes
<1>6. t.kind = "complete" /\ PartsLie(o, t.parts) /\ t.parts \subseteq Slot /\ t.parts # {}
  BY <1>0, <1>1, <1>2, TaskFields DEF Fits, Kind, CompleteFits
<1>7. \A s, p \in Slot : <<o, s, p>> \in piece' <=> s \in t.parts /\ p = Whole
  BY <1>4, <1>6 DEF PartsLie
<1>8. Numbered(o, t.parts)'
  BY <1>1, <1>3, <1>6, <1>7 DEF Numbered, PartsLie
<1>9. WorkFits(task[w])'
  BY <1>1, <1>2, <1>3, <1>6, <1>8 DEF WorkFits, PutFits, CreateFits, PartFits, CompleteFits, Numbered
<1>10. Kept(o)'
  BY <1>1, <1>2, <1>3, InWork
<1>11. QED
  BY <1>0, <1>1, <1>2, <1>3, <1>5, <1>9, <1>10, WorkStep

\* What is dropped has only to be an upload still.
LEMMA Dropping ==
  ASSUME BytesInv, NEW w \in Request, NEW o \in Object, task'[w].obj = o,
         task'[w].at \in {"drop", "dropBlob", "mark"}, task'[w].kind \in {"put", "abort"},
         state'[o] = "uploading"
  PROVE  WorkFits(task[w])' /\ Kept(o)'
BY DEF WorkFits, PutFits, CreateFits, PartFits, CompleteFits, Kept

LEMMA BytesDropRead ==
  ASSUME BytesInv, OwnInv', undone' = undone, NEW w \in Request, DropRead(w)
  PROVE  BytesInv'
<1> DEFINE t == task[w]
<1>0. PICK o \in Object : o = t.obj
  BY AtDrop DEF DropRead, At
<1>1. /\ t.at = "drop" /\ Keep(w, "dropBlob", Rows(o))
      /\ UNCHANGED <<state, entry, piece, upload, noted, blob>>
  BY <1>0 DEF DropRead, At, nothing, lifeVars, tables
<1>2. StoreInv /\ Fits(t) /\ t.kind \in {"put", "abort"}
  BY <1>1, AtDrop
<1>3. /\ task'[w].at = "dropBlob" /\ task'[w].kind = t.kind /\ task'[w].obj = o
      /\ \A v \in Request : v # w => task'[v] = task[v]
  BY <1>0, <1>1, <1>2, KeepTo
<1>4. \A x \in Object : x # o => Untouched(x)
  BY <1>1 DEF Untouched, SameBytes
<1>5. CASE o \in undone
  <2>1. t.kind = "put" /\ upload[o] = Closed
    BY <1>0, <1>1, <1>5, AtDrop
  <2>2. QED
    BY <1>0, <1>1, <1>3, <1>4, <1>5, <2>1, SpoiltStep DEF Drops
<1>6. CASE o \notin undone
  <2>1. state[o] = "uploading"
    BY <1>0, <1>1, <1>6, AtDrop
  <2>2. WorkFits(task[w])' /\ Kept(o)'
    BY <1>1, <1>2, <1>3, <2>1, Dropping
  <2>3. QED
    BY <1>0, <1>1, <1>3, <1>4, <2>1, <2>2, WorkStep
<1>7. QED
  BY <1>5, <1>6

LEMMA BytesDropBlob ==
  ASSUME BytesInv, OwnInv', undone' = undone, NEW w \in Request, DropBlob(w)
  PROVE  BytesInv'
<1> DEFINE t == task[w]
<1>0. PICK o \in Object : o = t.obj
  BY AtDrop DEF DropBlob, At
<1>1. /\ t.at = "dropBlob" /\ Goto(w, "mark") /\ blob' \in {blob, Without(o, t.rows)}
      /\ UNCHANGED <<state, entry, piece, upload, noted>>
  BY <1>0 DEF DropBlob, At, lifeVars, tables
<1>2. StoreInv /\ Fits(t) /\ t.kind \in {"put", "abort"}
  BY <1>1, AtDrop
<1>3. /\ task'[w].at = "mark" /\ task'[w].kind = t.kind /\ task'[w].obj = o
      /\ \A v \in Request : v # w => task'[v] = task[v]
  BY <1>0, <1>1, <1>2, GotoTo
<1>4. \A x \in Object : x # o => Untouched(x)
  BY <1>1, Remaining DEF Untouched, SameBytes
<1>5. CASE o \in undone
  <2>1. t.kind = "put" /\ upload[o] = Closed
    BY <1>0, <1>1, <1>5, AtDrop
  <2>2. QED
    BY <1>0, <1>1, <1>3, <1>4, <1>5, <2>1, SpoiltStep DEF Drops
<1>6. CASE o \notin undone
  <2>1. state[o] = "uploading"
    BY <1>0, <1>1, <1>6, AtDrop
  <2>2. WorkFits(task[w])' /\ Kept(o)'
    BY <1>1, <1>2, <1>3, <2>1, Dropping
  <2>3. QED
    BY <1>0, <1>1, <1>3, <1>4, <2>1, <2>2, WorkStep
<1>7. QED
  BY <1>5, <1>6

LEMMA BytesPutFails ==
  ASSUME BytesInv, OwnInv', NEW w \in Request, PutFails(w),
         undone' = IF task[w].at = "free" THEN undone \cup {task[w].obj} ELSE undone
  PROVE  BytesInv'
<1> DEFINE t == task[w]
<1>1. /\ t.at \in {"write", "list", "commit", "upsert", "free"} /\ Goto(w, "drop") /\ t.kind = "put"
      /\ UNCHANGED <<state, entry, piece, upload, noted, blob>>
  BY DEF PutFails, For, nothing, lifeVars, tables
<1>2. StoreInv /\ Present /\ Apart /\ PreyFits(t) /\ undone \subseteq Object
  BY DEF BytesInv, OwnInv
<1>0. PICK o \in Object : o = t.obj
  BY <1>1, <1>2, TaskFields DEF Fits
<1>3. /\ task'[w].at = "drop" /\ task'[w].kind = t.kind /\ task'[w].obj = o
      /\ \A v \in Request : v # w => task'[v] = task[v]
  BY <1>0, <1>1, <1>2, GotoTo
<1>4. \A x \in Object : Untouched(x)
  BY <1>1 DEF Untouched, SameBytes
<1>5. CASE t.at # "free"
  <2>1. state[o] = "uploading" /\ undone' = undone
    BY <1>0, <1>1, <1>5, AtWork
  <2>2. WorkFits(task[w])' /\ Kept(o)'
    BY <1>1, <1>3, <2>1, Dropping
  <2>3. QED
    BY <1>0, <1>1, <1>3, <1>4, <2>1, <2>2, WorkStep
<1>6. CASE t.at = "free"
  <2>1. undone' = undone \cup {o} /\ state[o] \in {"stored", "deleted"} /\ upload[o] = Closed
    BY <1>0, <1>1, <1>2, <1>6, NoneAssumption DEF PreyFits, Present
  <2>2. EntryStored'
    BY <1>1, <2>1 DEF BytesInv, EntryStored
  <2>3. WorkFits(task[w])' /\ PreyFits(task[w])' /\ SpoiltFits(task[w])'
    BY <1>1, <1>3, <2>1 DEF WorkFits, PreyFits, SpoiltFits, Drops
  <2>4. \A v \in Request : v # w => task[v].obj # o
    BY <1>0, <1>2, NoneAssumption DEF Apart
  <2>5. \A x \in Object : /\ state[x] = "deleted" => state'[x] = "deleted"
                          /\ state[x] = "stored" => state'[x] \in {"stored", "deleted"}
    BY <1>1
  <2> DEFINE A == {o}
  <2>6. /\ A \subseteq Object /\ (\A x \in Object \ A : Untouched(x) \/ Shed(x))
        /\ undone \subseteq undone' /\ undone' \subseteq undone \cup A
    BY <1>4, <2>1
  <2>7. \A x \in A : Kept(x)' /\ Spoilt(x)'
    BY <1>1, <2>1 DEF Kept, Spoilt
  <2>8. \A v \in Request : \/ task'[v] = task[v] /\ task[v].obj \notin A
                           \/ task[v].obj \in A \cup {None} /\ WorkFits(task[v])' /\ PreyFits(task[v])'
                              /\ SpoiltFits(task[v])'
    BY <1>0, <1>3, <2>3, <2>4
  <2> HIDE DEF A
  <2>9. QED
    BY <2>2, <2>5, <2>6, <2>7, <2>8, Gather
<1>7. QED
  BY <1>5, <1>6

LEMMA BytesMarkDropped ==
  ASSUME BytesInv, OwnInv', undone' = undone, NEW w \in Request, MarkDropped(w)
  PROVE  BytesInv'
<1> DEFINE t == task[w]
<1>0. PICK o \in Object : o = t.obj
  BY AtDrop DEF MarkDropped, At
<1>1. /\ t.at = "mark" /\ state' = [state EXCEPT ![o] = "deleted"]
      /\ IF t.kind = "abort" THEN Goto(w, "close") ELSE Return(w)
      /\ UNCHANGED <<entry, piece, upload, noted, blob>>
  BY <1>0 DEF MarkDropped, At, For, tables
<1>2. /\ StoreInv /\ Fits(t) /\ t.kind \in {"put", "abort"} /\ o # None
      /\ state \in [Object -> State] /\ Present
  BY <1>0, <1>1, AtDrop DEF StoreInv, TypeOK, LifeTypeOK, BytesInv, OwnInv
<1>3. state'[o] = "deleted" /\ \A x \in Object : x # o => Untouched(x)
  BY <1>1, <1>2 DEF Untouched, SameBytes
<1>4. CASE t.kind = "abort"
  <2>0. state[o] = "uploading"
    BY <1>0, <1>1, <1>4, AtDrop
  <2>1. /\ task'[w].at = "close" /\ task'[w].obj = o
        /\ \A v \in Request : v # w => task'[v] = task[v]
    BY <1>0, <1>1, <1>2, <1>4, GotoTo
  <2>2. WorkFits(task[w])' /\ Kept(o)'
    BY <1>3, <2>1, InWork DEF WorkFits, Working
  <2>3. QED
    BY <1>0, <1>1, <1>3, <2>0, <2>1, <2>2, WorkStep
<1>5. ASSUME t.kind # "abort"
      PROVE  /\ task'[w] = Idle /\ \A v \in Request : v # w => task'[v] = task[v]
             /\ upload[o] = Closed /\ Kept(o)' /\ WorkFits(task[w])'
             /\ task'[w].at \notin {"free", "remove"}
  <2>1. task'[w] = Idle /\ \A v \in Request : v # w => task'[v] = task[v]
    BY <1>1, <1>2, <1>5, ReturnTo
  <2>2. upload[o] = Closed
    BY <1>0, <1>2, <1>5 DEF Present
  <2>3. Kept(o)'
    BY <1>1, <1>3, <2>2 DEF Kept
  <2>4. WorkFits(task[w])' /\ task'[w].at \notin {"free", "remove"}
    BY <2>1 DEF WorkFits, Working, Idle
  <2>5. QED
    BY <2>1, <2>2, <2>3, <2>4
<1>6. CASE t.kind # "abort" /\ o \notin undone
  <2>1. state[o] = "uploading"
    BY <1>0, <1>1, <1>6, AtDrop
  <2>2. QED
    BY <1>0, <1>1, <1>3, <1>5, <1>6, <2>1, WorkStep
<1>7. CASE t.kind # "abort" /\ o \in undone
  BY <1>0, <1>1, <1>3, <1>5, <1>7, SpoiltStep
<1>8. QED
  BY <1>4, <1>6, <1>7

\* A commit: the new object is whole, and the one it replaces is no longer the key's.
LEMMA BytesPublish ==
  ASSUME BytesInv, OwnInv', undone' = undone, NEW w \in Request, NEW e, Publish(w, e),
         e = entry \/ e = NoEntry, task[w].at \in {"commit", "upsert"},
         UNCHANGED <<piece, upload, noted, blob>>
  PROVE  BytesInv'
<1> DEFINE t == task[w]
<1>0. PICK o \in Object : o = t.obj
  BY AtWork
<1>1. /\ StoreInv /\ Fits(t) /\ state[o] = "uploading" /\ t.kind \in Kind
      /\ PutFits(t) /\ CompleteFits(t) /\ state \in [Object -> State] /\ EntryStored
      /\ t.parts \subseteq Slot /\ o \notin undone
  BY <1>0, AtWork, TaskFields DEF StoreInv, TypeOK, LifeTypeOK, BytesInv
<1>2. /\ task'[w].at = "free" /\ task'[w].kind = t.kind /\ task'[w].obj = o
      /\ task'[w].prey # None => task'[w].prey \in Object /\ state'[task'[w].prey] = "deleted"
      /\ \A v \in Request : v # w => task'[v] = task[v]
  BY <1>0, <1>1, PublishTo
<1>3. e.obj # o
  BY <1>1, NoneAssumption DEF EntryStored, NoEntry
<1>4. /\ state'[o] = "stored" /\ entry'.obj = o
      /\ \A x \in Object : x # o => \/ state'[x] = state[x]
                                    \/ state[x] = "stored" /\ state'[x] = "deleted"
  BY <1>0, <1>1, <1>3 DEF Publish
<1>5. \A x \in Object : x # o => Untouched(x) \/ Shed(x)
  BY <1>4 DEF Untouched, SameBytes, Shed
<1>6. \E P \in SUBSET Slot : Numbered(o, P)
  BY <1>0, <1>1 DEF Fits, Kind, PutFits, CompleteFits
<1>7. Kept(o)'
  BY <1>2, <1>4, <1>6 DEF Kept, Numbered
<1>8. EntryStored'
  BY <1>4 DEF EntryStored
<1>9. WorkFits(task[w])' /\ PreyFits(task[w])' /\ SpoiltFits(task[w])'
  BY <1>1, <1>2, <1>4 DEF WorkFits, Working, PreyFits, SpoiltFits
<1>10. \A v \in Request : v # w => task[v].obj # o
  BY <1>0, NoneAssumption DEF BytesInv, OwnInv, Apart
<1>11. \A x \in Object : /\ state[x] = "deleted" => state'[x] = "deleted"
                         /\ state[x] = "stored" => state'[x] \in {"stored", "deleted"}
  BY <1>1, <1>4
<1> DEFINE A == {o}
<1>12. A \subseteq Object /\ (\A x \in Object \ A : Untouched(x) \/ Shed(x)) 
       /\ \A x \in A : Kept(x)' /\ Spoilt(x)'
  BY <1>1, <1>5, <1>7 DEF Spoilt
<1>13. \A v \in Request : \/ task'[v] = task[v] /\ task[v].obj \notin A
                          \/ task[v].obj \in A \cup {None} /\ WorkFits(task[v])' /\ PreyFits(task[v])'
                             /\ SpoiltFits(task[v])'
  BY <1>0, <1>2, <1>9, <1>10
<1> HIDE DEF A
<1>14. QED
  BY <1>8, <1>11, <1>12, <1>13, Gather

\* A handler whose object is published or that has none: it frees or closes, or ends.
LEMMA LateStep ==
  ASSUME BytesInv, OwnInv', EntryStored', undone' = undone, NEW w \in Request,
         NEW o \in Object \cup {None}, o = task[w].obj,
         \A v \in Request : v # w => task'[v] = task[v],
         WorkFits(task[w])', PreyFits(task[w])',
         \A x \in Object : x # o => Untouched(x) \/ Shed(x),
         o \in Object => Kept(o)' /\ upload'[o] \in {upload[o], Closed},
         task'[w].obj = None \/ (task'[w].obj = o /\ ~Drops(task[w])),
         \A x \in Object : /\ state[x] = "deleted" => state'[x] = "deleted"
                           /\ state[x] = "stored" => state'[x] \in {"stored", "deleted"}
  PROVE  BytesInv'
<1>1. StoreInv /\ Apart /\ SpoiltFits(task[w]) /\ undone \subseteq Object
      /\ \A x \in Object : Spoilt(x)
  BY DEF BytesInv, OwnInv
<1>0. SpoiltFits(task[w])'
  BY <1>1, NoneAssumption DEF SpoiltFits
<1>2. \A v \in Request : v # w /\ o # None => task[v].obj # o
  BY <1>1 DEF Apart
<1>3. \A v \in Request : \/ task'[v] = task[v] /\ (o = None \/ task[v].obj # o)
                         \/ task[v].obj = o /\ WorkFits(task[v])' /\ PreyFits(task[v])'
                             /\ SpoiltFits(task[v])'
  BY <1>0, <1>2
<1> DEFINE A == {o} \cap Object
<1>4. A \subseteq Object /\ (\A x \in Object \ A : Untouched(x) \/ Shed(x))
      /\ \A x \in A : Kept(x)' /\ Spoilt(x)'
  BY <1>1 DEF Spoilt
<1>5. \A v \in Request : \/ task'[v] = task[v] /\ task[v].obj \notin A
                         \/ task[v].obj \in A \cup {None} /\ WorkFits(task[v])' /\ PreyFits(task[v])'
                             /\ SpoiltFits(task[v])'
  BY <1>3, NoneAssumption
<1> HIDE DEF A
<1>6. QED
  BY <1>4, <1>5, Gather

\* The key's row and what it names stay as they are.
LEMMA EntryStays ==
  ASSUME BytesInv, UNCHANGED <<entry, state>>, undone' = undone
  PROVE  /\ EntryStored'
         /\ \A x \in Object : /\ state[x] = "deleted" => state'[x] = "deleted"
                              /\ state[x] = "stored" => state'[x] \in {"stored", "deleted"}
BY DEF BytesInv, EntryStored

LEMMA BytesFree ==
  ASSUME BytesInv, OwnInv', undone' = undone, NEW w \in Request, Free(w)
  PROVE  BytesInv'
<1> DEFINE t == task[w]
<1>1. /\ t.at = "free" /\ UNCHANGED <<state, entry, piece, upload, noted>>
      /\ blob' \in {blob, IF t.prey = None THEN blob ELSE Without(t.prey, Rows(t.prey))}
      /\ IF t.kind = "complete" THEN Goto(w, "close") ELSE Return(w)
  BY DEF Free, At, For, lifeVars, tables
<1>2. /\ StoreInv /\ Fits(t) /\ t.kind \in Kind /\ Present
      /\ t.prey # None => state[t.prey] = "deleted"
  BY <1>1, TaskFields DEF BytesInv, OwnInv, PreyFits
<1>3. PICK o \in Object \cup {None} : o = t.obj
  BY <1>2, TaskFields
<1>4. \A x \in Object : Untouched(x) \/ (state[x] = "deleted" /\ Shed(x))
  <2>1. ASSUME NEW x \in Object, x # t.prey \/ t.prey = None
        PROVE  Untouched(x)
    BY <1>1, <2>1, Remaining DEF Untouched, SameBytes
  <2>2. ASSUME NEW x \in Object, x = t.prey, t.prey # None
        PROVE  state[x] = "deleted" /\ Shed(x)
    BY <1>1, <1>2, <2>2 DEF Shed
  <2>3. QED
    BY <2>1, <2>2
<1>5. /\ task'[w].at = "close" \/ (task'[w].at = "idle" /\ task'[w].obj = None)
      /\ task'[w].obj = IF t.kind = "complete" THEN o ELSE None
      /\ \A v \in Request : v # w => task'[v] = task[v]
  <2>1. CASE t.kind = "complete"
    BY <1>1, <1>2, <1>3, <2>1, GotoTo
  <2>2. CASE t.kind # "complete"
    BY <1>1, <1>2, <2>2, ReturnTo DEF Idle
  <2>3. QED
    BY <2>1, <2>2
<1>6. WorkFits(task[w])' /\ PreyFits(task[w])'
  BY <1>5 DEF WorkFits, Working, PreyFits, Idle
<1>7. ASSUME o \in Object
      PROVE  Kept(o)'
  <2>1. Kept(o) /\ state[o] # "absent"
    BY <1>2, <1>3, <1>7, NoneAssumption DEF BytesInv, Present
  <2>2. t.kind = "complete" \/ upload[o] = Closed
    BY <1>1, <1>2, <1>3, <1>7, NoneAssumption DEF Fits, Kind, Present
  <2>3. state[o] = "stored" => Untouched(o)
    BY <1>4, <1>7
  <2>4. state'[o] = "stored" => o \in undone' \/ \E P \in SUBSET Slot : Numbered(o, P)'
    BY <1>1, <2>1, <2>3 DEF Kept, Numbered, Untouched, SameBytes
  <2>5. QED
    BY <1>1, <1>5, <2>1, <2>2, <2>4 DEF Kept
<1>8. /\ \A x \in Object : x # o => Untouched(x) \/ Shed(x)
      /\ task'[w].obj = None \/ (task'[w].obj = o /\ ~Drops(t))
  BY <1>1, <1>4, <1>5 DEF Drops
<1>9. QED
  BY <1>1, <1>3, <1>5, <1>6, <1>7, <1>8, EntryStays, LateStep

LEMMA BytesClose ==
  ASSUME BytesInv, OwnInv', undone' = undone, NEW w \in Request, CloseUpload(w)
  PROVE  BytesInv'
<1> DEFINE t == task[w]
<1>1. /\ StoreInv /\ Present /\ t.at = "close" /\ t.kind # "delete"
  BY TaskFields DEF CloseUpload, At, Fits, BytesInv, OwnInv
<1>2. PICK o \in Object : o = t.obj
  BY <1>1, HasObject DEF For
<1>3. /\ upload' = [upload EXCEPT ![o] = Closed] /\ noted' = [noted EXCEPT ![o] = {}]
      /\ Return(w) /\ UNCHANGED <<state, entry, piece, blob>>
  BY <1>2 DEF CloseUpload, lifeVars
<1>4. task'[w] = Idle /\ \A v \in Request : v # w => task'[v] = task[v]
  BY <1>1, <1>3, ReturnTo
<1>5. \A x \in Object : x # o => Untouched(x)
  BY <1>1, <1>3 DEF Untouched, SameBytes, StoreInv, TypeOK
<1>6. Kept(o) /\ state[o] # "absent" /\ upload'[o] = Closed
  BY <1>1, <1>2, <1>3, NoneAssumption DEF BytesInv, Present, StoreInv, TypeOK
<1>7. Kept(o)'
  BY <1>3, <1>6 DEF Kept, Numbered
<1>8. WorkFits(task[w])' /\ PreyFits(task[w])' /\ task'[w].obj = None
  BY <1>4 DEF WorkFits, Working, PreyFits, Idle
<1>9. QED
  BY <1>2, <1>3, <1>4, <1>5, <1>6, <1>7, <1>8, EntryStays, LateStep

LEMMA BytesRemove ==
  ASSUME BytesInv, OwnInv', undone' = undone, NEW w \in Request, RemoveEntry(w)
  PROVE  BytesInv'
<1> DEFINE t == task[w]
<1>1. /\ t.at = "remove" /\ entry' = NoEntry /\ Goto(w, "free")
      /\ UNCHANGED <<piece, upload, noted, blob>>
      /\ state' = IF state[t.prey] = "stored" THEN [state EXCEPT ![t.prey] = "deleted"] ELSE state
  BY DEF RemoveEntry, At, tables
<1>2. /\ StoreInv /\ Fits(t) /\ t.kind \in Kind /\ state \in [Object -> State]
      /\ state[t.prey] \in {"stored", "deleted"}
  BY <1>1, TaskFields DEF BytesInv, OwnInv, PreyFits, StoreInv, TypeOK, LifeTypeOK
<1>3. t.obj = None /\ t.prey \in Object /\ t.kind = "delete"
  BY <1>1, <1>2 DEF Fits, Kind
<1>4. /\ task'[w].at = "free" /\ task'[w].obj = None /\ task'[w].prey = t.prey
      /\ task'[w].kind = "delete"
      /\ \A v \in Request : v # w => task'[v] = task[v]
  <2>1. StoreInv /\ Goto(w, "free")
    BY <1>1, <1>2
  <2>2. /\ task'[w].at = "free" /\ task'[w].obj = t.obj /\ task'[w].prey = t.prey
        /\ task'[w].kind = t.kind /\ \A v \in Request : v # w => task'[v] = task[v]
    BY <2>1, GotoTo
  <2>3. QED
    BY <1>3, <2>2
<1>5. \A x \in Object : \/ state'[x] = state[x]
                        \/ x = t.prey /\ state[x] = "stored" /\ state'[x] = "deleted"
  BY <1>1, <1>2
<1>6. state'[t.prey] = "deleted"
  BY <1>1, <1>2, <1>3
<1>7. \A x \in Object : Untouched(x) \/ Shed(x)
  BY <1>1, <1>5 DEF Untouched, SameBytes, Shed
<1>8. WorkFits(task[w])' /\ PreyFits(task[w])'
  BY <1>4, <1>6 DEF WorkFits, Working, PreyFits
<1>9. EntryStored'
  BY <1>1 DEF EntryStored
<1>10. \A x \in Object : /\ state[x] = "deleted" => state'[x] = "deleted"
                         /\ state[x] = "stored" => state'[x] \in {"stored", "deleted"}
  BY <1>5
<1>11. None \in Object \cup {None} /\ None \notin Object
  BY NoneAssumption
<1>12. QED
  BY <1>3, <1>4, <1>7, <1>8, <1>9, <1>10, <1>11, LateStep

LEMMA BytesRetain ==
  ASSUME BytesInv, OwnInv', undone' = undone, NEW w \in Request, Retain(w)
  PROVE  BytesInv'
<1> DEFINE t == task[w]
<1>1. /\ t.at = "retain" /\ Return(w) /\ UNCHANGED <<state, piece, upload, noted, blob>>
      /\ entry' = IF entry = NoEntry THEN entry ELSE [obj |-> entry.obj, ret |-> t.ret]
  BY DEF Retain, At, lifeVars, tables
<1>2. StoreInv /\ Fits(t) /\ t.kind \in Kind /\ EntryStored
  BY TaskFields DEF BytesInv, OwnInv
<1>3. t.obj = None /\ None \notin Object
  BY <1>1, <1>2, NoneAssumption DEF Fits, Kind
<1>4. task'[w] = Idle /\ \A v \in Request : v # w => task'[v] = task[v]
  BY <1>1, <1>2, ReturnTo
<1>5. \A x \in Object : Untouched(x)
  BY <1>1 DEF Untouched, SameBytes
<1>6. WorkFits(task[w])' /\ PreyFits(task[w])' /\ task'[w].obj = None
  BY <1>4 DEF WorkFits, Working, PreyFits, Idle
<1>7. EntryStored'
  BY <1>1, <1>2 DEF EntryStored
<1>8. \A x \in Object : /\ state[x] = "deleted" => state'[x] = "deleted"
                        /\ state[x] = "stored" => state'[x] \in {"stored", "deleted"}
  BY <1>1
<1>9. None \in Object \cup {None}
  OBVIOUS
<1>10. QED
  BY <1>3, <1>4, <1>5, <1>6, <1>7, <1>8, <1>9, LateStep

\* A request that ends early: what it has, if anything, was never offered to the client.
LEMMA BytesEnds ==
  ASSUME BytesInv, OwnInv', undone' = undone, NEW w \in Request, Return(w), UNCHANGED nothing,
         task[w].kind \notin {"part", "complete", "abort"}
  PROVE  BytesInv'
<1> DEFINE t == task[w]
<1>1. StoreInv /\ Fits(t) /\ t.kind \in Kind /\ Present
  BY TaskFields DEF BytesInv, OwnInv
<1>2. PICK o \in Object \cup {None} : o = t.obj
  BY <1>1, TaskFields
<1>3. UNCHANGED <<state, entry, piece, upload, noted, blob>>
  BY DEF nothing, lifeVars, tables
<1>4. task'[w] = Idle /\ \A v \in Request : v # w => task'[v] = task[v]
  BY <1>1, ReturnTo
<1>5. \A x \in Object : Untouched(x)
  BY <1>3 DEF Untouched, SameBytes
<1>6. WorkFits(task[w])' /\ PreyFits(task[w])' /\ task'[w].obj = None
  BY <1>4 DEF WorkFits, Working, PreyFits, Idle
<1>7. ASSUME o \in Object
      PROVE  Kept(o)'
  <2>1. Kept(o) /\ state[o] # "absent" /\ upload[o] = Closed
    BY <1>1, <1>2, <1>7, NoneAssumption DEF BytesInv, Fits, Kind, Present
  <2>2. QED
    BY <1>3, <2>1 DEF Kept, Numbered
<1>8. QED
  BY <1>2, <1>3, <1>4, <1>5, <1>6, <1>7, EntryStays, LateStep

LEMMA BytesNewObject ==
  ASSUME BytesInv, OwnInv', undone' = undone, NEW w \in Request, NewObject(w)
  PROVE  BytesInv'
<1> DEFINE t == task[w]
<1>1. PICK o \in Object :
        Reserve(o) /\ task' = [task EXCEPT ![w].obj = o, ![w].at = IF For(w, "put") THEN "write" ELSE "open"]
  BY DEF NewObject
<1>2. /\ t.at = "new" /\ state[o] = "absent" /\ state' = [state EXCEPT ![o] = "uploading"]
      /\ UNCHANGED <<entry, piece, upload, noted, blob>>
  BY <1>1 DEF NewObject, At, Reserve, tables
<1>3. /\ StoreInv /\ Fits(t) /\ t \in Task /\ Present /\ EntryStored
      /\ state \in [Object -> State] /\ Kept(o)
  BY TaskFields DEF BytesInv, OwnInv, StoreInv, TypeOK, LifeTypeOK
<1>0. o \notin undone
  BY <1>2 DEF BytesInv, Spoilt
<1> DEFINE u == [t EXCEPT !.obj = o, !.at = IF t.kind = "put" THEN "write" ELSE "open"]
<1>4. Takes(w, u)
  BY <1>1 DEF Takes, For
<1>5. u.obj = o /\ u.kind = t.kind /\ u.at = IF t.kind = "put" THEN "write" ELSE "open"
  BY <1>3 DEF Task
<1>6. /\ task'[w].obj = o /\ task'[w].kind = t.kind
      /\ task'[w].at = IF t.kind = "put" THEN "write" ELSE "open"
      /\ \A v \in Request : v # w => task'[v] = task[v]
  BY <1>3, <1>4, <1>5, TakesTo
<1>7. t.obj = None /\ t.kind \in {"put", "create"}
  BY <1>2, <1>3 DEF Fits, Task, Kind
<1>8. state'[o] = "uploading" /\ upload[o] = Closed /\ \A x \in Object : x # o => Untouched(x)
  BY <1>2, <1>3 DEF Untouched, SameBytes, Present
<1>9. Bare(o)' /\ noted'[o] = {}
  BY <1>2, <1>3 DEF Kept, Bare
<1>10. WorkFits(task[w])' /\ PreyFits(task[w])' /\ SpoiltFits(task[w])'
  BY <1>0, <1>6, <1>7, <1>8, <1>9 DEF WorkFits, PutFits, CreateFits, PartFits, CompleteFits, PreyFits,
     SpoiltFits, Bare
<1>11. Kept(o)'
  BY <1>2, <1>8 DEF Kept
<1>12. EntryStored'
  <2>1. CASE entry = NoEntry
    BY <1>2, <2>1 DEF EntryStored
  <2>2. CASE entry # NoEntry
    <3>1. entry.obj \in Object /\ (state[entry.obj] = "stored" \/ entry.obj \in undone)
      BY <1>3, <2>2, EntryFields DEF EntryStored
    <3>2. state'[entry.obj] = "stored" \/ entry.obj \in undone
      BY <1>2, <1>3, <3>1
    <3>3. QED
      BY <1>2, <3>2 DEF EntryStored
  <2>3. QED
    BY <2>1, <2>2
<1>13. \A x \in Object : /\ state[x] = "deleted" => state'[x] = "deleted"
                         /\ state[x] = "stored" => state'[x] \in {"stored", "deleted"}
  BY <1>2, <1>3
<1>14. \A v \in Request : task[v].obj # o
  BY <1>2, <1>3, NoneAssumption DEF Present
<1> DEFINE A == {o}
<1>15. A \subseteq Object /\ (\A x \in Object \ A : Untouched(x) \/ Shed(x)) 
       /\ \A x \in A : Kept(x)' /\ Spoilt(x)'
  BY <1>0, <1>8, <1>11 DEF Spoilt
<1>16. \A v \in Request : \/ task'[v] = task[v] /\ task[v].obj \notin A
                          \/ task[v].obj \in A \cup {None} /\ WorkFits(task[v])' /\ PreyFits(task[v])'
                             /\ SpoiltFits(task[v])'
  BY <1>6, <1>7, <1>10, <1>14
<1> HIDE DEF A
<1>17. QED
  BY <1>12, <1>13, <1>15, <1>16, Gather

\* A request begins, with an upload that nobody works on, or with none.
LEMMA BytesBegin ==
  ASSUME BytesInv, OwnInv', undone' = undone, NEW w \in Request, UNCHANGED nothing, task[w].at = "idle",
         \A v \in Request : v # w => task'[v] = task[v],
         NEW o \in Object \cup {None}, task'[w].obj = o,
         o # None => \A v \in Request : task[v].obj # o,
         o # None => upload[o] # Closed,
         WorkFits(task[w])', PreyFits(task[w])'
  PROVE  BytesInv'
<1>1. UNCHANGED <<state, entry, piece, upload, noted, blob>>
  BY DEF nothing, lifeVars, tables
<1>2. task[w].obj = None
  BY TaskFields DEF BytesInv, OwnInv, Fits
<1>0. SpoiltFits(task[w])'
  BY NoneAssumption DEF BytesInv, Spoilt, SpoiltFits
<1> DEFINE A == {o} \cap Object
<1>3. A \subseteq Object /\ \A x \in Object \ A : Untouched(x) \/ Shed(x)
  BY <1>1 DEF Untouched, SameBytes
<1>4. ASSUME NEW x \in A
      PROVE  Kept(x)' /\ Spoilt(x)'
  <2>1. Kept(x) /\ Spoilt(x) /\ task'[w].obj = x
    BY DEF BytesInv
  <2>2. QED
    BY <1>1, <2>1 DEF Kept, Spoilt, Bare, Numbered
<1>5. \A v \in Request : \/ task'[v] = task[v] /\ task[v].obj \notin A
                         \/ task[v].obj \in A \cup {None} /\ WorkFits(task[v])' /\ PreyFits(task[v])'
                             /\ SpoiltFits(task[v])'
  BY <1>0, <1>2, NoneAssumption
<1> HIDE DEF A
<1>6. QED
  BY <1>1, <1>3, <1>4, <1>5, EntryStays, Gather

\* What a request for an open upload finds, and what it starts with.
LEMMA BytesStartOn ==
  ASSUME BytesInv, OwnInv', undone' = undone, ~MayRepeat, NEW w \in Request, NEW o \in Object,
         NEW kind, NEW step, NEW parts, StartOn(w, o, kind, step, parts),
         \/ kind = "part" /\ step = "clear"
         \/ kind = "abort" /\ step = "drop"
         \/ kind = "complete" /\ step = "survey" /\ parts \subseteq noted[o]
  PROVE  BytesInv'
<1>1. StoreInv /\ Kept(o)
  BY DEF BytesInv, OwnInv
<1>2. /\ UNCHANGED nothing /\ task[w].at = "idle" /\ upload[o] # Closed
      /\ \A v \in Request : task[v].obj # o
      /\ Takes(w, OnUpload(o, kind, step, parts))
  BY DEF StartOn, MayServe, Begin, At, Takes, OnUpload
<1>3. /\ OnUpload(o, kind, step, parts).obj = o /\ OnUpload(o, kind, step, parts).kind = kind
      /\ OnUpload(o, kind, step, parts).at = step /\ OnUpload(o, kind, step, parts).parts = parts
  BY DEF OnUpload, Idle
<1>4. /\ task'[w].obj = o /\ task'[w].kind = kind /\ task'[w].at = step /\ task'[w].parts = parts
      /\ \A v \in Request : v # w => task'[v] = task[v]
  BY <1>1, <1>2, <1>3, TakesTo
<1>5. UNCHANGED <<state, entry, piece, upload, noted, blob>>
  BY <1>2 DEF nothing, lifeVars, tables
<1>6. state[o] = "uploading" /\ PartsLie(o, noted[o])
  BY <1>1, <1>2 DEF Kept
<1>7. state'[o] = "uploading" /\ PartsLie(o, noted[o])' /\ upload'[o] # Closed
  BY <1>2, <1>5, <1>6 DEF PartsLie
<1>8. WorkFits(task[w])' /\ PreyFits(task[w])'
  BY <1>4, <1>5, <1>7 DEF WorkFits, PutFits, CreateFits, PartFits, CompleteFits, PreyFits, PartsLie
<1>9. QED
  BY <1>2, <1>4, <1>8, BytesBegin

LEMMA BytesStart ==
  ASSUME BytesInv, OwnInv', undone' = undone, ~MayRepeat, NEW w \in Request, Start(w)
  PROVE  BytesInv'
<1>1. /\ StoreInv /\ task[w].at = "idle" /\ UNCHANGED nothing
      /\ \A v \in Request : v # w => task'[v] = task[v]
  BY Begins DEF BytesInv, OwnInv
<1>2. ASSUME NEW t, Begin(w, t), t.obj = None,
             t.at = "remove" => state[t.prey] \in {"stored", "deleted"}, t.at # "free"
      PROVE  BytesInv'
  <2>1. task'[w] = t
    BY <1>1, <1>2, TakesTo DEF Begin, Takes
  <2>2. state' = state
    BY <1>1 DEF nothing, lifeVars
  <2>3. WorkFits(task[w])' /\ PreyFits(task[w])'
    BY <1>2, <2>1, <2>2 DEF WorkFits, Working, PreyFits
  <2>4. None \in Object \cup {None} /\ task'[w].obj = None
    BY <1>2, <2>1
  <2>5. QED
    BY <1>1, <2>3, <2>4, BytesBegin
<1>3. ASSUME NEW ret \in Retention, StartPut(w, ret)
      PROVE  BytesInv'
  <2> DEFINE t == [Idle EXCEPT !.kind = "put", !.at = "new", !.ret = ret, !.parts = {Whole}]
  <2>1. t.obj = None /\ t.at = "new"
    BY DEF Idle
  <2>2. Begin(w, t)
    BY <1>3 DEF StartPut
  <2>3. QED
    BY <1>2, <2>1, <2>2
<1>4. ASSUME NEW ret \in Retention, StartCreate(w, ret)
      PROVE  BytesInv'
  <2> DEFINE t == [Idle EXCEPT !.kind = "create", !.at = "new", !.ret = ret]
  <2>1. t.obj = None /\ t.at = "new"
    BY DEF Idle
  <2>2. Begin(w, t)
    BY <1>4 DEF StartCreate
  <2>3. QED
    BY <1>2, <2>1, <2>2
<1>5. ASSUME NEW ret \in Retention, NEW bypass \in BOOLEAN, StartRetention(w, ret, bypass)
      PROVE  BytesInv'
  <2> DEFINE t == [Idle EXCEPT !.kind = "retention", !.at = "retain", !.ret = ret]
  <2>1. t.obj = None /\ t.at = "retain"
    BY DEF Idle
  <2>2. Begin(w, t)
    BY <1>5 DEF StartRetention
  <2>3. QED
    BY <1>2, <2>1, <2>2
<1>6. ASSUME NEW bypass \in BOOLEAN, StartDelete(w, bypass)
      PROVE  BytesInv'
  <2> DEFINE t == [Idle EXCEPT !.kind = "delete", !.at = "remove", !.prey = entry.obj]
  <2>1. t.obj = None /\ t.at = "remove" /\ t.prey = entry.obj
    BY DEF Idle
  <2>2. Begin(w, t) /\ state[entry.obj] \in {"stored", "deleted"}
    BY <1>6 DEF StartDelete, BytesInv, EntryStored, Spoilt
  <2>3. QED
    BY <1>2, <2>1, <2>2
<1>7. ASSUME NEW o \in Object, StartAbort(w, o) \/ (\E p \in Part : StartPart(w, o, p))
                               \/ \E chosen \in SUBSET Part : StartComplete(w, o, chosen)
      PROVE  BytesInv'
  BY <1>7, BytesStartOn DEF StartAbort, StartPart, StartComplete
<1>8. QED
  BY <1>3, <1>4, <1>5, <1>6, <1>7 DEF Start

LEMMA BytesCommit ==
  ASSUME BytesInv, OwnInv', undone' = undone, NEW w \in Request, Commit(w) \/ Upsert(w)
  PROVE  BytesInv'
<1> DEFINE t == task[w]
<1>1. t.at \in {"commit", "upsert"} /\ UNCHANGED <<piece, upload, noted, blob>>
  BY DEF Commit, Upsert, At, tables
<1>2. CASE Publish(w, entry) \/ Publish(w, NoEntry)
  BY <1>1, <1>2, BytesPublish
<1>3. CASE Goto(w, "upsert") /\ t.at = "commit" /\ UNCHANGED <<lifeVars, entry>>
  <2>0. PICK o \in Object : o = t.obj
    BY <1>3, AtWork
  <2>1. /\ StoreInv /\ Fits(t) /\ state[o] = "uploading" /\ PutFits(t) /\ CompleteFits(t)
        /\ t.kind \in Kind
    BY <1>3, <2>0, AtWork, TaskFields
  <2>2. /\ task'[w].at = "upsert" /\ task'[w].kind = t.kind /\ task'[w].obj = o
        /\ task'[w].parts = t.parts
        /\ \A v \in Request : v # w => task'[v] = task[v]
    BY <1>3, <2>0, <2>1, GotoTo
  <2>3. UNCHANGED <<state, entry>> /\ \A x \in Object : x # o => Untouched(x)
    BY <1>1, <1>3 DEF Untouched, SameBytes, lifeVars
  <2>4. t.kind \in {"put", "complete"} /\ Numbered(o, t.parts)
    BY <1>3, <2>0, <2>1 DEF Fits, Kind, PutFits, CompleteFits
  <2>5. Numbered(o, t.parts)'
    BY <1>1, <2>2, <2>4 DEF Numbered
  <2>6. WorkFits(task[w])'
    BY <2>1, <2>2, <2>3, <2>4, <2>5 DEF WorkFits, PutFits, CreateFits, PartFits, CompleteFits, Numbered
  <2>7. Kept(o)'
    BY <2>1, <2>2, <2>3, InWork
  <2>8. QED
    BY <2>0, <2>1, <2>2, <2>3, <2>6, <2>7, WorkStep
<1>4. QED
  BY <1>2, <1>3 DEF Commit, Upsert, At

\* Nothing is locked where there are no modes.
LEMMA NeverLocked ==
  ASSUME StoreInv, Mode = {}
  PROVE  ~Locked(entry, FALSE)
BY EntryFields DEF StoreInv, TypeOK, Retention, NoLock, Locked

\* What is released was left behind before a client heard of it.
LEMMA BytesRelease ==
  ASSUME BytesInv, OwnInv', undone' = undone, ~MayStall, NEW o \in Object, ReleaseStale(o)
  PROVE  BytesInv'
<1>1. /\ upload[o] = Closed /\ (\A w \in Request : task[w].obj # o) /\ state[o] = "uploading"
      /\ state' = [state EXCEPT ![o] = "failed"] /\ blob' \in {blob, Without(o, Rows(o))}
      /\ UNCHANGED <<entry, piece, upload, noted, task>>
  BY DEF ReleaseStale, Release, tables
<1>2. StoreInv /\ EntryStored /\ state \in [Object -> State]
  BY DEF BytesInv, OwnInv, StoreInv, TypeOK, LifeTypeOK
<1>0. o \notin undone /\ undone \subseteq Object
  BY <1>1 DEF BytesInv, Spoilt
<1>3. state'[o] = "failed" /\ \A x \in Object : x # o => Untouched(x)
  BY <1>1, <1>2, Remaining DEF Untouched, SameBytes
<1>4. Kept(o)' /\ Spoilt(o)'
  BY <1>0, <1>1, <1>3 DEF Kept, Spoilt
<1>5. EntryStored'
  <2>1. CASE entry = NoEntry
    BY <1>1, <2>1 DEF EntryStored
  <2>2. CASE entry # NoEntry
    <3>1. entry.obj \in Object /\ (state[entry.obj] = "stored" \/ entry.obj \in undone)
      BY <1>2, <2>2, EntryFields DEF EntryStored
    <3>2. state'[entry.obj] = "stored" \/ entry.obj \in undone
      BY <1>1, <1>2, <3>1
    <3>3. QED
      BY <1>1, <3>2 DEF EntryStored
  <2>3. QED
    BY <2>1, <2>2
<1>6. \A x \in Object : /\ state[x] = "deleted" => state'[x] = "deleted"
                        /\ state[x] = "stored" => state'[x] \in {"stored", "deleted"}
  BY <1>1, <1>2
<1> DEFINE A == {o}
<1>7. A \subseteq Object /\ (\A x \in Object \ A : Untouched(x) \/ Shed(x)) /\ \A x \in A : Kept(x)' /\ Spoilt(x)'
  BY <1>3, <1>4
<1>8. \A v \in Request : \/ task'[v] = task[v] /\ task[v].obj \notin A
                         \/ task[v].obj \in A \cup {None} /\ WorkFits(task[v])' /\ PreyFits(task[v])'
                             /\ SpoiltFits(task[v])'
  BY <1>1
<1> HIDE DEF A
<1>9. QED
  BY <1>5, <1>6, <1>7, <1>8, Gather

\* undone grows when a put fails after its commit, and at no other step.
LEMMA UndoneGrows ==
  ASSUME StoreInv, HistoryNext, NEW w \in Request, PutFails(w)
  PROVE  undone' = IF task[w].at = "free" THEN undone \cup {task[w].obj} ELSE undone
<1> DEFINE W == {v \in Request : For(v, "put") /\ At(v, "free") /\ task'[v].at = "drop"}
<1>1. undone' = undone \cup {task[v].obj : v \in W}
  BY DEF HistoryNext
<1>2. task'[w].at = "drop" /\ For(w, "put") /\ \A v \in Request : v # w => task'[v] = task[v]
  BY GotoTo DEF PutFails
<1>3. W = IF task[w].at = "free" THEN {w} ELSE {}
  BY <1>2 DEF At
<1> HIDE DEF W
<1>4. QED
  BY <1>1, <1>3

LEMMA UndoneStays ==
  ASSUME StoreInv, HistoryNext, \A w \in Request : ~PutFails(w)
  PROVE  undone' = undone
<1> DEFINE W == {v \in Request : For(v, "put") /\ At(v, "free") /\ task'[v].at = "drop"}
<1>1. undone' = undone \cup {task[v].obj : v \in W}
  BY DEF HistoryNext
<1>2. ASSUME NEW w \in W
      PROVE  FALSE
  <2>1. w \in Request /\ task[w].at = "free" /\ task'[w].at = "drop" /\ Next
    BY DEF At, HistoryNext
  <2>2. PICK v \in Request : Start(v) \/ Continue(v) \/ Die(v)
    BY <2>1 DEF Next, ReleaseStale, Tick
  <2>3. \A u \in Request : u # v => task'[u] = task[u]
    BY <2>2, OnlyOneMoves
  <2>4. v = w
    BY <2>1, <2>3
  <2>5. ~Start(w)
    BY <2>1, Begins
  <2>6. ~Continue(w)
    <3>1. Continue(w) => Free(w) \/ CloseUpload(w)
      BY <2>1, AfterFree
    <3>2. ~CloseUpload(w)
      BY <2>1 DEF CloseUpload, At
    <3>3. Free(w) => task'[w].at \in {"close", "idle"}
      BY <2>1, GotoTo, ReturnTo DEF Free, Idle
    <3>4. QED
      BY <2>1, <3>1, <3>2, <3>3
  <2>7. ~Die(w)
    BY <2>1, ReturnTo DEF Die, Idle
  <2>8. QED
    BY <2>2, <2>4, <2>5, <2>6, <2>7
<1>3. W = {}
  BY <1>2
<1> HIDE DEF W
<1>4. QED
  BY <1>1, <1>3

\* One step per action: each leaves every object, handler and row of the key in order.
LEMMA BytesStep == Careful /\ BytesInv /\ [HistoryNext]_historyVars => BytesInv'
<1> SUFFICES ASSUME Careful, BytesInv, [HistoryNext]_historyVars PROVE BytesInv'
  OBVIOUS
<1>0. [Next]_vars /\ StoreInv
  BY DEF HistoryNext, historyVars, BytesInv, OwnInv
<1>1. ~MayRepeat /\ ~MayStall /\ OwnInv' /\ StoreInv
  BY <1>0, OwnStep DEF Careful, BytesInv, OwnInv
<1>11. ASSUME NEW w \in Request, PutFails(w), HistoryNext
       PROVE  BytesInv'
  <2>1. undone' = IF task[w].at = "free" THEN undone \cup {task[w].obj} ELSE undone
    BY <1>1, <1>11, UndoneGrows
  <2>2. QED
    BY <1>1, <1>11, <2>1, BytesPutFails
<1>12. SUFFICES ASSUME undone' = undone, \A w \in Request : ~PutFails(w) PROVE BytesInv'
  <2>1. CASE HistoryNext
    <3>1. CASE \E w \in Request : PutFails(w)
      BY <2>1, <3>1, <1>11
    <3>2. CASE \A w \in Request : ~PutFails(w)
      BY <1>1, <2>1, <3>2, UndoneStays
    <3>3. QED
      BY <3>1, <3>2
  <2>2. CASE UNCHANGED historyVars
    <3>1. (undone' = undone) /\ UNCHANGED vars
      BY <2>2 DEF historyVars
    <3>2. ASSUME NEW w \in Request PROVE ~PutFails(w)
      <4>1. PutFails(w) => task'[w].at = "drop" /\ task[w].at # "drop"
        BY <1>1, GotoTo DEF PutFails
      <4>2. QED
        BY <3>1, <4>1 DEF vars
    <3>3. QED
      BY <3>1, <3>2
  <2>3. QED
    BY <2>1, <2>2
<1>2. ASSUME NEW w \in Request, Start(w)
      PROVE  BytesInv'
  BY <1>1, <1>12, <1>2, BytesStart
<1>3. ASSUME NEW w \in Request, Refuse(w)
      PROVE  BytesInv'
  <2>1. task[w].kind \notin {"part", "complete", "abort"}
    BY <1>1, <1>12, <1>3, TaskFields DEF Refuse, At, Fits
  <2>2. QED
    BY <1>1, <1>12, <1>3, <2>1, BytesEnds DEF Refuse
<1>4. ASSUME NEW w \in Request, Die(w)
      PROVE  BytesInv'
  <2>1. task[w].kind \notin {"part", "complete", "abort"}
    BY <1>4 DEF Die, For, Careful
  <2>2. QED
    BY <1>1, <1>12, <1>4, <2>1, BytesEnds DEF Die
<1>5. ASSUME NEW w \in Request, CommitRefused(w)
      PROVE  BytesInv'
  BY <1>1, <1>12, <1>5, NeverLocked DEF CommitRefused, Careful
<1>6. ASSUME NEW w \in Request,
             \/ WriteBlob(w) \/ ListPiece(w) \/ Free(w) \/ RemoveEntry(w) \/ Retain(w)
             \/ OpenUpload(w) \/ ClearPart(w) \/ ClearBlob(w) \/ ListPart(w) \/ Survey(w)
      PROVE  BytesInv'
  BY <1>1, <1>12, <1>6, BytesWrite, BytesListPiece, BytesFree, BytesRemove, BytesRetain, BytesOpenUpload,
     BytesClearPart, BytesClearBlob, BytesListPart, BytesSurvey
<1>7. ASSUME NEW w \in Request,
             \/ NewObject(w) \/ Commit(w) \/ Upsert(w) \/ Discard(w) \/ DiscardBlob(w) \/ Number(w)
             \/ CloseUpload(w) \/ DropRead(w) \/ DropBlob(w) \/ MarkDropped(w) \/ PutFails(w)
      PROVE  BytesInv'
  BY <1>1, <1>12, <1>7, BytesNewObject, BytesCommit, BytesDiscard, BytesDiscardBlob, BytesNumber,
     BytesClose, BytesDropRead, BytesDropBlob, BytesMarkDropped, BytesPutFails
<1>8. ASSUME NEW o \in Object, ReleaseStale(o)
      PROVE  BytesInv'
  BY <1>1, <1>12, <1>8, BytesRelease
<1>9. CASE Tick \/ UNCHANGED vars
  <2>1. UNCHANGED <<state, entry, piece, upload, noted, blob, task>>
    BY <1>9 DEF Tick, vars, lifeVars, tables
  <2>2. \A x \in Object : Untouched(x)
    BY <2>1 DEF Untouched, SameBytes
  <2> DEFINE A == {}
  <2>3. A \subseteq Object /\ (\A x \in Object \ A : Untouched(x) \/ Shed(x)) /\ \A x \in A : Kept(x)' /\ Spoilt(x)'
    BY <2>2
  <2>4. \A v \in Request : \/ task'[v] = task[v] /\ task[v].obj \notin A
                           \/ task[v].obj \in A \cup {None} /\ WorkFits(task[v])' /\ PreyFits(task[v])'
                             /\ SpoiltFits(task[v])'
    BY <2>1
  <2> HIDE DEF A
  <2>5. QED
    BY <1>1, <1>12, <2>1, <2>3, <2>4, EntryStays, Gather
<1>10. QED
  BY <1>2, <1>3, <1>4, <1>5, <1>6, <1>7, <1>8, <1>9, <1>0, <1>12 DEF Next, Continue

LEMMA AlwaysBytes == ASSUME Careful PROVE HistorySpec => []BytesInv
<1>1. BytesInv /\ [HistoryNext]_historyVars => BytesInv'
  BY BytesStep
<1>2. QED
  BY <1>1, BytesInit, PTL DEF HistorySpec

\* If clients wait for their answers and finish within a day, no request for an upload
\* dies and nothing is locked, a GET of the key finds a stored object whose bytes are all
\* there, whatever puts, deletes and completions run at the same time and at whatever
\* await puts and deletes die or fail, unless its PUT ended with an error after its
\* commit (KeyIsReadable).
THEOREM TheKeyCanBeRead == ASSUME Careful PROVE HistorySpec => []KeyIsReadable
<1>1. BytesInv => KeyIsReadable
  <2> SUFFICES ASSUME BytesInv, entry # NoEntry, entry.obj \notin undone PROVE Complete(entry.obj)
    BY DEF KeyIsReadable
  <2>1. PICK o \in Object : o = entry.obj
    BY EntryFields DEF BytesInv, OwnInv
  <2>2. state[o] = "stored" /\ Kept(o)
    BY <2>1 DEF BytesInv, EntryStored
  <2>3. PICK P \in SUBSET Slot : Numbered(o, P)
    BY <2>1, <2>2 DEF Kept
  <2>4. PICK s \in P : s \in Slot
    BY <2>3 DEF Numbered
  <2>5. Rows(o) # {}
    <3>1. Whole \in Slot
      BY DEF Slot
    <3>2. <<s, Whole>> \in Rows(o)
      BY <2>3, <2>4, <3>1, RowsOf DEF Numbered
    <3>3. QED
      BY <3>2
  <2>6. \A r \in Rows(o) : <<o, r[1]>> \in blob
    BY <2>3 DEF Rows, Numbered
  <2>7. QED
    BY <2>1, <2>2, <2>5, <2>6 DEF Complete
<1>2. QED
  BY <1>1, AlwaysBytes, PTL

\* Under the same conditions an upload that a client may still complete has the bytes of
\* every part it was told of (PartsAreKept).
THEOREM OpenPartsStay == ASSUME Careful PROVE HistorySpec => []PartsAreKept
<1>1. BytesInv => PartsAreKept
  <2> SUFFICES ASSUME BytesInv, NEW o \in Object, upload[o] # Closed,
                      \A w \in Request : task[w].obj # o, NEW p \in noted[o]
               PROVE  \E r \in Rows(o) : r[1] = p /\ <<o, p>> \in blob
    BY DEF PartsAreKept
  <2>1. PartsLie(o, noted[o]) /\ p \in Slot
    BY DEF BytesInv, Kept, OwnInv, StoreInv, TypeOK, Slot
  <2>2. <<p, p>> \in Rows(o) /\ <<o, p>> \in blob
    BY <2>1, RowsOf DEF PartsLie
  <2>3. QED
    BY <2>2
<1>2. QED
  BY <1>1, AlwaysBytes, PTL
=============================================================================

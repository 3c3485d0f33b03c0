------------------------ MODULE ObjectLifecycleProofs ------------------------
(* Theorems about the object service, for every set of objects, pieces,       *)
(* request handlers and maintenance runs, with uploads that hang and workers  *)
(* that die at any step.                                                      *)
EXTENDS ObjectLifecycle, TLAPS

-----------------------------------------------------------------------------
(* The promise: ObjectLife keeps its ledger in order.                         *)

LifeInv == LifeTypeOK /\ LedgerAgrees

LEMMA LifeInvInit == LifeInit => LifeInv
BY DEF LifeInit, LifeInv, LifeTypeOK, LedgerAgrees, Booked, State, Held

LEMMA LifeInvStep == LifeInv /\ [LifeNext]_lifeVars => LifeInv'
<1> SUFFICES ASSUME LifeInv, [LifeNext]_lifeVars PROVE LifeInv'
  OBVIOUS
<1> USE DEF LifeInv, LifeTypeOK, LedgerAgrees, Booked, State, Held
<1>1. CASE \E o \in Object : Reserve(o)
  BY <1>1 DEF Reserve
<1>2. CASE \E o \in Object : Book(o)
  BY <1>2 DEF Book
<1>3. CASE \E o \in Object : Release(o)
  BY <1>3 DEF Release
<1>4. CASE \E o \in Object : Remove(o)
  BY <1>4 DEF Remove
<1>5. CASE Shelve
  BY <1>5 DEF Shelve
<1>6. CASE UNCHANGED lifeVars
  BY <1>6 DEF lifeVars
<1>7. QED
  BY <1>1, <1>2, <1>3, <1>4, <1>5, <1>6 DEF LifeNext

\* The life cycle the service promises keeps row and ledger in agreement.
THEOREM LifeLedger == LifeSpec => []LedgerAgrees
<1>1. LifeInv => LedgerAgrees
  BY DEF LifeInv
<1>2. QED
  BY LifeInvInit, LifeInvStep, <1>1, PTL DEF LifeSpec

-----------------------------------------------------------------------------
(* The inductive invariant of the service                                     *)

ServiceInv == TypeOK /\ LedgerAgrees /\ TasksAreSound /\ DeadlineIffShelved

LEMMA IdleIsSound == Idle \in Task /\ Sound(Idle)
BY DEF Idle, Between, Task, Step, State, Sound

LEMMA ServiceInit == Init => ServiceInv
<1> SUFFICES ASSUME Init PROVE ServiceInv
  OBVIOUS
<1>1. TypeOK
  BY IdleIsSound DEF Init, LifeInit, TypeOK, LifeTypeOK, State, Held
<1>2. LedgerAgrees /\ DeadlineIffShelved
  BY DEF Init, LifeInit, LedgerAgrees, Booked, DeadlineIffShelved, Held, Shelf
<1>3. TasksAreSound
  BY IdleIsSound DEF Init, TasksAreSound
<1>4. QED
  BY <1>1, <1>2, <1>3 DEF ServiceInv

\* An object that was booked once stays booked or is deleted; a row stays.
LEMMA SettledStays ==
  ASSUME LifeTypeOK, [LifeNext]_lifeVars, NEW o \in Object
  PROVE  (Settled(o) => Settled(o)') /\ (Known(o) => Known(o)')
BY DEF LifeTypeOK, LifeNext, lifeVars, Reserve, Book, Release, Remove, Shelve,
       Settled, Known, Held

\* Worker w goes on with a sound task: all tasks are typed and sound afterwards,
\* because what the other workers rely on cannot have been undone.
LEMMA GoKeepsTasks ==
  ASSUME TypeOK, TasksAreSound, [LifeNext]_lifeVars, NEW w \in Worker,
         task' = [task EXCEPT ![w] = task'[w]], task'[w] \in Task, Sound(task[w])'
  PROVE  task' \in [Worker -> Task] /\ TasksAreSound'
<1>1. task' \in [Worker -> Task]
  BY DEF TypeOK
<1>2. ASSUME NEW v \in Worker, v # w PROVE Sound(task[v])'
  <2>1. task'[v] = task[v] /\ task[v] \in Task /\ Sound(task[v])
    BY <1>2 DEF TasksAreSound, TypeOK
  <2>2. \A o \in Object : (Settled(o) => Settled(o)') /\ (Known(o) => Known(o)')
    BY SettledStays DEF TypeOK
  <2>3. task[v].queue \subseteq Object
    BY <2>1 DEF Task
  <2>4. QED
    BY <2>1, <2>2, <2>3 DEF Sound
<1>3. QED
  BY <1>1, <1>2 DEF TasksAreSound

LEMMA ReturnKeepsTasks ==
  ASSUME TypeOK, TasksAreSound, [LifeNext]_lifeVars, NEW w \in Worker, Return(w)
  PROVE  task' \in [Worker -> Task] /\ TasksAreSound'
<1>1. task' = [task EXCEPT ![w] = Idle] /\ task'[w] = Idle
  BY DEF Return, Go, TypeOK
<1>2. Sound(task[w])'
  BY <1>1 DEF Sound, Idle, Between
<1>3. QED
  BY <1>1, <1>2, IdleIsSound, GoKeepsTasks

-----------------------------------------------------------------------------
(* Every step of the service is a step of the life cycle, or a stutter        *)

LEMMA ObjectOfTask ==
  ASSUME ServiceInv, NEW w \in Worker, ~At(w, "idle"), ~At(w, "sweep"), ~At(w, "release")
  PROVE  task[w].obj \in Object /\ Known(task[w].obj)
BY DEF ServiceInv, TasksAreSound, Sound, At

LEMMA MoveRefines ==
  ASSUME ServiceInv, NEW o \in Object, NEW from \in Held, NEW to \in Held, NEW deadline,
         Move(o, from, to, deadline), UNCHANGED ledger
  PROVE  [LifeNext]_lifeVars
BY DEF ServiceInv, TypeOK, LifeTypeOK, Move, ledger, LifeNext, Shelve, lifeVars, State, Held

LEMMA MoveStepRefines ==
  ASSUME ServiceInv, NEW w \in Worker, NEW step \in {"trash", "restore", "version"},
         NEW from \in Held, NEW to \in Held, NEW deadline,
         MoveStep(w, step, from, to, deadline)
  PROVE  [LifeNext]_lifeVars
<1>1. task[w].obj \in Object
  BY ObjectOfTask DEF MoveStep, At
<1>2. QED
  BY <1>1, MoveRefines DEF MoveStep

\* A purge that books the end of an object finds the booking of its upload.
LEMMA ForgetRefines ==
  ASSUME ServiceInv, NEW w \in Worker, Forget(w) PROVE [LifeNext]_lifeVars
<1> DEFINE o == task[w].obj
<1>1. o \in Object /\ state[o] # "absent"
  BY ObjectOfTask DEF Forget, At, Known
<1>2. CASE state[o] = "deleted"
  BY <1>2 DEF Forget, lifeVars
<1>3. CASE state[o] # "deleted" /\ task[w].seen \notin Held
  BY <1>1, <1>3 DEF Forget, Remove, LifeNext
<1>4. CASE state[o] # "deleted" /\ task[w].seen \in Held
  <2>1. state[o] \in Held
    BY <1>1, <1>4 DEF Forget, At, ServiceInv, TasksAreSound, Sound, Settled
  <2>2. stores[o] = 1 /\ deletes[o] = 0
    BY <1>1, <2>1 DEF ServiceInv, LedgerAgrees, Booked
  <2>3. Remove(o)
    BY <1>1, <1>4, <2>2 DEF Forget, Remove
  <2>4. QED
    BY <1>1, <2>3 DEF LifeNext
<1>5. QED
  BY <1>2, <1>3, <1>4

LEMMA PromoteRefines ==
  ASSUME ServiceInv, NEW w \in Worker, Promote(w) PROVE [LifeNext]_lifeVars
BY DEF ServiceInv, TypeOK, LifeTypeOK, Promote, ledger, LifeNext, Shelve, lifeVars, State, Held

\* Every step of the service is a step of the life cycle or leaves it alone.
LEMMA StepRefines == ServiceInv /\ [Next]_vars => [LifeNext]_lifeVars
<1> SUFFICES ASSUME ServiceInv, [Next]_vars PROVE [LifeNext]_lifeVars
  OBVIOUS
<1>1. ASSUME NEW w \in Request, StartCreate(w) \/ \E o \in Object : Start(w, o)
      PROVE  UNCHANGED lifeVars
  BY <1>1 DEF StartCreate, Start, StartComplete, StartRefresh, StartDelete, StartTrash,
              StartRestore, StartVersion, StartPromote, Load
<1>2. ASSUME NEW w \in Cron, Select(w) PROVE UNCHANGED lifeVars
  BY <1>2 DEF Select
<1>3. ASSUME NEW w \in Worker, Continue(w) PROVE [LifeNext]_lifeVars
  <2>1. CASE \/ NextStale(w) \/ EraseStale(w) \/ RefuseCreate(w) \/ Presign(w)
             \/ CheckPiece(w) \/ Sweep(w) \/ Erase(w) \/ LoadCurrent(w)
    BY <2>1 DEF NextStale, EraseStale, RefuseCreate, Presign, CheckPiece, Sweep, Erase,
                LoadCurrent
  <2>2. CASE FailStale(w)
    <3>1. task[w].obj \in Object
      BY <2>2, ObjectOfTask DEF FailStale, At
    <3>2. QED
      BY <2>2, <3>1 DEF FailStale, ledger, LifeNext, Release, lifeVars
  <2>3. CASE Insert(w)
    BY <2>3 DEF Insert, LifeNext
  <2>4. CASE Store(w)
    <3>1. task[w].obj \in Object
      BY <2>4, ObjectOfTask DEF Store, At
    <3>2. QED
      BY <2>4, <3>1 DEF Store, LifeNext
  <2>5. CASE Forget(w)
    BY <2>5, ForgetRefines
  <2>6. CASE Trash(w) \/ Restore(w) \/ Version(w)
    BY <2>6, MoveStepRefines DEF Trash, Restore, Version, Held
  <2>7. CASE Promote(w)
    BY <2>7, PromoteRefines
  <2>8. QED
    BY <1>3, <2>1, <2>2, <2>3, <2>4, <2>5, <2>6, <2>7 DEF Continue
<1>4. ASSUME NEW w \in Worker, Abort(w) PROVE UNCHANGED lifeVars
  BY <1>4 DEF Abort
<1>5. CASE Environment
  BY <1>5 DEF Environment, UrlExpires, Age, Deadline, Put
<1>6. CASE UNCHANGED vars
  BY <1>6 DEF vars, lifeVars
<1>7. QED
  BY <1>1, <1>2, <1>3, <1>4, <1>5, <1>6 DEF Next

-----------------------------------------------------------------------------
(* Deadlines and the storage                                                  *)

Rest == purgeAfter \in [Object -> {"null", "ahead", "past"}] /\ DeadlineIffShelved

LEMMA MoveKeepsDeadlines ==
  ASSUME ServiceInv, NEW o \in Object, NEW from, NEW to \in State,
         NEW deadline \in {"null", "ahead"}, to \in Shelf <=> deadline = "ahead",
         Move(o, from, to, deadline)
  PROVE  Rest'
BY DEF ServiceInv, TypeOK, LifeTypeOK, Move, Rest, DeadlineIffShelved

LEMMA PromoteKeepsDeadlines ==
  ASSUME ServiceInv, NEW w \in Worker, Promote(w) PROVE Rest'
<1>1. task[w].obj \in Object /\ task[w].cur \in Object
  BY ObjectOfTask DEF Promote, At, ServiceInv, TasksAreSound, Sound
<1>2. QED
  BY <1>1 DEF Promote, ServiceInv, TypeOK, LifeTypeOK, Rest, DeadlineIffShelved, Shelf

LEMMA DeadlineStep == ServiceInv /\ [Next]_vars => Rest'
<1> SUFFICES ASSUME ServiceInv, [Next]_vars PROVE Rest'
  OBVIOUS
<1> USE DEF Rest, ServiceInv, TypeOK, LifeTypeOK, DeadlineIffShelved, Shelf
<1>0. CASE UNCHANGED <<state, purgeAfter>>
  BY <1>0
<1>1. ASSUME NEW w \in Request, StartCreate(w) \/ \E o \in Object : Start(w, o)
      PROVE  UNCHANGED <<state, purgeAfter>>
  BY <1>1 DEF StartCreate, Start, StartComplete, StartRefresh, StartDelete, StartTrash,
              StartRestore, StartVersion, StartPromote, Load, lifeVars
<1>2. ASSUME NEW w \in Cron, Select(w) PROVE UNCHANGED <<state, purgeAfter>>
  BY <1>2 DEF Select, lifeVars
<1>3. ASSUME NEW w \in Worker, Continue(w) PROVE Rest'
  <2>1. CASE \/ NextStale(w) \/ EraseStale(w) \/ RefuseCreate(w) \/ Presign(w)
             \/ CheckPiece(w) \/ Sweep(w) \/ Erase(w) \/ LoadCurrent(w)
    <3>1. UNCHANGED <<state, purgeAfter>>
      BY <2>1 DEF NextStale, EraseStale, RefuseCreate, Presign, CheckPiece, Sweep, Erase,
                  LoadCurrent, lifeVars
    <3>2. QED
      BY <3>1
  <2>2. CASE FailStale(w)
    BY <2>2 DEF FailStale
  <2>3. CASE Insert(w)
    BY <2>3 DEF Insert, Reserve
  <2>4. CASE Store(w)
    BY <2>4 DEF Store, Book, lifeVars
  <2>5. CASE Forget(w)
    BY <2>5 DEF Forget, lifeVars
  <2>6. CASE Trash(w) \/ Restore(w) \/ Version(w)
    <3>1. task[w].obj \in Object
      BY <2>6, ObjectOfTask DEF Trash, Restore, Version, MoveStep, At
    <3>2. QED
      BY <2>6, <3>1, MoveKeepsDeadlines
      DEF Trash, Restore, Version, MoveStep, State, Held
  <2>7. CASE Promote(w)
    BY <2>7, PromoteKeepsDeadlines
  <2>8. QED
    BY <1>3, <2>1, <2>2, <2>3, <2>4, <2>5, <2>6, <2>7 DEF Continue
<1>4. ASSUME NEW w \in Worker, Abort(w) PROVE UNCHANGED <<state, purgeAfter>>
  BY <1>4 DEF Abort, lifeVars
<1>5. CASE Environment
  BY <1>5 DEF Environment, UrlExpires, Age, Deadline, Put, lifeVars
<1>6. CASE UNCHANGED vars
  BY <1>6 DEF vars
<1>7. QED
  BY <1>0, <1>1, <1>2, <1>3, <1>4, <1>5, <1>6 DEF Next

StorageType == aged \subseteq Object /\ blob \subseteq Object \X Piece /\ urls \subseteq Object

LEMMA StorageStep == ServiceInv /\ [Next]_vars => StorageType'
<1> SUFFICES ASSUME ServiceInv, [Next]_vars PROVE StorageType'
  OBVIOUS
<1> USE DEF StorageType, ServiceInv, TypeOK
<1>1. ASSUME NEW w \in Request, StartCreate(w) \/ \E o \in Object : Start(w, o)
      PROVE  UNCHANGED <<aged, blob, urls>>
  BY <1>1 DEF StartCreate, Start, StartComplete, StartRefresh, StartDelete, StartTrash,
              StartRestore, StartVersion, StartPromote, Load
<1>2. ASSUME NEW w \in Cron, Select(w) PROVE UNCHANGED <<aged, blob, urls>>
  BY <1>2 DEF Select
<1>3. ASSUME NEW w \in Worker, Continue(w) PROVE StorageType'
  <2>1. CASE \/ NextStale(w) \/ FailStale(w) \/ Insert(w) \/ RefuseCreate(w)
             \/ CheckPiece(w) \/ Store(w) \/ Sweep(w) \/ Forget(w)
             \/ Trash(w) \/ Restore(w) \/ Version(w) \/ LoadCurrent(w) \/ Promote(w)
    <3>1. UNCHANGED <<aged, blob, urls>>
      BY <2>1 DEF NextStale, FailStale, Insert, RefuseCreate, CheckPiece, Store, Sweep,
                  Forget, Trash, Restore, Version, MoveStep, LoadCurrent, Promote
    <3>2. QED
      BY <3>1
  <2>2. CASE EraseStale(w) \/ Erase(w)
    BY <2>2 DEF EraseStale, Erase
  <2>3. CASE Presign(w)
    BY <2>3, ObjectOfTask DEF Presign, At
  <2>4. QED
    BY <1>3, <2>1, <2>2, <2>3 DEF Continue
<1>4. ASSUME NEW w \in Worker, Abort(w) PROVE UNCHANGED <<aged, blob, urls>>
  BY <1>4 DEF Abort
<1>5. CASE Environment
  BY <1>5 DEF Environment, UrlExpires, Age, Deadline, Put
<1>6. CASE UNCHANGED vars
  BY <1>6 DEF vars
<1>7. QED
  BY <1>1, <1>2, <1>3, <1>4, <1>5, <1>6 DEF Next

-----------------------------------------------------------------------------
(* The tasks                                                                  *)

TasksHold == task \in [Worker -> Task] /\ TasksAreSound

\* Worker w starts on an object that has a row.
LEMMA OnKeepsTasks ==
  ASSUME ServiceInv, [LifeNext]_lifeVars, NEW w \in Worker, NEW o \in Object,
         NEW step \in Step, NEW c \in Object \cup {None}, NEW seen \in State,
         NEW queue \in SUBSET Object,
         Known(o), \A q \in queue : Known(q),
         step = "promote" => c \in Object,
         step = "erase" => (seen \in Held => Settled(o)) /\ \A q \in queue : Settled(q),
         step \notin {"idle", "sweep", "release"},
         Go(w, On(step, o, c, seen, queue))
  PROVE  TasksHold'
<1>1. /\ task' = [task EXCEPT ![w] = On(step, o, c, seen, queue)]
      /\ task'[w] = On(step, o, c, seen, queue)
  BY DEF Go, ServiceInv, TypeOK
<1>2. On(step, o, c, seen, queue) \in Task
  BY DEF On, Task
<1>3. \A x \in Object : (Settled(x) => Settled(x)') /\ (Known(x) => Known(x)')
  BY SettledStays DEF ServiceInv, TypeOK
<1>4. Sound(task[w])'
  BY <1>1, <1>3 DEF Sound, On
<1>5. QED
  BY <1>1, <1>2, <1>4, GoKeepsTasks DEF TasksHold, ServiceInv

\* Worker w is between two rows.
LEMMA BetweenKeepsTasks ==
  ASSUME ServiceInv, [LifeNext]_lifeVars, NEW w \in Worker,
         NEW step \in {"release", "sweep"}, NEW queue \in SUBSET Object,
         \A q \in queue : Known(q),
         step = "sweep" => \A q \in queue : Settled(q),
         Go(w, Between(step, queue))
  PROVE  TasksHold'
<1>1. /\ task' = [task EXCEPT ![w] = Between(step, queue)]
      /\ task'[w] = Between(step, queue)
  BY DEF Go, ServiceInv, TypeOK
<1>2. Between(step, queue) \in Task
  BY DEF Between, Task, Step, State
<1>3. \A x \in Object : (Settled(x) => Settled(x)') /\ (Known(x) => Known(x)')
  BY SettledStays DEF ServiceInv, TypeOK
<1>4. Sound(task[w])'
  BY <1>1, <1>3 DEF Sound, Between
<1>5. QED
  BY <1>1, <1>2, <1>4, GoKeepsTasks DEF TasksHold, ServiceInv

LEMMA LoadKeepsTasks ==
  ASSUME ServiceInv, [LifeNext]_lifeVars, NEW w \in Worker, NEW o \in Object,
         NEW step \in Step \ {"idle", "promote", "sweep", "release"},
         NEW accepted, "absent" \notin accepted, Load(w, o, step, accepted)
  PROVE  TasksHold'
<1>1. state[o] \in State /\ Known(o) /\ (state[o] \in Held => Settled(o))
  BY DEF ServiceInv, TypeOK, LifeTypeOK, Load, Known, Settled
<1>2. QED
  BY <1>1, OnKeepsTasks DEF Load

LEMMA StartKeepsTasks ==
  ASSUME ServiceInv, [LifeNext]_lifeVars, NEW w \in Worker, NEW o \in Object, Start(w, o)
  PROVE  TasksHold'
<1>1. PICK step \in {"head", "presign", "erase", "trash", "restore", "version", "loadCurrent"},
           accepted \in SUBSET (State \ {"absent"}) : Load(w, o, step, accepted)
  BY DEF Start, StartComplete, StartRefresh, StartDelete, StartTrash, StartRestore,
         StartVersion, StartPromote, State, Held
<1>2. step \in Step \ {"idle", "promote", "sweep", "release"} /\ "absent" \notin accepted
  BY DEF Step
<1>3. QED
  BY <1>1, <1>2, LoadKeepsTasks

\* Worker w keeps its object and crosses off one piece.
LEMMA NarrowKeepsTasks ==
  ASSUME ServiceInv, [LifeNext]_lifeVars, NEW w \in Worker,
         NEW p \in Piece, Go(w, [task[w] EXCEPT !.todo = @ \ {p}])
  PROVE  TasksHold'
<1> DEFINE t == [task[w] EXCEPT !.todo = @ \ {p}]
<1>1. task' = [task EXCEPT ![w] = t] /\ task'[w] = t
  BY DEF Go, ServiceInv, TypeOK
<1>2. t \in Task
  BY DEF ServiceInv, TypeOK, Task
<1>3. /\ t.at = task[w].at /\ t.obj = task[w].obj /\ t.cur = task[w].cur
      /\ t.seen = task[w].seen /\ t.queue = task[w].queue
      /\ task[w].queue \subseteq Object
  BY DEF ServiceInv, TypeOK, Task
<1>4. \A x \in Object : (Settled(x) => Settled(x)') /\ (Known(x) => Known(x)')
  BY SettledStays DEF ServiceInv, TypeOK
<1>5. Sound(task[w])
  BY DEF ServiceInv, TasksAreSound
<1>6. Sound(task[w])'
  BY <1>1, <1>3, <1>4, <1>5 DEF Sound
<1>7. QED
  BY <1>1, <1>2, <1>6, GoKeepsTasks DEF TasksHold, ServiceInv

LEMMA ContinueKeepsTasks ==
  ASSUME ServiceInv, [LifeNext]_lifeVars, NEW w \in Worker, Continue(w)
  PROVE  TasksHold'
<1> DEFINE t == task[w]
<1>1. t \in Task /\ Sound(t) /\ t.queue \subseteq Object /\ t.todo \subseteq Piece
  BY DEF ServiceInv, TypeOK, TasksAreSound, Task
<1>2. {"relErase", "presign", "erase", "promote"} \subseteq Step
      /\ {"uploading", "trashed", "version"} \subseteq State
  BY DEF Step, State, Held
<1>3. CASE Return(w)
  BY <1>3, ReturnKeepsTasks DEF TasksHold, ServiceInv
<1>4. CASE NextStale(w)
  <2>1. PICK o \in t.queue : Go(w, On("relErase", o, None, "uploading", t.queue \ {o}))
    BY <1>4 DEF NextStale
  <2>2. o \in Object /\ Known(o) /\ \A q \in t.queue \ {o} : Known(q)
    BY <1>1 DEF Sound
  <2>3. QED
    BY <1>1, <1>2, <2>1, <2>2, OnKeepsTasks
<1>5. CASE EraseStale(w) \/ Erase(w)
  BY <1>1, <1>5, NarrowKeepsTasks DEF EraseStale, Erase
<1>6. CASE FailStale(w)
  BY <1>1, <1>6, BetweenKeepsTasks DEF FailStale, Sound
<1>7. CASE Insert(w)
  <2>1. PICK o \in Object : Reserve(o) /\ Go(w, On("presign", o, None, "uploading", {}))
    BY <1>7 DEF Insert
  <2>2. /\ task' = [task EXCEPT ![w] = On("presign", o, None, "uploading", {})]
        /\ task'[w] = On("presign", o, None, "uploading", {})
    BY <2>1 DEF Go, ServiceInv, TypeOK
  <2>3. On("presign", o, None, "uploading", {}) \in Task
    BY <1>2 DEF On, Task
  <2>4. Sound(task[w])'
    BY <2>1, <2>2 DEF Sound, On, Known, Reserve, ServiceInv, TypeOK, LifeTypeOK
  <2>5. QED
    BY <2>2, <2>3, <2>4, GoKeepsTasks DEF TasksHold, ServiceInv
<1>8. CASE CheckPiece(w)
  <2>1. PICK p \in t.todo : Go(w, [t EXCEPT !.todo = @ \ {p}]) \/ Go(w, Idle)
    BY <1>8 DEF CheckPiece
  <2>2. QED
    BY <1>1, <1>3, <2>1, NarrowKeepsTasks DEF Return
<1>9. CASE Sweep(w)
  <2>1. PICK o \in t.queue : Go(w, On("erase", o, None, "trashed", t.queue \ {o}))
    BY <1>9 DEF Sweep
  <2>2. \A q \in t.queue : q \in Object /\ Known(q) /\ Settled(q)
    BY <1>1, <1>9 DEF Sound, Sweep, At
  <2>3. /\ o \in Object /\ Known(o) /\ Settled(o)
        /\ t.queue \ {o} \in SUBSET Object
        /\ \A q \in t.queue \ {o} : Known(q) /\ Settled(q)
    BY <2>2
  <2>4. "erase" \in Step /\ "trashed" \in State /\ None \in Object \cup {None}
    BY <1>2
  <2>5. QED
    BY <2>1, <2>3, <2>4, OnKeepsTasks
<1>10. CASE Forget(w)
  <2>1. CASE t.queue = {}
    BY <1>3, <1>10, <2>1 DEF Forget, AfterPurge
  <2>2. CASE t.queue # {}
    BY <1>1, <1>10, <2>2, BetweenKeepsTasks DEF Forget, AfterPurge, Sound, At
  <2>3. QED
    BY <2>1, <2>2
<1>11. CASE LoadCurrent(w)
  <2>1. CASE \E c \in Object \ {t.obj} : Go(w, On("promote", t.obj, c, "version", {}))
    BY <1>1, <1>2, <1>11, <2>1, OnKeepsTasks DEF LoadCurrent, Sound, At
  <2>2. QED
    BY <1>3, <1>11, <2>1 DEF LoadCurrent
<1>12. CASE \/ RefuseCreate(w) \/ Presign(w) \/ Store(w)
            \/ Trash(w) \/ Restore(w) \/ Version(w) \/ Promote(w)
  BY <1>3, <1>12 DEF RefuseCreate, Presign, Store, Trash, Restore, Version, MoveStep, Promote
<1>13. QED
  BY <1>4, <1>5, <1>6, <1>7, <1>8, <1>9, <1>10, <1>11, <1>12 DEF Continue

LEMMA TaskStep == ServiceInv /\ [Next]_vars => TasksHold'
<1> SUFFICES ASSUME ServiceInv, [Next]_vars PROVE TasksHold'
  OBVIOUS
<1>0. [LifeNext]_lifeVars
  BY StepRefines
<1>1. ASSUME NEW w \in Request, StartCreate(w) PROVE TasksHold'
  <2> DEFINE stale == {o \in aged : state[o] = "uploading"}
  <2>1. stale \in SUBSET Object /\ (\A q \in stale : Known(q)) /\ w \in Worker
    BY DEF ServiceInv, TypeOK, Known, Worker
  <2>2. QED
    BY <1>0, <1>1, <2>1, BetweenKeepsTasks DEF StartCreate
<1>2. ASSUME NEW w \in Request, NEW o \in Object, Start(w, o) PROVE TasksHold'
  BY <1>0, <1>2, StartKeepsTasks DEF Worker
<1>3. ASSUME NEW w \in Cron, Select(w) PROVE TasksHold'
  <2> DEFINE due == {o \in Object : state[o] \in Shelf /\ purgeAfter[o] = "past"}
  <2>1. /\ due \in SUBSET Object /\ w \in Worker
        /\ \A q \in due : Known(q) /\ Settled(q)
    BY DEF Known, Settled, Shelf, Held, Worker
  <2>2. Go(w, Between("sweep", due))
    BY <1>3 DEF Select
  <2>3. QED
    BY <1>0, <2>1, <2>2, BetweenKeepsTasks
<1>4. ASSUME NEW w \in Worker, Continue(w) PROVE TasksHold'
  BY <1>0, <1>4, ContinueKeepsTasks
<1>5. ASSUME NEW w \in Worker, Abort(w) PROVE TasksHold'
  BY <1>0, <1>5, ReturnKeepsTasks DEF Abort, TasksHold, ServiceInv
<1>6. CASE Environment \/ UNCHANGED vars
  <2>1. UNCHANGED <<state, task>>
    BY <1>6 DEF Environment, UrlExpires, Age, Deadline, Put, vars, lifeVars
  <2>2. QED
    BY <2>1 DEF TasksHold, TasksAreSound, Sound, Known, Settled, ServiceInv, TypeOK
<1>7. QED
  BY <1>1, <1>2, <1>3, <1>4, <1>5, <1>6 DEF Next

-----------------------------------------------------------------------------
(* The theorems                                                               *)

LEMMA ServiceStep == ServiceInv /\ [Next]_vars => ServiceInv'
<1> SUFFICES ASSUME ServiceInv, [Next]_vars PROVE ServiceInv'
  OBVIOUS
<1>1. (LifeTypeOK /\ LedgerAgrees)'
  BY StepRefines, LifeInvStep DEF LifeInv, ServiceInv, TypeOK
<1>2. QED
  BY <1>1, DeadlineStep, StorageStep, TaskStep
  DEF Rest, StorageType, TasksHold, ServiceInv, TypeOK

LEMMA ServiceInvariant == Spec => []ServiceInv
BY ServiceInit, ServiceStep, PTL DEF Spec

\* Every variable of the service keeps its type, whatever hangs or dies.
THEOREM TypeCorrect == Spec => []TypeOK
<1>1. ServiceInv => TypeOK
  BY DEF ServiceInv
<1>2. QED
  BY ServiceInvariant, <1>1, PTL

\* A held object has exactly one 'store' booking and no 'delete' booking, an
\* unfinished one has none, and no object is ever written off twice or without
\* having been booked: completeObject, purgeObject, releaseStaleUploads.
THEOREM LedgerCorrect == Spec => []LedgerAgrees
<1>1. ServiceInv => LedgerAgrees
  BY DEF ServiceInv
<1>2. QED
  BY ServiceInvariant, <1>1, PTL

\* An object has a purge_after date exactly as long as it is in the trash or a
\* version, under every race of trash, restore, keepAsVersion and promoteVersion.
THEOREM DeadlinesCorrect == Spec => []DeadlineIffShelved
<1>1. ServiceInv => DeadlineIffShelved
  BY DEF ServiceInv
<1>2. QED
  BY ServiceInvariant, <1>1, PTL

\* The service with its requests, storage calls and crashes implements the life
\* cycle and ledger of ObjectLife.
THEOREM Refinement == Spec => ImplementsLife
<1>1. Init => LifeInit
  BY DEF Init
<1>2. QED
  BY <1>1, StepRefines, ServiceInvariant, PTL DEF Spec, ImplementsLife, LifeSpec
-----------------------------------------------------------------------------
(* The bytes of held objects, as long as no worker dies and no upload hangs   *)
(* for 24 hours.  A piece that was there when completeObject looked lies in   *)
(* the storage until a purge of its object is under way, and such a purge     *)
(* ends with the row 'deleted', which is final.                               *)

Lies(o, p) == <<o, p>> \in blob \/ Erasing(o) \/ state[o] = "deleted"

\* The release of uploads that hang has nothing to do.
Calm(t) == t.at # "relErase" /\ (t.at = "release" => t.queue = {})
NothingHangs == aged = {} /\ \A w \in Worker : Calm(task[w])

\* What completeObject has found is still there.
CheckedPiecesLie ==
  \A w \in Worker : At(w, "head") => \A p \in Piece \ task[w].todo : Lies(task[w].obj, p)

HeldPiecesLie == \A o \in Object, p \in Piece : state[o] \in Held => Lies(o, p)

BytesInv == NothingHangs /\ CheckedPiecesLie /\ HeldPiecesLie

LEMMA BytesInit == Init => BytesInv
BY DEF Init, LifeInit, BytesInv, NothingHangs, Calm, CheckedPiecesLie, HeldPiecesLie, At, Idle,
       Between, Held

\* The record of a worker that does something else now, and of all the others.
LEMMA GoAlone ==
  ASSUME TypeOK, NEW w \in Worker, NEW t, Go(w, t)
  PROVE  task'[w] = t /\ \A v \in Worker : v # w => task'[v] = task[v]
BY DEF Go, TypeOK

\* Deleted is final.
LEMMA DeletedStays ==
  ASSUME ServiceInv, [Next]_vars, NEW o \in Object, state[o] = "deleted"
  PROVE  state'[o] = "deleted"
BY StepRefines DEF ServiceInv, TypeOK, LifeTypeOK, LifeNext, lifeVars, Reserve, Book,
   Release, Remove, Shelve, Held

\* What each step leaves alone of the tasks and the storage, and what it does to them.
LEMMA ErasingStays ==
  ASSUME ServiceInv, [Next]_vars, ~MayAbort, NEW o \in Object, Erasing(o)
  PROVE  Erasing(o)' \/ state'[o] = "deleted"
<1>1. PICK e \in Worker : task[e].at = "erase" /\ task[e].obj = o
  BY DEF Erasing, At
<1>2. CASE task'[e] = task[e]
  BY <1>1, <1>2 DEF Erasing, At
<1>3. CASE task'[e] # task[e]
  <2>1. ASSUME NEW w \in Worker, NEW t, Go(w, t) PROVE w = e
    BY <1>3, <2>1, GoAlone DEF ServiceInv
  <2>2. ASSUME NEW w \in Request, StartCreate(w) \/ \E x \in Object : Start(w, x)
        PROVE  FALSE
    <3>1. w \in Worker /\ At(w, "idle") /\ \E t : Go(w, t)
      BY <2>2 DEF StartCreate, Start, StartComplete, StartRefresh, StartDelete, StartTrash,
                  StartRestore, StartVersion, StartPromote, Load, Worker
    <3>2. QED
      BY <1>1, <2>1, <3>1 DEF At
  <2>3. ASSUME NEW w \in Cron, Select(w) PROVE FALSE
    <3>1. w \in Worker /\ At(w, "idle") /\ \E t : Go(w, t)
      BY <2>3 DEF Select, Worker
    <3>2. QED
      BY <1>1, <2>1, <3>1 DEF At
  <2>4. ASSUME NEW w \in Worker, Continue(w) PROVE w = e /\ (Erase(w) \/ Forget(w))
    <3>1. \E t : Go(w, t)
      BY <2>4 DEF Continue, NextStale, EraseStale, FailStale, Insert, RefuseCreate, Presign,
                  CheckPiece, Store, Sweep, Erase, Forget, AfterPurge, Trash, Restore,
                  Version, MoveStep, LoadCurrent, Promote, Return
    <3>2. w = e /\ task[w].at = "erase"
      BY <1>1, <2>1, <3>1
    <3>3. QED
      BY <2>4, <3>2 DEF Continue, NextStale, EraseStale, FailStale, Insert, RefuseCreate,
                  Presign, CheckPiece, Store, Sweep, Trash, Restore, Version, MoveStep,
                  LoadCurrent, Promote, At
  <2>5. CASE Erase(e)
    <3>1. PICK p \in task[e].todo : Go(e, [task[e] EXCEPT !.todo = @ \ {p}])
      BY <2>5 DEF Erase
    <3>2. task'[e] = [task[e] EXCEPT !.todo = @ \ {p}] /\ task[e] \in Task
      BY <3>1, GoAlone DEF ServiceInv, TypeOK
    <3>3. task'[e].at = "erase" /\ task'[e].obj = o
      BY <1>1, <3>2 DEF Task
    <3>4. QED
      BY <3>3 DEF Erasing, At
  <2>6. CASE Forget(e)
    <3>1. state'[o] = "deleted"
      BY <1>1, <2>6 DEF Forget, lifeVars, ServiceInv, TypeOK, LifeTypeOK
    <3>2. QED
      BY <3>1
  <2>7. task' # task
    BY <1>3
  <2>8. QED
    BY <2>2, <2>3, <2>4, <2>5, <2>6, <2>7
    DEF Next, Abort, Environment, UrlExpires, Age, Deadline, Put, vars
<1>4. QED
  BY <1>2, <1>3

\* Only a purge of the object takes a piece out of the storage.
LEMMA PieceStays ==
  ASSUME ServiceInv, NothingHangs, [Next]_vars, NEW o \in Object, NEW p \in Piece,
         <<o, p>> \in blob
  PROVE  <<o, p>> \in blob' \/ Erasing(o)
<1>1. ASSUME NEW w \in Request, StartCreate(w) \/ \E x \in Object : Start(w, x)
      PROVE  blob' = blob
  BY <1>1 DEF StartCreate, Start, StartComplete, StartRefresh, StartDelete, StartTrash,
              StartRestore, StartVersion, StartPromote, Load
<1>2. ASSUME NEW w \in Worker, Continue(w), ~Erase(w) PROVE blob' = blob
  BY <1>2 DEF Continue, NextStale, EraseStale, NothingHangs, Calm, At, FailStale, Insert, RefuseCreate,
              Presign, CheckPiece, Store, Sweep, Forget, Trash, Restore, Version, MoveStep,
              LoadCurrent, Promote
<1>3. ASSUME NEW w \in Worker, Erase(w) PROVE <<o, p>> \in blob' \/ Erasing(o)
  <2>1. PICK q \in task[w].todo : blob' = blob \ {<<task[w].obj, q>>}
    BY <1>3 DEF Erase
  <2>2. CASE task[w].obj = o
    BY <1>3, <2>2 DEF Erase, Erasing
  <2>3. CASE task[w].obj # o
    BY <2>1, <2>3
  <2>4. QED
    BY <2>2, <2>3
<1>4. QED
  BY <1>1, <1>2, <1>3
  DEF Next, Select, Abort, Environment, UrlExpires, Age, Deadline, Put, vars

LEMMA LiesStays ==
  ASSUME ServiceInv, NothingHangs, [Next]_vars, ~MayAbort, NEW o \in Object, NEW p \in Piece,
         Lies(o, p)
  PROVE  Lies(o, p)'
BY DeletedStays, ErasingStays, PieceStays DEF Lies

\* No upload gets old, so the release of stale uploads finds none.
LEMMA NothingHangsStep ==
  ASSUME ServiceInv, NothingHangs, [Next]_vars, ~MayStall PROVE NothingHangs'
<1>1. aged' = {}
  BY DEF NothingHangs, Next, StartCreate, Start, StartComplete, StartRefresh, StartDelete,
         StartTrash, StartRestore, StartVersion, StartPromote, Load, Select, Continue,
         NextStale, EraseStale, FailStale, Insert, RefuseCreate, Presign, CheckPiece, Store,
         Sweep, Erase, Forget, Trash, Restore, Version, MoveStep, LoadCurrent, Promote, Abort,
         Environment, UrlExpires, Age, Deadline, Put, vars
<1>2. \A v \in Worker : Calm(task[v])
  BY DEF NothingHangs
<1>3. ASSUME NEW w \in Worker, NEW t, Go(w, t), Calm(t)
      PROVE  \A v \in Worker : Calm(task'[v])
  BY <1>2, <1>3, GoAlone DEF ServiceInv
<1>4. Calm(Idle)
  BY DEF Calm, Idle, Between
<1>5. ASSUME NEW w \in Request, StartCreate(w) PROVE \A v \in Worker : Calm(task'[v])
  <2>1. Go(w, Between("release", {})) /\ w \in Worker
    BY <1>5 DEF StartCreate, NothingHangs, Worker
  <2>2. Calm(Between("release", {}))
    BY DEF Calm, Between
  <2>3. QED
    BY <1>3, <2>1, <2>2
<1>6. ASSUME NEW w \in Request, NEW o \in Object, Start(w, o)
      PROVE  \A v \in Worker : Calm(task'[v])
  <2>1. PICK step \in {"head", "presign", "erase", "trash", "restore", "version", "loadCurrent"} :
          Go(w, On(step, o, None, state[o], {}))
    BY <1>6 DEF Start, StartComplete, StartRefresh, StartDelete, StartTrash, StartRestore,
                StartVersion, StartPromote, Load
  <2>2. Calm(On(step, o, None, state[o], {})) /\ w \in Worker
    BY DEF Calm, On, Worker
  <2>3. QED
    BY <1>3, <2>1, <2>2
<1>7. ASSUME NEW w \in Cron, Select(w) PROVE \A v \in Worker : Calm(task'[v])
  <2>1. PICK due : Go(w, Between("sweep", due))
    BY <1>7 DEF Select
  <2>2. Calm(Between("sweep", due)) /\ w \in Worker
    BY DEF Calm, Between, Worker
  <2>3. QED
    BY <1>3, <2>1, <2>2
<1>8. ASSUME NEW w \in Worker, Continue(w) PROVE \A v \in Worker : Calm(task'[v])
  <2>1. task[w] \in Task /\ Calm(task[w])
    BY <1>2 DEF ServiceInv, TypeOK
  <2>2. ~NextStale(w) /\ ~EraseStale(w) /\ ~FailStale(w)
    BY <1>8, <2>1 DEF NextStale, EraseStale, FailStale, At, Calm
  <2>3. CASE Insert(w) \/ Sweep(w) \/ LoadCurrent(w)
    <3>1. ASSUME NEW step \in {"presign", "erase", "promote"}, NEW o, NEW c, NEW seen, NEW q,
                 Go(w, On(step, o, c, seen, q))
          PROVE  \A v \in Worker : Calm(task'[v])
      <4>1. Calm(On(step, o, c, seen, q))
        BY DEF Calm, On
      <4>2. QED
        BY <1>3, <3>1, <4>1
    <3>2. QED
      BY <1>3, <1>4, <2>3, <3>1 DEF Insert, Sweep, LoadCurrent, Return
  <2>4. CASE CheckPiece(w) \/ Erase(w)
    <3>1. PICK p : Go(w, [task[w] EXCEPT !.todo = @ \ {p}]) \/ Go(w, Idle)
      BY <2>4 DEF CheckPiece, Erase
    <3>2. Calm([task[w] EXCEPT !.todo = @ \ {p}])
      BY <2>1 DEF Task, Calm
    <3>3. QED
      BY <1>3, <1>4, <3>1, <3>2
  <2>5. CASE Forget(w)
    <3>1. Calm(Between("sweep", task[w].queue))
      BY DEF Calm, Between
    <3>2. QED
      BY <1>3, <1>4, <2>5, <3>1 DEF Forget, AfterPurge, Return
  <2>6. CASE \/ RefuseCreate(w) \/ Presign(w) \/ Store(w)
             \/ Trash(w) \/ Restore(w) \/ Version(w) \/ Promote(w)
    BY <1>3, <1>4, <2>6 DEF RefuseCreate, Presign, Store, Trash, Restore, Version, MoveStep,
                            Promote, Return
  <2>7. QED
    BY <1>8, <2>2, <2>3, <2>4, <2>5, <2>6 DEF Continue
<1>9. ASSUME NEW w \in Worker, Abort(w) PROVE \A v \in Worker : Calm(task'[v])
  BY <1>3, <1>4, <1>9 DEF Abort, Return
<1>10. ASSUME Environment \/ UNCHANGED vars PROVE \A v \in Worker : Calm(task'[v])
  <2>1. task' = task
    BY <1>10 DEF Environment, UrlExpires, Age, Deadline, Put, vars
  <2>2. QED
    BY <1>2, <2>1
<1>11. \A v \in Worker : Calm(task'[v])
  BY <1>5, <1>6, <1>7, <1>8, <1>9, <1>10 DEF Next
<1>12. QED
  BY <1>1, <1>11 DEF NothingHangs

\* A worker at the check of pieces was there before, with at most one piece more to
\* look at, and that one it has found; or it has just begun.
LEMMA HeadBefore ==
  ASSUME ServiceInv, [Next]_vars, NEW w \in Worker, At(w, "head")'
  PROVE  \/ task'[w].todo = Piece
         \/ /\ At(w, "head") /\ task'[w].obj = task[w].obj
            /\ \A p \in Piece \ task'[w].todo : p \in task[w].todo => <<task[w].obj, p>> \in blob
<1> USE DEF At
<1>1. CASE task'[w] = task[w]
  BY <1>1
<1>2. CASE task'[w] # task[w]
  <2>1. ASSUME NEW v \in Worker, NEW t, Go(v, t) PROVE v = w /\ task'[w] = t
    BY <1>2, <2>1, GoAlone DEF ServiceInv
  <2>2. ASSUME NEW v \in Request, StartCreate(v) PROVE FALSE
    <3>1. PICK q : Go(v, Between("release", q))
      BY <2>2 DEF StartCreate
    <3>2. QED
      BY <2>1, <3>1 DEF Between, Worker
  <2>3. ASSUME NEW v \in Request, NEW o \in Object, Start(v, o) PROVE task'[w].todo = Piece
    <3>1. PICK step : Go(v, On(step, o, None, state[o], {}))
      BY <2>3 DEF Start, StartComplete, StartRefresh, StartDelete, StartTrash,
                  StartRestore, StartVersion, StartPromote, Load
    <3>2. QED
      BY <2>1, <3>1 DEF On, Worker
  <2>4. ASSUME NEW v \in Cron, Select(v) PROVE FALSE
    <3>1. PICK due : Go(v, Between("sweep", due))
      BY <2>4 DEF Select
    <3>2. QED
      BY <2>1, <3>1 DEF Between, Worker
  <2>5. ASSUME NEW v \in Worker, NEW step \in {"idle", "release", "sweep"}, NEW q,
               Go(v, Between(step, q))
        PROVE  FALSE
    BY <2>1, <2>5 DEF Between
  <2>6. ASSUME NEW v \in Worker, Return(v) PROVE FALSE
    BY <2>5, <2>6 DEF Return, Idle
  <2>7. ASSUME NEW v \in Worker, Continue(v)
        PROVE  /\ At(w, "head") /\ task'[w].obj = task[w].obj
               /\ \A p \in Piece \ task'[w].todo :
                    p \in task[w].todo => <<task[w].obj, p>> \in blob
    <3>0. task[v] \in Task
      BY DEF ServiceInv, TypeOK
    <3>1. CASE CheckPiece(v)
      <4>1. PICK q \in task[v].todo :
              Go(v, IF q \in Present(v) THEN [task[v] EXCEPT !.todo = @ \ {q}] ELSE Idle)
        BY <3>1 DEF CheckPiece
      <4>2. q \in Present(v)
        BY <2>6, <4>1 DEF Return
      <4>3. v = w /\ task'[w] = [task[w] EXCEPT !.todo = @ \ {q}]
        BY <2>1, <4>1, <4>2
      <4>4. task'[w].obj = task[w].obj /\ task'[w].todo = task[w].todo \ {q}
        BY <3>0, <4>3 DEF Task
      <4>5. At(w, "head")
        BY <3>1, <4>3 DEF CheckPiece
      <4>6. QED
        BY <4>2, <4>3, <4>4, <4>5 DEF Present
    <3>2. CASE EraseStale(v) \/ Erase(v)
      <4>1. PICK q : Go(v, [task[v] EXCEPT !.todo = @ \ {q}])
        BY <3>2 DEF EraseStale, Erase
      <4>2. v = w /\ task'[w] = [task[v] EXCEPT !.todo = @ \ {q}]
        BY <2>1, <4>1
      <4>3. task'[w].at = task[v].at
        BY <3>0, <4>2 DEF Task
      <4>4. QED
        BY <3>2, <4>3 DEF EraseStale, Erase
    <3>3. CASE NextStale(v) \/ Insert(v) \/ Sweep(v) \/ LoadCurrent(v)
      <4>1. ASSUME NEW step \in {"relErase", "presign", "erase", "promote"},
                   NEW o, NEW c, NEW seen, NEW q, Go(v, On(step, o, c, seen, q))
            PROVE  FALSE
        BY <2>1, <4>1 DEF On
      <4>2. QED
        BY <2>6, <3>3, <4>1 DEF NextStale, Insert, Sweep, LoadCurrent
    <3>4. CASE FailStale(v) \/ Forget(v)
      BY <2>5, <2>6, <3>4 DEF FailStale, Forget, AfterPurge
    <3>5. CASE \/ RefuseCreate(v) \/ Presign(v) \/ Store(v)
               \/ Trash(v) \/ Restore(v) \/ Version(v) \/ Promote(v)
      BY <2>6, <3>5 DEF RefuseCreate, Presign, Store, Trash, Restore, Version, MoveStep,
                        Promote
    <3>6. QED
      BY <2>7, <3>1, <3>2, <3>3, <3>4, <3>5 DEF Continue
  <2>8. task' # task
    BY <1>2
  <2>9. QED
    BY <2>2, <2>3, <2>4, <2>6, <2>7, <2>8
    DEF Next, Abort, Environment, UrlExpires, Age, Deadline, Put, vars
<1>3. QED
  BY <1>1, <1>2

\* An object becomes held by completeObject alone, when no piece is left to check.
LEMMA HeldBefore ==
  ASSUME ServiceInv, [Next]_vars, NEW o \in Object, state'[o] \in Held
  PROVE  \/ state[o] \in Held
         \/ \E w \in Worker : At(w, "head") /\ task[w].todo = {} /\ task[w].obj = o
<1> USE DEF ServiceInv, TypeOK, LifeTypeOK, Held, State
<1>1. CASE state'[o] = state[o]
  BY <1>1
<1>2. ASSUME NEW w \in Worker, Continue(w), state'[o] # state[o]
      PROVE  \/ state[o] \in Held
             \/ At(w, "head") /\ task[w].todo = {} /\ task[w].obj = o
  <2>1. CASE Store(w)
    BY <1>2, <2>1 DEF Store, Book, lifeVars
  <2>2. CASE Insert(w)
    BY <1>2, <2>2 DEF Insert, Reserve
  <2>3. CASE FailStale(w) \/ Forget(w)
    BY <1>2, <2>3 DEF FailStale, Forget, lifeVars
  <2>4. CASE Trash(w) \/ Restore(w) \/ Version(w)
    BY <1>2, <2>4 DEF Trash, Restore, Version, MoveStep, Move
  <2>5. CASE Promote(w)
    BY <1>2, <2>5 DEF Promote
  <2>6. QED
    BY <1>2, <2>1, <2>2, <2>3, <2>4, <2>5
    DEF Continue, NextStale, EraseStale, RefuseCreate, Presign, CheckPiece, Sweep, Erase,
        LoadCurrent, lifeVars
<1>3. QED
  BY <1>1, <1>2
  DEF Next, StartCreate, Start, StartComplete, StartRefresh, StartDelete, StartTrash,
      StartRestore, StartVersion, StartPromote, Load, Select, Abort, Environment, UrlExpires,
      Age, Deadline, Put, vars, lifeVars

LEMMA BytesStep ==
  ASSUME ServiceInv, BytesInv, [Next]_vars, ~MayAbort, ~MayStall PROVE BytesInv'
<1>1. NothingHangs'
  BY NothingHangsStep DEF BytesInv
<1>2. \A o \in Object, p \in Piece : Lies(o, p) => Lies(o, p)'
  BY LiesStays DEF BytesInv
<1>3. ASSUME NEW w \in Worker, At(w, "head")', NEW p \in Piece \ task'[w].todo
      PROVE  Lies(task[w].obj, p)'
  <2>1. /\ At(w, "head") /\ task'[w].obj = task[w].obj
        /\ p \in task[w].todo => <<task[w].obj, p>> \in blob
    BY <1>3, HeadBefore
  <2>2. PICK o \in Object : o = task[w].obj
    BY <2>1, ObjectOfTask DEF At
  <2>3. Lies(o, p)
    BY <1>3, <2>1, <2>2 DEF BytesInv, CheckedPiecesLie, Lies
  <2>4. Lies(o, p)'
    BY <1>2, <2>3
  <2>5. QED
    BY <2>1, <2>2, <2>4
<1>4. ASSUME NEW o \in Object, NEW p \in Piece, state'[o] \in Held PROVE Lies(o, p)'
  BY <1>2, <1>4, HeldBefore DEF BytesInv, CheckedPiecesLie, HeldPiecesLie
<1>5. QED
  BY <1>1, <1>3, <1>4 DEF BytesInv, CheckedPiecesLie, HeldPiecesLie

\* Where no worker dies and no upload hangs for a day, a held object has all its
\* bytes unless its own purge is under way: completeObject marks it stored only after
\* it has seen every piece, and whatever trash, restore, promote, delete and the
\* maintenance job do at the same time, purgeObject ends with the row 'deleted'.
THEOREM BytesAreKept == ASSUME ~MayAbort, ~MayStall PROVE Spec => []HeldHasBytes
<1>1. BytesInv => HeldHasBytes
  BY DEF BytesInv, HeldPiecesLie, Lies, HeldHasBytes, Held
<1>2. ServiceInv /\ BytesInv /\ [Next]_vars => BytesInv'
  BY BytesStep
<1>3. QED
  BY BytesInit, <1>2, ServiceInvariant, <1>1, PTL DEF Spec

\* Under the same conditions an upload is not marked stored before all its pieces
\* have been seen, and none of them is gone by then: a delete or a purge of the same
\* object that takes pieces away in between is still under way and will end it.
THEOREM StoredIsComplete == ASSUME ~MayAbort, ~MayStall PROVE Spec => StoredWhenComplete
<1>1. ServiceInv /\ BytesInv /\ [Next]_vars => BytesInv'
  BY BytesStep
<1>2. ASSUME ServiceInv, BytesInv, [Next]_vars, NEW o \in Object,
             state[o] = "uploading", state'[o] = "stored"
      PROVE  Erasing(o) \/ \A p \in Piece : <<o, p>> \in blob
  BY <1>2, HeldBefore DEF BytesInv, CheckedPiecesLie, Lies, Held
<1>3. ServiceInv /\ BytesInv /\ [Next]_vars =>
        [\A o \in Object : state[o] = "uploading" /\ state'[o] = "stored" =>
           Erasing(o) \/ \A p \in Piece : <<o, p>> \in blob]_vars
  BY <1>2
<1>4. QED
  BY BytesInit, <1>1, ServiceInvariant, <1>3, PTL DEF Spec, StoredWhenComplete
=============================================================================

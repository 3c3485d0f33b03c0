-------------------------- MODULE VaultIndexProofs --------------------------
(***************************************************************************)
(* Why every row of vault_indexes has its blob, for any number of handlers *)
(* and versions, as long as an INSERT that reports an error did not        *)
(* commit.  The argument: a key is in the hands of one handler at a time.  *)
(* While its handler is before the INSERT nobody else can know it; the     *)
(* handler that takes it out of the table is the only one to purge it; and *)
(* no key comes back, because versions are counted up.                     *)
(***************************************************************************)
EXTENDS VaultIndex, TLAPS

\* A handler that has made a key and not inserted it, or has failed to.
Making(w) == task[w].at \in {"upload", "insert", "undo"}

\* The table never falls behind version v again.
Reached(v) == \E r \in rows : r.version >= v

\* What a handler's record says of the table and the storage.
OwnKey(w) ==
  /\ task[w].at \in {"upload", "insert", "undo", "clean", "purge", "fetch"} =>
       task[w].key \in Key
  /\ Making(w) => task[w].key.by = w /\ task[w].key \notin rows
  /\ task[w].at = "insert" => task[w].key \in blob
  /\ task[w].at \in {"clean", "purge"} => Reached(task[w].key.version)
  /\ task[w].at # "purge" => task[w].old = {}
  /\ \A k \in task[w].old : k \notin rows /\ Reached(k.version)

\* Nobody purges a key that its maker still holds.
Apart ==
  \A v, w \in Worker : Making(v) => task[v].key \notin task[w].old

KeyInv ==
  /\ TypeOK
  /\ EveryRowHasItsBlob
  /\ \A w \in Worker : OwnKey(w)
  /\ Apart

\* The fields of a step's new record, for the handler itself and for the others.
LEMMA TaskAfter ==
  ASSUME TypeOK, NEW w \in Worker, NEW t, Do(w, t)
  PROVE  /\ task'[w] = t
         /\ \A v \in Worker : v # w => task'[v] = task[v]
BY DEF TypeOK, Do

\* In the initial state no handler has a key.
LEMMA KeyInit == Init => KeyInv
BY DEF Init, KeyInv, TypeOK, EveryRowHasItsBlob, OwnKey, Apart, Making, Idle, Task

\* Every step keeps the invariant: one case per action; under it the handler that
\* moves, the other handlers and the keys that are about to be purged.
LEMMA KeyStep ==
  ASSUME KeyInv, [Next]_vars, ~MayLoseAnswer
  PROVE  KeyInv'
<1> USE DEF KeyInv, EveryRowHasItsBlob
<1> USE KeepAssumption, BoundAssumption, NoneAssumption
<1>1. CASE UNCHANGED vars
  BY <1>1 DEF vars, TypeOK, OwnKey, Apart, Making, Reached
<1>2. ASSUME NEW w \in Worker, Put(w)
      PROVE  KeyInv'
  <2>1. PICK base \in 0..(MaxVersion - 1) :
          /\ IsCurrent(base)
          /\ Do(w, [at |-> "upload", key |-> [version |-> base + 1, by |-> w], old |-> {}])
    BY <1>2 DEF Put
  <2> DEFINE k == [version |-> base + 1, by |-> w]
             t == [at |-> "upload", key |-> k, old |-> {}]
  <2>2. UNCHANGED <<rows, blob>>
    BY <1>2 DEF Put
  <2>3. k \in Key /\ t \in Task
    BY DEF Key, Task
  <2>4. task'[w] = t /\ \A v \in Worker : v # w => task'[v] = task[v]
    BY <2>1, TaskAfter
  <2>5. TypeOK'
    BY <2>1, <2>2, <2>3 DEF TypeOK, Do
  <2>6. \A r \in rows : r \in Key /\ r.version <= base
    BY <2>1 DEF IsCurrent, TypeOK
  <2>7. \A v \in Worker : k \notin task[v].old
    BY <2>6 DEF OwnKey, Reached, Key
  <2>8. OwnKey(w)'
    BY <2>2, <2>3, <2>4, <2>6 DEF OwnKey, Making, Reached
  <2>9. \A v \in Worker : v # w => OwnKey(v)'
    BY <2>2, <2>4 DEF OwnKey, Making, Reached
  <2>10. Apart'
    BY <2>4, <2>7 DEF Apart, Making
  <2> QED BY <2>2, <2>5, <2>8, <2>9, <2>10
<1>3. ASSUME NEW w \in Worker, Upload(w)
      PROVE  KeyInv'
  <2>1. task[w].key \in Key /\ task[w].at = "upload"
    BY <1>3 DEF Upload, At, OwnKey
  <2> DEFINE t == [at |-> "insert", key |-> task[w].key, old |-> {}]
  <2>2. task'[w] = t /\ \A v \in Worker : v # w => task'[v] = task[v]
    BY <1>3, TaskAfter DEF Upload, Go
  <2>3. rows' = rows /\ blob' = blob \cup {task[w].key}
    BY <1>3 DEF Upload
  <2>4. TypeOK'
    BY <1>3, <2>1, <2>3 DEF TypeOK, Upload, Go, Do, Task
  <2>5. \A v \in Worker : OwnKey(v)'
    BY <2>1, <2>2, <2>3 DEF OwnKey, Making, Reached
  <2>6. Apart'
    BY <2>1, <2>2 DEF Apart, Making
  <2> QED BY <2>3, <2>4, <2>5, <2>6
<1>4. ASSUME NEW w \in Worker, Insert(w)
      PROVE  KeyInv'
  <2>1. task[w].key \in Key /\ task[w].at = "insert" /\ task[w].key \in blob
    BY <1>4 DEF Insert, At, OwnKey
  <2> DEFINE t == [at |-> "clean", key |-> task[w].key, old |-> {}]
  <2>2. task'[w] = t /\ \A v \in Worker : v # w => task'[v] = task[v]
    BY <1>4, TaskAfter DEF Insert, Go
  <2>3. rows' = rows \cup {task[w].key} /\ blob' = blob
    BY <1>4 DEF Insert
  <2>4. TypeOK'
    BY <1>4, <2>1, <2>3 DEF TypeOK, Insert, Go, Do, Task
  <2>5. Reached(task[w].key.version)'
    BY <2>1, <2>2, <2>3 DEF Reached, Key
  <2>6. OwnKey(w)'
    BY <2>1, <2>2, <2>3, <2>5 DEF OwnKey, Making
  <2>7. ASSUME NEW v \in Worker, v # w
        PROVE  OwnKey(v)'
    <3>1. task'[v] = task[v]
      BY <2>2, <2>7
    <3>2. \A n : Reached(n) => Reached(n)'
      BY <2>3 DEF Reached
    <3>3. Making(v) => task[v].key # task[w].key
      BY <2>1, <2>7 DEF OwnKey, Making
    <3>4. task[w].key \notin task[v].old
      BY <2>1 DEF Apart, Making
    <3> QED BY <2>3, <3>1, <3>2, <3>3, <3>4 DEF OwnKey, Making
  <2>8. Apart'
    BY <2>2 DEF Apart, Making
  <2> QED BY <2>1, <2>3, <2>4, <2>6, <2>7, <2>8
<1>5. ASSUME NEW w \in Worker, Lose(w) \/ InsertFails(w)
      PROVE  KeyInv'
  <2>1. task[w].key \in Key /\ task[w].at = "insert"
    BY <1>5 DEF Lose, InsertFails, At, OwnKey
  <2> DEFINE t == [at |-> "undo", key |-> task[w].key, old |-> {}]
  <2>2. task'[w] = t /\ \A v \in Worker : v # w => task'[v] = task[v]
    BY <1>5, TaskAfter DEF Lose, InsertFails, Go
  <2>3. rows' = rows /\ blob' = blob
    BY <1>5 DEF Lose, InsertFails
  <2>4. TypeOK'
    BY <1>5, <2>1, <2>3 DEF TypeOK, Lose, InsertFails, Go, Do, Task
  <2>5. \A v \in Worker : OwnKey(v)'
    BY <2>1, <2>2, <2>3 DEF OwnKey, Making, Reached
  <2>6. Apart'
    BY <2>1, <2>2 DEF Apart, Making
  <2> QED BY <2>3, <2>4, <2>5, <2>6
<1>6. ASSUME NEW w \in Worker, Undo(w)
      PROVE  KeyInv'
  <2>1. Making(w) /\ task[w].key \notin rows
    BY <1>6 DEF Undo, At, OwnKey, Making
  <2>2. task'[w] = Idle /\ \A v \in Worker : v # w => task'[v] = task[v]
    BY <1>6, TaskAfter DEF Undo, Return
  <2>3. rows' = rows /\ blob' \in {blob, blob \ {task[w].key}}
    BY <1>6 DEF Undo
  <2>4. TypeOK'
    BY <1>6, <2>3 DEF TypeOK, Undo, Return, Do, Idle, Task
  <2>5. \A v \in Worker : v # w /\ Making(v) => task[v].key # task[w].key
    BY <2>1 DEF OwnKey
  <2>6. \A v \in Worker : v # w => OwnKey(v)'
    BY <2>2, <2>3, <2>5 DEF OwnKey, Making, Reached
  <2>7. OwnKey(w)'
    BY <2>2 DEF OwnKey, Making, Idle
  <2>8. Apart'
    BY <2>2 DEF Apart, Making, Idle
  <2> QED BY <2>1, <2>3, <2>4, <2>6, <2>7, <2>8
<1>7. ASSUME NEW w \in Worker, Clean(w)
      PROVE  KeyInv'
  <2> DEFINE old == {r \in rows : r.version <= task[w].key.version - Keep}
             t   == [at |-> "purge", key |-> task[w].key, old |-> old]
  <2>1. task[w].key \in Key /\ task[w].at = "clean" /\ Reached(task[w].key.version)
    BY <1>7 DEF Clean, At, OwnKey
  <2>2. task'[w] = t /\ \A v \in Worker : v # w => task'[v] = task[v]
    BY <1>7, TaskAfter DEF Clean
  <2>3. rows' = rows \ old /\ blob' = blob
    BY <1>7 DEF Clean
  <2>4. TypeOK'
    BY <1>7, <2>1, <2>3 DEF TypeOK, Clean, Do, Task
  <2>5. ASSUME NEW n \in Nat, Reached(n)
        PROVE  Reached(n)'
    <3>1. PICK top \in rows : top.version >= task[w].key.version
      BY <2>1 DEF Reached
    <3>2. PICK r \in rows : r.version >= n
      BY <2>5 DEF Reached
    <3>3. top \in Key /\ r \in Key
      BY DEF TypeOK
    <3>4. top \in rows'
      BY <2>1, <2>3, <3>1, <3>3 DEF Key
    <3>5. r \in rows' \/ top.version >= n
      BY <2>1, <2>3, <3>1, <3>2, <3>3 DEF Key
    <3> QED BY <3>2, <3>4, <3>5 DEF Reached
  <2>6. \A k \in Key : k.version \in Nat
    BY DEF Key
  <2>7. \A k \in old : k \in Key /\ k \notin rows' /\ Reached(k.version)
    BY <2>3 DEF TypeOK, Reached, Key
  <2>8. OwnKey(w)'
    BY <2>1, <2>2, <2>5, <2>6, <2>7 DEF OwnKey, Making
  <2>9. ASSUME NEW v \in Worker, v # w
        PROVE  OwnKey(v)'
    <3>1. task'[v] = task[v] /\ task[v].old \subseteq Key
      BY <2>2, <2>9 DEF TypeOK, Task
    <3>2. \A k \in task[v].old : k \notin rows' /\ Reached(k.version)'
      BY <2>3, <2>5, <2>6, <3>1 DEF OwnKey
    <3>3. task[v].at \in {"clean", "purge"} => Reached(task[v].key.version)'
      BY <2>5, <2>6, <3>1 DEF OwnKey, Reached
    <3> QED BY <2>3, <3>1, <3>2, <3>3 DEF OwnKey, Making
  <2>10. Apart'
    BY <2>1, <2>2 DEF Apart, Making, OwnKey
  <2> QED BY <2>3, <2>4, <2>8, <2>9, <2>10
<1>8. ASSUME NEW w \in Worker, Purge(w)
      PROVE  KeyInv'
  <2>1. PICK gone \in SUBSET task[w].old : blob' = blob \ gone
    BY <1>8 DEF Purge
  <2>2. task'[w] = Idle /\ \A v \in Worker : v # w => task'[v] = task[v]
    BY <1>8, TaskAfter DEF Purge, Return
  <2>3. rows' = rows
    BY <1>8 DEF Purge
  <2>4. TypeOK'
    BY <1>8, <2>1, <2>3 DEF TypeOK, Purge, Return, Do, Idle, Task
  <2>5. \A r \in rows : r \in blob'
    BY <2>1 DEF OwnKey
  <2>6. \A v \in Worker : Making(v) => task[v].key \notin gone
    BY <2>1 DEF Apart
  <2>7. \A v \in Worker : v # w => OwnKey(v)'
    BY <2>1, <2>2, <2>3, <2>6 DEF OwnKey, Making, Reached
  <2>8. OwnKey(w)'
    BY <2>2 DEF OwnKey, Making, Idle
  <2>9. Apart'
    BY <2>2 DEF Apart, Making, Idle
  <2> QED BY <2>3, <2>4, <2>5, <2>7, <2>8, <2>9
<1>9. ASSUME NEW w \in Worker, Get(w)
      PROVE  KeyInv'
  <2>1. PICK k \in rows : Do(w, [at |-> "fetch", key |-> k, old |-> {}])
    BY <1>9 DEF Get
  <2>2. task'[w] = [at |-> "fetch", key |-> k, old |-> {}]
        /\ \A v \in Worker : v # w => task'[v] = task[v]
    BY <2>1, TaskAfter
  <2>3. rows' = rows /\ blob' = blob /\ k \in Key
    BY <1>9 DEF Get, TypeOK
  <2>4. TypeOK'
    BY <2>1, <2>3 DEF TypeOK, Do, Task
  <2>5. \A v \in Worker : OwnKey(v)'
    BY <2>2, <2>3 DEF OwnKey, Making, Reached
  <2>6. Apart'
    BY <2>2 DEF Apart, Making
  <2> QED BY <2>3, <2>4, <2>5, <2>6
<1>10. ASSUME NEW w \in Worker, Fetch(w) \/ Crash(w)
       PROVE  KeyInv'
  <2>1. task'[w] = Idle /\ \A v \in Worker : v # w => task'[v] = task[v]
    BY <1>10, TaskAfter DEF Fetch, Crash, Return
  <2>2. rows' = rows /\ blob' = blob
    BY <1>10 DEF Fetch, Crash
  <2>3. TypeOK'
    BY <1>10, <2>2 DEF TypeOK, Fetch, Crash, Return, Do, Idle, Task
  <2>4. \A v \in Worker : OwnKey(v)'
    BY <2>1, <2>2 DEF OwnKey, Making, Reached, Idle
  <2>5. Apart'
    BY <2>1 DEF Apart, Making, Idle
  <2> QED BY <2>2, <2>3, <2>4, <2>5
<1> QED
  BY <1>1, <1>2, <1>3, <1>4, <1>5, <1>6, <1>7, <1>8, <1>9, <1>10 DEF Next

\* putIndex uploads before it inserts, deletes rows before it purges blobs, and a
\* loser deletes only its own blob: so every row's blob is in the storage, unless
\* the database commits an INSERT whose answer the server never saw.
THEOREM RowsHaveBlobs == ~MayLoseAnswer /\ Spec => []EveryRowHasItsBlob
<1>1. ~MayLoseAnswer /\ KeyInv /\ [Next]_vars => KeyInv'
  BY KeyStep
<1>2. KeyInv => EveryRowHasItsBlob
  BY DEF KeyInv
<1>3. ASSUME ~MayLoseAnswer
      PROVE  Spec => []EveryRowHasItsBlob
  <2>1. KeyInv /\ [Next]_vars => KeyInv'
    BY <1>1, <1>3
  <2> QED BY KeyInit, <2>1, <1>2, PTL DEF Spec
<1> QED BY <1>3

-----------------------------------------------------------------------------
(* The rows of the table, whatever fails: the versions up to the newest one   *)
(* are all there, except those that a handler Keep versions further on has    *)
(* cleaned up; no two rows have the same version; and there is a newest one.  *)

HasRow(v) == \E r \in rows : r.version = v

\* A handler writes on top of a version that was the newest one.
OnTop(w) ==
  /\ task[w].at \in {"upload", "insert", "undo", "clean", "purge"} => task[w].key \in Key
  /\ Making(w) => task[w].key.version = 1 \/ Reached(task[w].key.version - 1)
  /\ task[w].at \in {"clean", "purge"} => Reached(task[w].key.version)

NoGaps == \A v \in 1..MaxVersion : Reached(v) => HasRow(v) \/ Outpaced(v)

OneRowEach == \A r, s \in rows : r.version = s.version => r = s

SomeCurrent == \E v \in 0..MaxVersion : IsCurrent(v)

TableInv ==
  /\ TypeOK
  /\ \A w \in Worker : OnTop(w)
  /\ NoGaps /\ OneRowEach /\ SomeCurrent

\* A key is added to the table or not.
InsertKey(k) == ~Taken(k) /\ rows' = rows \cup {k}

\* The keys Keep versions behind v are taken out of it.
CleanUpTo(v) == rows' = {r \in rows : ~(r.version <= v - Keep)}

LEMMA TableInit == Init => TableInv
<1> SUFFICES ASSUME Init PROVE TableInv
  OBVIOUS
<1>1. TypeOK /\ \A w \in Worker : OnTop(w)
  BY DEF Init, TypeOK, OnTop, Making, Idle, Task
<1>2. NoGaps /\ OneRowEach
  BY DEF Init, NoGaps, OneRowEach, Reached
<1>3. IsCurrent(0) /\ 0 \in 0..MaxVersion
  BY BoundAssumption DEF Init, IsCurrent
<1>4. QED
  BY <1>1, <1>2, <1>3 DEF TableInv, SomeCurrent

\* What an INSERT on top of a reached version does to the table.
LEMMA InsertKeepsTable ==
  ASSUME TableInv, NEW k \in Key, k.version = 1 \/ Reached(k.version - 1), InsertKey(k)
  PROVE  /\ (NoGaps /\ OneRowEach /\ SomeCurrent)'
         /\ \A v : Reached(v) => Reached(v)'
         /\ Reached(k.version)'
<1> USE KeepAssumption, BoundAssumption
<1>1. k.version \in 1..MaxVersion /\ rows \subseteq Key /\ k \in rows'
      /\ \A r \in Key : r.version \in 1..MaxVersion
  BY DEF InsertKey, TableInv, TypeOK, Key
<1>2. /\ \A v : Reached(v) => Reached(v)'
      /\ \A v : HasRow(v) => HasRow(v)'
      /\ \A v : Outpaced(v) => Outpaced(v)'
  BY DEF InsertKey, Reached, HasRow, Outpaced
<1>3. ASSUME NEW v \in 1..MaxVersion, Reached(v)' PROVE HasRow(v)' \/ Outpaced(v)'
  <2>1. CASE Reached(v)
    BY <1>2, <2>1 DEF TableInv, NoGaps
  <2>2. CASE ~Reached(v)
    <3>1. v <= k.version
      BY <1>1, <1>3, <2>2 DEF Reached, InsertKey
    <3>2. ~(v <= k.version - 1)
      BY <1>1, <2>2 DEF Reached
    <3>3. v = k.version
      BY <1>1, <3>1, <3>2
    <3>4. QED
      BY <1>1, <3>3 DEF HasRow
  <2>3. QED
    BY <2>1, <2>2
<1>4. OneRowEach'
  BY <1>1 DEF TableInv, OneRowEach, InsertKey, Taken
<1>5. PICK top \in 0..MaxVersion : IsCurrent(top)
  BY DEF TableInv, SomeCurrent
<1>6. SomeCurrent'
  <2>1. CASE k.version > top
    <3>1. IsCurrent(k.version)'
      BY <1>1, <1>5, <2>1 DEF IsCurrent, InsertKey
    <3>2. QED
      BY <1>1, <3>1 DEF SomeCurrent
  <2>2. CASE ~(k.version > top)
    <3>1. IsCurrent(top)'
      BY <1>1, <1>5, <2>2 DEF IsCurrent, InsertKey
    <3>2. QED
      BY <1>5, <3>1 DEF SomeCurrent
  <2>3. QED
    BY <2>1, <2>2
<1>7. Reached(k.version)'
  BY <1>1 DEF Reached
<1>8. QED
  BY <1>2, <1>3, <1>4, <1>6, <1>7 DEF NoGaps

\* What a cleanup behind a reached version does to the table.
LEMMA CleanKeepsTable ==
  ASSUME TableInv, NEW v \in 1..MaxVersion, Reached(v), CleanUpTo(v)
  PROVE  /\ (NoGaps /\ OneRowEach /\ SomeCurrent)'
         /\ \A n \in Int : Reached(n) => Reached(n)'
<1> USE KeepAssumption, BoundAssumption
<1>1. \A r \in rows : r \in Key /\ r.version \in 1..MaxVersion
  BY DEF TableInv, TypeOK, Key
<1>2. PICK top \in 0..MaxVersion : IsCurrent(top)
  BY DEF TableInv, SomeCurrent
<1>3. PICK h \in rows : h.version = top /\ h.version >= v
  BY <1>1, <1>2 DEF IsCurrent, Reached
<1>4. h \in rows'
  BY <1>1, <1>3 DEF CleanUpTo
<1>5. ASSUME NEW n \in Int, Reached(n) PROVE Reached(n)'
  <2>1. h.version >= n
    BY <1>1, <1>2, <1>3, <1>5 DEF Reached, IsCurrent
  <2>2. QED
    BY <1>4, <2>1 DEF Reached
<1>6. ASSUME NEW n \in 1..MaxVersion, Reached(n)' PROVE HasRow(n)' \/ Outpaced(n)'
  <2>1. Reached(n)
    BY <1>6 DEF Reached, CleanUpTo
  <2>2. CASE Outpaced(n)
    <3>1. Reached(n + Keep) /\ n + Keep \in Int
      BY <2>2 DEF Reached, Outpaced
    <3>2. QED
      BY <1>5, <3>1 DEF Reached, Outpaced
  <2>3. CASE ~Outpaced(n)
    <3>1. PICK r \in rows : r.version = n
      BY <2>1, <2>3 DEF TableInv, NoGaps, HasRow
    <3>2. CASE r \in rows'
      BY <3>1, <3>2 DEF HasRow
    <3>3. CASE r \notin rows'
      <4>1. n <= v - Keep
        BY <3>1, <3>3 DEF CleanUpTo
      <4>2. h.version >= n + Keep
        BY <1>1, <1>3, <4>1
      <4>3. QED
        BY <1>4, <4>2 DEF Outpaced
    <3>4. QED
      BY <3>2, <3>3
  <2>4. QED
    BY <2>2, <2>3
<1>7. OneRowEach'
  BY DEF TableInv, OneRowEach, CleanUpTo
<1>8. IsCurrent(top)'
  BY <1>1, <1>2, <1>3, <1>4 DEF IsCurrent, CleanUpTo
<1>9. QED
  BY <1>2, <1>5, <1>6, <1>7, <1>8 DEF NoGaps, SomeCurrent

\* How a step treats the table and the handlers: the table stays, one key is added on
\* top of a reached version, or the rows behind a reached version go.
LEMMA TableCases ==
  ASSUME TableInv, [Next]_vars
  PROVE  \/ rows' = rows
         \/ \E w \in Worker :
              \/ At(w, "insert") /\ InsertKey(task[w].key)
              \/ At(w, "clean") /\ CleanUpTo(task[w].key.version)
BY DEF Next, Put, Upload, Insert, Lose, InsertFails, Undo, Clean, Purge, Get, Fetch, Crash,
       vars, InsertKey, CleanUpTo

LEMMA TableMoves ==
  ASSUME TableInv, [Next]_vars
  PROVE  /\ (NoGaps /\ OneRowEach /\ SomeCurrent)'
         /\ \A n \in Int : Reached(n) => Reached(n)'
<1>1. CASE rows' = rows
  BY <1>1 DEF TableInv, NoGaps, OneRowEach, SomeCurrent, Reached, HasRow, Outpaced, IsCurrent
<1>2. ASSUME NEW w \in Worker, At(w, "insert"), InsertKey(task[w].key)
      PROVE  /\ (NoGaps /\ OneRowEach /\ SomeCurrent)'
             /\ \A n \in Int : Reached(n) => Reached(n)'
  <2>1. PICK k \in Key : k = task[w].key
    BY <1>2 DEF TableInv, OnTop, At
  <2>2. k.version = 1 \/ Reached(k.version - 1)
    BY <1>2, <2>1 DEF TableInv, OnTop, At, Making
  <2>3. QED
    BY <1>2, <2>1, <2>2, InsertKeepsTable
<1>3. ASSUME NEW w \in Worker, At(w, "clean"), CleanUpTo(task[w].key.version)
      PROVE  /\ (NoGaps /\ OneRowEach /\ SomeCurrent)'
             /\ \A n \in Int : Reached(n) => Reached(n)'
  <2>1. PICK v \in 1..MaxVersion : v = task[w].key.version
    BY <1>3 DEF TableInv, OnTop, At, Key
  <2>2. Reached(v)
    BY <1>3, <2>1 DEF TableInv, OnTop, At
  <2>3. QED
    BY <1>3, <2>1, <2>2, CleanKeepsTable
<1>4. QED
  BY <1>1, <1>2, <1>3, TableCases

\* A handler that stands still relies on what cannot be undone.
LEMMA OnTopStays ==
  ASSUME TableInv, [Next]_vars, NEW w \in Worker, task'[w] = task[w]
  PROVE  OnTop(w)'
<1>1. \A n \in Int : Reached(n) => Reached(n)'
  BY TableMoves
<1>2. OnTop(w)
  BY DEF TableInv
<1>3. task[w].key \in Key => task[w].key.version \in Int /\ task[w].key.version - 1 \in Int
  BY BoundAssumption DEF Key
<1>4. QED
  BY <1>1, <1>2, <1>3 DEF OnTop, Making

\* The handler that moves.
LEMMA MoveKeepsOnTop ==
  ASSUME TableInv, NEW w \in Worker, Next,
         \/ Put(w) \/ Upload(w) \/ Insert(w) \/ Lose(w) \/ InsertFails(w) \/ Undo(w)
         \/ Clean(w) \/ Purge(w) \/ Get(w) \/ Fetch(w) \/ Crash(w)
  PROVE  task' \in [Worker -> Task] /\ \A v \in Worker : OnTop(v)'
<1> USE KeepAssumption, BoundAssumption
<1>0. TypeOK /\ OnTop(w) /\ \A n \in Int : Reached(n) => Reached(n)'
  BY TableMoves DEF TableInv
<1>1. ASSUME NEW t \in Task, Do(w, t), OnTop(w)'
      PROVE  task' \in [Worker -> Task] /\ \A v \in Worker : OnTop(v)'
  <2>1. task' \in [Worker -> Task]
    BY <1>0, <1>1 DEF Do, TypeOK
  <2>2. \A v \in Worker : v # w => task'[v] = task[v]
    BY <1>0, <1>1, TaskAfter
  <2>3. QED
    BY <1>1, <2>1, <2>2, OnTopStays
<1>2. CASE Put(w)
  <2>1. PICK base \in 0..(MaxVersion - 1) :
          /\ IsCurrent(base)
          /\ Do(w, [at |-> "upload", key |-> [version |-> base + 1, by |-> w], old |-> {}])
    BY <1>2 DEF Put
  <2> DEFINE k == [version |-> base + 1, by |-> w]
             t == [at |-> "upload", key |-> k, old |-> {}]
  <2>2. k \in Key /\ t \in Task
    BY DEF Key, Task
  <2>3. task'[w] = t
    BY <1>0, <2>1, TaskAfter
  <2>4. base = 0 \/ Reached(base)
    BY <2>1 DEF IsCurrent, Reached
  <2>5. rows' = rows
    BY <1>2 DEF Put
  <2>6. OnTop(w)'
    BY <2>2, <2>3, <2>4, <2>5 DEF OnTop, Making, Reached
  <2>7. QED
    BY <1>1, <2>1, <2>2, <2>6
<1>3. CASE Upload(w) \/ Insert(w) \/ Lose(w) \/ InsertFails(w)
  <2>1. PICK k \in Key : k = task[w].key
    BY <1>0, <1>3 DEF Upload, Insert, Lose, InsertFails, OnTop, At
  <2>2. k.version = 1 \/ Reached(k.version - 1)
    BY <1>0, <1>3, <2>1 DEF Upload, Insert, Lose, InsertFails, OnTop, At, Making
  <2>3. k.version = 1 \/ Reached(k.version - 1)'
    BY <1>0, <2>2 DEF Key
  <2>4. PICK step \in {"insert", "undo", "clean"} :
          /\ Do(w, [at |-> step, key |-> k, old |-> {}])
          /\ step = "clean" => Insert(w)
    BY <1>3, <2>1 DEF Upload, Insert, Lose, InsertFails, Go
  <2>5. [at |-> step, key |-> k, old |-> {}] \in Task
    BY DEF Task
  <2>6. task'[w] = [at |-> step, key |-> k, old |-> {}]
    BY <1>0, <2>4, TaskAfter
  <2>7. step = "clean" => Reached(k.version)'
    BY <2>1, <2>4 DEF Insert, Reached, Key
  <2>8. OnTop(w)'
    BY <2>3, <2>6, <2>7 DEF OnTop, Making
  <2>9. QED
    BY <1>1, <2>4, <2>5, <2>8
<1>4. CASE Clean(w)
  <2> DEFINE old == {r \in rows : r.version <= task[w].key.version - Keep}
  <2>1. PICK k \in Key : k = task[w].key
    BY <1>0, <1>4 DEF Clean, OnTop, At
  <2>2. Reached(k.version)'
    BY <1>0, <1>4, <2>1 DEF Clean, OnTop, At, Key
  <2>3. Do(w, [at |-> "purge", key |-> k, old |-> old])
    BY <1>4, <2>1 DEF Clean
  <2>4. [at |-> "purge", key |-> k, old |-> old] \in Task
    BY <1>0 DEF Task, TypeOK
  <2>5. task'[w] = [at |-> "purge", key |-> k, old |-> old]
    BY <1>0, <2>3, TaskAfter
  <2>6. OnTop(w)'
    BY <2>2, <2>5 DEF OnTop, Making
  <2>7. QED
    BY <1>1, <2>3, <2>4, <2>6
<1>5. CASE Get(w)
  <2>1. PICK k \in rows : Do(w, [at |-> "fetch", key |-> k, old |-> {}])
    BY <1>5 DEF Get
  <2>2. [at |-> "fetch", key |-> k, old |-> {}] \in Task
    BY <1>0 DEF Task, TypeOK
  <2>3. task'[w] = [at |-> "fetch", key |-> k, old |-> {}]
    BY <1>0, <2>1, TaskAfter
  <2>4. OnTop(w)'
    BY <2>3 DEF OnTop, Making
  <2>5. QED
    BY <1>1, <2>1, <2>2, <2>4
<1>6. CASE Undo(w) \/ Purge(w) \/ Fetch(w) \/ Crash(w)
  <2>1. Do(w, Idle) /\ Idle \in Task
    BY <1>6 DEF Undo, Purge, Fetch, Crash, Return, Idle, Task
  <2>2. task'[w] = Idle
    BY <1>0, <2>1, TaskAfter
  <2>3. OnTop(w)'
    BY <2>2 DEF OnTop, Making, Idle
  <2>4. QED
    BY <1>1, <2>1, <2>3
<1>7. QED
  BY <1>2, <1>3, <1>4, <1>5, <1>6

\* Keys go into the storage and the table from the records of handlers.
LEMMA TableTypes ==
  ASSUME TableInv, [Next]_vars PROVE rows' \subseteq Key /\ blob' \subseteq Key
<1>1. TypeOK /\ \A w \in Worker : OnTop(w)
  BY DEF TableInv
<1>2. rows' \subseteq Key
  BY <1>1, TableCases DEF TypeOK, InsertKey, CleanUpTo, OnTop, At
<1>3. blob' \subseteq Key
  <2>1. ASSUME NEW w \in Worker, Upload(w) PROVE blob' \subseteq Key
    BY <1>1, <2>1 DEF TypeOK, Upload, OnTop, At
  <2>2. ASSUME NEW w \in Worker, Undo(w) \/ Purge(w) PROVE blob' \subseteq Key
    BY <1>1, <2>2 DEF TypeOK, Undo, Purge
  <2>3. QED
    BY <1>1, <2>1, <2>2
    DEF TypeOK, Next, Put, Insert, Lose, InsertFails, Clean, Get, Fetch, Crash, vars
<1>4. QED
  BY <1>2, <1>3

LEMMA TableStep == TableInv /\ [Next]_vars => TableInv'
<1> SUFFICES ASSUME TableInv, [Next]_vars PROVE TableInv'
  OBVIOUS
<1>1. task' \in [Worker -> Task] /\ \A v \in Worker : OnTop(v)'
  <2>1. CASE Next
    <3>1. PICK w \in Worker :
            \/ Put(w) \/ Upload(w) \/ Insert(w) \/ Lose(w) \/ InsertFails(w) \/ Undo(w)
            \/ Clean(w) \/ Purge(w) \/ Get(w) \/ Fetch(w) \/ Crash(w)
      BY <2>1 DEF Next
    <3>2. QED
      BY <2>1, <3>1, MoveKeepsOnTop
  <2>2. CASE UNCHANGED vars
    BY <2>2, OnTopStays DEF vars, TableInv, TypeOK
  <2>3. QED
    BY <2>1, <2>2
<1>2. QED
  BY <1>1, TableTypes, TableMoves DEF TableInv, TypeOK

LEMMA TableInvariant == Spec => []TableInv
BY TableInit, TableStep, PTL DEF Spec

\* Every variable of the index keeps its type, for any keys, handlers and readers.
THEOREM IndexTypes == Spec => []TypeOK
<1>1. TableInv => TypeOK
  BY DEF TableInv
<1>2. QED
  BY <1>1, TableInvariant, PTL

\* The newest Keep versions have their rows, whatever the cleanups of slow handlers
\* take away, and also where a handler dies or an INSERT commits behind an error.
THEOREM NewestStay == Spec => []NewestAreKept
<1>1. ASSUME TableInv, NEW top \in 1..MaxVersion, IsCurrent(top), NEW v \in 1..top,
             top - Keep < v
      PROVE  \E r \in rows : r.version = v
  <2>1. Reached(v) /\ v \in 1..MaxVersion
    BY <1>1, BoundAssumption DEF IsCurrent, Reached
  <2>2. ~Outpaced(v)
    BY <1>1, BoundAssumption, KeepAssumption DEF Outpaced, IsCurrent, TableInv, TypeOK, Key
  <2>3. QED
    BY <1>1, <2>1, <2>2 DEF TableInv, NoGaps, HasRow
<1>2. TableInv => NewestAreKept
  BY <1>1 DEF NewestAreKept
<1>3. QED
  BY TableInvariant, <1>2, PTL

\* A write that putIndex accepts and that is not the newest afterwards had its version
\* taken by another device, and that row cleaned up, before its own INSERT.
THEOREM LostWritesWereOutpaced == Spec => OnlyOutpacedWritesAreLost
<1>1. ASSUME TableInv, [Next]_vars, NEW k \in Key, Added(k), ~Newest(k)'
      PROVE  Outpaced(k.version)
  <2>1. InsertKey(k)
    BY <1>1, TableCases DEF Added, InsertKey, CleanUpTo
  <2>2. /\ k.version \in 1..MaxVersion
        /\ \A r \in rows : r.version \in 1..MaxVersion
    BY <1>1 DEF TableInv, TypeOK, Key
  <2>3. PICK r \in rows : ~(r.version <= k.version)
    BY <1>1, <2>1, <2>2 DEF Newest, InsertKey
  <2>4. Reached(k.version)
    BY <2>2, <2>3, BoundAssumption DEF Reached
  <2>5. ~HasRow(k.version)
    BY <2>1 DEF InsertKey, Taken, HasRow
  <2>6. QED
    BY <1>1, <2>2, <2>4, <2>5 DEF TableInv, NoGaps
<1>2. TableInv /\ [Next]_vars =>
        [\A k \in Key : Added(k) => Newest(k)' \/ Outpaced(k.version)]_vars
  BY <1>1
<1>3. QED
  BY TableInvariant, <1>2, PTL DEF Spec, OnlyOutpacedWritesAreLost

-----------------------------------------------------------------------------
(* The register                                                               *)

CurrentVersion == CHOOSE v \in 0..MaxVersion : IsCurrent(v)
CurrentValue == IF rows = {} THEN None ELSE (CHOOSE k \in rows : Newest(k)).by

\* There is one current version, and one row that has it.
LEMMA VersionIs ==
  ASSUME NEW v \in 0..MaxVersion, IsCurrent(v), rows \subseteq Key
  PROVE  CurrentVersion = v
<1>1. ASSUME NEW u \in 0..MaxVersion, IsCurrent(u) PROVE u = v
  BY <1>1, BoundAssumption DEF IsCurrent, Key
<1>2. QED
  BY <1>1 DEF CurrentVersion

LEMMA ValueIs ==
  ASSUME NEW k \in rows, Newest(k), OneRowEach, rows \subseteq Key
  PROVE  CurrentValue = k.by
<1>1. ASSUME NEW j \in rows, Newest(j) PROVE j = k
  <2>1. j.version = k.version
    BY <1>1, BoundAssumption DEF Newest, Key
  <2>2. QED
    BY <2>1 DEF OneRowEach
<1>2. QED
  BY <1>1 DEF CurrentValue

LEMMA VersionIsNext == (rows \subseteq Key => \A v \in 0..MaxVersion :
                          IsCurrent(v) => CurrentVersion = v)'
<1> DEFINE P == rows \subseteq Key => \A v \in 0..MaxVersion :
                  IsCurrent(v) => CurrentVersion = v
<1>1. P
  BY VersionIs
<1>2. QED
  BY <1>1, PTL

LEMMA ValueIsNext == (rows \subseteq Key /\ OneRowEach => \A k \in rows :
                        Newest(k) => CurrentValue = k.by)'
<1> DEFINE P == rows \subseteq Key /\ OneRowEach => \A k \in rows :
                  Newest(k) => CurrentValue = k.by
<1>1. P
  BY ValueIs
<1>2. QED
  BY <1>1, PTL

\* The newest row is still the newest one: the register does not move.
LEMMA NewestStays ==
  ASSUME TableInv, TableInv', NEW h \in rows, Newest(h), h \in rows', Newest(h)'
  PROVE  CurrentVersion' = CurrentVersion /\ CurrentValue' = CurrentValue
<1>1. PICK v \in 0..MaxVersion : v = h.version
  BY BoundAssumption DEF TableInv, TypeOK, Key
<1>2. IsCurrent(v) /\ IsCurrent(v)'
  BY <1>1 DEF IsCurrent, Newest
<1>3. CurrentVersion = v /\ CurrentVersion' = v
  BY <1>2, VersionIs, VersionIsNext DEF TableInv, TypeOK
<1>4. CurrentValue = h.by /\ CurrentValue' = h.by
  BY ValueIs, ValueIsNext DEF TableInv, TypeOK
<1>5. QED
  BY <1>3, <1>4

LEMMA RegisterStep ==
  ASSUME TableInv, TableInv', [Next]_vars
  PROVE  \/ CurrentVersion' = CurrentVersion /\ CurrentValue' = CurrentValue
         \/ CurrentVersion' = CurrentVersion + 1 /\ CurrentValue' \in Worker
<1> USE KeepAssumption, BoundAssumption
<1>1. PICK top \in 0..MaxVersion : IsCurrent(top)
  BY DEF TableInv, SomeCurrent
<1>2. CurrentVersion = top
  BY <1>1, VersionIs DEF TableInv, TypeOK
<1>3. \A r \in rows : r \in Key /\ r.version \in 1..MaxVersion
  BY DEF TableInv, TypeOK, Key
<1>4. CASE rows' = rows
  BY <1>4 DEF CurrentVersion, CurrentValue, IsCurrent, Newest
<1>5. ASSUME NEW w \in Worker, At(w, "insert"), InsertKey(task[w].key)
      PROVE  \/ CurrentVersion' = CurrentVersion /\ CurrentValue' = CurrentValue
             \/ CurrentVersion' = CurrentVersion + 1 /\ CurrentValue' \in Worker
  <2>1. PICK k \in Key : k = task[w].key
    BY <1>5 DEF TableInv, OnTop, At
  <2>2. k.version = 1 \/ Reached(k.version - 1)
    BY <1>5, <2>1 DEF TableInv, OnTop, At, Making
  <2>3. k.version \in 1..MaxVersion /\ k.by \in Worker /\ k \in rows'
    BY <1>5, <2>1 DEF Key, InsertKey
  <2>4. CASE k.version > top
    <3>1. k.version = top + 1
      BY <1>1, <1>3, <2>2, <2>3, <2>4 DEF IsCurrent, Reached
    <3>2. Newest(k)' /\ IsCurrent(k.version)'
      BY <1>1, <1>3, <1>5, <2>1, <2>3, <2>4 DEF Newest, IsCurrent, InsertKey
    <3>3. CurrentVersion' = top + 1 /\ CurrentValue' = k.by
      BY <2>3, <3>1, <3>2, VersionIsNext, ValueIsNext DEF TableInv, TypeOK
    <3>4. QED
      BY <1>2, <2>3, <3>3
  <2>5. CASE ~(k.version > top)
    <3>1. PICK h \in rows : h.version = top
      BY <1>1, <2>3, <2>5 DEF IsCurrent
    <3>2. Newest(h) /\ h \in rows' /\ Newest(h)'
      BY <1>1, <1>3, <1>5, <2>1, <2>3, <2>5, <3>1 DEF Newest, IsCurrent, InsertKey
    <3>3. QED
      BY <3>2, NewestStays
  <2>6. QED
    BY <2>4, <2>5
<1>6. ASSUME NEW w \in Worker, At(w, "clean"), CleanUpTo(task[w].key.version)
      PROVE  CurrentVersion' = CurrentVersion /\ CurrentValue' = CurrentValue
  <2>1. PICK v \in 1..MaxVersion : v = task[w].key.version
    BY <1>6 DEF TableInv, OnTop, At, Key
  <2>2. Reached(v)
    BY <1>6, <2>1 DEF TableInv, OnTop, At
  <2>3. PICK h \in rows : h.version = top /\ h.version >= v
    BY <1>1, <1>3, <2>2 DEF IsCurrent, Reached
  <2>4. Newest(h) /\ h \in rows' /\ Newest(h)'
    BY <1>1, <1>3, <1>6, <2>1, <2>3 DEF Newest, IsCurrent, CleanUpTo
  <2>5. QED
    BY <2>4, NewestStays
<1>7. QED
  BY <1>4, <1>5, <1>6, TableCases

\* The table and the storage, with all their handlers, failures and cleanups, are one
\* register whose version grows by one with each accepted write; a write that comes
\* too late to be the newest does not touch it.
THEOREM IndexIsARegister == Spec => ImplementsRegister
<1>1. Init => Register!RegInit
  <2> SUFFICES ASSUME Init PROVE Register!RegInit
    OBVIOUS
  <2>1. rows = {} /\ IsCurrent(0) /\ 0 \in 0..MaxVersion
    BY BoundAssumption DEF Init, IsCurrent
  <2>2. CurrentVersion = 0 /\ CurrentValue = None
    BY <2>1, VersionIs DEF CurrentValue
  <2>3. QED
    BY <2>2 DEF Register!RegInit, CurrentVersion, CurrentValue
<1>2. TableInv /\ TableInv' /\ [Next]_vars => [Register!RegNext]_(Register!regVars)
  <2> SUFFICES ASSUME TableInv, TableInv', [Next]_vars
               PROVE  [Register!RegNext]_(Register!regVars)
    OBVIOUS
  <2>1. CASE CurrentVersion' = CurrentVersion /\ CurrentValue' = CurrentValue
    BY <2>1 DEF Register!regVars, CurrentVersion, CurrentValue
  <2>2. CASE CurrentVersion' = CurrentVersion + 1 /\ CurrentValue' \in Worker
    BY <2>2 DEF Register!RegNext, Register!Accept, CurrentVersion, CurrentValue
  <2>3. QED
    BY <2>1, <2>2, RegisterStep
<1>3. QED
  BY <1>1, <1>2, TableInvariant, PTL DEF Spec, ImplementsRegister, Register!RegSpec

-----------------------------------------------------------------------------
(* Readers                                                                    *)

\* The row a reader holds is still there, or was outpaced meanwhile.
InTime(w) ==
  task[w].key \in Key /\ (task[w].key \in rows \/ Outpaced(task[w].key.version))
ReaderKnows == \A w \in Worker : At(w, "fetch") => InTime(w)

LEMMA ReaderStep ==
  ASSUME TableInv, ReaderKnows, [Next]_vars PROVE ReaderKnows'
<1> USE KeepAssumption, BoundAssumption
<1>1. ASSUME NEW k \in Key, Outpaced(k.version) PROVE Outpaced(k.version)'
  <2>1. Reached(k.version + Keep) /\ k.version + Keep \in Int
    BY <1>1 DEF Reached, Outpaced, Key
  <2>2. QED
    BY <2>1, TableMoves DEF Reached, Outpaced
<1>2. ASSUME NEW k \in rows, k \notin rows' PROVE Outpaced(k.version)'
  <2>1. PICK w \in Worker : At(w, "clean") /\ CleanUpTo(task[w].key.version)
    BY <1>2, TableCases DEF InsertKey
  <2>2. PICK v \in 1..MaxVersion : v = task[w].key.version
    BY <2>1 DEF TableInv, OnTop, At, Key
  <2>3. Reached(v)'
    BY <2>1, <2>2, TableMoves DEF TableInv, OnTop, At
  <2>4. k.version \in Int /\ k.version <= v - Keep
    BY <1>2, <2>1, <2>2 DEF CleanUpTo, TableInv, TypeOK, Key
  <2>5. rows' \subseteq Key
    BY TableTypes
  <2>6. QED
    BY <2>3, <2>4, <2>5 DEF Reached, Outpaced, Key
<1>3. ASSUME NEW w \in Worker, At(w, "fetch")'
      PROVE  \/ At(w, "fetch") /\ task'[w].key = task[w].key
             \/ task'[w].key \in rows /\ rows' = rows
  <2> USE DEF At
  <2>1. CASE task'[w] = task[w]
    BY <1>3, <2>1
  <2>2. CASE task'[w] # task[w]
    <3>1. ASSUME NEW v \in Worker, NEW t, Do(v, t) PROVE v = w /\ task'[w] = t
      BY <2>2, <3>1, TaskAfter DEF TableInv
    <3>2. ASSUME NEW v \in Worker, NEW step \in {"idle", "upload", "insert", "undo", "clean", "purge"},
                 NEW k, NEW old, Do(v, [at |-> step, key |-> k, old |-> old])
          PROVE  FALSE
      BY <1>3, <3>1, <3>2
    <3>3. ASSUME NEW v \in Worker, Get(v) PROVE task'[w].key \in rows /\ rows' = rows
      <4>1. PICK k \in rows : Do(v, [at |-> "fetch", key |-> k, old |-> {}])
        BY <3>3 DEF Get
      <4>2. QED
        BY <3>1, <3>3, <4>1 DEF Get
    <3>4. task' # task
      BY <2>2
    <3>5. QED
      BY <3>2, <3>3, <3>4
      DEF Next, Put, Upload, Insert, Lose, InsertFails, Undo, Clean, Purge, Fetch, Crash, Go,
          Return, Idle, vars
  <2>3. QED
    BY <2>1, <2>2
<1>4. ASSUME NEW w \in Worker, At(w, "fetch")'
      PROVE  InTime(w)'
  <2>1. CASE task'[w].key \in rows /\ rows' = rows
    BY <2>1 DEF InTime, TableInv, TypeOK
  <2>2. CASE At(w, "fetch") /\ task'[w].key = task[w].key
    <3>1. PICK k \in Key : k = task[w].key /\ (k \in rows \/ Outpaced(k.version))
      BY <2>2 DEF ReaderKnows, InTime
    <3>2. k \in rows' \/ Outpaced(k.version)'
      BY <1>1, <1>2, <3>1
    <3>3. task'[w].key = k
      BY <2>2, <3>1
    <3>4. QED
      BY <3>2, <3>3 DEF InTime
  <2>3. QED
    BY <1>3, <1>4, <2>1, <2>2
<1>5. QED
  BY <1>4 DEF ReaderKnows

\* getIndex finds no blob for the row it has read only if Keep newer versions were
\* written in between, unless the database hides the commit of an INSERT.
THEOREM ReadersAreOutpaced == ASSUME ~MayLoseAnswer PROVE Spec => []OnlyOutpacedReadsFail
<1>1. Init => ReaderKnows
  BY DEF Init, ReaderKnows, At, Idle
<1>2. TableInv /\ ReaderKnows /\ [Next]_vars => ReaderKnows'
  BY ReaderStep
<1>3. ReaderKnows /\ EveryRowHasItsBlob => OnlyOutpacedReadsFail
  BY DEF ReaderKnows, InTime, EveryRowHasItsBlob, OnlyOutpacedReadsFail
<1>4. Spec => []EveryRowHasItsBlob
  BY RowsHaveBlobs
<1>5. QED
  BY <1>1, <1>2, <1>3, <1>4, TableInvariant, PTL DEF Spec
=============================================================================

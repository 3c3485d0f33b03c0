---------------------------- MODULE VaultSyncProofs ----------------------------
(***************************************************************************)
(* For any number of devices, entries and edits, whatever conflicts,       *)
(* retries, lost answers and locks there are: what a device shows as saved *)
(* is saved, no stamp on the server goes back, and a locked device holds   *)
(* no plaintext; all of this over a server that is VaultIndex's register.  *)
(* For one device or two: what was deleted stays deleted.                  *)
(*                                                                         *)
(* The argument: "c covers b" says that every entry of b is in c with the  *)
(* same or a newer stamp, or has been deleted by somebody in a revision as *)
(* new.  That is a preorder, what is merged covers both sides if both      *)
(* cover the base, and every container is made from the one before it by   *)
(* an edit or a merge.  So the server covers what a device has read of it, *)
(* and that covers what the device had sent.                               *)
(*                                                                         *)
(* The last part is about TwoEditors: for any ids, folders, stamps and     *)
(* copies the merge keeps its rules, and names every file that the server  *)
(* has.  The argument for the latter: of a file that nobody has touched    *)
(* both devices have the entry of the base; of one that was touched, the   *)
(* device that touched it last has put it where it survives every merge,   *)
(* and no clean-up drops it there while it is in the server's trash.       *)
(***************************************************************************)
EXTENDS VaultSync, TwoEditors, TLAPS

USE BoundAssumption, TriesAssumption, SwitchAssumption

-----------------------------------------------------------------------------
(* Containers that cover each other                                           *)

\* D: deletions, <<id, rev>>.  One of entry i is of revision s or newer.
Since(D, i, s) == \E x \in D : x[1] = i /\ x[2] >= s

Covers(D, c, b) == \A i \in Id : b[i].stamp <= c[i].stamp \/ Since(D, i, b[i].stamp)

\* An entry that both have is not older in c.
NotOlder(c, b) == \A i \in Id : b[i] # Absent /\ c[i] # Absent => b[i].stamp <= c[i].stamp

\* Stamps are of a clock that stands at n; a revision is at least as new as its stamp.
Dated(n, c) == \A i \in Id : c[i].stamp <= c[i].rev /\ c[i].stamp <= n

Deletions == SUBSET (Id \X Nat)

LEMMA Parts == ASSUME NEW c \in Container, NEW i \in Id
               PROVE  c[i] \in Entry /\ c[i].stamp \in Nat /\ c[i].rev \in Nat
BY DEF Container, Entry

LEMMA EmptyContainer == Empty \in Container /\ \A i \in Id : Empty[i] = Absent
BY DEF Empty, Container, Absent, Entry

LEMMA CoversItself == ASSUME NEW D, NEW c \in Container PROVE Covers(D, c, c) /\ NotOlder(c, c)
<1>1. \A i \in Id : c[i].stamp \in Nat
  BY Parts
<1>2. QED
  BY <1>1 DEF Covers, NotOlder

LEMMA CoversEmpty ==
  ASSUME NEW D, NEW c \in Container PROVE Covers(D, c, Empty) /\ NotOlder(c, Empty)
<1>1. \A i \in Id : c[i].stamp \in Nat
  BY Parts
<1>2. QED
  BY <1>1, EmptyContainer DEF Covers, NotOlder, Absent

LEMMA CoversThrough ==
  ASSUME NEW D \in Deletions, NEW a \in Container, NEW b \in Container, NEW c \in Container,
         Covers(D, c, b), Covers(D, b, a)
  PROVE  Covers(D, c, a)
<1> SUFFICES ASSUME NEW i \in Id PROVE a[i].stamp <= c[i].stamp \/ Since(D, i, a[i].stamp)
  BY DEF Covers
<1>1. a[i].stamp \in Nat /\ b[i].stamp \in Nat /\ c[i].stamp \in Nat
  BY Parts
<1>2. b[i].stamp <= c[i].stamp \/ Since(D, i, b[i].stamp)
  BY DEF Covers
<1>3. a[i].stamp <= b[i].stamp \/ Since(D, i, a[i].stamp)
  BY DEF Covers
<1>4. a[i].stamp <= b[i].stamp /\ Since(D, i, b[i].stamp) => Since(D, i, a[i].stamp)
  BY <1>1 DEF Since, Deletions
<1>5. QED
  BY <1>1, <1>2, <1>3, <1>4

\* More deletions cover no less.
LEMMA CoversOn ==
  ASSUME NEW D, NEW E, D \subseteq E, NEW b, NEW c, Covers(D, c, b)
  PROVE  Covers(E, c, b)
BY DEF Covers, Since

-----------------------------------------------------------------------------
(* What merge3 makes of containers                                            *)

LEMMA MergeType ==
  ASSUME NEW b \in Container, NEW l \in Container, NEW r \in Container
  PROVE  /\ Merge(b, l, r) \in Container
         /\ \A i \in Id : Merge(b, l, r)[i] \in {l[i], r[i], Absent}
<1>1. ASSUME NEW i \in Id PROVE MergeEntry(b[i], l[i], r[i]) \in {l[i], r[i], Absent}
  BY DEF MergeEntry
<1>2. Absent \in Entry
  BY DEF Absent, Entry
<1>3. QED
  BY <1>1, <1>2 DEF Merge, Container

LEMMA MergeDated ==
  ASSUME NEW n \in Nat, NEW b \in Container, NEW l \in Container, NEW r \in Container,
         Dated(n, l), Dated(n, r)
  PROVE  Dated(n, Merge(b, l, r))
<1>1. \A i \in Id : Merge(b, l, r)[i] \in {l[i], r[i], Absent}
  BY MergeType
<1>2. ASSUME NEW i \in Id, NEW m \in {l[i], r[i], Absent} PROVE m.stamp <= m.rev /\ m.stamp <= n
  <2>1. Absent.stamp = 0 /\ Absent.rev = 0
    BY DEF Absent
  <2>2. QED
    BY <2>1 DEF Dated
<1>3. QED
  BY <1>1, <1>2 DEF Dated

\* A merge is not older than either side, and covers what covers the base.
LEMMA MergeCovers ==
  ASSUME NEW D \in Deletions, NEW b \in Container, NEW l \in Container, NEW r \in Container,
         Covers(D, l, b), Covers(D, r, b)
  PROVE  /\ Covers(D, Merge(b, l, r), l) /\ Covers(D, Merge(b, l, r), r)
         /\ NotOlder(Merge(b, l, r), r)
<1> SUFFICES ASSUME NEW i \in Id
             PROVE  LET m == MergeEntry(b[i], l[i], r[i]) IN
                    /\ l[i].stamp <= m.stamp \/ Since(D, i, l[i].stamp)
                    /\ r[i].stamp <= m.stamp \/ Since(D, i, r[i].stamp)
                    /\ r[i] # Absent /\ m # Absent => r[i].stamp <= m.stamp
  BY DEF Covers, NotOlder, Merge
<1> DEFINE m == MergeEntry(b[i], l[i], r[i])
<1>1. /\ b[i].stamp \in Nat /\ l[i].stamp \in Nat /\ r[i].stamp \in Nat
      /\ Absent.stamp = 0
  BY Parts DEF Absent
<1>2. /\ b[i].stamp <= l[i].stamp \/ Since(D, i, b[i].stamp)
      /\ b[i].stamp <= r[i].stamp \/ Since(D, i, b[i].stamp)
  BY DEF Covers
\* A deletion that covers the base covers what is not newer than it.
<1>3. ASSUME NEW s \in Nat, s <= b[i].stamp, Since(D, i, b[i].stamp) PROVE Since(D, i, s)
  BY <1>1, <1>3 DEF Since, Deletions
<1>4. CASE l[i] # Absent /\ r[i] # Absent
  BY <1>1, <1>4 DEF MergeEntry
<1>5. CASE l[i] # Absent /\ r[i] = Absent
  <2>1. m = IF Survives(b[i], l[i]) THEN l[i] ELSE Absent
    BY <1>5 DEF MergeEntry, Survives
  <2>2. ~Survives(b[i], l[i]) => l[i].stamp <= b[i].stamp
    BY <1>1, <1>5 DEF Survives
  <2>3. QED
    BY <1>1, <1>2, <1>3, <1>5, <2>1, <2>2
<1>6. CASE l[i] = Absent /\ r[i] # Absent
  <2>1. m = IF Survives(b[i], r[i]) THEN r[i] ELSE Absent
    BY <1>6 DEF MergeEntry, Survives
  <2>2. ~Survives(b[i], r[i]) => r[i].stamp <= b[i].stamp
    BY <1>1, <1>6 DEF Survives
  <2>3. QED
    BY <1>1, <1>2, <1>3, <1>6, <2>1, <2>2
<1>7. CASE l[i] = Absent /\ r[i] = Absent
  <2>1. m = Absent
    BY <1>7 DEF MergeEntry, Survives
  <2>2. QED
    BY <1>1, <1>7, <2>1
<1>8. QED
  BY <1>4, <1>5, <1>6, <1>7

-----------------------------------------------------------------------------
(* The inductive invariant.  a: the refs of a device, s: its flush, e: its    *)
(* stamped edits.  The server has val in version ver, the clock stands at n,  *)
(* D has been deleted.                                                        *)

\* Keys are numbered by unlocks; a flush has one the device has or had.
KeysFit(a, s) ==
  /\ a.key \in {0, a.locks + 1}
  /\ a.key = 0 => a.locks > 0 /\ a.base = Nothing /\ a.local = Empty
  /\ a.saving <=> s.at # "none"
  /\ s.at # "none" => /\ s.key \in 1..(a.locks + 1)
                      /\ a.key = 0 => s.key # a.locks + 1
  /\ s.at \in {"put", "conflict"} => s.attempt <= Attempts

AllDated(a, s, n) ==
  /\ Dated(n, a.base.container) /\ Dated(n, a.local)
  /\ Dated(n, s.sent) /\ Dated(n, s.b.container) /\ Dated(n, s.n)

\* A state that was read of the server is an earlier one, or the present one.
Known(st, ver, val, D) ==
  /\ st.version <= ver
  /\ st.version = ver => st.container = val
  /\ Covers(D, val, st.container)

AppFits(a, ver, val, D) ==
  /\ Known(a.base, ver, val, D)
  /\ Covers(D, a.local, a.base.container) /\ NotOlder(a.local, a.base.container)

SaveFits(s, ver, val, D) ==
  /\ Known(s.b, ver, val, D)
  /\ Covers(D, s.n, s.b.container) /\ NotOlder(s.n, s.b.container)
  /\ Covers(D, s.n, s.sent)
  /\ s.at = "saved" => s.b.container = s.n

\* What a flush under the present key has sent is still there, and what a device that
\* was never locked has made.
EditsFit(a, s, e, D) ==
  /\ s.at # "none" /\ a.key = s.key => Covers(D, a.local, s.sent)
  /\ a.locks = 0 => \A i \in Id : e[i] <= a.local[i].stamp \/ Since(D, i, e[i])

Sound(a, s, e, ver, val, n, D) ==
  /\ KeysFit(a, s) /\ AllDated(a, s, n)
  /\ AppFits(a, ver, val, D) /\ SaveFits(s, ver, val, D) /\ EditsFit(a, s, e, D)

\* Edits made since the flush was sent have set dirty; without a flush or an error there
\* are none.
Settled(a, s) ==
  /\ s.at # "none" /\ a.key = s.key /\ ~a.dirty => a.local = s.sent
  /\ a.locks = 0 /\ ~a.saving /\ ~a.failed => a.local = a.base.container

SyncInv ==
  /\ TypeOK
  /\ Dated(edits, value)
  /\ version = 0 => value = Empty
  /\ \A d \in Device : /\ Sound(app[d], save[d], done[d], version, value, edits, deleted)
                       /\ Settled(app[d], save[d])

-----------------------------------------------------------------------------
(* The invariant of one device                                                *)

LEMMA Fields ==
  /\ \A a \in App : /\ a.key \in Nat /\ a.locks \in Nat /\ a.base \in State /\ a.local \in Container
                    /\ a.base.version \in Nat /\ a.base.container \in Container
                    /\ a.saving \in BOOLEAN /\ a.dirty \in BOOLEAN /\ a.failed \in BOOLEAN
  /\ \A s \in Save : /\ s.key \in Nat /\ s.sent \in Container /\ s.b \in State /\ s.n \in Container
                     /\ s.b.version \in Nat /\ s.b.container \in Container
                     /\ s.attempt \in 0..(Attempts + 1)
                     /\ s.at \in {"none", "put", "conflict", "saved", "error"}
BY DEF App, Save, State

LEMMA Nowhere ==
  /\ NoSave \in Save /\ NoSave.at = "none" /\ NoSave.b = Nothing
  /\ NoSave.sent = Empty /\ NoSave.n = Empty
  /\ Nothing \in State /\ Nothing.version = 0 /\ Nothing.container = Empty
BY EmptyContainer DEF NoSave, Save, Nothing, State

LEMMA DatedParts ==
  ASSUME NEW n \in Nat, NEW c \in Container, Dated(n, c), NEW i \in Id
  PROVE  /\ c[i].stamp \in Nat /\ c[i].rev \in Nat
         /\ c[i].stamp <= c[i].rev /\ c[i].stamp <= n
BY Parts DEF Dated

LEMMA EmptyDated == ASSUME NEW n \in Nat PROVE Dated(n, Empty)
<1>1. ASSUME NEW x, x = Absent PROVE x.stamp <= x.rev /\ x.stamp <= n
  BY <1>1 DEF Absent
<1>2. ASSUME NEW i \in Id PROVE Empty[i].stamp <= Empty[i].rev /\ Empty[i].stamp <= n
  BY <1>1, EmptyContainer
<1>3. QED
  BY <1>2 DEF Dated

\* The same of values of the right kind.
Fits(a, s, e, ver, val, n, D) ==
  /\ a \in App /\ s \in Save /\ e \in [Id -> Nat]
  /\ ver \in Nat /\ val \in Container /\ n \in Nat /\ D \in Deletions
  /\ Sound(a, s, e, ver, val, n, D)

\* The server stays, or takes a container that covers its own.
ServerOn(ver, val, ver2, val2, D) ==
  \/ ver2 = ver /\ val2 = val
  \/ ver2 = ver + 1 /\ Covers(D, val2, val)

\* What others do, and time, leave a device as it is.
LEMMA OthersKeep ==
  ASSUME NEW a \in App, NEW s \in Save, NEW e \in [Id -> Nat],
         NEW ver \in Nat, NEW val \in Container, NEW n \in Nat, NEW D \in Deletions,
         NEW ver2 \in Nat, NEW val2 \in Container, NEW n2 \in Nat, NEW D2 \in Deletions,
         Sound(a, s, e, ver, val, n, D), n <= n2, D \subseteq D2,
         ServerOn(ver, val, ver2, val2, D2)
  PROVE  Sound(a, s, e, ver2, val2, n2, D2)
<1>1. ASSUME NEW st \in State, Known(st, ver, val, D) PROVE Known(st, ver2, val2, D2)
  <2>1. st.container \in Container /\ st.version \in Nat /\ st.version <= ver
        /\ (st.version = ver => st.container = val)
    BY <1>1 DEF State, Known
  <2>2. Covers(D2, val, st.container)
    BY <1>1, CoversOn DEF Known
  <2>3. Covers(D2, val2, st.container)
    BY <2>1, <2>2, CoversThrough DEF ServerOn
  <2>4. QED
    BY <2>1, <2>3 DEF Known, ServerOn
<1>2. ASSUME NEW c \in Container, Dated(n, c) PROVE Dated(n2, c)
  <2>1. \A i \in Id : c[i].stamp \in Nat /\ c[i].rev \in Nat
    BY Parts
  <2>2. \A i \in Id : c[i].stamp <= n /\ c[i].stamp <= c[i].rev
    BY <1>2 DEF Dated
  <2>3. ASSUME NEW i \in Id PROVE c[i].stamp <= c[i].rev /\ c[i].stamp <= n2
    BY <2>1, <2>2
  <2>4. QED
    BY <2>3 DEF Dated
<1>3. \A i \in Id : Since(D, i, e[i]) => Since(D2, i, e[i])
  BY DEF Since
<1>4. KeysFit(a, s) /\ AllDated(a, s, n2)
  BY <1>2, Fields DEF Sound, AllDated
<1>5. AppFits(a, ver2, val2, D2)
  BY <1>1, CoversOn, Fields DEF Sound, AppFits
<1>6. SaveFits(s, ver2, val2, D2)
  BY <1>1, CoversOn, Fields DEF Sound, SaveFits
<1>7. EditsFit(a, s, e, D2)
  BY <1>3, CoversOn DEF Sound, EditsFit
<1>8. QED
  BY <1>4, <1>5, <1>6, <1>7 DEF Sound

LEMMA SendParts ==
  ASSUME NEW b \in App
  PROVE  /\ Send(b) \in Save
         /\ Send(b).at = "put" /\ Send(b).key = b.key /\ Send(b).sent = b.local
         /\ Send(b).b = b.base /\ Send(b).n = b.local /\ Send(b).attempt = 1
BY Fields DEF Send, Save

\* flush, on refs that fit: it starts, or is asked for another round.
Started(a, b) == b = [a EXCEPT !.saving = TRUE, !.dirty = FALSE]

LEMMA FlushStarts ==
  ASSUME NEW a, NEW s, NEW e, NEW ver, NEW val, NEW n, NEW D,
         Fits(a, s, e, ver, val, n, D), a.key # 0, ~a.saving,
         NEW b, Started(a, b)
  PROVE  /\ b \in App /\ Send(a) \in Save
         /\ Sound(b, Send(a), e, ver, val, n, D) /\ Settled(b, Send(a))
<1> USE DEF Fits
<1>1. /\ b \in App /\ b.key = a.key /\ b.locks = a.locks /\ b.base = a.base /\ b.local = a.local
      /\ b.saving = TRUE /\ b.dirty = FALSE
  BY DEF Started, App
<1> DEFINE t == Send(a)
<1>2. t \in Save
  BY Fields DEF Send, Save
<1>3. /\ t.at = "put" /\ t.key = a.key /\ t.sent = a.local /\ t.b = a.base /\ t.n = a.local
      /\ t.attempt = 1
  BY DEF Send
<1> HIDE DEF t
<1>4. KeysFit(b, t)
  BY <1>1, <1>3, Fields DEF Sound, KeysFit
<1>5. AllDated(b, t, n) /\ AppFits(b, ver, val, D)
  BY <1>1, <1>3 DEF Sound, AllDated, AppFits
<1>6. Covers(D, a.local, a.local)
  BY CoversItself, Fields
<1>7. SaveFits(t, ver, val, D)
  BY <1>3, <1>6 DEF Sound, SaveFits, AppFits
<1>8. EditsFit(b, t, e, D)
  BY <1>1, <1>3, <1>6 DEF Sound, EditsFit
<1>9. Settled(b, t)
  BY <1>1, <1>3 DEF Settled
<1>10. QED
  BY <1>1, <1>2, <1>4, <1>5, <1>7, <1>8, <1>9 DEF Sound, t

LEMMA FlushWaits ==
  ASSUME NEW a, NEW s, NEW e, NEW ver, NEW val, NEW n, NEW D,
         Fits(a, s, e, ver, val, n, D), a.saving, NEW b, b = [a EXCEPT !.dirty = TRUE]
  PROVE  b \in App /\ Sound(b, s, e, ver, val, n, D) /\ Settled(b, s)
<1> USE DEF Fits
<1>1. /\ b \in App /\ b.key = a.key /\ b.locks = a.locks /\ b.base = a.base /\ b.local = a.local
      /\ b.saving = a.saving /\ b.dirty = TRUE
  BY DEF App
<1>2. QED
  BY <1>1 DEF Sound, Settled, KeysFit, AllDated, AppFits, EditsFit

-----------------------------------------------------------------------------
(* The steps of one device                                                    *)

\* b: the refs of the device after entry i has become x.
Changed(a, b, i, x) ==
  /\ b \in App /\ b.key = a.key /\ b.locks = a.locks /\ b.base = a.base /\ b.saving = a.saving
  /\ b.local[i] = x /\ \A j \in Id : j # i => b.local[j] = a.local[j]

LEMMA ChangeRefs ==
  ASSUME NEW a \in App, NEW i \in Id, NEW x \in Entry, NEW b,
         b = [a EXCEPT !.local = [a.local EXCEPT ![i] = x]]
  PROVE  Changed(a, b, i, x)
<1> DEFINE c == [a.local EXCEPT ![i] = x]
<1>1. /\ c \in Container /\ c[i] = x /\ \A j \in Id : j # i => c[j] = a.local[j]
  BY Fields DEF Container
<1>2. /\ b \in App /\ b.key = a.key /\ b.locks = a.locks /\ b.base = a.base /\ b.local = c
      /\ b.saving = a.saving
  BY <1>1 DEF App
<1> HIDE DEF c
<1>3. QED
  BY <1>1, <1>2 DEF Changed

\* An entry of the local container changes: nothing is lost by it.
LEMMA LocalChange ==
  ASSUME NEW a, NEW s, NEW e, NEW ver, NEW val, NEW n, NEW D,
         Fits(a, s, e, ver, val, n, D), a.key # 0,
         NEW D2 \in Deletions, D \subseteq D2,
         NEW i \in Id, NEW x \in Entry, NEW b, NEW m \in Nat, n <= m,
         Changed(a, b, i, x), x.stamp <= x.rev, x.stamp <= m,
         a.local[i].stamp <= x.stamp \/ Since(D2, i, a.local[i].stamp),
         x # Absent /\ a.base.container[i] # Absent => a.base.container[i].stamp <= x.stamp,
         a.locks = 0 => e[i] <= x.stamp \/ Since(D2, i, e[i])
  PROVE  Sound(b, s, e, ver, val, m, D2)
<1> USE DEF Fits
<1> DEFINE c == b.local
<1>1. /\ c \in Container /\ c[i] = x /\ \A j \in Id : j # i => c[j] = a.local[j]
  BY Fields DEF Changed
<1>2. /\ b \in App /\ b.key = a.key /\ b.locks = a.locks /\ b.base = a.base /\ b.local = c
      /\ b.saving = a.saving
  BY DEF Changed
<1> HIDE DEF c
<1>3. Sound(a, s, e, ver, val, m, D2)
  <2>1. ServerOn(ver, val, ver, val, D2)
    BY DEF ServerOn
  <2>2. QED
    BY <2>1, OthersKeep
<1>4. Covers(D2, c, a.local)
  <2>1. ASSUME NEW j \in Id, j # i PROVE a.local[j].stamp <= c[j].stamp
    BY <1>1, <2>1, Fields, Parts
  <2>2. QED
    BY <1>1, <2>1 DEF Covers
<1>5. Dated(m, c)
  <2>1. Dated(m, a.local)
    BY <1>3 DEF Sound, AllDated
  <2>2. ASSUME NEW j \in Id, j # i PROVE c[j].stamp <= c[j].rev /\ c[j].stamp <= m
    BY <1>1, <2>1, <2>2, DatedParts, Fields
  <2>3. QED
    BY <1>1, <2>2 DEF Dated
<1>6. Covers(D2, c, a.base.container)
  BY <1>1, <1>3, <1>4, CoversThrough, Fields DEF Sound, AppFits
<1>7. NotOlder(c, a.base.container)
  BY <1>1, <1>3 DEF Sound, AppFits, NotOlder
<1>8. s.at # "none" /\ a.key = s.key => Covers(D2, c, s.sent)
  BY <1>1, <1>3, <1>4, CoversThrough, Fields DEF Sound, EditsFit
<1>9. a.locks = 0 => \A j \in Id : e[j] <= c[j].stamp \/ Since(D2, j, e[j])
  BY <1>1, <1>3 DEF Sound, EditsFit
<1>10. KeysFit(b, s)
  BY <1>2, <1>3 DEF Sound, KeysFit
<1>11. AllDated(b, s, m) /\ AppFits(b, ver, val, D2) /\ EditsFit(b, s, e, D2)
  BY <1>2, <1>3, <1>5, <1>6, <1>7, <1>8, <1>9 DEF Sound, AllDated, AppFits, EditsFit
<1>12. QED
  BY <1>2, <1>3, <1>10, <1>11 DEF Sound

\* The three edits of a local container, on the refs of a device.
ChangesLocal(a, b, i, stamp, rev) ==
  b = [a EXCEPT !.local = [a.local EXCEPT ![i] = [stamp |-> stamp, rev |-> rev]]]
Drops(D, E, i, rev) == E = D \cup {<<i, rev>>}
DropsLocal(a, b, i) == b = [a EXCEPT !.local = [a.local EXCEPT ![i] = Absent]]

\* A new or changed entry has a stamp nobody has seen.
LEMMA EditChange ==
  ASSUME NEW a, NEW s, NEW e, NEW ver, NEW val, NEW n, NEW D,
         Fits(a, s, e, ver, val, n, D), a.key # 0, NEW i \in Id, NEW m \in Nat, m = n + 1,
         NEW b, ChangesLocal(a, b, i, m, m)
  PROVE  /\ b \in App /\ b.key = a.key /\ b.saving = a.saving
         /\ b.local[i].stamp = m /\ Sound(b, s, e, ver, val, m, D)
<1> USE DEF Fits
<1> DEFINE x == [stamp |-> m, rev |-> m]
<1>1. x \in Entry /\ x.stamp = m /\ x.rev = m
  BY DEF Entry
<1>2. Changed(a, b, i, x)
  BY <1>1, ChangeRefs DEF ChangesLocal
<1> HIDE DEF x
<1>3. a.local[i].stamp \in Nat /\ a.base.container[i].stamp \in Nat
  BY Fields, Parts
<1>4. a.local[i].stamp <= n /\ a.base.container[i].stamp <= n
  BY DEF Sound, AllDated, Dated
<1>5. /\ x.stamp <= x.rev /\ x.stamp <= m
      /\ a.local[i].stamp <= x.stamp \/ Since(D, i, a.local[i].stamp)
      /\ x # Absent /\ a.base.container[i] # Absent => a.base.container[i].stamp <= x.stamp
      /\ a.locks = 0 => e[i] <= x.stamp \/ Since(D, i, e[i])
      /\ n <= m
  BY <1>1, <1>3, <1>4 DEF Sound, EditsFit
<1>6. Sound(b, s, e, ver, val, m, D)
  BY <1>1, <1>2, <1>5, LocalChange
<1>7. QED
  BY <1>1, <1>2, <1>6 DEF Changed

LEMMA TouchChange ==
  ASSUME NEW a, NEW s, NEW e, NEW ver, NEW val, NEW n, NEW D,
         Fits(a, s, e, ver, val, n, D), a.key # 0, NEW i \in Id, NEW m \in Nat, m = n + 1,
         a.local[i] # Absent, NEW b, ChangesLocal(a, b, i, a.local[i].stamp, m)
  PROVE  /\ b \in App /\ b.key = a.key /\ b.saving = a.saving
         /\ Sound(b, s, e, ver, val, m, D)
<1> USE DEF Fits
<1> DEFINE x == [stamp |-> a.local[i].stamp, rev |-> m]
<1>1. a.local[i].stamp \in Nat /\ a.local[i].stamp <= n
  BY Fields, DatedParts DEF Sound, AllDated
<1>2. x \in Entry /\ x.stamp = a.local[i].stamp /\ x.rev = m
  BY <1>1 DEF Entry
<1>3. Changed(a, b, i, x)
  BY <1>2, ChangeRefs DEF ChangesLocal
<1> HIDE DEF x
<1>4. x.stamp <= x.rev /\ x.stamp <= m /\ a.local[i].stamp <= x.stamp
  BY <1>1, <1>2
<1>5. a.base.container[i] # Absent => a.base.container[i].stamp <= x.stamp
  BY <1>2 DEF Sound, AppFits, NotOlder
<1>6. a.locks = 0 => e[i] <= x.stamp \/ Since(D, i, e[i])
  BY <1>2 DEF Sound, EditsFit
<1>7. Sound(b, s, e, ver, val, m, D)
  BY <1>1, <1>2, <1>3, <1>4, <1>5, <1>6, LocalChange
<1>8. QED
  BY <1>3, <1>7 DEF Changed

LEMMA DeleteChange ==
  ASSUME NEW a, NEW s, NEW e, NEW ver, NEW val, NEW n, NEW D,
         Fits(a, s, e, ver, val, n, D), a.key # 0, NEW i \in Id, NEW m \in Nat, m = n + 1,
         NEW b, DropsLocal(a, b, i), NEW D2, Drops(D, D2, i, a.local[i].rev)
  PROVE  /\ b \in App /\ b.key = a.key /\ b.saving = a.saving
         /\ D2 \in Deletions /\ Sound(b, s, e, ver, val, m, D2)
<1> USE DEF Fits
<1>1. a.local[i].stamp \in Nat /\ a.local[i].rev \in Nat /\ a.local[i].stamp <= a.local[i].rev
  BY Fields, DatedParts DEF Sound, AllDated
<1>2. D2 \in Deletions /\ D \subseteq D2
  BY <1>1 DEF Deletions, Drops
<1>3. ASSUME NEW o \in Nat, o <= a.local[i].stamp PROVE Since(D2, i, o)
  <2>1. a.local[i].rev >= o
    BY <1>1, <1>3
  <2>2. PICK y \in D2 : y = <<i, a.local[i].rev>>
    BY DEF Drops
  <2>3. QED
    BY <2>1, <2>2 DEF Since
<1>4. Absent \in Entry /\ Absent.stamp = 0 /\ Absent.rev = 0
  BY DEF Absent, Entry
<1>5. Since(D, i, e[i]) => Since(D2, i, e[i])
  BY <1>2 DEF Since
<1>6. a.locks = 0 => Since(D2, i, e[i])
  <2>1. a.locks = 0 => e[i] <= a.local[i].stamp \/ Since(D, i, e[i])
    BY DEF Sound, EditsFit
  <2>2. QED
    BY <1>3, <1>5, <2>1
<1>7. Since(D2, i, a.local[i].stamp)
  BY <1>1, <1>3
<1>8. Absent.stamp <= Absent.rev /\ Absent.stamp <= m
  BY <1>4
<1>9. Changed(a, b, i, Absent)
  BY <1>4, ChangeRefs DEF DropsLocal
<1>10. Sound(b, s, e, ver, val, m, D2)
  BY <1>2, <1>4, <1>6, <1>7, <1>8, <1>9, LocalChange
<1>11. QED
  BY <1>2, <1>9, <1>10 DEF Changed

-----------------------------------------------------------------------------
(* The steps of a flush                                                       *)

\* putIndex is refused, or its answer is lost.
LEMMA FlushGoesTo ==
  ASSUME NEW a, NEW s, NEW e, NEW ver, NEW val, NEW n, NEW D,
         Fits(a, s, e, ver, val, n, D), Settled(a, s), s.at = "put",
         NEW step \in {"conflict", "error"}, NEW t, t = [s EXCEPT !.at = step]
  PROVE  t \in Save /\ Sound(a, t, e, ver, val, n, D) /\ Settled(a, t)
<1> USE DEF Fits
<1>1. /\ t \in Save /\ t.at = step /\ t.key = s.key /\ t.sent = s.sent /\ t.b = s.b /\ t.n = s.n
      /\ t.attempt = s.attempt
  BY DEF Save
<1>2. KeysFit(a, t)
  BY <1>1 DEF Sound, KeysFit
<1>3. AllDated(a, t, n) /\ SaveFits(t, ver, val, D) /\ EditsFit(a, t, e, D) /\ Settled(a, t)
  BY <1>1 DEF Sound, AllDated, SaveFits, EditsFit, Settled
<1>4. QED
  BY <1>1, <1>2, <1>3 DEF Sound

\* putIndex has accepted what the flush sent.
LEMMA FlushIsSaved ==
  ASSUME NEW a, NEW s, NEW e, NEW ver, NEW val, NEW n, NEW D,
         Fits(a, s, e, ver, val, n, D), Settled(a, s), s.at = "put", val = s.n,
         NEW t, t = [s EXCEPT !.at = "saved", !.b = [version |-> ver, container |-> s.n]]
  PROVE  t \in Save /\ Sound(a, t, e, ver, val, n, D) /\ Settled(a, t)
<1> USE DEF Fits
<1> DEFINE st == [version |-> ver, container |-> s.n]
<1>1. st \in State /\ st.version = ver /\ st.container = s.n
  BY Fields DEF State
<1>2. /\ t \in Save /\ t.at = "saved" /\ t.key = s.key /\ t.sent = s.sent /\ t.b = st
      /\ t.n = s.n /\ t.attempt = s.attempt
  BY <1>1 DEF Save
<1> HIDE DEF st
<1>3. Covers(D, val, val) /\ NotOlder(val, val)
  BY CoversItself
<1>4. KeysFit(a, t)
  BY <1>2 DEF Sound, KeysFit
<1>5. AllDated(a, t, n) /\ EditsFit(a, t, e, D) /\ Settled(a, t)
  BY <1>1, <1>2 DEF Sound, AllDated, EditsFit, Settled
<1>6. SaveFits(t, ver, val, D)
  BY <1>1, <1>2, <1>3 DEF Sound, SaveFits, Known
<1>7. QED
  BY <1>2, <1>4, <1>5, <1>6 DEF Sound

\* loadIndex and merge after a conflict.
LEMMA FlushRebases ==
  ASSUME NEW a, NEW s, NEW e, NEW ver, NEW val, NEW n, NEW D,
         Fits(a, s, e, ver, val, n, D), Settled(a, s), s.at = "conflict", Dated(n, val),
         NEW t, t = [s EXCEPT !.n = Merge(s.b.container, s.n, val),
                              !.b = [version |-> ver, container |-> val],
                              !.at = IF s.attempt < Attempts THEN "put" ELSE "error",
                              !.attempt = s.attempt + 1]
  PROVE  t \in Save /\ Sound(a, t, e, ver, val, n, D) /\ Settled(a, t)
<1> USE DEF Fits
<1> DEFINE st   == [version |-> ver, container |-> val]
           m    == Merge(s.b.container, s.n, val)
           step == IF s.attempt < Attempts THEN "put" ELSE "error"
<1>1. st \in State /\ st.version = ver /\ st.container = val
  BY DEF State
<1>2. s.b.container \in Container /\ s.n \in Container /\ s.sent \in Container
  BY Fields
<1>3. m \in Container /\ Dated(n, m)
  <2>1. Dated(n, s.n)
    BY DEF Sound, AllDated
  <2>2. QED
    BY <1>2, <2>1, MergeType, MergeDated
<1>4. Covers(D, m, s.n) /\ Covers(D, m, val) /\ NotOlder(m, val)
  <2>1. Covers(D, s.n, s.b.container) /\ Covers(D, val, s.b.container)
    BY DEF Sound, SaveFits, Known
  <2>2. QED
    BY <1>2, <2>1, MergeCovers
<1>5. s.attempt \in 0..(Attempts + 1) /\ s.attempt <= Attempts
  BY Fields DEF Sound, KeysFit
<1>6. /\ s.attempt + 1 \in 0..(Attempts + 1) /\ step \in {"put", "error"}
      /\ step = "put" => s.attempt + 1 <= Attempts
  BY <1>5
<1> HIDE DEF m, step, st
<1>7. t = [s EXCEPT !.n = m, !.b = st, !.at = step, !.attempt = s.attempt + 1]
  BY DEF m, step, st
<1>8. /\ t \in Save /\ t.at = step /\ t.key = s.key /\ t.sent = s.sent /\ t.b = st
      /\ t.n = m /\ t.attempt = s.attempt + 1
  BY <1>1, <1>3, <1>6, <1>7 DEF Save
<1>9. KeysFit(a, t)
  BY <1>6, <1>8 DEF Sound, KeysFit
<1>10. AllDated(a, t, n) /\ EditsFit(a, t, e, D) /\ Settled(a, t)
  BY <1>1, <1>3, <1>8 DEF Sound, AllDated, EditsFit, Settled
<1>11. Covers(D, m, s.sent)
  <2>1. Covers(D, s.n, s.sent)
    BY DEF Sound, SaveFits
  <2>2. QED
    BY <1>2, <1>3, <1>4, <2>1, CoversThrough
<1>12. Covers(D, val, val)
  BY CoversItself
<1>13. SaveFits(t, ver, val, D)
  BY <1>1, <1>4, <1>6, <1>8, <1>11, <1>12 DEF SaveFits, Known
<1>14. QED
  BY <1>8, <1>9, <1>10, <1>13 DEF Sound

-----------------------------------------------------------------------------
(* The end of a flush, lock and enter                                         *)

\* Without a flush there is nothing to fit.
LEMMA NoFlush ==
  ASSUME NEW ver \in Nat, NEW val \in Container, NEW n \in Nat, NEW D \in Deletions,
         ver = 0 => val = Empty
  PROVE  /\ SaveFits(NoSave, ver, val, D) /\ Known(Nothing, ver, val, D)
         /\ Dated(n, NoSave.sent) /\ Dated(n, NoSave.n) /\ Dated(n, NoSave.b.container)
<1>1. Known(Nothing, ver, val, D)
  BY Nowhere, CoversEmpty DEF Known
<1>2. Covers(D, Empty, Empty) /\ NotOlder(Empty, Empty)
  BY EmptyContainer, CoversItself
<1>3. QED
  BY <1>1, <1>2, Nowhere, EmptyDated DEF SaveFits

\* flush returns without a word, or shows the error.
LEMMA FlushEnds ==
  ASSUME NEW a, NEW s, NEW e, NEW ver, NEW val, NEW n, NEW D,
         Fits(a, s, e, ver, val, n, D), ver = 0 => val = Empty,
         NEW b \in App, b.key = a.key, b.locks = a.locks, b.base = a.base, b.local = a.local,
         b.saving = FALSE, b.failed \/ (s.at # "none" /\ a.key # s.key)
  PROVE  Sound(b, NoSave, e, ver, val, n, D) /\ Settled(b, NoSave)
<1> USE DEF Fits
<1>1. KeysFit(b, NoSave)
  BY Nowhere DEF Sound, KeysFit
<1>2. AllDated(b, NoSave, n) /\ AppFits(b, ver, val, D) /\ SaveFits(NoSave, ver, val, D)
  BY NoFlush DEF Sound, AllDated, AppFits
<1>3. EditsFit(b, NoSave, e, D)
  BY Nowhere DEF Sound, EditsFit
<1>4. s.at # "none" /\ a.key # s.key => a.locks # 0
  BY Fields DEF Sound, KeysFit
<1>5. Settled(b, NoSave)
  BY <1>4, Nowhere DEF Settled
<1>6. QED
  BY <1>1, <1>2, <1>3, <1>5 DEF Sound

\* How a flush that is not saved leaves its device.
Stopped(a, b) == b = [a EXCEPT !.saving = FALSE]

LEMMA FlushAbandoned ==
  ASSUME NEW a, NEW s, NEW e, NEW ver, NEW val, NEW n, NEW D,
         Fits(a, s, e, ver, val, n, D), ver = 0 => val = Empty,
         s.at # "none", a.key # s.key, NEW b, Stopped(a, b)
  PROVE  b \in App /\ Sound(b, NoSave, e, ver, val, n, D) /\ Settled(b, NoSave)
<1>1. /\ b \in App /\ b.key = a.key /\ b.locks = a.locks /\ b.base = a.base /\ b.local = a.local
      /\ b.saving = FALSE
  BY DEF Fits, App, Stopped
<1>2. QED
  BY <1>1, FlushEnds

Failed(a, b) == b = [a EXCEPT !.saving = FALSE, !.failed = TRUE]

LEMMA FlushFails ==
  ASSUME NEW a, NEW s, NEW e, NEW ver, NEW val, NEW n, NEW D,
         Fits(a, s, e, ver, val, n, D), ver = 0 => val = Empty,
         NEW b, Failed(a, b)
  PROVE  b \in App /\ Sound(b, NoSave, e, ver, val, n, D) /\ Settled(b, NoSave)
<1>1. /\ b \in App /\ b.key = a.key /\ b.locks = a.locks /\ b.base = a.base /\ b.local = a.local
      /\ b.saving = FALSE /\ b.failed = TRUE
  BY DEF Fits, App, Failed
<1>2. QED
  BY <1>1, FlushEnds

\* The result of the flush becomes base and local: nothing has been edited meanwhile.
LEMMA FlushTakesOver ==
  ASSUME NEW a, NEW s, NEW e, NEW ver, NEW val, NEW n, NEW D,
         Fits(a, s, e, ver, val, n, D), Settled(a, s), ver = 0 => val = Empty,
         s.at = "saved", a.key = s.key, ~a.dirty,
         NEW b, b = [a EXCEPT !.base = s.b, !.local = s.b.container,
                              !.saving = FALSE, !.failed = FALSE]
  PROVE  b \in App /\ Sound(b, NoSave, e, ver, val, n, D) /\ Settled(b, NoSave)
<1> USE DEF Fits
<1>1. /\ b \in App /\ b.key = a.key /\ b.locks = a.locks /\ b.base = s.b
      /\ b.local = s.b.container /\ b.saving = FALSE
  BY Fields DEF App
<1>2. s.b.container \in Container /\ s.sent \in Container /\ s.b.container = s.n
  BY Fields DEF Sound, SaveFits
<1>3. KeysFit(b, NoSave)
  BY <1>1, Nowhere, Fields DEF Sound, KeysFit
<1>4. AllDated(b, NoSave, n)
  BY <1>1, NoFlush DEF Sound, AllDated
<1>5. Covers(D, s.b.container, s.b.container) /\ NotOlder(s.b.container, s.b.container)
  BY <1>2, CoversItself
<1>6. AppFits(b, ver, val, D) /\ SaveFits(NoSave, ver, val, D)
  BY <1>1, <1>5, NoFlush DEF Sound, SaveFits, AppFits
<1>7. EditsFit(b, NoSave, e, D)
  <2>1. a.local = s.sent
    BY DEF Settled
  <2>2. Covers(D, s.b.container, s.sent)
    BY <1>2 DEF Sound, SaveFits
  <2>3. ASSUME a.locks = 0, NEW i \in Id
        PROVE  e[i] <= s.b.container[i].stamp \/ Since(D, i, e[i])
    <3>1. /\ e[i] \in Nat /\ s.sent[i].stamp \in Nat /\ s.b.container[i].stamp \in Nat
          /\ e[i] <= s.sent[i].stamp \/ Since(D, i, e[i])
          /\ s.sent[i].stamp <= s.b.container[i].stamp \/ Since(D, i, s.sent[i].stamp)
      BY <1>2, <2>1, <2>2, <2>3, Parts DEF Sound, EditsFit, Covers
    <3>2. e[i] <= s.sent[i].stamp /\ Since(D, i, s.sent[i].stamp) => Since(D, i, e[i])
      BY <3>1 DEF Since, Deletions
    <3>3. QED
      BY <3>1, <3>2
  <2>4. QED
    BY <1>1, <2>3, Nowhere DEF EditsFit
<1>8. Settled(b, NoSave)
  BY <1>1, Nowhere DEF Settled
<1>9. QED
  BY <1>1, <1>3, <1>4, <1>6, <1>7, <1>8 DEF Sound

\* Edits made meanwhile are merged; the refs fit for another round.
Merged(a, s, b) == b = [a EXCEPT !.base = s.b, !.dirty = FALSE,
                                  !.local = Merge(s.sent, a.local, s.b.container)]

LEMMA FlushMerges ==
  ASSUME NEW a, NEW s, NEW e, NEW ver, NEW val, NEW n, NEW D,
         Fits(a, s, e, ver, val, n, D), s.at = "saved", a.key = s.key,
         NEW b, Merged(a, s, b)
  PROVE  /\ b \in App /\ b.key = a.key /\ b.saving = TRUE /\ b.dirty = FALSE
         /\ Send(b) \in Save /\ Sound(b, Send(b), e, ver, val, n, D) /\ Settled(b, Send(b))
<1> USE DEF Fits
<1> DEFINE m == Merge(s.sent, a.local, s.b.container)
<1>1. /\ s.b.container \in Container /\ s.sent \in Container /\ a.local \in Container
      /\ s.b.container = s.n
  BY Fields DEF Sound, SaveFits
<1>2. m \in Container /\ Dated(n, m)
  <2>1. Dated(n, a.local) /\ Dated(n, s.b.container)
    BY DEF Sound, AllDated
  <2>2. QED
    BY <1>1, <2>1, MergeType, MergeDated
<1>3. Covers(D, m, a.local) /\ Covers(D, m, s.b.container) /\ NotOlder(m, s.b.container)
  <2>1. Covers(D, a.local, s.sent) /\ Covers(D, s.b.container, s.sent)
    BY <1>1 DEF Sound, SaveFits, EditsFit
  <2>2. QED
    BY <1>1, <2>1, MergeCovers
<1>4. Covers(D, m, m)
  BY <1>2, CoversItself
<1> HIDE DEF m
<1>5. /\ b \in App /\ b.key = a.key /\ b.locks = a.locks /\ b.base = s.b /\ b.local = m
      /\ b.saving = a.saving /\ b.dirty = FALSE
  BY <1>2, Fields DEF App, Merged, m
<1> DEFINE t == Send(b)
<1>6. t \in Save
  BY <1>5, SendParts
<1>7. /\ t.at = "put" /\ t.key = b.key /\ t.sent = m /\ t.b = s.b /\ t.n = m /\ t.attempt = 1
  BY <1>5, SendParts
<1> HIDE DEF t
<1>8. a.saving = TRUE /\ a.key # 0
  BY Fields DEF Sound, KeysFit
<1>9. KeysFit(b, t)
  BY <1>5, <1>7, <1>8, Fields DEF Sound, KeysFit
<1>10. AllDated(b, t, n)
  BY <1>2, <1>5, <1>7 DEF Sound, AllDated
<1>11. AppFits(b, ver, val, D) /\ SaveFits(t, ver, val, D)
  BY <1>3, <1>4, <1>5, <1>7 DEF Sound, SaveFits, AppFits
<1>12. EditsFit(b, t, e, D)
  <2>1. ASSUME a.locks = 0, NEW i \in Id PROVE e[i] <= m[i].stamp \/ Since(D, i, e[i])
    <3>1. /\ e[i] \in Nat /\ a.local[i].stamp \in Nat /\ m[i].stamp \in Nat
          /\ e[i] <= a.local[i].stamp \/ Since(D, i, e[i])
          /\ a.local[i].stamp <= m[i].stamp \/ Since(D, i, a.local[i].stamp)
      BY <1>1, <1>2, <1>3, <2>1, Parts DEF Sound, EditsFit, Covers
    <3>2. e[i] <= a.local[i].stamp /\ Since(D, i, a.local[i].stamp) => Since(D, i, e[i])
      BY <3>1 DEF Since, Deletions
    <3>3. QED
      BY <3>1, <3>2
  <2>2. QED
    BY <1>4, <1>5, <1>7, <2>1 DEF EditsFit
<1>13. Settled(b, t)
  BY <1>5, <1>7, <1>8 DEF Settled
<1>14. QED
  BY <1>5, <1>6, <1>8, <1>9, <1>10, <1>11, <1>12, <1>13 DEF Sound, t

\* lock forgets the containers; a flush that is under way keeps its key.
LEMMA LockForgets ==
  ASSUME NEW a, NEW s, NEW e, NEW ver, NEW val, NEW n, NEW D,
         Fits(a, s, e, ver, val, n, D), ver = 0 => val = Empty, a.key # 0,
         NEW b, b = [a EXCEPT !.key = 0, !.locks = a.locks + 1, !.base = Nothing, !.local = Empty]
  PROVE  b \in App /\ Sound(b, s, e, ver, val, n, D) /\ Settled(b, s)
<1> USE DEF Fits
<1>1. /\ b \in App /\ b.key = 0 /\ b.locks = a.locks + 1 /\ b.base = Nothing /\ b.local = Empty
      /\ b.saving = a.saving
  <2>1. Nothing \in State /\ Empty \in Container
    BY Fields, Nowhere, EmptyContainer
  <2>2. PICK l \in Nat : l = a.locks + 1
    BY Fields
  <2>3. b = [a EXCEPT !.key = 0, !.locks = l, !.base = Nothing, !.local = Empty]
    BY <2>2
  <2>4. QED
    BY ONLY a \in App, <2>1, <2>2, <2>3 DEF App
<1>2. KeysFit(b, s)
  BY <1>1, Fields DEF Sound, KeysFit
<1>3. AllDated(b, s, n) /\ AppFits(b, ver, val, D)
  <2>1. Covers(D, Empty, Empty) /\ NotOlder(Empty, Empty)
    BY EmptyContainer, CoversItself
  <2>2. QED
    BY <1>1, <2>1, EmptyDated, NoFlush, Nowhere DEF Sound, AllDated, AppFits
<1>4. s.at # "none" => s.key # 0
  BY Fields DEF Sound, KeysFit
<1>5. a.locks + 1 # 0
  BY Fields
<1>6. EditsFit(b, s, e, D) /\ Settled(b, s)
  BY <1>1, <1>4, <1>5 DEF EditsFit, Settled
<1>7. QED
  BY <1>1, <1>2, <1>3, <1>6 DEF Sound

\* enter starts from the server, with a key no flush has.
Entered(a, b, ver, val) ==
  b = [a EXCEPT !.key = a.locks + 1, !.base = [version |-> ver, container |-> val],
                !.local = val, !.failed = FALSE]

LEMMA EnterLoads ==
  ASSUME NEW a, NEW s, NEW e, NEW ver, NEW val, NEW n, NEW D,
         Fits(a, s, e, ver, val, n, D), Dated(n, val), a.key = 0,
         NEW b, Entered(a, b, ver, val)
  PROVE  b \in App /\ Sound(b, s, e, ver, val, n, D) /\ Settled(b, s)
<1> USE DEF Fits
<1> DEFINE st == [version |-> ver, container |-> val]
<1>1. st \in State /\ st.version = ver /\ st.container = val
  BY DEF State
<1> HIDE DEF st
<1>2. /\ b \in App /\ b.key = a.locks + 1 /\ b.locks = a.locks /\ b.base = st /\ b.local = val
      /\ b.saving = a.saving
  <2>1. PICK k \in Nat : k = a.locks + 1
    BY Fields
  <2>2. b = [a EXCEPT !.key = k, !.base = st, !.local = val, !.failed = FALSE]
    BY <2>1 DEF st, Entered
  <2>3. QED
    BY ONLY a \in App, val \in Container, <1>1, <2>1, <2>2 DEF App
<1>3. a.locks \in Nat /\ a.locks > 0 /\ (s.at # "none" => s.key # a.locks + 1)
  BY Fields DEF Sound, KeysFit
<1>4. KeysFit(b, s)
  BY <1>2, <1>3, Fields DEF Sound, KeysFit
<1>5. Covers(D, val, val) /\ NotOlder(val, val)
  BY CoversItself
<1>6. AllDated(b, s, n) /\ AppFits(b, ver, val, D)
  BY <1>1, <1>2, <1>5 DEF Sound, AllDated, AppFits, Known
<1>7. EditsFit(b, s, e, D) /\ Settled(b, s)
  BY <1>2, <1>3 DEF EditsFit, Settled
<1>8. QED
  BY <1>2, <1>4, <1>6, <1>7 DEF Sound

-----------------------------------------------------------------------------
(* Every step                                                                 *)

\* Refs and flush of the other devices stay as they are.
Only(d) ==
  /\ app' \in [Device -> App] /\ save' \in [Device -> Save]
  /\ \A x \in Device \ {d} : app'[x] = app[x] /\ save'[x] = save[x]

\* What the history, the clock and the server may do in a step of device d.
Onward(d) ==
  /\ done' \in [Device -> [Id -> Nat]] /\ (\A x \in Device \ {d} : done'[x] = done[x])
  /\ edits' \in 0..MaxEdits /\ edits <= edits'
  /\ deleted' \in Deletions /\ deleted \subseteq deleted'
  /\ lost' \in BOOLEAN
  /\ \/ version' = version /\ value' = value
     \/ /\ version' = version + 1 /\ value' \in Container
        /\ Covers(deleted', value', value) /\ Dated(edits', value')

LEMMA Gather ==
  ASSUME SyncInv, NEW d \in Device, Only(d), Onward(d),
         Sound(app'[d], save'[d], done'[d], version', value', edits', deleted'),
         Settled(app'[d], save'[d])
  PROVE  SyncInv'
<1>1. /\ version \in Nat /\ value \in Container /\ edits \in Nat /\ edits' \in Nat
      /\ version' \in Nat /\ value' \in Container
      /\ deleted \in Deletions /\ deleted' \in Deletions
  BY DEF SyncInv, TypeOK, Onward, Deletions
<1>2. TypeOK'
  BY <1>1 DEF TypeOK, Only, Onward, Deletions
<1>3. Dated(edits', value')
  <2>1. CASE value' = value
    <3>1. ASSUME NEW i \in Id PROVE value[i].stamp <= value[i].rev /\ value[i].stamp <= edits'
      <4>1. value[i].stamp \in Nat /\ value[i].stamp <= value[i].rev /\ value[i].stamp <= edits
        BY <1>1, Parts DEF SyncInv, Dated
      <4>2. QED
        BY <1>1, <4>1 DEF Onward
    <3>2. QED
      BY <2>1, <3>1 DEF Dated
  <2>2. QED
    BY <2>1 DEF Onward
<1>4. version' = 0 => value' = Empty
  BY <1>1 DEF SyncInv, Onward
<1>5. ASSUME NEW x \in Device \ {d}
      PROVE  /\ Sound(app'[x], save'[x], done'[x], version', value', edits', deleted')
             /\ Settled(app'[x], save'[x])
  <2>1. /\ app[x] \in App /\ save[x] \in Save /\ done[x] \in [Id -> Nat]
        /\ app'[x] = app[x] /\ save'[x] = save[x] /\ done'[x] = done[x]
    BY DEF SyncInv, TypeOK, Only, Onward
  <2>2. /\ Sound(app[x], save[x], done[x], version, value, edits, deleted)
        /\ Settled(app[x], save[x])
    BY DEF SyncInv
  <2>3. /\ edits <= edits' /\ deleted \subseteq deleted'
        /\ ServerOn(version, value, version', value', deleted')
    BY DEF Onward, ServerOn
  <2>4. Sound(app[x], save[x], done[x], version', value', edits', deleted')
    BY <1>1, <2>1, <2>2, <2>3, OthersKeep
  <2>5. QED
    BY <2>1, <2>2, <2>4
<1>6. ASSUME NEW x \in Device
      PROVE  /\ Sound(app'[x], save'[x], done'[x], version', value', edits', deleted')
             /\ Settled(app'[x], save'[x])
  BY <1>5
<1>7. QED
  BY <1>2, <1>3, <1>4, <1>6
     DEF SyncInv, Sound, Settled, KeysFit, AllDated, AppFits, SaveFits, EditsFit, Dated, Known,
         Covers, NotOlder, Since

\* The state of one device, in a form that the lemmas above take.
LEMMA Device1 ==
  ASSUME SyncInv, NEW d \in Device
  PROVE  /\ app[d] \in App /\ save[d] \in Save /\ done[d] \in [Id -> Nat]
         /\ version \in Nat /\ value \in Container /\ edits \in Nat /\ deleted \in Deletions
         /\ version = 0 => value = Empty
         /\ Dated(edits, value)
         /\ Fits(app[d], save[d], done[d], version, value, edits, deleted)
         /\ Settled(app[d], save[d])
BY DEF SyncInv, TypeOK, Deletions, Fits

LEMMA FlushStep ==
  ASSUME SyncInv, NEW d \in Device, NEW a, a.saving = app[d].saving, a.key # 0,
         NEW e, NEW n, NEW D,
         Fits(a, save[d], e, version, value, n, D), Flush(d, a)
  PROVE  /\ Only(d)
         /\ Sound(app'[d], save'[d], e, version, value, n, D)
         /\ Settled(app'[d], save'[d])
<1>1. /\ app \in [Device -> App] /\ save \in [Device -> Save] /\ save[d] \in Save
      /\ version \in Nat /\ value \in Container
  BY DEF SyncInv, TypeOK
<1>2. CASE a.saving
  <2> DEFINE b == [a EXCEPT !.dirty = TRUE]
  <2>1. app' = [app EXCEPT ![d] = b] /\ save' = save
    BY <1>2 DEF Flush
  <2>2. b \in App /\ Sound(b, save[d], e, version, value, n, D) /\ Settled(b, save[d])
    BY <1>1, <1>2, FlushWaits
  <2> HIDE DEF b
  <2>3. app'[d] = b /\ save'[d] = save[d]
    BY <1>1, <2>1
  <2>4. Only(d)
    BY <1>1, <2>1, <2>2 DEF Only
  <2>5. QED
    BY <2>2, <2>3, <2>4
<1>3. CASE ~a.saving
  <2> DEFINE b == [a EXCEPT !.saving = TRUE, !.dirty = FALSE]
             t == Send(a)
  <2>1. app' = [app EXCEPT ![d] = b] /\ save' = [save EXCEPT ![d] = t]
    BY <1>3 DEF Flush
  <2> HIDE DEF b
  <2>2. b \in App /\ t \in Save /\ Sound(b, t, e, version, value, n, D) /\ Settled(b, t)
    <3>1. Started(a, b)
      BY DEF Started, b
    <3>2. QED
      BY <1>1, <1>3, <3>1, FlushStarts
  <2> HIDE DEF t
  <2>3. app'[d] = b /\ save'[d] = t
    BY <1>1, <2>1
  <2>4. Only(d)
    BY <1>1, <2>1, <2>2 DEF Only
  <2>5. QED
    BY <2>2, <2>3, <2>4
<1>4. QED
  BY <1>2, <1>3

\* What the edits have in common.
LEMMA Mutated ==
  ASSUME SyncInv, NEW d \in Device, NEW local, Mutate(d, local)
  PROVE  /\ app[d].key # 0
         /\ edits' \in Nat /\ edits' = edits + 1 /\ edits' \in 0..MaxEdits /\ edits <= edits'
         /\ version' = version /\ value' = value
         /\ Flush(d, [app[d] EXCEPT !.local = local])
BY DEF Mutate, SyncInv, TypeOK, server

LEMMA EditStep ==
  ASSUME SyncInv, NEW d \in Device, NEW i \in Id, Edit(d, i) PROVE SyncInv'
<1> DEFINE b  == [app[d] EXCEPT !.local = [app[d].local EXCEPT
                                             ![i] = [stamp |-> edits', rev |-> edits']]]
           e2 == [done[d] EXCEPT ![i] = edits']
<1>1. /\ app[d].key # 0
      /\ edits' \in Nat /\ edits' = edits + 1 /\ edits' \in 0..MaxEdits /\ edits <= edits'
      /\ version' = version /\ value' = value
      /\ Flush(d, b)
  <2>1. Mutate(d, [app[d].local EXCEPT ![i] = [stamp |-> edits + 1, rev |-> edits + 1]])
    BY DEF Edit
  <2>2. edits' = edits + 1
    BY <2>1 DEF Mutate
  <2>3. Mutate(d, [app[d].local EXCEPT ![i] = [stamp |-> edits', rev |-> edits']])
    BY <2>1, <2>2
  <2>4. QED
    BY <2>3, Mutated
<1>2. /\ done' = [done EXCEPT ![d] = e2] /\ deleted' = deleted /\ lost' = lost
  <2>1. done' = [done EXCEPT ![d][i] = edits + 1] /\ deleted' = deleted /\ lost' = lost
    BY DEF Edit
  <2>2. QED
    BY <1>1, <2>1
<1> HIDE DEF b, e2
<1>3. /\ b \in App /\ b.key = app[d].key /\ b.saving = app[d].saving
      /\ e2 \in [Id -> Nat] /\ Sound(b, save[d], e2, version, value, edits', deleted)
  <2>1. ChangesLocal(app[d], b, i, edits', edits')
    BY DEF ChangesLocal, b
  <2>2. /\ b \in App /\ b.key = app[d].key /\ b.saving = app[d].saving
        /\ b.local[i].stamp = edits'
        /\ Sound(b, save[d], done[d], version, value, edits', deleted)
    BY <1>1, <2>1, Device1, EditChange
  <2>3. /\ e2 \in [Id -> Nat] /\ e2[i] = edits'
        /\ \A j \in Id : j # i => e2[j] = done[d][j]
    <3>1. done[d] \in [Id -> Nat] /\ edits' \in Nat
      BY <1>1, Device1
    <3>2. QED
      BY ONLY <3>1, i \in Id DEF e2
  <2>4. EditsFit(b, save[d], e2, deleted)
    BY <1>1, <2>2, <2>3 DEF Sound, EditsFit
  <2>5. QED
    BY <2>2, <2>3, <2>4 DEF Sound
<1>4. Fits(b, save[d], e2, version, value, edits', deleted)
  BY <1>1, <1>3, Device1 DEF Fits
<1>5. /\ Only(d) /\ Sound(app'[d], save'[d], e2, version, value, edits', deleted)
      /\ Settled(app'[d], save'[d])
  BY <1>1, <1>3, <1>4, FlushStep
<1>6. done'[d] = e2 /\ Onward(d)
  BY <1>1, <1>2, <1>3, Device1 DEF Onward, SyncInv, TypeOK
<1>7. QED
  BY <1>1, <1>2, <1>5, <1>6, Gather

LEMMA TouchStep ==
  ASSUME SyncInv, NEW d \in Device, NEW i \in Id, Touch(d, i) PROVE SyncInv'
<1> DEFINE b == [app[d] EXCEPT !.local = [app[d].local EXCEPT
                                            ![i] = [stamp |-> app[d].local[i].stamp, rev |-> edits']]]
<1>1. /\ app[d].key # 0
      /\ edits' \in Nat /\ edits' = edits + 1 /\ edits' \in 0..MaxEdits /\ edits <= edits'
      /\ version' = version /\ value' = value
      /\ Flush(d, b)
  <2>1. Mutate(d, [app[d].local EXCEPT ![i] = [stamp |-> @.stamp, rev |-> edits + 1]])
    BY DEF Touch
  <2>2. edits' = edits + 1
    BY <2>1 DEF Mutate
  <2>3. Mutate(d, [app[d].local EXCEPT ![i] = [stamp |-> app[d].local[i].stamp, rev |-> edits']])
    BY <2>1, <2>2
  <2>4. QED
    BY <2>3, Mutated
<1>2. done' = done /\ deleted' = deleted /\ lost' = lost /\ app[d].local[i] # Absent
  BY DEF Touch, history
<1> HIDE DEF b
<1>3. /\ b \in App /\ b.key = app[d].key /\ b.saving = app[d].saving
      /\ Sound(b, save[d], done[d], version, value, edits', deleted)
  <2>1. ChangesLocal(app[d], b, i, app[d].local[i].stamp, edits')
    BY DEF ChangesLocal, b
  <2>2. QED
    BY <1>1, <1>2, <2>1, Device1, TouchChange
<1>4. Fits(b, save[d], done[d], version, value, edits', deleted)
  BY <1>1, <1>3, Device1 DEF Fits
<1>5. /\ Only(d) /\ Sound(app'[d], save'[d], done[d], version, value, edits', deleted)
      /\ Settled(app'[d], save'[d])
  BY <1>1, <1>3, <1>4, FlushStep
<1>6. Onward(d)
  BY <1>1, <1>2, Device1 DEF Onward, SyncInv, TypeOK, Deletions
<1>7. QED
  BY <1>1, <1>2, <1>5, <1>6, Gather

LEMMA DeleteStep ==
  ASSUME SyncInv, NEW d \in Device, NEW i \in Id, Delete(d, i) PROVE SyncInv'
<1> DEFINE b == [app[d] EXCEPT !.local = [app[d].local EXCEPT ![i] = Absent]]
<1>1. /\ app[d].key # 0
      /\ edits' \in Nat /\ edits' = edits + 1 /\ edits' \in 0..MaxEdits /\ edits <= edits'
      /\ version' = version /\ value' = value
      /\ Flush(d, b)
  <2>1. Mutate(d, [app[d].local EXCEPT ![i] = Absent])
    BY DEF Delete
  <2>2. QED
    BY <2>1, Mutated
<1>2. done' = done /\ lost' = lost /\ deleted' = deleted \cup {<<i, app[d].local[i].rev>>}
  BY DEF Delete
<1> HIDE DEF b
<1>3. /\ b \in App /\ b.key = app[d].key /\ b.saving = app[d].saving
      /\ deleted' \in Deletions
      /\ Sound(b, save[d], done[d], version, value, edits', deleted')
  <2>1. DropsLocal(app[d], b, i)
    BY DEF DropsLocal, b
  <2>2. Drops(deleted, deleted', i, app[d].local[i].rev)
    BY <1>2 DEF Drops
  <2>3. Fits(app[d], save[d], done[d], version, value, edits, deleted)
    BY Device1
  <2>4. QED
    BY ONLY i \in Id, <1>1, <2>1, <2>2, <2>3, DeleteChange, SMTT(30)
<1>4. Fits(b, save[d], done[d], version, value, edits', deleted')
  BY <1>1, <1>3, Device1 DEF Fits
<1>5. /\ Only(d) /\ Sound(app'[d], save'[d], done[d], version, value, edits', deleted')
      /\ Settled(app'[d], save'[d])
  BY <1>1, <1>3, <1>4, FlushStep
<1>6. Onward(d)
  BY <1>1, <1>2, <1>3, Device1 DEF Onward, SyncInv, TypeOK
<1>7. QED
  BY <1>1, <1>2, <1>5, <1>6, Gather

LEMMA RetryStep ==
  ASSUME SyncInv, NEW d \in Device, Retry(d) PROVE SyncInv'
<1>1. /\ app[d].key # 0 /\ Flush(d, app[d])
      /\ version' = version /\ value' = value /\ edits' = edits
      /\ done' = done /\ deleted' = deleted /\ lost' = lost
  BY DEF Retry, server, history
<1>2. /\ Only(d) /\ Sound(app'[d], save'[d], done[d], version, value, edits, deleted)
      /\ Settled(app'[d], save'[d])
  BY <1>1, Device1, FlushStep
<1>3. Onward(d)
  BY <1>1, Device1 DEF Onward, SyncInv, TypeOK, Deletions
<1>4. QED
  BY <1>1, <1>2, <1>3, Gather

\* A step of device d that moves neither the server nor the clock nor the history.
LEMMA Quiet ==
  ASSUME SyncInv, NEW d \in Device, UNCHANGED <<version, value, edits, done, deleted, lost>>,
         NEW b \in App, NEW t \in Save,
         app' = [app EXCEPT ![d] = b], save' = [save EXCEPT ![d] = t],
         Sound(b, t, done[d], version, value, edits, deleted), Settled(b, t)
  PROVE  SyncInv'
<1>1. app'[d] = b /\ save'[d] = t /\ Only(d)
  BY DEF Only, SyncInv, TypeOK
<1>2. Onward(d)
  BY Device1 DEF Onward, SyncInv, TypeOK, Deletions
<1>3. QED
  BY <1>1, <1>2, Gather

\* A step of device d that changes only its flush.
LEMMA QuietFlush ==
  ASSUME SyncInv, NEW d \in Device, UNCHANGED <<version, value, edits, app, done, deleted, lost>>,
         NEW t \in Save, save' = [save EXCEPT ![d] = t],
         Sound(app[d], t, done[d], version, value, edits, deleted), Settled(app[d], t)
  PROVE  SyncInv'
<1>1. app'[d] = app[d] /\ save'[d] = t /\ Only(d)
  BY DEF Only, SyncInv, TypeOK
<1>2. Onward(d)
  BY Device1 DEF Onward, SyncInv, TypeOK, Deletions
<1>3. QED
  BY <1>1, <1>2, Gather

LEMMA PutAcceptedStep ==
  ASSUME SyncInv, NEW d \in Device, PutAccepted(d) PROVE SyncInv'
<1>1. /\ save[d].at = "put" /\ save[d].b.version = version
      /\ version' = version + 1 /\ value' = save[d].n
      /\ edits' = edits /\ app' = app /\ done' = done /\ deleted' = deleted
  BY DEF PutAccepted, Saving
<1>2. Fits(app[d], save[d], done[d], version, value, edits, deleted)
  BY Device1
\* What is sent was made from the present container.
<1>3. save[d].b.container = value /\ Covers(deleted, save[d].n, value)
  BY <1>1, <1>2 DEF Fits, Sound, SaveFits, Known
<1>4. /\ value' \in Container /\ Dated(edits, value') /\ version' \in Nat
      /\ Covers(deleted, value', value)
  BY <1>1, <1>2, <1>3, Fields DEF Fits, Sound, AllDated
<1>5. Fits(app[d], save[d], done[d], version', value', edits, deleted)
  <2>1. ServerOn(version, value, version', value', deleted)
    BY <1>1, <1>4 DEF ServerOn
  <2>2. edits \in Nat /\ edits <= edits
    BY <1>2 DEF Fits
  <2>3. Sound(app[d], save[d], done[d], version', value', edits, deleted)
    BY <1>2, <1>4, <2>1, <2>2, OthersKeep DEF Fits
  <2>4. QED
    BY <1>2, <1>4, <2>3 DEF Fits
<1>6. PICK t : /\ save' = [save EXCEPT ![d] = t] /\ lost' \in BOOLEAN
               /\ \/ t = [save[d] EXCEPT !.at = "saved",
                                         !.b = [version |-> version', container |-> save[d].n]]
                  \/ t = [save[d] EXCEPT !.at = "error"]
  BY <1>1 DEF PutAccepted, Go, SyncInv, TypeOK
<1>7. /\ t \in Save /\ Sound(app[d], t, done[d], version', value', edits, deleted)
      /\ Settled(app[d], t)
  <2>1. Settled(app[d], save[d])
    BY Device1
  <2>2. CASE t = [save[d] EXCEPT !.at = "saved",
                                 !.b = [version |-> version', container |-> save[d].n]]
    BY <1>1, <1>5, <2>1, <2>2, FlushIsSaved
  <2>3. CASE t = [save[d] EXCEPT !.at = "error"]
    BY <1>1, <1>5, <2>1, <2>3, FlushGoesTo
  <2>4. QED
    BY <1>6, <2>2, <2>3
<1>8. app'[d] = app[d] /\ save'[d] = t /\ Only(d)
  BY <1>1, <1>6, <1>7 DEF Only, SyncInv, TypeOK
<1>9. Onward(d)
  BY <1>1, <1>4, <1>6, Device1 DEF Onward, SyncInv, TypeOK, Deletions
<1>10. QED
  BY <1>1, <1>7, <1>8, <1>9, Gather

LEMMA PutConflictStep ==
  ASSUME SyncInv, NEW d \in Device, PutConflict(d) PROVE SyncInv'
<1> DEFINE t == [save[d] EXCEPT !.at = "conflict"]
<1>1. /\ save[d].at = "put" /\ save' = [save EXCEPT ![d] = t]
      /\ UNCHANGED <<version, value, edits, app, done, deleted, lost>>
  BY DEF PutConflict, Saving, Go, server, history
<1>2. t \in Save /\ Sound(app[d], t, done[d], version, value, edits, deleted) /\ Settled(app[d], t)
  BY <1>1, Device1, FlushGoesTo
<1> HIDE DEF t
<1>3. QED
  BY <1>1, <1>2, QuietFlush

LEMMA RebaseStep ==
  ASSUME SyncInv, NEW d \in Device, Rebase(d) PROVE SyncInv'
<1> DEFINE t == [save[d] EXCEPT !.n = Merge(save[d].b.container, save[d].n, value),
                                !.b = [version |-> version, container |-> value],
                                !.at = IF save[d].attempt < Attempts THEN "put" ELSE "error",
                                !.attempt = save[d].attempt + 1]
<1>1. /\ save[d].at = "conflict" /\ save' = [save EXCEPT ![d] = t]
      /\ UNCHANGED <<version, value, edits, app, done, deleted, lost>>
  BY DEF Rebase, Saving, Go, Server, server, history
<1>2. t \in Save /\ Sound(app[d], t, done[d], version, value, edits, deleted) /\ Settled(app[d], t)
  BY <1>1, Device1, FlushRebases
<1> HIDE DEF t
<1>3. QED
  BY <1>1, <1>2, QuietFlush

LEMMA AbandonStep ==
  ASSUME SyncInv, NEW d \in Device, Abandon(d) PROVE SyncInv'
<1> DEFINE b == [app[d] EXCEPT !.saving = FALSE]
<1>1. /\ save[d].at = "saved" /\ app[d].key # save[d].key
      /\ app' = [app EXCEPT ![d] = b] /\ save' = [save EXCEPT ![d] = NoSave]
      /\ UNCHANGED <<version, value, edits, done, deleted, lost>>
  BY DEF Abandon, Saving, Go, server, history
<1>2. b \in App /\ Sound(b, NoSave, done[d], version, value, edits, deleted) /\ Settled(b, NoSave)
  BY <1>1, Device1, FlushAbandoned DEF Stopped
<1> HIDE DEF b
<1>3. QED
  BY <1>1, <1>2, Nowhere, Quiet

LEMMA FailStep ==
  ASSUME SyncInv, NEW d \in Device, Fail(d) PROVE SyncInv'
<1> DEFINE b == [app[d] EXCEPT !.saving = FALSE, !.failed = TRUE]
<1>1. /\ app' = [app EXCEPT ![d] = b] /\ save' = [save EXCEPT ![d] = NoSave]
      /\ UNCHANGED <<version, value, edits, done, deleted, lost>>
  BY DEF Fail, Go, server, history, SyncInv, TypeOK
<1>2. b \in App /\ Sound(b, NoSave, done[d], version, value, edits, deleted) /\ Settled(b, NoSave)
  BY <1>1, Device1, FlushFails DEF Failed
<1> HIDE DEF b
<1>3. QED
  BY <1>1, <1>2, Nowhere, Quiet

LEMMA LockStep ==
  ASSUME SyncInv, NEW d \in Device, Lock(d) PROVE SyncInv'
<1> DEFINE b == [app[d] EXCEPT !.key = 0, !.locks = app[d].locks + 1, !.base = Nothing,
                               !.local = Empty]
<1>1. /\ app[d].key # 0 /\ app' = [app EXCEPT ![d] = b] /\ save' = save
      /\ UNCHANGED <<version, value, edits, done, deleted, lost>>
  BY DEF Lock, server, history
<1>2. b \in App /\ Sound(b, save[d], done[d], version, value, edits, deleted) /\ Settled(b, save[d])
  BY <1>1, Device1, LockForgets
<1> HIDE DEF b
<1>3. save[d] \in Save /\ save' = [save EXCEPT ![d] = save[d]]
  BY <1>1 DEF SyncInv, TypeOK
<1>4. QED
  BY <1>1, <1>2, <1>3, Quiet

LEMMA EnterStep ==
  ASSUME SyncInv, NEW d \in Device, Enter(d) PROVE SyncInv'
<1> DEFINE b == [app[d] EXCEPT !.key = app[d].locks + 1,
                               !.base = [version |-> version, container |-> value],
                               !.local = value, !.failed = FALSE]
<1>1. /\ app[d].key = 0 /\ app' = [app EXCEPT ![d] = b] /\ save' = save
      /\ UNCHANGED <<version, value, edits, done, deleted, lost>>
  BY DEF Enter, Server, server, history
<1> HIDE DEF b
<1>2. b \in App /\ Sound(b, save[d], done[d], version, value, edits, deleted) /\ Settled(b, save[d])
  <2>1. Entered(app[d], b, version, value)
    BY DEF Entered, b
  <2>2. QED
    BY <1>1, <2>1, Device1, EnterLoads
<1>3. save[d] \in Save /\ save' = [save EXCEPT ![d] = save[d]]
  BY <1>1 DEF SyncInv, TypeOK
<1>4. QED
  BY <1>1, <1>2, <1>3, Quiet

LEMMA FinishStep ==
  ASSUME SyncInv, NEW d \in Device, Finish(d) PROVE SyncInv'
<1>1. /\ save[d].at = "saved" /\ app[d].key = save[d].key
      /\ UNCHANGED <<version, value, edits, done, deleted, lost>>
  BY DEF Finish, Saving, server, history
<1>2. CASE app[d].dirty
  <2> DEFINE b == [app[d] EXCEPT !.base = save[d].b, !.dirty = FALSE,
                                 !.local = Merge(save[d].sent, app[d].local, save[d].b.container)]
             t == Send(b)
  <2>1. app' = [app EXCEPT ![d] = b] /\ save' = [save EXCEPT ![d] = t]
    BY <1>2 DEF Finish, Go
  <2> HIDE DEF b
  <2>2. /\ b \in App /\ t \in Save
        /\ Sound(b, t, done[d], version, value, edits, deleted) /\ Settled(b, t)
    <3>1. Merged(app[d], save[d], b)
      BY DEF Merged, b
    <3>2. QED
      BY <1>1, <3>1, Device1, FlushMerges
  <2> HIDE DEF t
  <2>3. QED
    BY <1>1, <2>1, <2>2, Quiet
<1>3. CASE ~app[d].dirty
  <2> DEFINE b == [app[d] EXCEPT !.base = save[d].b, !.local = save[d].b.container,
                                 !.saving = FALSE, !.failed = FALSE]
  <2>1. app' = [app EXCEPT ![d] = b] /\ save' = [save EXCEPT ![d] = NoSave]
    BY <1>3 DEF Finish, Go
  <2>2. b \in App /\ Sound(b, NoSave, done[d], version, value, edits, deleted) /\ Settled(b, NoSave)
    BY <1>1, <1>3, Device1, FlushTakesOver
  <2> HIDE DEF b
  <2>3. QED
    BY <1>1, <2>1, <2>2, Nowhere, Quiet
<1>4. QED
  BY <1>2, <1>3

LEMMA InitSync == Init => SyncInv
<1> SUFFICES ASSUME Init PROVE SyncInv
  OBVIOUS
<1>1. Empty \in Container /\ Nothing \in State /\ NoSave \in Save
  BY EmptyContainer, Nowhere
<1> DEFINE a == Fresh(Nothing, 1, 0)
<1>2. /\ a \in App /\ a.key = 1 /\ a.locks = 0 /\ a.base = Nothing /\ a.local = Empty
      /\ a.saving = FALSE /\ a.dirty = FALSE /\ a.failed = FALSE
  BY <1>1, Nowhere DEF Fresh, App
<1> HIDE DEF a
<1>3. /\ version = 0 /\ value = Empty /\ edits = 0 /\ deleted = {} /\ lost = FALSE
      /\ app = [d \in Device |-> a] /\ save = [d \in Device |-> NoSave]
      /\ done = [d \in Device |-> [i \in Id |-> 0]]
  BY DEF Init, a
<1>4. TypeOK
  <2>1. version \in Nat /\ value \in Container /\ lost \in BOOLEAN
    BY <1>1, <1>3
  <2>2. deleted \subseteq Id \X Nat
    BY <1>3
  <2>3. edits \in 0..MaxEdits
    BY <1>3
  <2>4. app \in [Device -> App] /\ save \in [Device -> Save]
    BY <1>1, <1>2, <1>3
  <2>5. done \in [Device -> [Id -> Nat]]
    BY <1>3
  <2>6. QED
    BY <2>1, <2>2, <2>3, <2>4, <2>5 DEF TypeOK
<1>5. Dated(0, Empty) /\ Covers({}, Empty, Empty) /\ NotOlder(Empty, Empty)
  BY <1>1, EmptyDated, CoversItself
<1>6. ASSUME NEW e \in [Id -> Nat], \A i \in Id : e[i] = 0
      PROVE  Sound(a, NoSave, e, 0, Empty, 0, {}) /\ Settled(a, NoSave)
  <2>1. KeysFit(a, NoSave)
    BY <1>2, Nowhere DEF KeysFit
  <2>2. AllDated(a, NoSave, 0)
    BY <1>2, <1>5, Nowhere DEF AllDated
  <2>3. AppFits(a, 0, Empty, {}) /\ SaveFits(NoSave, 0, Empty, {})
    BY <1>2, <1>5, Nowhere DEF AppFits, SaveFits, Known
  <2>4. Settled(a, NoSave)
    BY <1>2, Nowhere DEF Settled
  <2>5. \A i \in Id : Empty[i].stamp = 0
    <3>1. \A x : x = Absent => x.stamp = 0
      BY DEF Absent
    <3>2. QED
      BY <3>1, EmptyContainer
  <2>6. EditsFit(a, NoSave, e, {})
    BY <1>2, <1>6, <2>5, Nowhere DEF EditsFit
  <2>7. QED
    BY <2>1, <2>2, <2>3, <2>4, <2>6 DEF Sound
<1>7. ASSUME NEW d \in Device
      PROVE  /\ Sound(app[d], save[d], done[d], version, value, edits, deleted)
             /\ Settled(app[d], save[d])
  BY <1>3, <1>6
<1>8. QED
  BY <1>3, <1>4, <1>5, <1>7 DEF SyncInv

LEMMA NextSync == SyncInv /\ [Next]_vars => SyncInv'
<1> SUFFICES ASSUME SyncInv, [Next]_vars PROVE SyncInv'
  OBVIOUS
<1>1. CASE Next
  <2>1. PICK d \in Device : \/ \E i \in Id : Edit(d, i) \/ Touch(d, i) \/ Delete(d, i)
                            \/ Retry(d) \/ Run(d) \/ Lock(d) \/ Enter(d)
    BY <1>1 DEF Next
  <2>2. CASE \E i \in Id : Edit(d, i) \/ Touch(d, i) \/ Delete(d, i)
    BY <2>2, EditStep, TouchStep, DeleteStep
  <2>3. CASE Retry(d)
    BY <2>3, RetryStep
  <2>4. CASE Run(d)
    BY <2>4, PutAcceptedStep, PutConflictStep, RebaseStep, AbandonStep, FinishStep, FailStep
       DEF Run
  <2>5. CASE Lock(d)
    BY <2>5, LockStep
  <2>6. CASE Enter(d)
    BY <2>6, EnterStep
  <2>7. QED
    BY <2>1, <2>2, <2>3, <2>4, <2>5, <2>6
<1>2. CASE UNCHANGED vars
  BY <1>2 DEF vars, SyncInv, TypeOK
<1>3. QED
  BY <1>1, <1>2

LEMMA AlwaysSync == Spec => []SyncInv
BY InitSync, NextSync, PTL DEF Spec

-----------------------------------------------------------------------------
(* What is proved                                                             *)

\* A device that shows "saved" and was never locked: every stamped edit it made is on
\* the server in a revision as new, or that entry has been deleted in one, whatever
\* conflicts, retries, lost answers and edits during a flush there were.
THEOREM SyncedIsSaved == Spec => []SyncedMeansSaved
<1>1. SyncInv => SyncedMeansSaved
  <2> SUFFICES ASSUME SyncInv, NEW d \in Device, Synced(d), app[d].locks = 0, NEW i \in Id,
                      ~Since(deleted, i, done[d][i])
               PROVE  value[i].rev >= done[d][i]
    BY DEF SyncedMeansSaved, Saved, Since
  <2>1. /\ app[d] \in App /\ value \in Container /\ Dated(edits, value) /\ deleted \in Deletions
        /\ Sound(app[d], save[d], done[d], version, value, edits, deleted)
        /\ Settled(app[d], save[d]) /\ done[d][i] \in Nat /\ edits \in Nat
    BY Device1 DEF Fits
  <2> DEFINE c == app[d].local
  <2>2. c = app[d].base.container /\ c \in Container
    BY <2>1, Fields DEF Settled, Synced
  <2>3. done[d][i] <= c[i].stamp
    BY <2>1 DEF Sound, EditsFit
  <2>4. c[i].stamp <= value[i].stamp \/ Since(deleted, i, c[i].stamp)
    BY <2>1, <2>2 DEF Sound, AppFits, Known, Covers
  <2> HIDE DEF c
  <2>5. ~Since(deleted, i, c[i].stamp)
    BY <2>1, <2>2, <2>3, Parts DEF Since, Deletions
  <2>6. /\ value[i].stamp \in Nat /\ value[i].rev \in Nat /\ c[i].stamp \in Nat
        /\ value[i].stamp <= value[i].rev
    BY <2>1, <2>2, Parts DEF Dated
  <2>7. QED
    BY <2>1, <2>3, <2>4, <2>5, <2>6
<1>2. QED
  BY <1>1, AlwaysSync, PTL

\* A locked device holds neither base nor local container: the answer to a flush that was
\* under way when it was locked does not bring them back.
THEOREM LockedForgets == Spec => []LockedHoldsNothing
<1>1. SyncInv => LockedHoldsNothing
  BY DEF SyncInv, Sound, KeysFit, LockedHoldsNothing
<1>2. QED
  BY <1>1, AlwaysSync, PTL

\* No put takes the server from an entry back to an older stamp of it.
THEOREM StampsOnlyAdvance == Spec => StampsAdvance
<1> DEFINE Advance == \A i \in Id : value[i] # Absent /\ value'[i] # Absent
                                      => value'[i].stamp >= value[i].stamp
<1>1. SyncInv /\ [Next]_vars => [Advance]_vars
  <2> SUFFICES ASSUME SyncInv, Next PROVE Advance
    BY DEF vars
  <2>1. value \in Container /\ \A i \in Id : value[i].stamp \in Nat
    BY Parts DEF SyncInv, TypeOK
  <2>2. CASE value' = value
    BY <2>1, <2>2
  <2>3. CASE \E d \in Device : PutAccepted(d)
    <3>1. PICK d \in Device : PutAccepted(d)
      BY <2>3
    <3>2. value' = save[d].n /\ save[d].b.version = version
      BY <3>1 DEF PutAccepted
    <3>3. Fits(app[d], save[d], done[d], version, value, edits, deleted)
      BY Device1
    <3>4. NotOlder(save[d].n, value)
      BY <3>2, <3>3 DEF Fits, Sound, SaveFits, Known
    <3>5. save[d].n \in Container /\ \A i \in Id : save[d].n[i].stamp \in Nat
      BY <3>3, Fields, Parts DEF Fits
    <3>6. QED
      BY <2>1, <3>2, <3>4, <3>5 DEF NotOlder
  <2>4. value' = value \/ \E d \in Device : PutAccepted(d)
    BY DEF Next, Run, Edit, Touch, Delete, Mutate, Retry, PutConflict, Rebase, Abandon, Finish,
           Fail, Lock, Enter, server
  <2>5. QED
    BY <2>2, <2>3, <2>4
<1>2. QED
  BY <1>1, AlwaysSync, PTL DEF Spec, StampsAdvance

-----------------------------------------------------------------------------
(* The server, and edits that all have a stamp                                *)

\* Every variable of the devices, their flushes and the server keeps its type.
THEOREM SyncTypes == Spec => []TypeOK
<1>1. SyncInv => TypeOK
  BY DEF SyncInv
<1>2. QED
  BY <1>1, AlwaysSync, PTL

\* What the devices see of the server is the register that VaultIndex implements: a put
\* writes on top of the version it was made for, and nothing else changes it.
Register == INSTANCE VersionedRegister WITH Value <- Container, NoValue <- Empty

\* The devices use the server as a register with compare-and-set by version: every step
\* of theirs is a write on top of the current version or leaves the register alone.
THEOREM ServerIsARegister == Spec => Register!RegSpec
<1>1. Init => Register!RegInit
  BY DEF Init, Register!RegInit
<1>2. SyncInv /\ [Next]_vars => [Register!RegNext]_<<version, value>>
  <2> SUFFICES ASSUME SyncInv, Next PROVE Register!RegNext \/ UNCHANGED server
    BY DEF vars, server
  <2>1. UNCHANGED server \/ \E d \in Device : PutAccepted(d)
    BY DEF Next, Run, Edit, Touch, Delete, Mutate, Retry, PutConflict, Rebase, Abandon, Finish,
           Fail, Lock, Enter, server
  <2>2. ASSUME NEW d \in Device, PutAccepted(d)
        PROVE  Register!RegNext
    <3>1. save[d].n \in Container
      BY Device1, Fields DEF Fits
    <3>2. version' = version + 1 /\ value' = save[d].n
      BY <2>2 DEF PutAccepted
    <3>3. Register!Accept(version, save[d].n)
      BY <3>2 DEF Register!Accept
    <3>4. QED
      BY <3>1, <3>3 DEF Register!RegNext
  <2>3. QED
    BY <2>1, <2>2
<1>3. QED
  BY <1>1, <1>2, AlwaysSync, PTL DEF Spec, Register!RegSpec, Register!regVars

\* Every entry is of the revision its stamp says.
AsStamped(c) == \A i \in Id : c[i].rev = c[i].stamp

AppStamped(a)  == AsStamped(a.base.container) /\ AsStamped(a.local)
SaveStamped(s) == AsStamped(s.sent) /\ AsStamped(s.b.container) /\ AsStamped(s.n)

StampsTell ==
  /\ AsStamped(value)
  /\ \A d \in Device : AppStamped(app[d]) /\ SaveStamped(save[d])

LEMMA EmptyStamped == AsStamped(Empty) /\ AsStamped(Nothing.container) /\ SaveStamped(NoSave)
<1>1. \A x : x = Absent => x.rev = x.stamp
  BY DEF Absent
<1>2. AsStamped(Empty)
  BY <1>1, EmptyContainer DEF AsStamped
<1>3. QED
  BY <1>2, Nowhere DEF SaveStamped

LEMMA MergeStamped ==
  ASSUME NEW b \in Container, NEW l \in Container, NEW r \in Container,
         AsStamped(l), AsStamped(r)
  PROVE  AsStamped(Merge(b, l, r))
<1>1. \A i \in Id : Merge(b, l, r)[i] \in {l[i], r[i], Absent}
  BY MergeType
<1>2. Absent.rev = Absent.stamp
  BY DEF Absent
<1>3. QED
  BY <1>1, <1>2 DEF AsStamped

LEMMA SendStamped == ASSUME NEW a \in App, AppStamped(a) PROVE SaveStamped(Send(a))
BY SendParts DEF AppStamped, SaveStamped

\* A step of d that leaves the server's entries as stamped, and those of d.
LEMMA StampedOn ==
  ASSUME SyncInv, StampsTell, NEW d \in Device, NEW a, NEW s,
         app' = [app EXCEPT ![d] = a] \/ (app' = app /\ a = app[d]),
         save' = [save EXCEPT ![d] = s] \/ (save' = save /\ s = save[d]),
         AppStamped(a), SaveStamped(s), AsStamped(value')
  PROVE  StampsTell'
<1>1. app \in [Device -> App] /\ save \in [Device -> Save]
  BY DEF SyncInv, TypeOK
<1>2. \A x \in Device : app'[x] \in {app[x], a} /\ save'[x] \in {save[x], s}
  BY <1>1
<1>3. QED
  BY <1>2 DEF StampsTell

LEMMA FlushStamped ==
  ASSUME SyncInv, StampsTell, NEW d \in Device, NEW a \in App, AppStamped(a), Flush(d, a),
         value' = value
  PROVE  StampsTell'
<1>1. CASE a.saving
  <2> DEFINE b == [a EXCEPT !.dirty = TRUE]
  <2>1. b.base = a.base /\ b.local = a.local
    BY DEF App
  <2>2. app' = [app EXCEPT ![d] = b] /\ save' = save
    BY <1>1 DEF Flush
  <2>3. AppStamped(b)
    BY <2>1 DEF AppStamped
  <2> HIDE DEF b
  <2>4. QED
    BY <2>2, <2>3, StampedOn DEF StampsTell
<1>2. CASE ~a.saving
  <2> DEFINE b == [a EXCEPT !.saving = TRUE, !.dirty = FALSE]
  <2>1. b.base = a.base /\ b.local = a.local
    BY DEF App
  <2>2. app' = [app EXCEPT ![d] = b] /\ save' = [save EXCEPT ![d] = Send(a)]
    BY <1>2 DEF Flush
  <2>3. AppStamped(b) /\ SaveStamped(Send(a))
    BY <2>1, SendStamped DEF AppStamped
  <2> HIDE DEF b
  <2>4. QED
    BY <2>2, <2>3, StampedOn DEF StampsTell
<1>3. QED
  BY <1>1, <1>2

\* An edit of one entry, of the revision its stamp says.
LEMMA MutateStamped ==
  ASSUME SyncInv, StampsTell, NEW d \in Device, NEW i \in Id, NEW e \in Entry,
         e.rev = e.stamp, Mutate(d, [app[d].local EXCEPT ![i] = e])
  PROVE  StampsTell'
<1> DEFINE l == [app[d].local EXCEPT ![i] = e]
           a == [app[d] EXCEPT !.local = l]
<1>1. app[d] \in App /\ AppStamped(app[d])
  BY DEF SyncInv, TypeOK, StampsTell
<1>2. app[d].local \in Container
  BY <1>1, Fields
<1>3. l \in Container /\ AsStamped(l)
  BY <1>1, <1>2 DEF Container, AppStamped, AsStamped
<1>4. Flush(d, a) /\ value' = value
  BY DEF Mutate, server
<1> HIDE DEF l
<1>5. a \in App /\ a.local = l /\ a.base = app[d].base
  BY <1>1, <1>3 DEF App
<1>6. AppStamped(a)
  BY <1>1, <1>3, <1>5 DEF AppStamped
<1> HIDE DEF a
<1>7. QED
  BY <1>4, <1>5, <1>6, FlushStamped

LEMMA RunStamped ==
  ASSUME SyncInv, StampsTell, NEW d \in Device, Run(d)
  PROVE  StampsTell'
<1> DEFINE a == app[d]
           s == save[d]
<1>1. a \in App /\ s \in Save /\ value \in Container
  BY DEF SyncInv, TypeOK
<1>2. AppStamped(a) /\ SaveStamped(s) /\ AsStamped(value)
  BY DEF StampsTell
<1>3. /\ a.base \in State /\ a.local \in Container /\ s.sent \in Container
      /\ s.b.container \in Container /\ s.n \in Container
  BY <1>1, Fields
<1>4. /\ AsStamped(a.base.container) /\ AsStamped(a.local) /\ AsStamped(s.sent)
      /\ AsStamped(s.b.container) /\ AsStamped(s.n)
  BY <1>2 DEF AppStamped, SaveStamped
<1>5. CASE PutAccepted(d)
  <2>1. value' = s.n /\ app' = app
    BY <1>5 DEF PutAccepted
  <2> DEFINE t == [s EXCEPT !.at = "saved", !.b = [version |-> version + 1, container |-> s.n]]
             u == [s EXCEPT !.at = "error"]
  <2>2. save' = [save EXCEPT ![d] = t] \/ save' = [save EXCEPT ![d] = u]
    BY <1>5 DEF PutAccepted, Go
  <2>3. SaveStamped(t) /\ SaveStamped(u)
    BY <1>1, <1>4 DEF SaveStamped, Save
  <2> HIDE DEF t, u, s, a
  <2>4. QED
    BY <1>2, <1>4, <2>1, <2>2, <2>3, StampedOn DEF s, a
<1>6. CASE PutConflict(d)
  <2> DEFINE t == [s EXCEPT !.at = "conflict"]
  <2>1. save' = [save EXCEPT ![d] = t] /\ app' = app /\ value' = value
    BY <1>6 DEF PutConflict, Go, server
  <2>2. SaveStamped(t)
    BY <1>1, <1>4 DEF SaveStamped, Save
  <2> HIDE DEF t
  <2>3. QED
    BY <1>2, <2>1, <2>2, StampedOn
<1>7. CASE Rebase(d)
  <2> DEFINE m == Merge(s.b.container, s.n, value)
             t == [s EXCEPT !.n = m, !.b = Server,
                            !.at = IF s.attempt < Attempts THEN "put" ELSE "error",
                            !.attempt = @ + 1]
  <2>1. save' = [save EXCEPT ![d] = t] /\ app' = app /\ value' = value
    BY <1>7 DEF Rebase, Go, server
  <2>2. AsStamped(m)
    BY <1>1, <1>2, <1>3, <1>4, MergeStamped
  <2>3. Server.container = value
    BY DEF Server
  <2> HIDE DEF m
  <2>4. t.n = m /\ t.b = Server /\ t.sent = s.sent
    BY <1>1 DEF Save
  <2>5. SaveStamped(t)
    BY <1>2, <1>4, <2>2, <2>3, <2>4 DEF SaveStamped
  <2> HIDE DEF t
  <2>6. QED
    BY <1>2, <2>1, <2>5, StampedOn
<1>8. CASE Abandon(d) \/ Fail(d)
  <2>1. PICK b : app' = [app EXCEPT ![d] = b] /\ b.base = a.base /\ b.local = a.local
    <3>1. CASE Abandon(d)
      <4> DEFINE b == [a EXCEPT !.saving = FALSE]
      <4>1. app' = [app EXCEPT ![d] = b] /\ b.base = a.base /\ b.local = a.local
        BY <1>1, <3>1 DEF Abandon, App
      <4>2. QED
        BY <4>1
    <3>2. CASE Fail(d)
      <4> DEFINE b == [a EXCEPT !.saving = FALSE, !.failed = TRUE]
      <4>1. app' = [app EXCEPT ![d] = b] /\ b.base = a.base /\ b.local = a.local
        BY <1>1, <3>2 DEF Fail, App
      <4>2. QED
        BY <4>1
    <3>3. QED
      BY <1>8, <3>1, <3>2
  <2>2. save' = [save EXCEPT ![d] = NoSave] /\ value' = value
    BY <1>8 DEF Abandon, Fail, Go, server
  <2>3. AppStamped(b)
    BY <1>4, <2>1 DEF AppStamped
  <2>4. QED
    BY <1>2, <2>1, <2>2, <2>3, EmptyStamped, StampedOn
<1>9. CASE Finish(d)
  <2> DEFINE m == Merge(s.sent, a.local, s.b.container)
             b == [a EXCEPT !.base = s.b, !.dirty = FALSE, !.local = m]
             c == [a EXCEPT !.base = s.b, !.local = s.b.container,
                            !.saving = FALSE, !.failed = FALSE]
  <2>1. /\ value' = value
        /\ \/ app' = [app EXCEPT ![d] = b] /\ save' = [save EXCEPT ![d] = Send(b)]
           \/ app' = [app EXCEPT ![d] = c] /\ save' = [save EXCEPT ![d] = NoSave]
    BY <1>9 DEF Finish, Go, server
  <2>2. AsStamped(m) /\ m \in Container
    BY <1>3, <1>4, MergeStamped, MergeType
  <2> HIDE DEF m
  <2>3. /\ b \in App /\ b.base = s.b /\ b.local = m
        /\ c.base = s.b /\ c.local = s.b.container
    BY <1>1, <2>2, Fields DEF App
  <2>4. AppStamped(b) /\ AppStamped(c)
    BY <1>4, <2>2, <2>3 DEF AppStamped
  <2>5. SaveStamped(Send(b))
    BY <2>3, <2>4, SendStamped
  <2> HIDE DEF b, c
  <2>6. QED
    BY <1>2, <2>1, <2>4, <2>5, EmptyStamped, StampedOn
<1>10. QED
  BY <1>5, <1>6, <1>7, <1>8, <1>9 DEF Run

LEMMA StampsTellStep ==
  ASSUME ~MayTouch, SyncInv, StampsTell, [Next]_vars
  PROVE  StampsTell'
<1>1. app \in [Device -> App] /\ save \in [Device -> Save] /\ edits \in Nat
  BY DEF SyncInv, TypeOK
<1>2. ASSUME NEW d \in Device, NEW i \in Id, Edit(d, i)
      PROVE  StampsTell'
  <2> DEFINE e == [stamp |-> edits + 1, rev |-> edits + 1]
  <2>1. e \in Entry /\ e.rev = e.stamp
    BY <1>1 DEF Entry
  <2>2. Mutate(d, [app[d].local EXCEPT ![i] = e])
    BY <1>2 DEF Edit
  <2> HIDE DEF e
  <2>3. QED
    BY <2>1, <2>2, MutateStamped
<1>3. ASSUME NEW d \in Device, NEW i \in Id, Delete(d, i)
      PROVE  StampsTell'
  <2>1. Absent \in Entry /\ Absent.rev = Absent.stamp
    BY DEF Absent, Entry
  <2>2. Mutate(d, [app[d].local EXCEPT ![i] = Absent])
    BY <1>3 DEF Delete
  <2>3. QED
    BY <2>1, <2>2, MutateStamped
<1>4. ASSUME NEW d \in Device, Retry(d)
      PROVE  StampsTell'
  BY <1>1, <1>4, FlushStamped DEF Retry, server, StampsTell
<1>5. ASSUME NEW d \in Device, Lock(d)
      PROVE  StampsTell'
  <2> DEFINE b == [app[d] EXCEPT !.key = 0, !.locks = app[d].locks + 1,
                                 !.base = Nothing, !.local = Empty]
  <2>1. app' = [app EXCEPT ![d] = b] /\ save' = save /\ value' = value
    BY <1>5 DEF Lock, server
  <2>2. b.base = Nothing /\ b.local = Empty
    BY <1>1 DEF App
  <2>3. AppStamped(b)
    BY <2>2, EmptyStamped DEF AppStamped
  <2> HIDE DEF b
  <2>4. QED
    BY <2>1, <2>3, StampedOn DEF StampsTell
<1>6. ASSUME NEW d \in Device, Enter(d)
      PROVE  StampsTell'
  <2> DEFINE b == [app[d] EXCEPT !.key = app[d].locks + 1, !.base = Server,
                                 !.local = value, !.failed = FALSE]
  <2>1. app' = [app EXCEPT ![d] = b] /\ save' = save /\ value' = value
    BY <1>6 DEF Enter, server
  <2>2. b.base = Server /\ b.local = value /\ Server.container = value
    BY <1>1 DEF App, Server
  <2>3. AppStamped(b)
    BY <2>2 DEF AppStamped, StampsTell
  <2> HIDE DEF b
  <2>4. QED
    BY <2>1, <2>3, StampedOn DEF StampsTell
<1>7. CASE UNCHANGED vars
  BY <1>7 DEF vars, StampsTell
<1>8. QED
  BY <1>2, <1>3, <1>4, <1>5, <1>6, <1>7, RunStamped DEF Next, Touch

LEMMA StampsTellInit == Init => StampsTell
<1> SUFFICES ASSUME Init PROVE StampsTell
  OBVIOUS
<1>1. value = Empty /\ \A d \in Device : app[d] = Fresh(Nothing, 1, 0) /\ save[d] = NoSave
  BY DEF Init
<1>2. \A d \in Device : app[d].base = Nothing /\ app[d].local = Nothing.container
  BY <1>1 DEF Fresh
<1>3. QED
  BY <1>1, <1>2, EmptyStamped DEF AppStamped, StampsTell

\* If every change of an entry has a stamp of its own, no put takes the server back to an
\* older revision of an entry either: it is the moves and pins, which keep the stamp, that
\* another device can undo.
THEOREM RevisionsOnlyAdvance == ASSUME ~MayTouch PROVE Spec => RevisionsAdvance
<1> DEFINE Stamps == \A i \in Id : value[i] # Absent /\ value'[i] # Absent
                                     => value'[i].stamp >= value[i].stamp
           Revs   == \A i \in Id : value[i] # Absent /\ value'[i] # Absent
                                     => value'[i].rev >= value[i].rev
<1>1. SyncInv /\ StampsTell /\ [Next]_vars => StampsTell'
  BY StampsTellStep
<1>2. StampsTell /\ StampsTell' /\ [Stamps]_vars => [Revs]_vars
  BY DEF StampsTell, AsStamped
<1>3. Spec => [][Stamps]_vars
  BY StampsOnlyAdvance DEF StampsAdvance
<1>4. QED
  BY <1>1, <1>2, <1>3, StampsTellInit, AlwaysSync, PTL DEF Spec, RevisionsAdvance

-----------------------------------------------------------------------------
(* Deletions of one device or two.  An entry is looked at alone: v is what the *)
(* server has of it, x and y are the cells of two devices.                     *)
(*                                                                            *)
(* An entry e that x has deleted can come back only from y.  But y's copy is   *)
(* one it has read of the server and not changed, for what only y had, x could *)
(* not delete; so the server has e still, nothing, or something newer, and the *)
(* merge takes e only from the server.  And x knows e, so that its deletion    *)
(* wins over e once it is merged.  With a third device there can be something  *)
(* older on the server.                                                        *)

\* What a device with refs a and flush s has of entry i.
Cell(a, s, i) == [at |-> s.at, base |-> a.base.container[i], local |-> a.local[i],
                  sent |-> s.sent[i], b |-> s.b.container[i], n |-> s.n[i]]

CellType == [at : {"none", "put", "conflict", "saved", "error"}, base : Entry, local : Entry,
             sent : Entry, b : Entry, n : Entry]

\* Its flush has something that is on the server or may get there.
Live(x)      == x.at \in {"put", "conflict", "saved"}
Flying(x)    == x.at \in {"put", "conflict"}
Offers(x, e) == x.local = e \/ (Live(x) /\ x.n = e)
Beats(e, f)  == e = Absent \/ e.stamp > f.stamp

\* Neither the server nor y has e.
Alone(v, y, e) == v # e /\ ~Offers(y, e)

\* During a flush local has what was sent, nothing, or a change nobody else has.
LocalIsNew(v, x, y) ==
  x.at # "none" => \/ x.local \in {x.sent, Absent}
                   \/ /\ Alone(v, y, x.local) /\ x.base # x.local
                      /\ Live(x) => x.n # x.local

\* What is put and was not read of the server, neither the server nor y has.
FlightIsAlone(v, x, y) == Flying(x) => x.n \in {x.b, Absent} \/ Alone(v, y, x.n)

\* The same of local and its base, or what the flush has saved.
LocalIsAlone(v, x, y) == \/ x.local \in {x.base, Absent}
                         \/ x.at = "saved" /\ x.local = x.b
                         \/ Alone(v, y, x.local)

\* x has nothing else than what it has sent, and the flush has found something else.
Overruled(x) == Live(x) /\ x.local # Absent /\ x.local = x.sent /\ x.n # x.local

\* Then the server does not have it, and if y has it, what was found is newer or nothing.
OverruledIsGone(v, x, y) ==
  Overruled(x) => v # x.local /\ (Offers(y, x.local) => Beats(x.n, x.local))

\* What both have, the server has, or something newer, or nothing.
SharedIsThere(v, x, y) ==
  \A e \in Entry \ {Absent} : Offers(x, e) /\ Offers(y, e) => v = e \/ Beats(v, e)

SavedIsKnown(x) == x.at = "saved" => x.b = x.n

CellAgrees(v, x, y) ==
  /\ LocalIsNew(v, x, y) /\ FlightIsAlone(v, x, y) /\ LocalIsAlone(v, x, y)
  /\ OverruledIsGone(v, x, y) /\ SavedIsKnown(x)

CellsAgree(v, x, y) == CellAgrees(v, x, y) /\ CellAgrees(v, y, x) /\ SharedIsThere(v, x, y)

-----------------------------------------------------------------------------
(* Steps of one device on one entry                                           *)

\* An edit: local becomes nothing, or an entry nobody has.
Changes(v, x, y, x2) ==
  /\ x2.at = x.at /\ x2.base = x.base /\ x2.sent = x.sent /\ x2.b = x.b /\ x2.n = x.n
  /\ x2.local # Absent => /\ Alone(v, y, x2.local) /\ ~Offers(x, x2.local)
                          /\ x2.local # x.base

\* flush starts.
Sends(x, x2) ==
  /\ x.at = "none" /\ x2.at = "put"
  /\ x2.base = x.base /\ x2.local = x.local
  /\ x2.sent = x.local /\ x2.b = x.base /\ x2.n = x.local

\* putIndex accepts.
Puts(v, x, v2, x2) ==
  /\ x.at = "put" /\ x.b = v /\ v2 = x.n
  /\ x2.at = "saved" /\ x2.b = x.n
  /\ x2.base = x.base /\ x2.local = x.local /\ x2.sent = x.sent /\ x2.n = x.n

\* putIndex refuses.
Refused(x, x2) ==
  /\ x.at = "put" /\ x2.at = "conflict"
  /\ x2.base = x.base /\ x2.local = x.local /\ x2.sent = x.sent /\ x2.b = x.b /\ x2.n = x.n

\* saveIndex loads and merges.
Rebases(v, x, x2) ==
  /\ x.at = "conflict" /\ x2.at \in {"put", "error"}
  /\ x2.n = MergeEntry(x.b, x.n, v) /\ x2.b = v
  /\ x2.base = x.base /\ x2.local = x.local /\ x2.sent = x.sent

\* No flush.
Rests(x) == x.at = "none" /\ x.sent = Absent /\ x.b = Absent /\ x.n = Absent

\* flush ends: its result becomes base and local.
Takes(x, x2) ==
  /\ x.at = "saved" /\ Rests(x2)
  /\ x2.base = x.b /\ x2.local = x.b

\* flush merges what was edited meanwhile.
Merges(x, x2) ==
  /\ x.at = "saved" /\ Rests(x2)
  /\ x2.base = x.b /\ x2.local = MergeEntry(x.sent, x.local, x.b)

\* flush ends with an error.
Fails(x, x2) ==
  /\ x.at = "error" /\ Rests(x2)
  /\ x2.base = x.base /\ x2.local = x.local

\* Every step keeps that two cells agree.
LEMMA ChangesPair ==
  ASSUME NEW v \in Entry, NEW x \in CellType, NEW y \in CellType, NEW x2 \in CellType,
         CellsAgree(v, x, y), Changes(v, x, y, x2)
  PROVE  CellsAgree(v, x2, y)
BY DEF CellsAgree, CellAgrees, Changes, LocalIsNew, FlightIsAlone, LocalIsAlone, Overruled, OverruledIsGone,
  SharedIsThere, SavedIsKnown, Live, Flying, Offers, Alone, Beats, CellType

LEMMA SendsPair ==
  ASSUME NEW v \in Entry, NEW x \in CellType, NEW y \in CellType, NEW x2 \in CellType,
         CellsAgree(v, x, y), Sends(x, x2)
  PROVE  CellsAgree(v, x2, y)
BY DEF CellsAgree, CellAgrees, Sends, LocalIsNew, FlightIsAlone, LocalIsAlone, Overruled, OverruledIsGone,
  SharedIsThere, SavedIsKnown, Live, Flying, Offers, Alone, Beats, CellType

LEMMA PutsPair ==
  ASSUME NEW v \in Entry, NEW x \in CellType, NEW y \in CellType, NEW x2 \in CellType,
         NEW v2 \in Entry,
         CellsAgree(v, x, y), Puts(v, x, v2, x2)
  PROVE  CellsAgree(v2, x2, y)
BY DEF CellsAgree, CellAgrees, Puts, LocalIsNew, FlightIsAlone, LocalIsAlone, Overruled, OverruledIsGone,
  SharedIsThere, SavedIsKnown, Live, Flying, Offers, Alone, Beats, CellType

LEMMA RefusedPair ==
  ASSUME NEW v \in Entry, NEW x \in CellType, NEW y \in CellType, NEW x2 \in CellType,
         CellsAgree(v, x, y), Refused(x, x2)
  PROVE  CellsAgree(v, x2, y)
BY DEF CellsAgree, CellAgrees, Refused, LocalIsNew, FlightIsAlone, LocalIsAlone, Overruled, OverruledIsGone,
  SharedIsThere, SavedIsKnown, Live, Flying, Offers, Alone, Beats, CellType

LEMMA RebasesPair ==
  ASSUME NEW v \in Entry, NEW x \in CellType, NEW y \in CellType, NEW x2 \in CellType,
         CellsAgree(v, x, y), Rebases(v, x, x2)
  PROVE  CellsAgree(v, x2, y)
BY DEF CellsAgree, CellAgrees, Rebases, LocalIsNew, FlightIsAlone, LocalIsAlone, Overruled, OverruledIsGone,
  SharedIsThere, SavedIsKnown, Live, Flying, Offers, Alone, Beats, CellType, MergeEntry, Survives,
  Entry, Absent

LEMMA TakesPair ==
  ASSUME NEW v \in Entry, NEW x \in CellType, NEW y \in CellType, NEW x2 \in CellType,
         CellsAgree(v, x, y), Takes(x, x2)
  PROVE  CellsAgree(v, x2, y)
BY DEF CellsAgree, CellAgrees, Takes, Rests, LocalIsNew, FlightIsAlone, LocalIsAlone, Overruled, OverruledIsGone,
  SharedIsThere, SavedIsKnown, Live, Flying, Offers, Alone, Beats, CellType

LEMMA MergesPair ==
  ASSUME NEW v \in Entry, NEW x \in CellType, NEW y \in CellType, NEW x2 \in CellType,
         CellsAgree(v, x, y), Merges(x, x2)
  PROVE  CellsAgree(v, x2, y)
BY DEF CellsAgree, CellAgrees, Merges, Rests, LocalIsNew, FlightIsAlone, LocalIsAlone, Overruled, OverruledIsGone,
  SharedIsThere, SavedIsKnown, Live, Flying, Offers, Alone, Beats, CellType, MergeEntry, Survives,
  Entry, Absent

LEMMA FailsPair ==
  ASSUME NEW v \in Entry, NEW x \in CellType, NEW y \in CellType, NEW x2 \in CellType,
         CellsAgree(v, x, y), Fails(x, x2)
  PROVE  CellsAgree(v, x2, y)
BY DEF CellsAgree, CellAgrees, Fails, Rests, LocalIsNew, FlightIsAlone, LocalIsAlone, Overruled, OverruledIsGone,
  SharedIsThere, SavedIsKnown, Live, Flying, Offers, Alone, Beats, CellType

\* Nobody has e.
Extinct(v, x, y, e) == Alone(v, x, e) /\ ~Offers(y, e)

\* x has deleted e, and what it does or has under way leaves nothing of it; y may have
\* a copy, which it has not changed.
Gone(v, x, y, e) ==
  /\ Beats(x.local, e)
  /\ Live(x) => Beats(x.n, e) \/ (x.n = e /\ x.sent = e)
  /\ v = e => \/ x.at = "saved" /\ x.n = e
              \/ x.base # Absent /\ x.base.stamp >= e.stamp /\ x.local # x.base
  /\ v = e /\ Flying(x) /\ x.n # e => x.b # Absent /\ x.b.stamp >= e.stamp
  /\ v = e /\ x.at = "saved" => x.n = e
  /\ Flying(y) /\ y.n = e => y.b = e
  /\ y.local = e => y.base = e \/ (y.at = "saved" /\ y.b = e)
  /\ y.local = e /\ y.sent = e /\ Live(y) => y.n = e \/ Beats(y.n, e)
  /\ Offers(y, e) => v = e \/ Beats(v, e)

Dying(v, x, y, e) == Extinct(v, x, y, e) \/ Gone(v, x, y, e) \/ Gone(v, y, x, e)

\* An edit is of the present, another change keeps the stamp.
IsNew(x, x2, e) ==
  x2.local # Absent => /\ x2.local.rev # e.rev
                       /\ \/ x2.local.stamp > e.stamp
                          \/ x.local # Absent /\ x2.local.stamp = x.local.stamp

\* Every step leaves a dying entry dying.
LEMMA ChangesDying ==
  ASSUME NEW v \in Entry, NEW x \in CellType, NEW y \in CellType, NEW x2 \in CellType,
         NEW e \in Entry \ {Absent},
         CellsAgree(v, x, y), Changes(v, x, y, x2), IsNew(x, x2, e), Dying(v, x, y, e)
  PROVE  Dying(v, x2, y, e)
BY DEF CellsAgree, CellAgrees, Changes, LocalIsNew, FlightIsAlone, LocalIsAlone, Overruled, OverruledIsGone,
  SharedIsThere, SavedIsKnown, Live, Flying, Offers, Alone, Beats, CellType, Extinct, Gone, Dying,
  IsNew, Entry, Absent

LEMMA SendsDying ==
  ASSUME NEW v \in Entry, NEW x \in CellType, NEW y \in CellType, NEW x2 \in CellType,
         NEW e \in Entry \ {Absent},
         CellsAgree(v, x, y), Sends(x, x2), Dying(v, x, y, e)
  PROVE  Dying(v, x2, y, e)
BY DEF CellsAgree, CellAgrees, Sends, LocalIsNew, FlightIsAlone, LocalIsAlone, Overruled, OverruledIsGone,
  SharedIsThere, SavedIsKnown, Live, Flying, Offers, Alone, Beats, CellType, Extinct, Gone, Dying,
  Entry, Absent

LEMMA PutsDying ==
  ASSUME NEW v \in Entry, NEW x \in CellType, NEW y \in CellType, NEW x2 \in CellType,
         NEW v2 \in Entry, NEW e \in Entry \ {Absent},
         CellsAgree(v, x, y), Puts(v, x, v2, x2), Dying(v, x, y, e)
  PROVE  Dying(v2, x2, y, e)
BY DEF CellsAgree, CellAgrees, Puts, LocalIsNew, FlightIsAlone, LocalIsAlone, Overruled, OverruledIsGone,
  SharedIsThere, SavedIsKnown, Live, Flying, Offers, Alone, Beats, CellType, Extinct, Gone, Dying,
  Entry, Absent

LEMMA RefusedDying ==
  ASSUME NEW v \in Entry, NEW x \in CellType, NEW y \in CellType, NEW x2 \in CellType,
         NEW e \in Entry \ {Absent},
         CellsAgree(v, x, y), Refused(x, x2), Dying(v, x, y, e)
  PROVE  Dying(v, x2, y, e)
BY DEF Refused, Live, Flying, Offers, Alone, Beats, CellType, Extinct, Gone, Dying

LEMMA RebasesDying ==
  ASSUME NEW v \in Entry, NEW x \in CellType, NEW y \in CellType, NEW x2 \in CellType,
         NEW e \in Entry \ {Absent},
         CellsAgree(v, x, y), Rebases(v, x, x2), Dying(v, x, y, e)
  PROVE  Dying(v, x2, y, e)
BY DEF CellsAgree, CellAgrees, Rebases, LocalIsNew, FlightIsAlone, LocalIsAlone, Overruled, OverruledIsGone,
  SharedIsThere, SavedIsKnown, Live, Flying, Offers, Alone, Beats, CellType, Extinct, Gone, Dying,
  MergeEntry, Survives, Entry, Absent

LEMMA TakesDying ==
  ASSUME NEW v \in Entry, NEW x \in CellType, NEW y \in CellType, NEW x2 \in CellType,
         NEW e \in Entry \ {Absent},
         CellsAgree(v, x, y), Takes(x, x2), x.local = x.sent, Dying(v, x, y, e)
  PROVE  Dying(v, x2, y, e)
BY DEF CellsAgree, CellAgrees, Takes, Rests, LocalIsNew, FlightIsAlone, LocalIsAlone, Overruled, OverruledIsGone,
  SharedIsThere, SavedIsKnown, Live, Flying, Offers, Alone, Beats, CellType, Extinct, Gone, Dying,
  Entry, Absent

LEMMA MergesDying ==
  ASSUME NEW v \in Entry, NEW x \in CellType, NEW y \in CellType, NEW x2 \in CellType,
         NEW e \in Entry \ {Absent},
         CellsAgree(v, x, y), Merges(x, x2), Dying(v, x, y, e)
  PROVE  Dying(v, x2, y, e)
BY DEF CellsAgree, CellAgrees, Merges, Rests, LocalIsNew, FlightIsAlone, LocalIsAlone, Overruled, OverruledIsGone,
  SharedIsThere, SavedIsKnown, Live, Flying, Offers, Alone, Beats, CellType, Extinct, Gone, Dying,
  MergeEntry, Survives, Entry, Absent

LEMMA FailsDying ==
  ASSUME NEW v \in Entry, NEW x \in CellType, NEW y \in CellType, NEW x2 \in CellType,
         NEW e \in Entry \ {Absent},
         CellsAgree(v, x, y), Fails(x, x2), Dying(v, x, y, e)
  PROVE  Dying(v, x2, y, e)
BY DEF CellsAgree, CellAgrees, Fails, Rests, LocalIsNew, FlightIsAlone, LocalIsAlone, Overruled, OverruledIsGone,
  SharedIsThere, SavedIsKnown, Live, Flying, Offers, Alone, Beats, CellType, Extinct, Gone, Dying,
  Entry, Absent

\* Who deletes an entry begins its end.
LEMMA DeletesDying ==
  ASSUME NEW v \in Entry, NEW x \in CellType, NEW y \in CellType, NEW x2 \in CellType,
         x.local # Absent, CellsAgree(v, x, y), Changes(v, x, y, x2), x2.local = Absent
  PROVE  Dying(v, x2, y, x.local)
BY DEF CellsAgree, CellAgrees, Changes, LocalIsNew, FlightIsAlone, LocalIsAlone, Overruled, OverruledIsGone,
  SharedIsThere, SavedIsKnown, Live, Flying, Offers, Alone, Beats, CellType, Extinct, Gone, Dying,
  Entry, Absent

\* What both devices have settled is not on the server if it is dying.
LEMMA SettledIsNotDying ==
  ASSUME NEW v \in Entry, NEW x \in CellType, NEW y \in CellType, NEW e \in Entry \ {Absent},
         Dying(v, x, y, e), x.at = "none", y.at = "none", x.local = x.base, y.local = y.base
  PROVE  v # e
BY DEF Live, Flying, Offers, Alone, Beats, Extinct, Gone, Dying

-----------------------------------------------------------------------------
(* One entry of two devices: what holds of it, whatever they do               *)

\* The server or a device has e.
Held(v, x, y, e) == v = e \/ Offers(x, e) \/ Offers(y, e)

\* A revision is one entry.
OneOfRev(v, x, y) ==
  \A e, f \in Entry \ {Absent} : Held(v, x, y, e) /\ Held(v, x, y, f) /\ e.rev = f.rev => e = f

\* The entry of revision r is on its way out.
Doomed(v, x, y, r) ==
  \E e \in Entry \ {Absent} :
    /\ e.rev = r /\ e.stamp <= r
    /\ \A f \in Entry \ {Absent} : Held(v, x, y, f) /\ f.rev = r => f = e
    /\ Dying(v, x, y, e)

\* The clock stands at n.
Made(e, n) == e.stamp <= e.rev /\ e.rev <= n
MadeCell(x, n) == /\ Made(x.base, n) /\ Made(x.local, n) /\ Made(x.sent, n)
                  /\ Made(x.b, n) /\ Made(x.n, n)

\* R: the revisions that were deleted.
CellsFit(v, x, y, R, n) ==
  /\ CellsAgree(v, x, y) /\ OneOfRev(v, x, y)
  /\ Made(v, n) /\ MadeCell(x, n) /\ MadeCell(y, n)
  /\ \A r \in R : r \in Nat /\ r <= n /\ Doomed(v, x, y, r)

\* A flush makes a step, or ends.
FlushMoves(v, x, v2, x2) ==
  \/ v2 = v /\ \/ Sends(x, x2) \/ Refused(x, x2) \/ Rebases(v, x, x2) \/ Merges(x, x2)
               \/ Fails(x, x2) \/ (Takes(x, x2) /\ x.local = x.sent)
  \/ Puts(v, x, v2, x2)

\* The invariant is of two devices alike.
LEMMA BothWays ==
  ASSUME NEW v, NEW x, NEW y, NEW R, NEW n, CellsFit(v, x, y, R, n)
  PROVE  CellsFit(v, y, x, R, n)
<1>1. CellsAgree(v, y, x)
  BY DEF CellsFit, CellsAgree, SharedIsThere
<1>2. \A e : Held(v, x, y, e) <=> Held(v, y, x, e)
  BY DEF Held
<1>3. \A e : Dying(v, x, y, e) => Dying(v, y, x, e)
  BY DEF Dying, Extinct, Alone
<1>4. OneOfRev(v, y, x)
  BY <1>2 DEF CellsFit, OneOfRev
<1>5. ASSUME NEW r \in R PROVE Doomed(v, y, x, r)
  BY <1>2, <1>3 DEF CellsFit, Doomed
<1>6. QED
  BY <1>1, <1>4, <1>5 DEF CellsFit

LEMMA MovesType ==
  ASSUME NEW v \in Entry, NEW x \in CellType, NEW v2, NEW x2, FlushMoves(v, x, v2, x2)
  PROVE  v2 \in Entry
BY DEF FlushMoves, Puts, CellType

\* A flush brings nothing that was not there.
LEMMA MovesHold ==
  ASSUME NEW v \in Entry, NEW x \in CellType, NEW y \in CellType, NEW v2, NEW x2 \in CellType,
         FlushMoves(v, x, v2, x2), SavedIsKnown(x), NEW e \in Entry \ {Absent}, Held(v2, x2, y, e)
  PROVE  Held(v, x, y, e)
BY DEF FlushMoves, Sends, Refused, Rebases, Merges, Fails, Takes, Rests, Puts, Held, Offers, Live,
  MergeEntry, SavedIsKnown, CellType

LEMMA MovesMade ==
  ASSUME NEW v \in Entry, NEW x \in CellType, NEW v2, NEW x2 \in CellType, NEW n \in Nat,
         FlushMoves(v, x, v2, x2), Made(v, n), MadeCell(x, n)
  PROVE  Made(v2, n) /\ MadeCell(x2, n)
<1>1. Made(Absent, n)
  BY DEF Made, Absent
<1>2. QED
  BY <1>1 DEF FlushMoves, Sends, Refused, Rebases, Merges, Fails, Takes, Rests, Puts, MadeCell, MergeEntry

\* All steps of a flush together.
LEMMA MovesPair ==
  ASSUME NEW v \in Entry, NEW x \in CellType, NEW y \in CellType, NEW v2, NEW x2 \in CellType,
         CellsAgree(v, x, y), FlushMoves(v, x, v2, x2)
  PROVE  /\ v2 \in Entry /\ CellsAgree(v2, x2, y)
         /\ \A e \in Entry \ {Absent} : Dying(v, x, y, e) => Dying(v2, x2, y, e)
<1>1. v2 \in Entry
  BY MovesType
<1>2. CASE v2 = v
  <2>1. CASE Sends(x, x2)
    BY <1>2, <2>1, SendsPair, SendsDying, <1>1
  <2>2. CASE Refused(x, x2)
    BY <1>2, <2>2, RefusedPair, RefusedDying, <1>1
  <2>3. CASE Rebases(v, x, x2)
    BY <1>2, <2>3, RebasesPair, RebasesDying, <1>1
  <2>4. CASE Merges(x, x2)
    BY <1>2, <2>4, MergesPair, MergesDying, <1>1
  <2>5. CASE Fails(x, x2)
    BY <1>2, <2>5, FailsPair, FailsDying, <1>1
  <2>6. CASE Takes(x, x2) /\ x.local = x.sent
    BY <1>2, <2>6, TakesPair, TakesDying, <1>1
  <2>7. CASE Puts(v, x, v2, x2)
    BY <2>7, PutsPair, PutsDying, <1>1
  <2>8. QED
    BY <2>1, <2>2, <2>3, <2>4, <2>5, <2>6, <2>7 DEF FlushMoves
<1>3. CASE v2 # v
  <2>1. Puts(v, x, v2, x2)
    BY <1>3 DEF FlushMoves
  <2>2. QED
    BY <2>1, PutsPair, PutsDying, <1>1
<1>4. QED
  BY <1>2, <1>3

LEMMA MovesFit ==
  ASSUME NEW v \in Entry, NEW x \in CellType, NEW y \in CellType, NEW v2, NEW x2 \in CellType,
         NEW R, NEW n \in Nat, CellsFit(v, x, y, R, n), FlushMoves(v, x, v2, x2)
  PROVE  v2 \in Entry /\ CellsFit(v2, x2, y, R, n)
<1>1. CellsAgree(v, x, y)
  BY DEF CellsFit
<1>2. /\ v2 \in Entry /\ CellsAgree(v2, x2, y)
      /\ \A e \in Entry \ {Absent} : Dying(v, x, y, e) => Dying(v2, x2, y, e)
  BY <1>1, MovesPair
<1>3. \A e \in Entry \ {Absent} : Held(v2, x2, y, e) => Held(v, x, y, e)
  BY <1>1, MovesHold DEF CellsAgree, CellAgrees
<1>4. OneOfRev(v2, x2, y)
  BY <1>3 DEF CellsFit, OneOfRev
<1>5. Made(v2, n) /\ MadeCell(x2, n)
  BY MovesMade DEF CellsFit
<1>6. ASSUME NEW r \in R PROVE Doomed(v2, x2, y, r)
  <2>1. PICK e \in Entry \ {Absent} :
          /\ e.rev = r /\ e.stamp <= r
          /\ \A f \in Entry \ {Absent} : Held(v, x, y, f) /\ f.rev = r => f = e
          /\ Dying(v, x, y, e)
    BY DEF CellsFit, Doomed
  <2>2. Dying(v2, x2, y, e)
    BY <2>1, <1>2
  <2>3. \A f \in Entry \ {Absent} : Held(v2, x2, y, f) /\ f.rev = r => f = e
    BY <2>1, <1>3
  <2>4. QED
    BY <2>1, <2>2, <2>3 DEF Doomed
<1>7. QED
  BY <1>2, <1>4, <1>5, <1>6 DEF CellsFit

\* The clock goes on.
LEMMA MadeOn ==
  ASSUME NEW n \in Nat, NEW e \in Entry, Made(e, n)
  PROVE  Made(e, n + 1)
BY DEF Made, Entry

LEMMA MadeCellOn ==
  ASSUME NEW n \in Nat, NEW x \in CellType, MadeCell(x, n)
  PROVE  MadeCell(x, n + 1)
BY MadeOn DEF MadeCell, CellType

\* Another entry is edited.
LEMMA TimeFits ==
  ASSUME NEW v \in Entry, NEW x \in CellType, NEW y \in CellType, NEW R, NEW n \in Nat,
         CellsFit(v, x, y, R, n)
  PROVE  CellsFit(v, x, y, R, n + 1)
<1>1. \A r \in R : r \in Nat /\ r <= n => r <= n + 1
  OBVIOUS
<1>2. Made(v, n + 1) /\ MadeCell(x, n + 1) /\ MadeCell(y, n + 1)
  BY MadeOn, MadeCellOn DEF CellsFit
<1>3. QED
  BY <1>1, <1>2 DEF CellsFit

\* x2 is x with e in local.
Edited(x, e, x2) ==
  /\ x2.at = x.at /\ x2.base = x.base /\ x2.sent = x.sent /\ x2.b = x.b /\ x2.n = x.n
  /\ x2.local = e

\* An edit, or a change that keeps the stamp.
LEMMA NewFits ==
  ASSUME NEW v \in Entry, NEW x \in CellType, NEW y \in CellType, NEW R, NEW n \in Nat,
         CellsFit(v, x, y, R, n), NEW e \in Entry, NEW x2 \in CellType, Edited(x, e, x2),
         e.rev = n + 1,
         e.stamp = n + 1 \/ (x.local # Absent /\ e.stamp = x.local.stamp)
  PROVE  CellsFit(v, x2, y, R, n + 1)
<1>1. ASSUME NEW f \in Entry, Made(f, n) PROVE f # e
  BY <1>1 DEF Made, Entry
<1>2. /\ Made(v, n) /\ Made(x.base, n) /\ Made(x.local, n) /\ Made(x.n, n)
      /\ Made(y.local, n) /\ Made(y.n, n)
  BY DEF CellsFit, MadeCell
<1>3. e # Absent
  BY DEF Absent
<1>4. Changes(v, x, y, x2)
  BY <1>1, <1>2 DEF Changes, Alone, Offers, CellType, Edited
<1>5. CellsAgree(v, x2, y)
  BY <1>4, ChangesPair DEF CellsFit
<1>6. \A f : Held(v, x2, y, f) => f = e \/ Held(v, x, y, f)
  BY DEF Held, Offers, Live, Edited
<1>7. ASSUME NEW f \in Entry, Held(v, x, y, f) PROVE f.rev # n + 1
  <2>1. Made(f, n)
    BY <1>7, <1>2 DEF Held, Offers
  <2>2. QED
    BY <2>1 DEF Made, Entry
<1>8. OneOfRev(v, x2, y)
  BY <1>6, <1>7 DEF OneOfRev, CellsFit
<1>9. Made(e, n + 1)
  <2>1. x.local.stamp \in Nat /\ x.local.rev \in Nat
    BY DEF CellType, Entry
  <2>2. x.local.stamp <= n + 1
    BY <2>1, <1>2 DEF Made
  <2>3. QED
    BY <2>2 DEF Made, Entry
<1>10. Made(v, n + 1) /\ MadeCell(x2, n + 1) /\ MadeCell(y, n + 1)
  BY <1>9, TimeFits DEF CellsFit, MadeCell, Edited
<1>11. ASSUME NEW r \in R PROVE r \in Nat /\ r <= n + 1 /\ Doomed(v, x2, y, r)
  <2>1. PICK f \in Entry \ {Absent} :
          /\ f.rev = r /\ f.stamp <= r
          /\ \A g \in Entry \ {Absent} : Held(v, x, y, g) /\ g.rev = r => g = f
          /\ Dying(v, x, y, f)
    BY DEF CellsFit, Doomed
  <2>2. r \in Nat /\ r <= n
    BY DEF CellsFit
  <2>3. IsNew(x, x2, f)
    <3>1. f.stamp \in Nat /\ f.stamp < n + 1
      BY <2>1, <2>2 DEF Entry
    <3>2. QED
      BY <2>1, <2>2, <3>1 DEF IsNew, Edited
  <2>4. Dying(v, x2, y, f)
    BY <1>4, <2>1, <2>3, ChangesDying DEF CellsFit
  <2>5. \A g \in Entry \ {Absent} : Held(v, x2, y, g) /\ g.rev = r => g = f
    BY <1>6, <2>1, <2>2
  <2>6. QED
    BY <2>1, <2>2, <2>4, <2>5 DEF Doomed
<1>12. QED
  BY <1>5, <1>8, <1>10, <1>11 DEF CellsFit

\* A deletion: the revision that was in local is one more that is dying.
LEMMA DeletionFits ==
  ASSUME NEW v \in Entry, NEW x \in CellType, NEW y \in CellType, NEW R, NEW n \in Nat,
         CellsFit(v, x, y, R, n), NEW x2 \in CellType, Edited(x, Absent, x2), x.local # Absent
  PROVE  CellsFit(v, x2, y, R \cup {x.local.rev}, n + 1)
<1>1. Changes(v, x, y, x2)
  BY DEF Changes, Edited
<1>2. CellsAgree(v, x2, y)
  BY <1>1, ChangesPair DEF CellsFit
<1>3. \A f \in Entry \ {Absent} : Held(v, x2, y, f) => Held(v, x, y, f)
  BY DEF Held, Offers, Live, Edited
<1>4. OneOfRev(v, x2, y)
  BY <1>3 DEF OneOfRev, CellsFit
<1>5. Made(Absent, n + 1)
  BY DEF Made, Absent
<1>6. Made(v, n + 1) /\ MadeCell(x2, n + 1) /\ MadeCell(y, n + 1)
  BY <1>5, TimeFits DEF CellsFit, MadeCell, Edited
<1>7. ASSUME NEW r \in R PROVE r \in Nat /\ r <= n + 1 /\ Doomed(v, x2, y, r)
  <2>1. PICK f \in Entry \ {Absent} :
          /\ f.rev = r /\ f.stamp <= r
          /\ \A g \in Entry \ {Absent} : Held(v, x, y, g) /\ g.rev = r => g = f
          /\ Dying(v, x, y, f)
    BY DEF CellsFit, Doomed
  <2>2. r \in Nat /\ r <= n
    BY DEF CellsFit
  <2>3. IsNew(x, x2, f)
    BY DEF IsNew, Edited
  <2>4. Dying(v, x2, y, f)
    BY <1>1, <2>1, <2>3, ChangesDying DEF CellsFit
  <2>5. QED
    BY <1>3, <2>1, <2>2, <2>4 DEF Doomed
<1>8. LET r == x.local.rev IN r \in Nat /\ r <= n + 1 /\ Doomed(v, x2, y, r)
  <2> DEFINE e == x.local
  <2>1. e \in Entry \ {Absent} /\ e.rev \in Nat /\ Made(e, n)
    BY DEF CellType, Entry, CellsFit, MadeCell
  <2>2. Held(v, x, y, e)
    BY DEF Held, Offers
  <2>3. Dying(v, x2, y, e)
    BY <1>1, DeletesDying DEF CellsFit, Edited
  <2>4. \A f \in Entry \ {Absent} : Held(v, x2, y, f) /\ f.rev = e.rev => f = e
    BY <1>3, <2>1, <2>2 DEF CellsFit, OneOfRev
  <2>5. Doomed(v, x2, y, e.rev)
    BY <2>1, <2>3, <2>4 DEF Doomed, Made
  <2>6. QED
    BY <2>1, <2>5 DEF Made
<1>9. QED
  BY <1>2, <1>4, <1>6, <1>7, <1>8 DEF CellsFit

\* When both devices have settled, the server has nothing that was deleted.
LEMMA SettledIsClean ==
  ASSUME NEW v \in Entry, NEW x \in CellType, NEW y \in CellType, NEW R, NEW n \in Nat,
         CellsFit(v, x, y, R, n), x.at = "none", y.at = "none", x.local = x.base, y.local = y.base,
         NEW r \in R
  PROVE  v.rev # r
<1>1. PICK e \in Entry \ {Absent} :
        /\ e.rev = r /\ e.stamp <= r
        /\ \A f \in Entry \ {Absent} : Held(v, x, y, f) /\ f.rev = r => f = e
        /\ Dying(v, x, y, e)
  BY DEF CellsFit, Doomed
<1>2. v # e
  BY <1>1, SettledIsNotDying
<1>3. r # 0
  <2>1. e.stamp \in Nat /\ e = [stamp |-> e.stamp, rev |-> e.rev]
    BY DEF Entry
  <2>2. QED
    BY <1>1, <2>1 DEF Absent
<1>4. v.rev = r => v # Absent
  BY <1>3 DEF Absent
<1>5. QED
  BY <1>1, <1>2, <1>4 DEF Held

-----------------------------------------------------------------------------
(* The same of states                                                         *)

\* With three devices deletions do not stay.
OneOrTwo == Device # {} /\ \A p, q, d \in Device : p = q \/ p = d \/ q = d

\* No answer was lost and no device was locked.
Undisturbed == ~lost /\ \A d \in Device : app[d].locks = 0

\* The revisions of entry i that were deleted.
Revisions(D, i) == {r \in Nat : <<i, r>> \in D}

\* The other device of one that is alone.
Bare == [at |-> "none", base |-> Absent, local |-> Absent, sent |-> Absent, b |-> Absent, n |-> Absent]

DevicesFit(p, q, i) == CellsFit(value[i], Cell(app[p], save[p], i), Cell(app[q], save[q], i),
                                Revisions(deleted, i), edits)
AloneFits(p, i)     == CellsFit(value[i], Cell(app[p], save[p], i), Bare,
                                Revisions(deleted, i), edits)

\* The invariant: every entry of two devices fits, or of the one there is.
TwoFit ==
  Undisturbed =>
    \A i \in Id : /\ \A p, q \in Device : p # q => DevicesFit(p, q, i)
                 /\ \A p \in Device : Device = {p} => AloneFits(p, i)

LEMMA CellParts ==
  ASSUME NEW a \in App, NEW s \in Save, NEW i \in Id
  PROVE  /\ Cell(a, s, i) \in CellType
         /\ Cell(a, s, i).at = s.at /\ Cell(a, s, i).base = a.base.container[i]
         /\ Cell(a, s, i).local = a.local[i] /\ Cell(a, s, i).sent = s.sent[i]
         /\ Cell(a, s, i).b = s.b.container[i] /\ Cell(a, s, i).n = s.n[i]
<1>1. /\ a.base.container \in Container /\ a.local \in Container /\ s.sent \in Container
      /\ s.b.container \in Container /\ s.n \in Container
      /\ s.at \in {"none", "put", "conflict", "saved", "error"}
  BY Fields
<1>2. /\ a.base.container[i] \in Entry /\ a.local[i] \in Entry /\ s.sent[i] \in Entry
      /\ s.b.container[i] \in Entry /\ s.n[i] \in Entry
  BY <1>1, Parts
<1>3. QED
  BY <1>1, <1>2 DEF Cell, CellType

\* From values to values: a device with refs a and flush s becomes one with b and t.
Passes(val, a, s, D, n, val2, b, t, D2, n2) ==
  \A i \in Id, y \in CellType :
    CellsFit(val[i], Cell(a, s, i), y, Revisions(D, i), n)
      => CellsFit(val2[i], Cell(b, t, i), y, Revisions(D2, i), n2)

\* A flush moves on every entry at once.
LEMMA MovesPass ==
  ASSUME NEW val \in Container, NEW a \in App, NEW s \in Save, NEW D, NEW n \in Nat,
         NEW val2, NEW b \in App, NEW t \in Save,
         \A i \in Id : FlushMoves(val[i], Cell(a, s, i), val2[i], Cell(b, t, i))
  PROVE  Passes(val, a, s, D, n, val2, b, t, D, n)
<1> SUFFICES ASSUME NEW i \in Id, NEW y \in CellType,
                    CellsFit(val[i], Cell(a, s, i), y, Revisions(D, i), n)
             PROVE  CellsFit(val2[i], Cell(b, t, i), y, Revisions(D, i), n)
  BY DEF Passes
<1>1. val[i] \in Entry /\ Cell(a, s, i) \in CellType /\ Cell(b, t, i) \in CellType
  BY Parts, CellParts
<1>2. FlushMoves(val[i], Cell(a, s, i), val2[i], Cell(b, t, i))
  OBVIOUS
<1>3. QED
  BY <1>1, <1>2, MovesFit

LEMMA PassesOn ==
  ASSUME NEW val, NEW a, NEW s, NEW D, NEW n, NEW val2, NEW b, NEW t, NEW D2, NEW n2,
         NEW val3, NEW c, NEW u, NEW D3, NEW n3,
         Passes(val, a, s, D, n, val2, b, t, D2, n2), Passes(val2, b, t, D2, n2, val3, c, u, D3, n3)
  PROVE  Passes(val, a, s, D, n, val3, c, u, D3, n3)
BY DEF Passes

\* flush starts, or asks for another round.
LEMMA FlushPasses ==
  ASSUME SyncInv, NEW d \in Device, NEW a \in App, a.saving = app[d].saving,
         app'[d] \in App, save'[d] \in Save, Flush(d, a), NEW D, NEW n \in Nat
  PROVE  Passes(value, a, save[d], D, n, value, app'[d], save'[d], D, n)
<1>1. /\ app \in [Device -> App] /\ save \in [Device -> Save] /\ save[d] \in Save
      /\ value \in Container /\ (a.saving <=> save[d].at # "none")
  BY DEF SyncInv, TypeOK, Sound, KeysFit
<1>2. CASE a.saving
  <2>1. save'[d] = save[d] /\ app'[d] = [a EXCEPT !.dirty = TRUE]
    BY <1>1, <1>2 DEF Flush
  <2>2. app'[d].base = a.base /\ app'[d].local = a.local
    BY <2>1 DEF App
  <2>3. \A i \in Id : Cell(app'[d], save'[d], i) = Cell(a, save[d], i)
    BY <2>1, <2>2 DEF Cell
  <2>4. QED
    BY <2>3 DEF Passes
<1>3. CASE ~a.saving
  <2>1. save'[d] = Send(a) /\ app'[d] = [a EXCEPT !.saving = TRUE, !.dirty = FALSE]
    BY <1>1, <1>3 DEF Flush
  <2>2. app'[d].base = a.base /\ app'[d].local = a.local
    BY <2>1 DEF App
  <2>3. /\ save'[d].at = "put" /\ save'[d].sent = a.local /\ save'[d].b = a.base
        /\ save'[d].n = a.local
    BY <2>1 DEF Send
  <2>4. ASSUME NEW i \in Id
        PROVE  FlushMoves(value[i], Cell(a, save[d], i), value[i], Cell(app'[d], save'[d], i))
    BY <1>1, <1>3, <2>2, <2>3, CellParts DEF FlushMoves, Sends
  <2> HIDE DEF Send
  <2>5. QED
    BY <1>1, <2>4, MovesPass
<1>4. QED
  BY <1>2, <1>3

\* The entry i of local becomes e.
Replaces(a, b, i, e) == b.base = a.base /\ b.local = [a.local EXCEPT ![i] = e]

LEMMA ReplacedCell ==
  ASSUME NEW a \in App, NEW b \in App, NEW s \in Save, NEW i \in Id, NEW e \in Entry,
         Replaces(a, b, i, e)
  PROVE  /\ Edited(Cell(a, s, i), e, Cell(b, s, i))
         /\ \A j \in Id \ {i} : Cell(b, s, j) = Cell(a, s, j)
<1>1. a.local \in [Id -> Entry]
  BY Fields DEF Container
<1>2. b.local[i] = e /\ \A j \in Id \ {i} : b.local[j] = a.local[j]
  BY <1>1 DEF Replaces
<1>3. \A j \in Id \ {i} : Cell(b, s, j) = Cell(a, s, j)
  BY <1>2 DEF Cell, Replaces
<1>4. Edited(Cell(a, s, i), e, Cell(b, s, i))
  BY <1>2 DEF Cell, Edited, Replaces
<1>5. QED
  BY <1>3, <1>4

LEMMA NewPasses ==
  ASSUME NEW val \in Container, NEW a \in App, NEW b \in App, NEW s \in Save, NEW D, NEW n \in Nat,
         NEW i \in Id, NEW e \in Entry, Replaces(a, b, i, e), e.rev = n + 1,
         e.stamp = n + 1 \/ (a.local[i] # Absent /\ e.stamp = a.local[i].stamp)
  PROVE  Passes(val, a, s, D, n, val, b, s, D, n + 1)
<1> SUFFICES ASSUME NEW j \in Id, NEW y \in CellType,
                    CellsFit(val[j], Cell(a, s, j), y, Revisions(D, j), n)
             PROVE  CellsFit(val[j], Cell(b, s, j), y, Revisions(D, j), n + 1)
  BY DEF Passes
<1>1. /\ val[j] \in Entry /\ Cell(a, s, j) \in CellType /\ Cell(b, s, j) \in CellType
      /\ Cell(a, s, j).local = a.local[j]
  BY Parts, CellParts
<1>2. /\ Edited(Cell(a, s, i), e, Cell(b, s, i))
      /\ j # i => Cell(b, s, j) = Cell(a, s, j)
  BY ReplacedCell
<1>3. CASE j = i
  BY <1>1, <1>2, <1>3, NewFits
<1>4. CASE j # i
  BY <1>1, <1>2, <1>4, TimeFits
<1>5. QED
  BY <1>3, <1>4

LEMMA DeletionPasses ==
  ASSUME NEW val \in Container, NEW a \in App, NEW b \in App, NEW s \in Save, NEW D, NEW n \in Nat,
         NEW i \in Id, Replaces(a, b, i, Absent), a.local[i] # Absent
  PROVE  Passes(val, a, s, D, n, val, b, s, D \cup {<<i, a.local[i].rev>>}, n + 1)
<1> DEFINE E == D \cup {<<i, a.local[i].rev>>}
<1> SUFFICES ASSUME NEW j \in Id, NEW y \in CellType,
                    CellsFit(val[j], Cell(a, s, j), y, Revisions(D, j), n)
             PROVE  CellsFit(val[j], Cell(b, s, j), y, Revisions(E, j), n + 1)
  BY DEF Passes
<1>1. /\ val[j] \in Entry /\ Cell(a, s, j) \in CellType /\ Cell(b, s, j) \in CellType
      /\ Cell(a, s, j).local = a.local[j]
  BY Parts, CellParts
<1>2. /\ Edited(Cell(a, s, i), Absent, Cell(b, s, i))
      /\ j # i => Cell(b, s, j) = Cell(a, s, j)
  <2>1. Absent \in Entry
    BY DEF Absent, Entry
  <2>2. QED
    BY <2>1, ReplacedCell
<1>3. CASE j = i
  <2>1. a.local[i].rev \in Nat
    BY Fields, Parts
  <2>2. Revisions(E, j) = Revisions(D, j) \cup {a.local[i].rev}
    BY <1>3, <2>1 DEF Revisions
  <2>3. CellsFit(val[j], Cell(b, s, j), y, Revisions(D, j) \cup {a.local[i].rev}, n + 1)
    BY <1>1, <1>2, <1>3, DeletionFits
  <2>4. QED
    BY <2>2, <2>3
<1>4. CASE j # i
  <2>1. Revisions(E, j) = Revisions(D, j)
    BY <1>4 DEF Revisions
  <2>2. QED
    BY <1>1, <1>2, <1>4, <2>1, TimeFits
<1>5. QED
  BY <1>3, <1>4

-----------------------------------------------------------------------------
(* The steps of device d                                                      *)

\* What device d does keeps the entries fitting to those of the other.
PassesHere(d) == Passes(value, app[d], save[d], deleted, edits,
                        value', app'[d], save'[d], deleted', edits')

\* An edit of entry i, and flush.
LEMMA LocalPasses ==
  ASSUME SyncInv, SyncInv', NEW d \in Device, NEW i \in Id, NEW e \in Entry,
         Mutate(d, [app[d].local EXCEPT ![i] = e]),
         \/ /\ deleted' = deleted /\ e.rev = edits + 1
            /\ e.stamp = edits + 1 \/ (app[d].local[i] # Absent /\ e.stamp = app[d].local[i].stamp)
         \/ /\ deleted' = deleted \cup {<<i, app[d].local[i].rev>>}
            /\ e = Absent /\ app[d].local[i] # Absent
  PROVE  PassesHere(d)
<1>1. /\ app[d] \in App /\ app'[d] \in App /\ save[d] \in Save /\ save'[d] \in Save
      /\ value \in Container /\ edits \in Nat
  BY DEF SyncInv, TypeOK
<1> DEFINE a == [app[d] EXCEPT !.local = [app[d].local EXCEPT ![i] = e]]
<1>2. edits' = edits + 1 /\ value' = value /\ Flush(d, a)
  BY DEF Mutate, server
<1>3. a \in App /\ a.saving = app[d].saving /\ Replaces(app[d], a, i, e)
  <2>1. [app[d].local EXCEPT ![i] = e] \in Container
    BY <1>1, Fields DEF Container
  <2>2. QED
    BY <1>1, <2>1 DEF App, Replaces
<1> HIDE DEF a
<1>4. Passes(value, app[d], save[d], deleted, edits, value, a, save[d], deleted', edits + 1)
  <2>1. CASE /\ deleted' = deleted /\ e.rev = edits + 1
             /\ \/ e.stamp = edits + 1
                \/ app[d].local[i] # Absent /\ e.stamp = app[d].local[i].stamp
    <3>1. Passes(value, app[d], save[d], deleted, edits, value, a, save[d], deleted, edits + 1)
      BY <1>1, <1>3, <2>1, NewPasses
    <3>2. QED
      BY <2>1, <3>1
  <2>2. CASE /\ deleted' = deleted \cup {<<i, app[d].local[i].rev>>}
             /\ e = Absent /\ app[d].local[i] # Absent
    <3>1. Passes(value, app[d], save[d], deleted, edits,
                 value, a, save[d], deleted \cup {<<i, app[d].local[i].rev>>}, edits + 1)
      BY <1>1, <1>3, <2>2, DeletionPasses
    <3>2. QED
      BY <2>2, <3>1
  <2>3. QED
    BY <2>1, <2>2
<1>5. Passes(value, a, save[d], deleted', edits + 1, value, app'[d], save'[d], deleted', edits + 1)
  <2>1. PICK D : D = deleted'
    OBVIOUS
  <2>2. edits + 1 \in Nat
    BY <1>1
  <2>3. Passes(value, a, save[d], D, edits + 1, value, app'[d], save'[d], D, edits + 1)
    BY <1>1, <1>2, <1>3, <2>2, FlushPasses
  <2>4. QED
    BY <2>1, <2>3
<1>6. QED
  BY <1>2, <1>4, <1>5, PassesOn DEF PassesHere

LEMMA ChangePasses ==
  ASSUME SyncInv, SyncInv', NEW d \in Device, NEW i \in Id, Edit(d, i) \/ Touch(d, i) \/ Delete(d, i)
  PROVE  PassesHere(d)
<1>1. edits \in Nat /\ app[d].local[i] \in Entry /\ app[d].local \in Container
  BY Fields, Parts DEF SyncInv, TypeOK
<1>2. CASE Edit(d, i)
  <2> DEFINE e == [stamp |-> edits + 1, rev |-> edits + 1]
  <2>1. e \in Entry /\ e.rev = edits + 1 /\ e.stamp = edits + 1
    BY <1>1 DEF Entry
  <2>2. Mutate(d, [app[d].local EXCEPT ![i] = e]) /\ deleted' = deleted
    BY <1>2 DEF Edit
  <2> HIDE DEF e
  <2>3. QED
    BY <2>1, <2>2, LocalPasses
<1>3. CASE Touch(d, i)
  <2> DEFINE e == [stamp |-> app[d].local[i].stamp, rev |-> edits + 1]
  <2>1. e \in Entry /\ e.rev = edits + 1 /\ e.stamp = app[d].local[i].stamp
    BY <1>1 DEF Entry
  <2>2. Mutate(d, [app[d].local EXCEPT ![i] = e]) /\ deleted' = deleted /\ app[d].local[i] # Absent
    BY <1>1, <1>3 DEF Touch, history, Container
  <2> HIDE DEF e
  <2>3. QED
    BY <2>1, <2>2, LocalPasses
<1>4. CASE Delete(d, i)
  <2>1. Absent \in Entry
    BY DEF Absent, Entry
  <2>2. /\ Mutate(d, [app[d].local EXCEPT ![i] = Absent]) /\ app[d].local[i] # Absent
        /\ deleted' = deleted \cup {<<i, app[d].local[i].rev>>}
    BY <1>4 DEF Delete
  <2>3. QED
    BY <2>1, <2>2, LocalPasses
<1>5. QED
  BY <1>2, <1>3, <1>4

LEMMA RetryPasses ==
  ASSUME SyncInv, SyncInv', NEW d \in Device, Retry(d) PROVE PassesHere(d)
<1>1. /\ Flush(d, app[d]) /\ value' = value /\ edits' = edits /\ deleted' = deleted
      /\ app[d] \in App /\ app'[d] \in App /\ save'[d] \in Save /\ edits \in Nat
  BY DEF Retry, server, history, SyncInv, TypeOK
<1>2. Passes(value, app[d], save[d], deleted, edits, value, app'[d], save'[d], deleted, edits)
  BY <1>1, FlushPasses
<1>3. QED
  BY <1>1, <1>2 DEF PassesHere

\* A step that moves a flush and leaves clock and deletions alone.
LEMMA FlushHere ==
  ASSUME SyncInv, SyncInv', NEW d \in Device, edits' = edits, deleted' = deleted,
         \A i \in Id : FlushMoves(value[i], Cell(app[d], save[d], i),
                                  value'[i], Cell(app'[d], save'[d], i))
  PROVE  PassesHere(d)
<1>1. /\ app[d] \in App /\ app'[d] \in App /\ save[d] \in Save /\ save'[d] \in Save
      /\ value \in Container /\ edits \in Nat
  BY DEF SyncInv, TypeOK
<1>2. PICK val2, b, t : val2 = value' /\ b = app'[d] /\ t = save'[d]
  OBVIOUS
<1>3. Passes(value, app[d], save[d], deleted, edits, val2, b, t, deleted, edits)
  BY <1>1, <1>2, MovesPass
<1>4. QED
  BY <1>2, <1>3 DEF PassesHere

LEMMA PutAcceptedPasses ==
  ASSUME SyncInv, SyncInv', NEW d \in Device, PutAccepted(d), ~lost' PROVE PassesHere(d)
<1>1. /\ app[d] \in App /\ app'[d] \in App /\ save[d] \in Save /\ save'[d] \in Save
      /\ save \in [Device -> Save]
  BY DEF SyncInv, TypeOK
<1>2. /\ save[d].at = "put" /\ save[d].b.version = version /\ value' = save[d].n
      /\ edits' = edits /\ deleted' = deleted /\ app' = app
      /\ save' = [save EXCEPT ![d] =
                    [save[d] EXCEPT !.at = "saved",
                                    !.b = [version |-> version + 1, container |-> save[d].n]]]
  BY DEF PutAccepted, Saving, Go
<1>3. save[d].b.container = value
  BY <1>2 DEF SyncInv, Sound, SaveFits, Known
<1>4. /\ save'[d].at = "saved" /\ save'[d].b.container = save[d].n
      /\ save'[d].n = save[d].n /\ save'[d].sent = save[d].sent
  BY <1>1, <1>2 DEF Save
<1>5. ASSUME NEW i \in Id
      PROVE  Puts(value[i], Cell(app[d], save[d], i), value'[i], Cell(app'[d], save'[d], i))
  BY <1>2, <1>3, <1>4 DEF Puts, Cell
<1>6. QED
  BY <1>2, <1>5, FlushHere DEF FlushMoves

LEMMA PutConflictPasses ==
  ASSUME SyncInv, SyncInv', NEW d \in Device, PutConflict(d) PROVE PassesHere(d)
<1>1. save[d] \in Save /\ save \in [Device -> Save]
  BY DEF SyncInv, TypeOK
<1>2. /\ save[d].at = "put" /\ save' = [save EXCEPT ![d] = [save[d] EXCEPT !.at = "conflict"]]
      /\ app' = app /\ value' = value /\ edits' = edits /\ deleted' = deleted
  BY DEF PutConflict, Saving, Go, server, history
<1>3. /\ save'[d].at = "conflict" /\ save'[d].b = save[d].b
      /\ save'[d].n = save[d].n /\ save'[d].sent = save[d].sent
  BY <1>1, <1>2 DEF Save
<1>4. ASSUME NEW i \in Id
      PROVE  Refused(Cell(app[d], save[d], i), Cell(app'[d], save'[d], i))
  BY <1>2, <1>3 DEF Refused, Cell
<1>5. QED
  BY <1>2, <1>4, FlushHere DEF FlushMoves

LEMMA RebasePasses ==
  ASSUME SyncInv, SyncInv', NEW d \in Device, Rebase(d) PROVE PassesHere(d)
<1>1. save[d] \in Save /\ save \in [Device -> Save]
  BY DEF SyncInv, TypeOK
<1>2. /\ save[d].at = "conflict"
      /\ app' = app /\ value' = value /\ edits' = edits /\ deleted' = deleted
      /\ save' = [save EXCEPT ![d] =
                    [save[d] EXCEPT !.n = Merge(save[d].b.container, save[d].n, value),
                                    !.b = Server,
                                    !.at = IF save[d].attempt < Attempts THEN "put" ELSE "error",
                                    !.attempt = save[d].attempt + 1]]
  BY DEF Rebase, Saving, Go, server, history
<1>3. /\ save'[d].at \in {"put", "error"} /\ save'[d].b = Server
      /\ save'[d].n = Merge(save[d].b.container, save[d].n, value)
      /\ save'[d].sent = save[d].sent
  BY <1>1, <1>2 DEF Save
<1>4. save'[d].b.container = value
  BY <1>3 DEF Server
<1>5. ASSUME NEW i \in Id
      PROVE  Rebases(value[i], Cell(app[d], save[d], i), Cell(app'[d], save'[d], i))
  <2>1. save'[d].n[i] = MergeEntry(save[d].b.container[i], save[d].n[i], value[i])
    BY <1>3 DEF Merge
  <2>2. QED
    BY <1>2, <1>3, <1>4, <2>1 DEF Rebases, Cell
<1>6. QED
  BY <1>2, <1>5, FlushHere DEF FlushMoves

LEMMA FailPasses ==
  ASSUME SyncInv, SyncInv', NEW d \in Device, Fail(d) PROVE PassesHere(d)
<1>1. app[d] \in App /\ app \in [Device -> App] /\ save \in [Device -> Save]
  BY DEF SyncInv, TypeOK
<1>2. /\ save[d].at = "error" /\ save' = [save EXCEPT ![d] = NoSave]
      /\ app' = [app EXCEPT ![d] = [app[d] EXCEPT !.saving = FALSE, !.failed = TRUE]]
      /\ value' = value /\ edits' = edits /\ deleted' = deleted
  BY <1>1 DEF Fail, Saving, Go, server, history
<1>3. app'[d].base = app[d].base /\ app'[d].local = app[d].local /\ save'[d] = NoSave
  BY <1>1, <1>2 DEF App
<1>4. ASSUME NEW i \in Id PROVE Fails(Cell(app[d], save[d], i), Cell(app'[d], save'[d], i))
  BY <1>2, <1>3, Nowhere, EmptyContainer DEF Fails, Rests, Cell
<1>5. QED
  BY <1>2, <1>4, FlushHere DEF FlushMoves

\* The result is taken over, or the edits made meanwhile are merged and sent again.
LEMMA FinishPasses ==
  ASSUME SyncInv, SyncInv', NEW d \in Device, Finish(d) PROVE PassesHere(d)
<1>1. /\ app[d] \in App /\ app \in [Device -> App] /\ save \in [Device -> Save]
      /\ save[d] \in Save /\ app'[d] \in App /\ save'[d] \in Save /\ value \in Container
      /\ edits \in Nat
  BY DEF SyncInv, TypeOK
<1>2. /\ save[d].at = "saved" /\ app[d].key = save[d].key
      /\ value' = value /\ edits' = edits /\ deleted' = deleted
  BY DEF Finish, Saving, server, history
<1>3. CASE ~app[d].dirty
  <2>1. /\ save' = [save EXCEPT ![d] = NoSave]
        /\ app' = [app EXCEPT ![d] = [app[d] EXCEPT !.base = save[d].b, !.saving = FALSE,
                                        !.local = save[d].b.container, !.failed = FALSE]]
    BY <1>3 DEF Finish, Go
  <2>2. /\ app'[d].base = save[d].b /\ app'[d].local = save[d].b.container
        /\ save'[d] = NoSave
    BY <1>1, <2>1 DEF App
  <2>3. app[d].local = save[d].sent
    BY <1>2, <1>3 DEF SyncInv, Settled
  <2>4. ASSUME NEW i \in Id
        PROVE  /\ Takes(Cell(app[d], save[d], i), Cell(app'[d], save'[d], i))
               /\ Cell(app[d], save[d], i).local = Cell(app[d], save[d], i).sent
    BY <1>2, <2>2, <2>3, Nowhere, EmptyContainer DEF Takes, Rests, Cell
  <2>5. QED
    BY <1>2, <2>4, FlushHere DEF FlushMoves
<1>4. CASE app[d].dirty
  <2> DEFINE m == Merge(save[d].sent, app[d].local, save[d].b.container)
             b == [app[d] EXCEPT !.base = save[d].b, !.dirty = FALSE, !.local = m]
  <2>1. save' = [save EXCEPT ![d] = Send(b)] /\ app' = [app EXCEPT ![d] = b]
    BY <1>4 DEF Finish, Go
  <2>2. m \in Container /\ save[d].b \in State
    BY <1>1, Fields, MergeType
  <2>3. b \in App /\ b.base = save[d].b /\ b.local = m
    BY <1>1, <2>2 DEF App
  <2> HIDE DEF b
  <2>4. app'[d] = b /\ save'[d] = Send(b)
    BY <1>1, <2>1
  <2>5. /\ save'[d].at = "put" /\ save'[d].sent = m /\ save'[d].b = save[d].b
        /\ save'[d].n = m
    BY <2>3, <2>4 DEF Send
  \* First the end of this round, then the start of the next.
  <2>6. ASSUME NEW i \in Id
        PROVE  FlushMoves(value[i], Cell(app[d], save[d], i), value[i], Cell(b, NoSave, i))
    <3>1. m[i] = MergeEntry(save[d].sent[i], app[d].local[i], save[d].b.container[i])
      BY DEF Merge
    <3> HIDE DEF m
    <3>2. Merges(Cell(app[d], save[d], i), Cell(b, NoSave, i))
      BY <1>2, <2>3, <3>1, Nowhere, EmptyContainer DEF Merges, Rests, Cell
    <3>3. QED
      BY <3>2 DEF FlushMoves
  <2> HIDE DEF m
  <2>7. PICK t : t = save'[d]
    OBVIOUS
  <2>8. ASSUME NEW i \in Id
        PROVE  FlushMoves(value[i], Cell(b, NoSave, i), value[i], Cell(b, t, i))
    <3>1. Sends(Cell(b, NoSave, i), Cell(b, t, i))
      BY <2>3, <2>5, <2>7, Nowhere DEF Sends, Cell
    <3>2. QED
      BY <3>1 DEF FlushMoves
  <2>9. NoSave \in Save
    BY Nowhere
  <2>10. Passes(value, app[d], save[d], deleted, edits, value, b, NoSave, deleted, edits)
    BY <1>1, <2>3, <2>6, <2>9, MovesPass
  <2>11. Passes(value, b, NoSave, deleted, edits, value, b, t, deleted, edits)
    BY <1>1, <2>3, <2>7, <2>8, <2>9, MovesPass
  <2>12. QED
    BY <1>2, <2>4, <2>7, <2>10, <2>11, PassesOn DEF PassesHere
<1>5. QED
  BY <1>3, <1>4

\* What disturbs never ends.
LEMMA StepUndisturbed ==
  ASSUME SyncInv, SyncInv', Next, Undisturbed'
  PROVE  /\ Undisturbed
         /\ \E d \in Device : /\ PassesHere(d)
                              /\ \A q \in Device \ {d} : app'[q] = app[q] /\ save'[q] = save[q]
<1>1. /\ app \in [Device -> App] /\ save \in [Device -> Save] /\ lost \in BOOLEAN
      /\ \A q \in Device : app[q].locks \in Nat /\ app[q] \in App
      /\ ~lost' /\ \A q \in Device : app'[q].locks = 0
  BY Fields DEF SyncInv, TypeOK, Undisturbed
<1>2. PICK d \in Device : \/ \E i \in Id : Edit(d, i) \/ Touch(d, i) \/ Delete(d, i)
                          \/ Retry(d) \/ Run(d) \/ Lock(d) \/ Enter(d)
  BY DEF Next
<1>3. KeysFit(app[d], save[d])
  BY DEF SyncInv, Sound
<1>4. ~Lock(d)
  <2>1. SUFFICES ASSUME Lock(d) PROVE FALSE
    OBVIOUS
  <2>2. app'[d].locks = app[d].locks + 1
    BY <1>1, <2>1 DEF Lock, App
  <2>3. QED
    BY <1>1, <2>2
<1>5. ~lost
  BY <1>1, <1>2, <1>4 DEF Edit, Touch, Delete, Retry, Run, PutAccepted, PutConflict, Rebase,
    Abandon, Finish, Fail, Enter, history
<1>6. /\ \A q \in Device \ {d} : app'[q] = app[q] /\ save'[q] = save[q]
      /\ app'[d].locks = app[d].locks
  <2>1. ASSUME NEW a, a \in App, a.locks = app[d].locks, Flush(d, a)
        PROVE  /\ \A q \in Device \ {d} : app'[q] = app[q] /\ save'[q] = save[q]
               /\ app'[d].locks = app[d].locks
    BY <1>1, <2>1 DEF Flush, App
  <2>2. ASSUME NEW i \in Id, Edit(d, i) \/ Touch(d, i) \/ Delete(d, i)
        PROVE  \E e \in Entry : Mutate(d, [app[d].local EXCEPT ![i] = e])
    <3>1. /\ edits + 1 \in Nat /\ app[d].local[i].stamp \in Nat /\ app[d].local \in Container
      BY <1>1, Fields, Parts DEF SyncInv, TypeOK
    <3>2. /\ [stamp |-> edits + 1, rev |-> edits + 1] \in Entry
          /\ [stamp |-> app[d].local[i].stamp, rev |-> edits + 1] \in Entry /\ Absent \in Entry
      BY <3>1 DEF Entry, Absent
    <3>3. CASE Edit(d, i)
      BY <3>2, <3>3 DEF Edit
    <3>4. CASE Touch(d, i)
      <4>1. Mutate(d, [app[d].local EXCEPT
                         ![i] = [stamp |-> app[d].local[i].stamp, rev |-> edits + 1]])
        BY <3>1, <3>4 DEF Touch, Container
      <4>2. QED
        BY <3>2, <4>1
    <3>5. CASE Delete(d, i)
      BY <3>2, <3>5 DEF Delete
    <3>6. QED
      BY <2>2, <3>3, <3>4, <3>5
  <2>3. CASE \E i \in Id : Edit(d, i) \/ Touch(d, i) \/ Delete(d, i)
    <3>1. PICK i \in Id, e \in Entry : Mutate(d, [app[d].local EXCEPT ![i] = e])
      BY <2>2, <2>3
    <3>2. PICK a : a = [app[d] EXCEPT !.local = [app[d].local EXCEPT ![i] = e]]
      OBVIOUS
    <3>3. a \in App /\ a.locks = app[d].locks /\ Flush(d, a)
      <4>1. [app[d].local EXCEPT ![i] = e] \in Container
        BY <1>1, Fields DEF Container
      <4>2. QED
        BY <1>1, <3>1, <3>2, <4>1 DEF Mutate, App
    <3>4. QED
      BY <2>1, <3>3
  <2>4. CASE Retry(d)
    BY <1>1, <2>1, <2>4 DEF Retry
  <2>5. CASE PutAccepted(d) \/ PutConflict(d) \/ Rebase(d)
    BY <1>1, <2>5 DEF PutAccepted, PutConflict, Rebase, Go
  <2>6. CASE Abandon(d) \/ Fail(d) \/ Enter(d)
    <3>1. CASE Abandon(d)
      BY <1>1, <3>1 DEF Abandon, Go, App
    <3>2. CASE Fail(d)
      BY <1>1, <3>2 DEF Fail, Go, App
    <3>3. CASE Enter(d)
      BY <1>1, <3>3 DEF Enter, App
    <3>4. QED
      BY <2>6, <3>1, <3>2, <3>3
  <2>7. CASE Finish(d)
    <3>1. ASSUME NEW a, NEW t, app' = [app EXCEPT ![d] = a], save' = [save EXCEPT ![d] = t],
                 a.locks = app[d].locks
          PROVE  /\ \A q \in Device \ {d} : app'[q] = app[q] /\ save'[q] = save[q]
                 /\ app'[d].locks = app[d].locks
      BY <1>1, <3>1
    <3>2. CASE app[d].dirty
      <4> DEFINE b == [app[d] EXCEPT !.base = save[d].b, !.dirty = FALSE,
                         !.local = Merge(save[d].sent, app[d].local, save[d].b.container)]
      <4>1. app' = [app EXCEPT ![d] = b] /\ save' = [save EXCEPT ![d] = Send(b)]
        BY <2>7, <3>2 DEF Finish, Go
      <4>2. b.locks = app[d].locks
        BY <1>1 DEF App
      <4> HIDE DEF b
      <4>3. QED
        BY <3>1, <4>1, <4>2
    <3>3. CASE ~app[d].dirty
      <4> DEFINE b == [app[d] EXCEPT !.base = save[d].b, !.local = save[d].b.container,
                                     !.saving = FALSE, !.failed = FALSE]
      <4>1. app' = [app EXCEPT ![d] = b] /\ save' = [save EXCEPT ![d] = NoSave]
        BY <2>7, <3>3 DEF Finish, Go
      <4>2. b.locks = app[d].locks
        BY <1>1 DEF App
      <4> HIDE DEF b
      <4>3. QED
        BY <3>1, <4>1, <4>2
    <3>4. QED
      BY <3>2, <3>3
  <2>8. QED
    BY <1>2, <1>4, <2>3, <2>4, <2>5, <2>6, <2>7 DEF Run
<1>7. Undisturbed
  BY <1>1, <1>5, <1>6 DEF Undisturbed
<1>8. ~Abandon(d) /\ ~Enter(d)
  <2>1. app[d].locks = 0
    BY <1>7 DEF Undisturbed
  <2>2. app[d].key = 1 /\ (save[d].at # "none" => save[d].key = 1)
    BY <1>1, <1>3, <2>1 DEF KeysFit
  <2>3. QED
    BY <2>2 DEF Abandon, Saving, Enter
<1>9. PassesHere(d)
  BY <1>1, <1>2, <1>4, <1>8, ChangePasses, RetryPasses, PutAcceptedPasses, PutConflictPasses,
     RebasePasses, FailPasses, FinishPasses DEF Run
<1>10. QED
  BY <1>6, <1>7, <1>9

\* With a second device: the one that acts passes, seen from either.
LEMMA NextTwo ==
  ASSUME OneOrTwo, SyncInv, SyncInv', TwoFit, [Next]_vars PROVE TwoFit'
<1>1. CASE UNCHANGED vars
  BY <1>1 DEF TwoFit, DevicesFit, AloneFits, Undisturbed, vars
<1>2. CASE Next
  <2> SUFFICES ASSUME Undisturbed', NEW i \in Id
               PROVE  /\ \A p, q \in Device : p # q => DevicesFit(p, q, i)'
                      /\ \A p \in Device : Device = {p} => AloneFits(p, i)'
    BY DEF TwoFit
  <2>1. PICK d \in Device : /\ PassesHere(d)
                            /\ \A r \in Device \ {d} : app'[r] = app[r] /\ save'[r] = save[r]
    BY <1>2, StepUndisturbed
  <2>2. /\ \A r \in Device, s \in Device : r # s => DevicesFit(r, s, i)
        /\ Device = {d} => AloneFits(d, i)
    BY <1>2, StepUndisturbed DEF TwoFit
  <2>3. ASSUME NEW r \in Device \ {d} PROVE DevicesFit(d, r, i)'
    <3>1. app[r] \in App /\ save[r] \in Save
      BY DEF SyncInv, TypeOK
    <3>2. Cell(app[r], save[r], i) \in CellType
      BY <3>1, CellParts
    <3>3. CellsFit(value[i], Cell(app[d], save[d], i), Cell(app[r], save[r], i),
                   Revisions(deleted, i), edits)
      BY <2>2 DEF DevicesFit
    <3>4. CellsFit(value'[i], Cell(app'[d], save'[d], i), Cell(app[r], save[r], i),
                   Revisions(deleted', i), edits')
      BY <2>1, <3>2, <3>3 DEF PassesHere, Passes
    <3>5. QED
      BY <2>1, <3>4 DEF DevicesFit
  <2>4. ASSUME NEW p \in Device, NEW q \in Device, p # q PROVE DevicesFit(p, q, i)'
    <3>1. CASE p = d
      BY <2>3, <2>4, <3>1
    <3>2. CASE p # d
      <4>1. q = d
        BY <2>4, <3>2 DEF OneOrTwo
      <4>2. CellsFit(value'[i], Cell(app'[q], save'[q], i), Cell(app'[p], save'[p], i),
                     Revisions(deleted', i), edits')
        BY <2>3, <2>4, <4>1 DEF DevicesFit
      <4>3. CellsFit(value'[i], Cell(app'[p], save'[p], i), Cell(app'[q], save'[q], i),
                     Revisions(deleted', i), edits')
        BY <4>2, BothWays
      <4>4. QED
        BY <4>3 DEF DevicesFit
    <3>3. QED
      BY <3>1, <3>2
  <2>5. ASSUME NEW p \in Device, Device = {p} PROVE AloneFits(p, i)'
    <3>1. p = d /\ Bare \in CellType
      BY <2>5 DEF Bare, CellType, Absent, Entry
    <3>2. CellsFit(value'[i], Cell(app'[d], save'[d], i), Bare, Revisions(deleted', i), edits')
      BY <2>1, <2>2, <2>5, <3>1 DEF PassesHere, Passes, AloneFits
    <3>3. QED
      BY <3>1, <3>2 DEF AloneFits
  <2>6. QED
    BY <2>4, <2>5
<1>3. QED
  BY <1>1, <1>2

LEMMA InitTwo == Init => TwoFit
<1> SUFFICES ASSUME Init, NEW i \in Id
             PROVE  /\ \A p, q \in Device : DevicesFit(p, q, i)
                    /\ \A p \in Device : AloneFits(p, i)
  BY DEF TwoFit
<1>1. ASSUME NEW d \in Device
      PROVE  LET x == Cell(app[d], save[d], i) IN
             /\ x.at = "none" /\ x.base = Absent /\ x.local = Absent
             /\ x.sent = Absent /\ x.b = Absent /\ x.n = Absent
  <2>1. app[d] = Fresh(Nothing, 1, 0) /\ save[d] = NoSave
    BY DEF Init
  <2>2. app[d].base = Nothing /\ app[d].local = Empty
    BY <2>1, Nowhere DEF Fresh
  <2>3. QED
    BY <2>1, <2>2, Nowhere, EmptyContainer DEF Cell
<1>2. /\ value[i] = Absent /\ edits = 0 /\ Revisions(deleted, i) = {}
  BY EmptyContainer DEF Init, Revisions
<1>3. Made(Absent, 0)
  BY DEF Made, Absent
<1>4. ASSUME NEW x, NEW y,
             x.at = "none" /\ x.base = Absent /\ x.local = Absent
             /\ x.sent = Absent /\ x.b = Absent /\ x.n = Absent,
             y.at = "none" /\ y.base = Absent /\ y.local = Absent
             /\ y.sent = Absent /\ y.b = Absent /\ y.n = Absent
      PROVE  CellsFit(Absent, x, y, {}, 0)
  <2>1. CellsAgree(Absent, x, y)
    BY <1>4 DEF CellsAgree, CellAgrees, LocalIsNew, FlightIsAlone, LocalIsAlone, Overruled, OverruledIsGone,
      SharedIsThere, SavedIsKnown, Live, Flying, Offers
  <2>2. OneOfRev(Absent, x, y)
    BY <1>4 DEF OneOfRev, Held, Offers, Live
  <2>3. QED
    BY <1>3, <1>4, <2>1, <2>2 DEF CellsFit, MadeCell
<1>5. QED
  BY <1>1, <1>2, <1>4 DEF DevicesFit, AloneFits, Bare

\* Of one device or two: once every device shows "saved", no revision that was deleted is on
\* the server, whatever conflicts, retries and edits during a flush there were, if no answer
\* was lost and no device locked.
THEOREM DeletionsAreKept ==
  ASSUME OneOrTwo
  PROVE  Spec => []DeletionsStay
<1>1. SyncInv /\ TwoFit => DeletionsStay
  <2> SUFFICES ASSUME SyncInv, TwoFit, ~lost, \A d \in Device : Synced(d) /\ app[d].locks = 0,
                      NEW i \in Id
               PROVE  <<i, value[i].rev>> \notin deleted
    BY DEF DeletionsStay
  <2>1. TwoFit /\ Undisturbed
    BY DEF Undisturbed
  <2>2. \/ \E p, q \in Device : DevicesFit(p, q, i)
        \/ \E p \in Device : AloneFits(p, i)
    BY <2>1 DEF TwoFit, OneOrTwo
  <2>3. ASSUME NEW d \in Device
        PROVE  LET x == Cell(app[d], save[d], i) IN
               x \in CellType /\ x.at = "none" /\ x.local = x.base
    <3>1. app[d] \in App /\ save[d] \in Save /\ KeysFit(app[d], save[d]) /\ Settled(app[d], save[d])
      BY DEF SyncInv, TypeOK, Sound
    <3>2. app[d].local = app[d].base.container /\ save[d].at = "none"
      BY <3>1 DEF Synced, KeysFit, Settled
    <3>3. QED
      BY <3>1, <3>2, CellParts
  <2>4. value[i] \in Entry /\ value[i].rev \in Nat /\ edits \in Nat
    BY Parts DEF SyncInv, TypeOK
  <2>5. ASSUME NEW x \in CellType, NEW y \in CellType, x.at = "none", x.local = x.base,
               y.at = "none", y.local = y.base,
               CellsFit(value[i], x, y, Revisions(deleted, i), edits)
        PROVE  value[i].rev \notin Revisions(deleted, i)
    BY <2>4, <2>5, SettledIsClean
  <2>6. Bare \in CellType /\ Bare.at = "none" /\ Bare.local = Bare.base
    BY DEF Bare, CellType, Absent, Entry
  <2>7. value[i].rev \notin Revisions(deleted, i)
    BY <2>2, <2>3, <2>5, <2>6 DEF DevicesFit, AloneFits
  <2>8. QED
    BY <2>4, <2>7 DEF Revisions
<1>2. Init => TwoFit
  BY InitTwo
<1>3. SyncInv /\ SyncInv' /\ TwoFit /\ [Next]_vars => TwoFit'
  BY NextTwo
<1>4. QED
  BY <1>1, <1>2, <1>3, AlwaysSync, PTL DEF Spec

-----------------------------------------------------------------------------
(* Two editors that do not see each other                                  *)

USE TimeAssumption

\* A device that has put the file back in the list, or in the trash with a stamp that
\* is later than the base's, or is about to: what it has survives every merge.
Trashed(d, f) ==
  /\ object[f] = "trashed"
  /\ \/ call[d][f].op = "trash"
     \/ /\ call[d][f].op \in {"none", "check"}
        /\ copy[d].trash[f].stamp > base.trash[f].stamp
        /\ \A L \in listed[d] : f \in L

Alive(d, f) ==
  \/ call[d][f].op \in {"store", "restore"}
  \/ copy[d].list[f] # Absent /\ call[d][f].op \in {"none", "check"}
  \/ Trashed(d, f)

\* In the list, or on the way back to it
Here(d, f) ==
  \/ call[d][f].op = "restore"
  \/ copy[d].list[f] # Absent /\ copy[d].trash[f] = Absent /\ call[d][f].op = "none"

\* In the trash since before the base was saved
Lies(d, f) ==
  /\ copy[d].trash[f] = base.trash[f]
  /\ call[d][f].op \in {"none", "check"}
  /\ \A L \in listed[d] : f \in L

Untouched(f) ==
  object[f] = "trashed" /\ base.trash[f] # Absent /\ \A d \in Side : Lies(d, f)

\* Of a file that the base does not list, some device has what survives, unless nobody
\* has touched it; of one that it lists, the other device keeps its entry as well.
FileFits(f) ==
  IF base.list[f] = Absent
  THEN Untouched(f) \/ \E d \in Side : Alive(d, f)
  ELSE \/ object[f] = "stored" /\ \A d \in Side : Here(d, f)
       \/ \E d \in Side : Trashed(d, f) /\ Here(Other(d), f)

FitsAt(f) ==
  /\ object[f] = "none" => base.list[f] = Absent /\ base.trash[f] = Absent
  /\ f \notin excused /\ object[f] \in {"stored", "trashed"} => FileFits(f)

EditorInv == EditorTypeOK /\ \A f \in files : FitsAt(f)


-----------------------------------------------------------------------------
(* Lemmas about entries and sides                                          *)

LEMMA Sides ==
  ASSUME NEW s \in Side
  PROVE  Other(s) \in Side /\ Other(s) # s /\ Side = {s, Other(s)} /\ Other(Other(s)) = s
BY DEF Side, Other

LEMMA EntryStamps ==
  /\ \A e \in Entries : e.stamp \in Nat /\ (e = Absent <=> e.stamp = 0)
  /\ \A e \in Discarded : e.stamp \in Nat /\ (e = Absent <=> e.stamp = 0)
BY DEF Entries, Discarded, Absent, Instant

LEMMA CopyTypes ==
  ASSUME EditorTypeOK, NEW i \in Id
  PROVE  /\ base.list[i] \in Entries /\ base.trash[i] \in Discarded
         /\ \A s \in Side : copy[s].list[i] \in Entries /\ copy[s].trash[i] \in Discarded
         /\ \A s \in Side : call[s][i] \in Call
BY DEF EditorTypeOK, Lists

LEMMA CallFields ==
  ASSUME NEW c \in Call
  PROVE  /\ c.op = "none" <=> c = NoCall
         /\ c.op = "trash" => c.entry \in Entries \ {Absent}
         /\ c.op \in {"check", "restore"} => c.entry \in Discarded \ {Absent}
         /\ c.op \in {"none", "store", "delete", "trash", "check", "restore"}
BY DEF Call, NoCall

-----------------------------------------------------------------------------
(* What a step leaves alone                                                *)

\* Nothing happens to file f; a trash list that names it goes on naming it.
Spared(f) ==
  /\ base' = base /\ object'[f] = object[f] /\ (f \in excused => f \in excused')
  /\ \A d \in Side :
       /\ copy'[d].list[f] = copy[d].list[f] /\ copy'[d].trash[f] = copy[d].trash[f]
       /\ call'[d][f] = call[d][f]
       /\ (\A L \in listed[d] : f \in L) => \A L \in listed'[d] : f \in L

LEMMA SparedFits ==
  ASSUME NEW f, Spared(f), FitsAt(f)
  PROVE  FitsAt(f)'
<1>1. base' = base /\ object'[f] = object[f] /\ (f \in excused => f \in excused')
  BY DEF Spared
<1>2. ASSUME NEW d \in Side
      PROVE  (Alive(d, f) => Alive(d, f)') /\ (Trashed(d, f) => Trashed(d, f)')
             /\ (Here(d, f) => Here(d, f)') /\ (Lies(d, f) => Lies(d, f)')
  BY <1>1, <1>2 DEF Spared, Alive, Trashed, Here, Lies
<1>3. \A d \in Side : Other(d) \in Side
  BY Sides
<1>4. (Untouched(f) => Untouched(f)') /\ (FileFits(f) => FileFits(f)')
  BY <1>1, <1>2, <1>3 DEF Untouched, FileFits
<1>5. QED
  BY <1>1, <1>4 DEF FitsAt

-----------------------------------------------------------------------------
(* The types                                                               *)

LEMMA EntryMade ==
  /\ \A t \in Instant, r \in Author : [stamp |-> t, rev |-> r] \in Entries
  /\ \A t \in Instant, r \in Author, u \in Instant :
       [stamp |-> t, rev |-> r, filed |-> u] \in Discarded
  /\ Absent \in Entries /\ Absent \in Discarded /\ Side \subseteq Author
BY DEF Entries, Discarded, Author

LEMMA EntryParts ==
  /\ \A e \in Entries : e # Absent => e.stamp \in Instant /\ e.rev \in Author
                                      /\ e = [stamp |-> e.stamp, rev |-> e.rev]
  /\ \A e \in Discarded : e # Absent => e.stamp \in Instant /\ e.rev \in Author /\ e.filed \in Instant
BY DEF Entries, Discarded

LEMMA SetCopy ==
  ASSUME copy \in [Side -> Lists], NEW s \in Side, NEW i \in Id, NEW e \in Entries
  PROVE  [copy EXCEPT ![s].list[i] = e] \in [Side -> Lists]
BY DEF Lists

LEMMA SetBoth ==
  ASSUME copy \in [Side -> Lists], NEW s \in Side, NEW i \in Id, NEW e \in Entries, NEW x \in Discarded
  PROVE  [copy EXCEPT ![s].list[i] = e, ![s].trash[i] = x] \in [Side -> Lists]
BY DEF Lists

LEMMA SetTheCall ==
  ASSUME call \in [Side -> [Id -> Call]], NEW s \in Side, NEW i \in Id, NEW c \in Call
  PROVE  [call EXCEPT ![s][i] = c] \in [Side -> [Id -> Call]]
OBVIOUS

LEMMA TypesStep ==
  ASSUME EditorTypeOK, [EditorNext]_editorVars
  PROVE  EditorTypeOK'
<1> USE DEF saved, fileState
<1>1. ASSUME NEW s \in Side, NEW i \in Id, NEW t \in Instant, SaveNote(s, i, t)
      PROVE  EditorTypeOK'
  <2>1. [stamp |-> t, rev |-> s] \in Entries
    BY EntryMade
  <2>2. QED
    BY <1>1, <2>1, SetCopy DEF EditorTypeOK, SaveNote, SetEntry
<1>2. ASSUME NEW s \in Side, NEW i \in Id, PinNote(s, i) \/ MoveFile(s, i)
      PROVE  EditorTypeOK'
  <2>1. copy[s].list[i] \in Entries /\ copy[s].list[i] # Absent
    BY <1>2, CopyTypes DEF PinNote, MoveFile
  <2>2. [copy[s].list[i] EXCEPT !.rev = s] \in Entries
    BY <2>1, EntryMade DEF Entries
  <2>3. PICK e \in Entries : e = [copy[s].list[i] EXCEPT !.rev = s]
    BY <2>2
  <2>4. copy' = [copy EXCEPT ![s].list[i] = e]
    BY <1>2, <2>3 DEF PinNote, MoveFile, SetEntry
  <2>5. copy' \in [Side -> Lists]
    BY <2>4, SetCopy DEF EditorTypeOK
  <2>6. QED
    BY <1>2, <2>5 DEF EditorTypeOK, PinNote, MoveFile
<1>3. ASSUME NEW s \in Side, NEW i \in Id, DeleteNote(s, i)
      PROVE  EditorTypeOK'
  BY <1>3, EntryMade, SetCopy DEF EditorTypeOK, DeleteNote, SetEntry
<1>4. ASSUME NEW s \in Side, NEW x \in Dir, AddDir(s, x) \/ DropDir(s, x)
      PROVE  EditorTypeOK'
  BY <1>4 DEF EditorTypeOK, AddDir, DropDir
<1>5. ASSUME NEW s \in Side, NEW f \in Id, NEW c \in Call, SetCall(s, f, c),
             object' \in [Id -> {"none", "stored", "trashed", "gone"}],
             UNCHANGED <<saved, copy, dirs, listed, excused>>
      PROVE  EditorTypeOK'
  BY <1>5, SetTheCall DEF EditorTypeOK, SetCall
<1>6. ASSUME NEW s \in Side, NEW f \in Id, StoreObject(s, f) \/ DeleteObject(s, f)
      PROVE  EditorTypeOK'
  <2>1. \A o \in {"store", "delete"} : [op |-> o, entry |-> Absent] \in Call
    BY DEF Call
  <2>2. QED
    BY <1>5, <1>6, <2>1 DEF StoreObject, DeleteObject, EditorTypeOK
<1>7. ASSUME NEW s \in Side, NEW f \in Id, TrashObject(s, f)
      PROVE  EditorTypeOK'
  <2>1. [op |-> "trash", entry |-> copy[s].list[f]] \in Call
    BY <1>7, CopyTypes DEF Call, TrashObject
  <2>2. QED
    BY <1>5, <1>7, <2>1 DEF TrashObject, EditorTypeOK
<1>8. ASSUME NEW s \in Side, NEW f \in Id, RestoreChecked(s, f)
      PROVE  EditorTypeOK'
  <2>1. [op |-> "check", entry |-> copy[s].trash[f]] \in Call
    BY <1>8, CopyTypes DEF Call, RestoreChecked
  <2>2. QED
    BY <1>5, <1>8, <2>1 DEF RestoreChecked, EditorTypeOK
<1>9. ASSUME NEW s \in Side, NEW f \in Id, RestoreObject(s, f)
      PROVE  EditorTypeOK'
  <2>1. call[s][f] \in Call /\ call[s][f].op = "check"
    BY <1>9, CopyTypes DEF RestoreObject, Awaits
  <2>2. [call[s][f] EXCEPT !.op = "restore"] \in Call
    BY <2>1 DEF Call, NoCall
  <2>3. QED
    BY <1>5, <1>9, <2>2 DEF RestoreObject, EditorTypeOK
<1>10. NoCall \in Call
  BY DEF Call
<1>11. ASSUME NEW s \in Side, NEW f \in Id, NEW t \in Instant, FileStored(s, f, t)
       PROVE  EditorTypeOK'
  <2>1. copy' \in [Side -> Lists]
    BY <1>11, EntryMade, SetCopy DEF EditorTypeOK, FileStored, SetEntry
  <2>2. call' \in [Side -> [Id -> Call]]
    BY <1>10, <1>11, SetTheCall DEF EditorTypeOK, FileStored, SetCall
  <2>3. QED
    BY <1>11, <2>1, <2>2 DEF EditorTypeOK, FileStored
<1>12. ASSUME NEW s \in Side, NEW f \in Id, NEW t \in Instant, FileTrashed(s, f, t)
       PROVE  EditorTypeOK'
  <2>1. PICK e \in Entries \ {Absent} : e = call[s][f].entry
    BY <1>12, CopyTypes, CallFields DEF FileTrashed, Awaits
  <2>2. copy' = [copy EXCEPT ![s].list[f] = Absent,
                             ![s].trash[f] = [stamp |-> t, rev |-> e.rev, filed |-> e.stamp]]
    BY <1>12, <2>1 DEF FileTrashed
  <2>3. [stamp |-> t, rev |-> e.rev, filed |-> e.stamp] \in Discarded
    BY <2>1, EntryParts, EntryMade
  <2>4. copy' \in [Side -> Lists]
    BY <2>2, <2>3, EntryMade, SetBoth DEF EditorTypeOK
  <2>5. call' \in [Side -> [Id -> Call]]
    BY <1>10, <1>12, SetTheCall DEF EditorTypeOK, FileTrashed, SetCall
  <2>6. listed' \in [Side -> SUBSET (SUBSET Id)] /\ excused' \subseteq Id
    BY <1>12 DEF EditorTypeOK, FileTrashed
  <2>7. QED
    BY <1>12, <2>4, <2>5, <2>6 DEF EditorTypeOK, FileTrashed
<1>13. ASSUME NEW s \in Side, NEW f \in Id, FileRestored(s, f)
       PROVE  EditorTypeOK'
  <2>1. PICK e \in Discarded \ {Absent} : e = call[s][f].entry
    BY <1>13, CopyTypes, CallFields DEF FileRestored, Awaits
  <2>2. copy' = [copy EXCEPT ![s].list[f] = [stamp |-> e.filed, rev |-> e.rev],
                             ![s].trash[f] = Absent]
    BY <1>13, <2>1 DEF FileRestored
  <2>3. [stamp |-> e.filed, rev |-> e.rev] \in Entries
    BY <2>1, EntryParts, EntryMade
  <2>4. copy' \in [Side -> Lists]
    BY <2>2, <2>3, EntryMade, SetBoth DEF EditorTypeOK
  <2>5. call' \in [Side -> [Id -> Call]]
    BY <1>10, <1>13, SetTheCall DEF EditorTypeOK, FileRestored, SetCall
  <2>6. QED
    BY <1>13, <2>4, <2>5 DEF EditorTypeOK, FileRestored
<1>14. ASSUME NEW s \in Side, NEW f \in Id, FileDeleted(s, f)
       PROVE  EditorTypeOK'
  <2>1. copy' \in [Side -> Lists]
    BY <1>14, EntryMade, SetBoth DEF EditorTypeOK, FileDeleted
  <2>2. call' \in [Side -> [Id -> Call]]
    BY <1>10, <1>14, SetTheCall DEF EditorTypeOK, FileDeleted, SetCall
  <2>3. QED
    BY <1>14, <2>1, <2>2 DEF EditorTypeOK, FileDeleted
<1>15. ASSUME NEW s \in Side, ListTrash(s)
       PROVE  EditorTypeOK'
  BY <1>15 DEF EditorTypeOK, ListTrash
<1>16. ASSUME NEW s \in Side, NEW D \in SUBSET files, TrashListed(s, D)
       PROVE  EditorTypeOK'
  <2>1. [i \in Id |-> IF i \in D THEN Absent ELSE copy[s].trash[i]] \in [Id -> Discarded]
    BY CopyTypes, EntryMade
  <2>2. PICK g \in [Id -> Discarded] : g = [i \in Id |-> IF i \in D THEN Absent ELSE copy[s].trash[i]]
    BY <2>1
  <2>3. copy' = [copy EXCEPT ![s].trash = g]
    BY <1>16, <2>2 DEF TrashListed
  <2>4. copy' \in [Side -> Lists]
    BY <2>3 DEF EditorTypeOK, Lists
  <2>5. QED
    BY <1>16, <2>4 DEF EditorTypeOK, TrashListed
<1>17. ASSUME NEW f \in Id, PurgeTrash(f)
       PROVE  EditorTypeOK'
  BY <1>17 DEF EditorTypeOK, PurgeTrash
<1>18. ASSUME NEW s \in Side, CloseTab(s)
       PROVE  EditorTypeOK'
  <2>1. excused' \subseteq Id
    BY <1>18 DEF EditorTypeOK, CloseTab
  <2>2. QED
    BY <1>10, <1>18, <2>1 DEF EditorTypeOK, CloseTab
<1>19. CASE UNCHANGED editorVars
  BY <1>19 DEF EditorTypeOK, editorVars
<1>20. files \subseteq Id
  BY DEF EditorTypeOK
<1>21. QED
  BY <1>1, <1>2, <1>3, <1>4, <1>6, <1>7, <1>8, <1>9, <1>11, <1>12, <1>13, <1>14, <1>15, <1>16,
     <1>17, <1>18, <1>19, <1>20 DEF EditorNext

-----------------------------------------------------------------------------
(* What a step changes                                                     *)

LEMMA ListAt ==
  ASSUME EditorTypeOK, NEW s \in Side, NEW i \in Id, NEW e, SetEntry(s, i, e)
  PROVE  /\ copy'[s].list[i] = e /\ copy'[s].trash[i] = copy[s].trash[i]
         /\ \A d \in Side, h \in Id : d # s \/ h # i =>
              copy'[d].list[h] = copy[d].list[h] /\ copy'[d].trash[h] = copy[d].trash[h]
BY DEF EditorTypeOK, Lists, SetEntry

LEMMA BothAt ==
  ASSUME EditorTypeOK, NEW s \in Side, NEW i \in Id, NEW e, NEW x,
         copy' = [copy EXCEPT ![s].list[i] = e, ![s].trash[i] = x]
  PROVE  /\ copy'[s].list[i] = e /\ copy'[s].trash[i] = x
         /\ \A d \in Side, h \in Id : d # s \/ h # i =>
              copy'[d].list[h] = copy[d].list[h] /\ copy'[d].trash[h] = copy[d].trash[h]
BY DEF EditorTypeOK, Lists

LEMMA CallAt ==
  ASSUME EditorTypeOK, NEW s \in Side, NEW i \in Id, NEW c, SetCall(s, i, c)
  PROVE  /\ call'[s][i] = c
         /\ \A d \in Side, h \in Id : d # s \/ h # i => call'[d][h] = call[d][h]
BY DEF EditorTypeOK, SetCall

-----------------------------------------------------------------------------
(* One lemma per action: the file it is about fits after it, and the others*)

LEMMA InvParts ==
  ASSUME EditorInv
  PROVE  EditorTypeOK /\ files \subseteq Id /\ \A f \in files : FitsAt(f)
BY DEF EditorInv, EditorTypeOK

\* Notes and folders are none of the files' business.
LEMMA NotesStep ==
  ASSUME EditorInv, NEW s \in Side, NEW n \in Id \ files,
         (\E t \in Instant : SaveNote(s, n, t)) \/ PinNote(s, n) \/ DeleteNote(s, n)
  PROVE  \A h \in files : FitsAt(h)'
<1>1. EditorTypeOK /\ files \subseteq Id /\ \A f \in files : FitsAt(f)
  BY InvParts
<1>2. PICK e : SetEntry(s, n, e)
  BY DEF SaveNote, PinNote, DeleteNote
<1>3. UNCHANGED <<saved, fileState>>
  BY DEF SaveNote, PinNote, DeleteNote
<1>4. ASSUME NEW h \in files PROVE Spared(h)
  <2>1. h \in Id /\ h # n
    BY <1>1
  <2>2. \A d \in Side : copy'[d].list[h] = copy[d].list[h] /\ copy'[d].trash[h] = copy[d].trash[h]
    BY <1>1, <1>2, <2>1, ListAt
  <2>3. QED
    BY <1>3, <2>2 DEF Spared, saved, fileState
<1>5. QED
  BY <1>1, <1>4, SparedFits

\* An entry that is moved stays an entry.
LEMMA MoveStep ==
  ASSUME EditorInv, NEW s \in Side, NEW f \in files, MoveFile(s, f)
  PROVE  \A h \in files : FitsAt(h)'
<1>1. EditorTypeOK /\ files \subseteq Id /\ (\A h \in files : FitsAt(h)) /\ f \in Id
  BY InvParts
<1>2. PICK e : e = [copy[s].list[f] EXCEPT !.rev = s]
  OBVIOUS
<1>3. SetEntry(s, f, e) /\ UNCHANGED <<saved, fileState>> /\ copy[s].list[f] # Absent
  BY <1>2 DEF MoveFile
<1>4. e # Absent
  <2>1. copy[s].list[f] \in Entries /\ copy[s].list[f].stamp # 0
    BY <1>1, <1>3, CopyTypes, EntryStamps
  <2>2. e.stamp # 0
    BY <1>2, <2>1 DEF Entries, Absent
  <2>3. QED
    BY <2>2 DEF Absent
<1>5. /\ copy'[s].list[f] # Absent /\ copy'[s].trash[f] = copy[s].trash[f]
      /\ \A d \in Side, h \in Id : d # s \/ h # f =>
           copy'[d].list[h] = copy[d].list[h] /\ copy'[d].trash[h] = copy[d].trash[h]
  BY <1>1, <1>3, <1>4, ListAt
<1>6. ASSUME NEW h \in files, h # f PROVE FitsAt(h)'
  BY <1>1, <1>3, <1>5, <1>6, SparedFits DEF Spared, saved, fileState
<1>7. ASSUME NEW d \in Side
      PROVE  (Alive(d, f) => Alive(d, f)') /\ (Trashed(d, f) => Trashed(d, f)')
             /\ (Here(d, f) => Here(d, f)') /\ (Lies(d, f) => Lies(d, f)')
  BY <1>1, <1>3, <1>5 DEF Alive, Trashed, Here, Lies, saved, fileState
<1>8. \A d \in Side : Other(d) \in Side
  BY Sides
<1>9. FileFits(f) => FileFits(f)'
  BY <1>3, <1>7, <1>8 DEF Untouched, FileFits, saved, fileState
<1>10. FitsAt(f)'
  BY <1>1, <1>3, <1>9 DEF FitsAt, saved, fileState
<1>11. QED
  BY <1>6, <1>10

\* A step of device s that calls the server about file f: the lists stay.
Calls(s, f, op) ==
  /\ call'[s][f].op = op
  /\ \A d \in Side, h \in Id : d # s \/ h # f => call'[d][h] = call[d][h]
  /\ \A h \in Id : h # f => object'[h] = object[h]
  /\ UNCHANGED <<saved, copy, dirs, listed, excused>>

LEMMA CallsSpare ==
  ASSUME EditorInv, NEW s \in Side, NEW f \in files, NEW op, Calls(s, f, op),
         NEW h \in files, h # f
  PROVE  FitsAt(h)'
<1>1. h \in Id /\ FitsAt(h)
  BY InvParts
<1>2. Spared(h)
  BY <1>1 DEF Calls, Spared, saved
<1>3. QED
  BY <1>1, <1>2, SparedFits

LEMMA StoreStep ==
  ASSUME EditorInv, NEW s \in Side, NEW f \in files, StoreObject(s, f)
  PROVE  \A h \in files : FitsAt(h)'
<1>1. EditorTypeOK /\ files \subseteq Id /\ FitsAt(f) /\ f \in Id
  BY InvParts
<1>2. Calls(s, f, "store") /\ object[f] = "none" /\ object'[f] = "stored"
  BY <1>1, CallAt DEF StoreObject, Calls, EditorTypeOK
<1>3. base.list[f] = Absent /\ base' = base
  BY <1>1, <1>2 DEF FitsAt, Calls, saved
<1>4. Alive(s, f)'
  BY <1>2 DEF Alive, Calls
<1>5. FitsAt(f)'
  BY <1>2, <1>3, <1>4 DEF FitsAt, FileFits
<1>6. QED
  BY <1>2, <1>5, CallsSpare

\* Who puts a file in the trash has what survives; the other device keeps its entry.
LEMMA TrashStep ==
  ASSUME EditorInv, NEW s \in Side, NEW f \in files, TrashObject(s, f)
  PROVE  \A h \in files : FitsAt(h)'
<1>1. EditorTypeOK /\ files \subseteq Id /\ FitsAt(f) /\ f \in Id
  BY InvParts
<1>2. Calls(s, f, "trash") /\ object[f] = "stored" /\ object'[f] = "trashed"
  BY <1>1, CallAt DEF TrashObject, Calls, EditorTypeOK
<1>3. base' = base /\ copy' = copy /\ listed' = listed /\ excused' = excused
  BY <1>2 DEF Calls, saved
<1>4. Trashed(s, f)'
  BY <1>2 DEF Trashed, Calls
<1>5. Other(s) \in Side /\ Other(s) # s
  BY Sides
<1>6. Here(Other(s), f) => Here(Other(s), f)'
  BY <1>1, <1>2, <1>3, <1>5 DEF Here, Calls
<1>7. ASSUME base.list[f] # Absent, f \notin excused
      PROVE  Here(Other(s), f)
  BY <1>1, <1>2, <1>5, <1>7 DEF FitsAt, FileFits, Trashed
<1>8. FitsAt(f)'
  BY <1>2, <1>3, <1>4, <1>6, <1>7 DEF FitsAt, FileFits, Alive
<1>9. QED
  BY <1>2, <1>8, CallsSpare

LEMMA CheckStep ==
  ASSUME EditorInv, NEW s \in Side, NEW f \in files, RestoreChecked(s, f)
  PROVE  \A h \in files : FitsAt(h)'
<1>1. EditorTypeOK /\ files \subseteq Id /\ FitsAt(f) /\ f \in Id
  BY InvParts
<1>2. Calls(s, f, "check") /\ object' = object /\ object[f] = "trashed" /\ call[s][f].op = "none"
      /\ copy[s].trash[f] # Absent
  BY <1>1, CallAt DEF RestoreChecked, Calls, Awaits
<1>3. base' = base /\ copy' = copy /\ listed' = listed /\ excused' = excused
  BY <1>2 DEF Calls, saved
<1>4. Other(s) \in Side /\ Other(s) # s /\ Side = {s, Other(s)} /\ Other(Other(s)) = s
  BY Sides
<1>5. /\ \A d \in Side : (Trashed(d, f) => Trashed(d, f)') /\ (Lies(d, f) => Lies(d, f)')
      /\ \A d \in Side : Alive(d, f) => Alive(d, f)'
      /\ Here(Other(s), f) => Here(Other(s), f)'
  BY <1>1, <1>2, <1>3, <1>4 DEF Trashed, Lies, Alive, Here, Calls
<1>6. ~Here(s, f)
  BY <1>2 DEF Here
<1>7. FileFits(f) => FileFits(f)'
  <2>1. CASE base.list[f] = Absent
    BY <1>2, <1>3, <1>5, <2>1 DEF FileFits, Untouched
  <2>2. CASE base.list[f] # Absent
    BY <1>2, <1>3, <1>4, <1>5, <1>6, <2>2 DEF FileFits
  <2>3. QED
    BY <2>1, <2>2
<1>8. FitsAt(f)'
  BY <1>1, <1>2, <1>3, <1>7 DEF FitsAt
<1>9. QED
  BY <1>2, <1>8, CallsSpare

\* Who restores a file is on the way to its list; nobody else could have.
LEMMA RestoreStep ==
  ASSUME EditorInv, NEW s \in Side, NEW f \in files, RestoreObject(s, f)
  PROVE  \A h \in files : FitsAt(h)'
<1>1. EditorTypeOK /\ files \subseteq Id /\ FitsAt(f) /\ f \in Id
  BY InvParts
<1>2. /\ Calls(s, f, "restore") /\ call[s][f].op = "check"
      /\ object'[f] = IF object[f] = "trashed" THEN "stored" ELSE object[f]
  <2>1. PICK c : c = [call[s][f] EXCEPT !.op = "restore"]
    OBVIOUS
  <2>2. call[s][f].op = "check" /\ c.op = "restore" /\ SetCall(s, f, c)
    BY <1>1, <2>1, CopyTypes DEF RestoreObject, Awaits, Call, NoCall
  <2>3. QED
    BY <1>1, <2>2, CallAt DEF RestoreObject, Calls, EditorTypeOK
<1>3. base' = base /\ copy' = copy /\ listed' = listed /\ excused' = excused
  BY <1>2 DEF Calls, saved
<1>4. Other(s) \in Side /\ Other(s) # s /\ Side = {s, Other(s)} /\ Other(Other(s)) = s
  BY Sides
<1>5. Alive(s, f)' /\ Here(s, f)' /\ ~Here(s, f)
  BY <1>2 DEF Alive, Here, Calls
<1>6. Here(Other(s), f) => Here(Other(s), f)'
  BY <1>1, <1>2, <1>3, <1>4 DEF Here, Calls
<1>7. ASSUME base.list[f] # Absent, f \notin excused, object[f] \in {"stored", "trashed"}
      PROVE  object[f] = "trashed" /\ Here(Other(s), f)
  BY <1>1, <1>4, <1>5, <1>7 DEF FitsAt, FileFits, Trashed
<1>8. FitsAt(f)'
  <2>1. CASE base.list[f] = Absent
    BY <1>1, <1>2, <1>3, <1>5, <2>1 DEF FitsAt, FileFits
  <2>2. CASE base.list[f] # Absent
    <3>1. f \notin excused' /\ object'[f] \in {"stored", "trashed"} => FileFits(f)'
      BY <1>2, <1>3, <1>4, <1>5, <1>6, <1>7, <2>2 DEF FileFits
    <3>2. QED
      BY <1>1, <1>2, <1>3, <3>1 DEF FitsAt
  <2>3. QED
    BY <2>1, <2>2
<1>9. QED
  BY <1>2, <1>8, CallsSpare

\* What is gone need not be named.
LEMMA RemoveStep ==
  ASSUME EditorInv, NEW s \in Side, NEW f \in files, DeleteObject(s, f)
  PROVE  \A h \in files : FitsAt(h)'
<1>1. EditorTypeOK /\ files \subseteq Id /\ f \in Id
  BY InvParts
<1>2. Calls(s, f, "delete") /\ object'[f] = "gone"
  BY <1>1, CallAt DEF DeleteObject, Calls, EditorTypeOK
<1>3. FitsAt(f)'
  BY <1>2 DEF FitsAt
<1>4. QED
  BY <1>2, <1>3, CallsSpare

LEMMA PurgeStep ==
  ASSUME EditorInv, NEW f \in files, PurgeTrash(f)
  PROVE  \A h \in files : FitsAt(h)'
<1>1. EditorTypeOK /\ files \subseteq Id /\ (\A h \in files : FitsAt(h)) /\ f \in Id
  BY InvParts
<1>2. FitsAt(f)'
  BY <1>1 DEF FitsAt, PurgeTrash, EditorTypeOK
<1>3. ASSUME NEW h \in files, h # f PROVE FitsAt(h)'
  <2>1. Spared(h)
    BY <1>1, <1>3 DEF Spared, PurgeTrash, EditorTypeOK, saved
  <2>2. QED
    BY <1>1, <2>1, SparedFits
<1>4. QED
  BY <1>2, <1>3

-----------------------------------------------------------------------------
(* The answers of the server                                               *)

\* The answer to device s about file f: it has e in the list and x in the trash.
Lands(s, f, e, x) ==
  /\ call'[s][f].op = "none"
  /\ copy'[s].list[f] = e /\ copy'[s].trash[f] = x
  /\ \A d \in Side, h \in Id : d # s \/ h # f =>
       /\ call'[d][h] = call[d][h]
       /\ copy'[d].list[h] = copy[d].list[h] /\ copy'[d].trash[h] = copy[d].trash[h]
  /\ base' = base /\ object' = object
  /\ \A d \in Side : \A h \in Id : (\A L \in listed[d] : h \in L) => \A L \in listed'[d] : h \in L
  /\ \A h \in Id : h \in excused => h \in excused'

LEMMA LandsSpares ==
  ASSUME EditorInv, NEW s \in Side, NEW f \in files, NEW e, NEW x, Lands(s, f, e, x),
         NEW h \in files, h # f
  PROVE  FitsAt(h)'
<1>1. h \in Id /\ FitsAt(h)
  BY InvParts
<1>2. Spared(h)
  BY <1>1 DEF Lands, Spared
<1>3. QED
  BY <1>1, <1>2, SparedFits

\* The other device is as it was.
LEMMA LandsAside ==
  ASSUME EditorInv, NEW s \in Side, NEW f \in Id, NEW e, NEW x, Lands(s, f, e, x)
  PROVE  LET d == Other(s) IN
         /\ d \in Side /\ d # s /\ Side = {s, d} /\ Other(d) = s
         /\ Alive(d, f) => Alive(d, f)'
         /\ Trashed(d, f) => Trashed(d, f)'
         /\ Here(d, f) => Here(d, f)'
<1>1. PICK d \in Side : d = Other(s) /\ d # s /\ Side = {s, d} /\ Other(d) = s
  BY Sides
<1>2. /\ call'[d][f] = call[d][f]
      /\ copy'[d].list[f] = copy[d].list[f] /\ copy'[d].trash[f] = copy[d].trash[f]
      /\ base' = base /\ object' = object
      /\ (\A L \in listed[d] : f \in L) => \A L \in listed'[d] : f \in L
  BY <1>1 DEF Lands
<1>3. (Alive(d, f) => Alive(d, f)') /\ (Trashed(d, f) => Trashed(d, f)') /\ (Here(d, f) => Here(d, f)')
  BY <1>2 DEF Alive, Trashed, Here
<1>4. QED
  BY <1>1, <1>3

LEMMA BothLand ==
  ASSUME EditorTypeOK, NEW s \in Side, NEW f \in Id, NEW e, NEW x,
         copy' = [copy EXCEPT ![s].list[f] = e, ![s].trash[f] = x], SetCall(s, f, NoCall),
         base' = base, object' = object,
         \A d \in Side : \A h \in Id : (\A L \in listed[d] : h \in L) => \A L \in listed'[d] : h \in L,
         \A h \in Id : h \in excused => h \in excused'
  PROVE  Lands(s, f, e, x)
<1>1. /\ copy'[s].list[f] = e /\ copy'[s].trash[f] = x
      /\ \A d \in Side, h \in Id : d # s \/ h # f =>
           copy'[d].list[h] = copy[d].list[h] /\ copy'[d].trash[h] = copy[d].trash[h]
  BY DEF EditorTypeOK, Lists
<1>2. /\ call'[s][f].op = "none"
      /\ \A d \in Side, h \in Id : d # s \/ h # f => call'[d][h] = call[d][h]
  BY DEF EditorTypeOK, SetCall, NoCall
<1>3. base' = base /\ object' = object /\ \A h \in Id : h \in excused => h \in excused'
  OBVIOUS
<1>4. \A d \in Side : \A h \in Id : (\A L \in listed[d] : h \in L) => \A L \in listed'[d] : h \in L
  OBVIOUS
<1>5. QED
  BY ONLY <1>1, <1>2, <1>3, <1>4 DEF Lands

LEMMA StoredStep ==
  ASSUME EditorInv, NEW s \in Side, NEW f \in files, NEW t \in Instant, FileStored(s, f, t)
  PROVE  \A h \in files : FitsAt(h)'
<1>1. EditorTypeOK /\ files \subseteq Id /\ FitsAt(f) /\ f \in Id
  BY InvParts
<1>2. PICK e : e = [stamp |-> t, rev |-> s]
  OBVIOUS
<1>3. e # Absent
  BY <1>2, EntryMade, EntryStamps DEF Instant
<1>4. Lands(s, f, e, copy[s].trash[f]) /\ call[s][f].op = "store"
  <2>1. SetEntry(s, f, e) /\ SetCall(s, f, NoCall) /\ NoCall.op = "none"
    BY <1>2 DEF FileStored, NoCall
  <2>2. QED
    BY <1>1, <2>1, ListAt, CallAt DEF FileStored, Awaits, Lands, saved
<1>5. Alive(s, f)'
  BY <1>3, <1>4 DEF Alive, Lands
<1>6. ~Here(s, f) /\ ~Trashed(s, f)
  BY <1>4 DEF Here, Trashed
<1>7. f \notin excused /\ object[f] \in {"stored", "trashed"} => base.list[f] = Absent
  BY <1>1, <1>6, Sides DEF FitsAt, FileFits
<1>8. FitsAt(f)'
  BY <1>1, <1>4, <1>5, <1>7 DEF FitsAt, FileFits, Lands
<1>9. QED
  BY <1>4, <1>8, LandsSpares

LEMMA TrashedStep ==
  ASSUME EditorInv, NEW s \in Side, NEW f \in files, NEW t \in Instant, FileTrashed(s, f, t)
  PROVE  \A h \in files : FitsAt(h)'
<1>1. EditorTypeOK /\ files \subseteq Id /\ FitsAt(f) /\ f \in Id
  BY InvParts
<1>2. PICK e \in Entries \ {Absent} : e = call[s][f].entry
  BY <1>1, CopyTypes, CallFields DEF FileTrashed, Awaits
<1>3. PICK x : x = [stamp |-> t, rev |-> e.rev, filed |-> e.stamp]
  OBVIOUS
<1>4. x.stamp = t /\ x.stamp \in Nat /\ base.trash[f].stamp \in Nat /\ (base.trash[f] = Absent => base.trash[f].stamp = 0) /\ t > 0
  BY <1>1, <1>3, CopyTypes, EntryStamps DEF Instant
<1>5. Lands(s, f, Absent, x) /\ call[s][f].op = "trash"
  <2>1. copy' = [copy EXCEPT ![s].list[f] = Absent, ![s].trash[f] = x]
        /\ SetCall(s, f, NoCall) /\ NoCall.op = "none"
    BY <1>2, <1>3 DEF FileTrashed, NoCall
  <2>2. \A d \in Side : \A h \in Id : (\A L \in listed[d] : h \in L) => \A L \in listed'[d] : h \in L
    BY <1>1 DEF FileTrashed, EditorTypeOK
  <2>3. \A h \in Id : h \in excused => h \in excused'
    BY DEF FileTrashed
  <2>4. QED
    BY <1>1, <2>1, <2>2, <2>3, BothLand DEF FileTrashed, Awaits, saved
<1>6. \A L \in listed'[s] : f \in L
  BY <1>1 DEF FileTrashed, EditorTypeOK
<1>7. f \notin excused' => t > base.trash[f].stamp
  BY <1>4 DEF FileTrashed, Instant
<1>8. ASSUME object[f] = "trashed", f \notin excused'
      PROVE  Trashed(s, f)'
  BY <1>4, <1>5, <1>6, <1>7, <1>8 DEF Trashed, Lands
<1>9. ASSUME object[f] = "stored", f \notin excused', base.list[f] = Absent
      PROVE  Alive(Other(s), f)
  <2>1. f \notin excused
    BY <1>1, <1>5, <1>9 DEF Lands
  <2>2. ~Alive(s, f) /\ ~Untouched(f)
    BY <1>5, <1>9 DEF Alive, Trashed, Untouched
  <2>3. QED
    BY <1>1, <1>9, <2>1, <2>2, Sides DEF FitsAt, FileFits
<1>10. ASSUME f \notin excused', base.list[f] # Absent, object[f] \in {"stored", "trashed"}
       PROVE  object[f] = "trashed" /\ Here(Other(s), f)
  <2>1. f \notin excused
    BY <1>1, <1>5, <1>10 DEF Lands
  <2>2. ~Here(s, f)
    BY <1>5 DEF Here
  <2>3. QED
    BY <1>1, <1>10, <2>1, <2>2, Sides DEF FitsAt, FileFits, Trashed
<1>11. FitsAt(f)'
  <2>1. base' = base /\ object' = object
    BY <1>5 DEF Lands
  <2>2. CASE base.list[f] = Absent
    <3>1. ASSUME f \notin excused', object[f] \in {"stored", "trashed"}
          PROVE  \E d \in Side : Alive(d, f)'
      BY <1>1, <1>5, <1>8, <1>9, <2>2, <3>1, LandsAside DEF Alive
    <3>2. QED
      BY <1>1, <2>1, <2>2, <3>1 DEF FitsAt, FileFits
  <2>3. CASE base.list[f] # Absent
    BY <1>1, <1>5, <1>8, <1>10, <2>1, <2>3, LandsAside DEF FitsAt, FileFits
  <2>4. QED
    BY <2>2, <2>3
<1>12. QED
  BY <1>5, <1>11, LandsSpares

LEMMA RestoredStep ==
  ASSUME EditorInv, NEW s \in Side, NEW f \in files, FileRestored(s, f)
  PROVE  \A h \in files : FitsAt(h)'
<1>1. EditorTypeOK /\ files \subseteq Id /\ FitsAt(f) /\ f \in Id
  BY InvParts
<1>2. PICK e \in Discarded \ {Absent} : e = call[s][f].entry
  BY <1>1, CopyTypes, CallFields DEF FileRestored, Awaits
<1>3. PICK x : x = [stamp |-> e.filed, rev |-> e.rev]
  OBVIOUS
<1>4. x # Absent
  BY <1>2, <1>3, EntryParts DEF Instant, Absent
<1>5. Lands(s, f, x, Absent) /\ call[s][f].op = "restore"
  <2>1. copy' = [copy EXCEPT ![s].list[f] = x, ![s].trash[f] = Absent]
        /\ SetCall(s, f, NoCall) /\ NoCall.op = "none"
    BY <1>2, <1>3 DEF FileRestored, NoCall
  <2>2. QED
    BY <1>1, <2>1, BothLand DEF FileRestored, Awaits, saved
<1>6. Alive(s, f)' /\ Here(s, f)' /\ Here(s, f) /\ ~Trashed(s, f)
  BY <1>4, <1>5 DEF Alive, Here, Lands, Trashed
<1>7. base' = base /\ object' = object /\ (f \in excused => f \in excused')
  BY <1>1, <1>5 DEF Lands
<1>8. FileFits(f) => FileFits(f)'
  <2>1. CASE base.list[f] = Absent
    BY <1>6, <1>7, <2>1 DEF FileFits
  <2>2. CASE base.list[f] # Absent
    BY <1>1, <1>5, <1>6, <1>7, <2>2, LandsAside DEF FileFits
  <2>3. QED
    BY <2>1, <2>2
<1>9. FitsAt(f)'
  BY <1>1, <1>7, <1>8 DEF FitsAt
<1>10. QED
  BY <1>5, <1>9, LandsSpares

\* A device awaits the end of a deletion only when the object is gone.
LEMMA DeletedStep ==
  ASSUME EditorInv, NEW s \in Side, NEW f \in files, FileDeleted(s, f)
  PROVE  \A h \in files : FitsAt(h)'
<1>1. EditorTypeOK /\ files \subseteq Id /\ FitsAt(f) /\ f \in Id
  BY InvParts
<1>2. Lands(s, f, Absent, Absent) /\ call[s][f].op = "delete"
  <2>1. copy' = [copy EXCEPT ![s].list[f] = Absent, ![s].trash[f] = Absent]
        /\ SetCall(s, f, NoCall) /\ NoCall.op = "none"
    BY DEF FileDeleted, NoCall
  <2>2. QED
    BY <1>1, <2>1, BothLand DEF FileDeleted, Awaits, saved
<1>3. ~Here(s, f) /\ ~Alive(s, f) /\ ~Trashed(s, f) /\ ~Untouched(f)
  BY <1>2 DEF Here, Alive, Trashed, Untouched, Lies
<1>4. base' = base /\ object' = object /\ (f \in excused => f \in excused')
  BY <1>1, <1>2 DEF Lands
<1>5. FileFits(f) => FileFits(f)'
  <2>1. CASE base.list[f] = Absent
    BY <1>1, <1>2, <1>3, <1>4, <2>1, LandsAside DEF FileFits
  <2>2. CASE base.list[f] # Absent
    BY <1>1, <1>2, <1>3, <1>4, <2>2, LandsAside DEF FileFits
  <2>3. QED
    BY <2>1, <2>2
<1>6. FitsAt(f)'
  BY <1>1, <1>4, <1>5 DEF FitsAt
<1>7. QED
  BY <1>2, <1>6, LandsSpares

-----------------------------------------------------------------------------
(* The trash list, and a tab that is closed                                *)

\* A list that was asked for while the file was in the trash names it.
LEMMA ListStep ==
  ASSUME EditorInv, NEW s \in Side, ListTrash(s)
  PROVE  \A h \in files : FitsAt(h)'
<1>1. EditorTypeOK /\ files \subseteq Id /\ \A h \in files : FitsAt(h)
  BY InvParts
<1>2. UNCHANGED <<base, copy, call, object, excused>>
  BY DEF ListTrash, saved
<1>3. ASSUME NEW h \in files PROVE FitsAt(h)'
  <2>1. ASSUME object[h] = "trashed", NEW d \in Side, \A L \in listed[d] : h \in L
        PROVE  \A L \in listed'[d] : h \in L
    BY <1>1, <2>1 DEF ListTrash, EditorTypeOK
  <2>2. ASSUME NEW d \in Side
        PROVE  (Alive(d, h) => Alive(d, h)') /\ (Trashed(d, h) => Trashed(d, h)')
               /\ (Here(d, h) => Here(d, h)') /\ (object[h] = "trashed" /\ Lies(d, h) => Lies(d, h)')
    BY <1>2, <2>1, <2>2 DEF Alive, Trashed, Here, Lies
  <2>3. (Untouched(h) => Untouched(h)')
    BY <1>2, <2>2 DEF Untouched
  <2>4. FileFits(h) => FileFits(h)'
    BY <1>2, <2>2, <2>3, Sides DEF FileFits
  <2>5. QED
    BY <1>1, <1>2, <2>4 DEF FitsAt
<1>4. QED
  BY <1>3

\* The clean-up takes nothing that survives: not what the list names, and what a device
\* in the middle of restoring drops here it puts into the list later.
LEMMA ListedStep ==
  ASSUME EditorInv, NEW s \in Side, NEW D \in SUBSET files, TrashListed(s, D)
  PROVE  \A h \in files : FitsAt(h)'
<1>1. EditorTypeOK /\ files \subseteq Id /\ \A h \in files : FitsAt(h)
  BY InvParts
<1>2. UNCHANGED <<base, call, object, excused>>
  BY DEF TrashListed, saved
<1>3. PICK L \in listed[s] : D \cap L = {}
  BY DEF TrashListed
<1>4. \A d \in Side : \A K \in listed'[d] : K \in listed[d]
  BY <1>1 DEF TrashListed, EditorTypeOK
<1>5. \A d \in Side, h \in Id :
        /\ copy'[d].list[h] = copy[d].list[h]
        /\ copy'[d].trash[h] = IF d = s /\ h \in D THEN Absent ELSE copy[d].trash[h]
  <2>1. PICK g : g = [i \in Id |-> IF i \in D THEN Absent ELSE copy[s].trash[i]]
    OBVIOUS
  <2>2. copy' = [copy EXCEPT ![s].trash = g]
    BY <2>1 DEF TrashListed
  <2>3. \A h \in Id : g[h] = IF h \in D THEN Absent ELSE copy[s].trash[h]
    BY <2>1
  <2>4. QED
    BY <1>1, <2>2, <2>3 DEF EditorTypeOK, Lists
<1>6. ASSUME NEW h \in files PROVE FitsAt(h)'
  <2>1. h \in Id
    BY <1>1
  <2>2. ASSUME NEW d \in Side, \A K \in listed[d] : h \in K
        PROVE  copy'[d].trash[h] = copy[d].trash[h]
    BY <1>3, <1>5, <2>1, <2>2
  <2>3. ASSUME NEW d \in Side
        PROVE  (Alive(d, h) => Alive(d, h)') /\ (Trashed(d, h) => Trashed(d, h)')
               /\ (Here(d, h) => Here(d, h)') /\ (Lies(d, h) => Lies(d, h)')
    BY <1>2, <1>4, <1>5, <2>1, <2>2, <2>3 DEF Alive, Trashed, Here, Lies
  <2>4. Untouched(h) => Untouched(h)'
    BY <1>2, <2>3 DEF Untouched
  <2>5. FileFits(h) => FileFits(h)'
    BY <1>2, <2>3, <2>4, Sides DEF FileFits
  <2>6. QED
    BY <1>1, <1>2, <2>5 DEF FitsAt
<1>7. QED
  BY <1>6

\* A tab that had changed nothing of the file leaves it as it is.
LEMMA CloseStep ==
  ASSUME EditorInv, NEW s \in Side, CloseTab(s)
  PROVE  \A h \in files : FitsAt(h)'
<1>1. EditorTypeOK /\ files \subseteq Id /\ \A h \in files : FitsAt(h)
  BY InvParts
<1>2. base' = base /\ object' = object /\ excused \subseteq excused'
  BY DEF CloseTab, saved
<1>3. ASSUME NEW h \in files PROVE FitsAt(h)'
  <2>1. h \in Id
    BY <1>1
  <2>2. CASE h \in excused'
    BY <1>1, <1>2, <2>2 DEF FitsAt
  <2>3. CASE h \notin excused'
    <3>1. call[s][h] = NoCall /\ copy[s].list[h] = base.list[h] /\ copy[s].trash[h] = base.trash[h]
      BY <2>3 DEF CloseTab
    <3>2. copy'[s] = base /\ call'[s][h] = NoCall /\ listed'[s] = {}
      BY <1>1, <2>1 DEF CloseTab, EditorTypeOK
    <3>3. \A d \in Side : d # s => copy'[d] = copy[d] /\ call'[d] = call[d] /\ listed'[d] = listed[d]
      BY <1>1 DEF CloseTab, EditorTypeOK
    <3>4. Spared(h)
      BY <1>2, <3>1, <3>2, <3>3 DEF Spared
    <3>5. QED
      BY <1>1, <3>4, SparedFits
  <2>4. QED
    BY <2>2, <2>3
<1>4. QED
  BY <1>3

-----------------------------------------------------------------------------
(* The invariant                                                           *)

LEMMA InitEditors == EditorInit => EditorInv
<1> SUFFICES ASSUME EditorInit PROVE EditorTypeOK /\ \A f \in files : FitsAt(f)
  BY DEF EditorInv
<1>1. {Absent} \cup [stamp : 1..Old, rev : {0}] \subseteq Entries
      /\ {Absent} \cup [stamp : 1..Old, rev : {0}, filed : 1..Old] \subseteq Discarded
  BY DEF Entries, Discarded, Instant, Author
<1>2. base \in Lists
  BY <1>1 DEF EditorInit, Lists
<1>3. EditorTypeOK
  BY <1>2 DEF EditorInit, EditorTypeOK, Call
<1>4. ASSUME NEW f \in files PROVE FitsAt(f)
  <2>1. f \in Id /\ (base.trash[f] # Absent => base.list[f] = Absent)
    BY <1>3, <1>4 DEF EditorInit, EditorTypeOK
  <2>2. object[f] = IF base.trash[f] # Absent THEN "trashed"
                    ELSE IF base.list[f] # Absent THEN "stored" ELSE "none"
    BY <2>1 DEF EditorInit
  <2>3. \A d \in Side : copy[d] = base /\ call[d][f].op = "none" /\ listed[d] = {}
    BY <2>1 DEF EditorInit, NoCall
  <2>4. base.trash[f] # Absent => Untouched(f)
    BY <2>2, <2>3 DEF Untouched, Lies
  <2>5. base.trash[f] = Absent => \A d \in Side : base.list[f] # Absent => Here(d, f)
    BY <2>3 DEF Here
  <2>6. QED
    BY <2>1, <2>2, <2>4, <2>5 DEF FitsAt, FileFits
<1>5. QED
  BY <1>3, <1>4

LEMMA StepEditors == EditorInv /\ [EditorNext]_editorVars => EditorInv'
<1> SUFFICES ASSUME EditorInv, [EditorNext]_editorVars PROVE EditorInv'
  OBVIOUS
<1>1. EditorTypeOK'
  BY InvParts, TypesStep
<1>2. \A f \in files : FitsAt(f)'
  <2>1. ASSUME NEW s \in Side, NEW n \in Id \ files,
               (\E t \in Instant : SaveNote(s, n, t)) \/ PinNote(s, n) \/ DeleteNote(s, n)
        PROVE  \A f \in files : FitsAt(f)'
    BY <2>1, NotesStep
  <2>2. ASSUME NEW s \in Side, NEW f \in files,
               \/ MoveFile(s, f) \/ StoreObject(s, f) \/ TrashObject(s, f) \/ RestoreChecked(s, f)
               \/ RestoreObject(s, f) \/ FileRestored(s, f) \/ DeleteObject(s, f) \/ FileDeleted(s, f)
        PROVE  \A h \in files : FitsAt(h)'
    BY <2>2, MoveStep, StoreStep, TrashStep, CheckStep, RestoreStep, RestoredStep, RemoveStep, DeletedStep
  <2>3. ASSUME NEW s \in Side, NEW f \in files, NEW t \in Instant,
               FileStored(s, f, t) \/ FileTrashed(s, f, t)
        PROVE  \A h \in files : FitsAt(h)'
    BY <2>3, StoredStep, TrashedStep
  <2>4. ASSUME NEW s \in Side, ListTrash(s) \/ CloseTab(s) \/ \E D \in SUBSET files : TrashListed(s, D)
        PROVE  \A h \in files : FitsAt(h)'
    BY <2>4, ListStep, CloseStep, ListedStep
  <2>5. ASSUME NEW f \in files, PurgeTrash(f)
        PROVE  \A h \in files : FitsAt(h)'
    BY <2>5, PurgeStep
  <2>6. ASSUME UNCHANGED <<base, copy, call, listed, object, excused>>
        PROVE  \A h \in files : FitsAt(h)'
    <3>1. \A h \in files : Spared(h)
      BY <2>6 DEF Spared
    <3>2. QED
      BY <3>1, InvParts, SparedFits
  <2>7. ASSUME NEW s \in Side, NEW x \in Dir, AddDir(s, x) \/ DropDir(s, x)
        PROVE  \A h \in files : FitsAt(h)'
    BY <2>6, <2>7 DEF AddDir, DropDir, saved, fileState
  <2>8. CASE UNCHANGED editorVars
    BY <2>6, <2>8 DEF editorVars
  <2>9. QED
    BY <2>1, <2>2, <2>3, <2>4, <2>5, <2>7, <2>8 DEF EditorNext
<1>3. files' = files
  <2>1. CASE UNCHANGED editorVars
    BY <2>1 DEF editorVars
  <2>2. CASE EditorNext
    <3>1. ASSUME NEW s \in Side,
                 \/ \E n \in Id \ files : (\E t \in Instant : SaveNote(s, n, t)) \/ PinNote(s, n) \/ DeleteNote(s, n)
                 \/ \E x \in Dir : AddDir(s, x) \/ DropDir(s, x)
                 \/ ListTrash(s) \/ CloseTab(s) \/ \E D \in SUBSET files : TrashListed(s, D)
                 \/ \E f \in files : PurgeTrash(f)
          PROVE  UNCHANGED saved
      BY <3>1 DEF SaveNote, PinNote, DeleteNote, AddDir, DropDir, ListTrash, CloseTab, TrashListed, PurgeTrash
    <3>2. ASSUME NEW s \in Side, NEW f \in files,
                 \/ MoveFile(s, f) \/ StoreObject(s, f) \/ TrashObject(s, f) \/ RestoreChecked(s, f)
                 \/ RestoreObject(s, f) \/ FileRestored(s, f) \/ DeleteObject(s, f) \/ FileDeleted(s, f)
                 \/ \E t \in Instant : FileStored(s, f, t) \/ FileTrashed(s, f, t)
          PROVE  UNCHANGED saved
      BY <3>2 DEF MoveFile, StoreObject, FileStored, TrashObject, FileTrashed, RestoreChecked,
         RestoreObject, FileRestored, DeleteObject, FileDeleted
    <3>3. \A f : PurgeTrash(f) => UNCHANGED saved
      BY DEF PurgeTrash
    <3>4. UNCHANGED saved
      BY <2>2, <3>1, <3>2, <3>3 DEF EditorNext
    <3>5. QED
      BY <3>4 DEF saved
  <2>3. QED
    BY <2>1, <2>2
<1>4. QED
  BY <1>1, <1>2, <1>3 DEF EditorInv

LEMMA AlwaysEditors == EditorSpec => []EditorInv
BY InitEditors, StepEditors, PTL DEF EditorSpec

-----------------------------------------------------------------------------
(* What is proved of the editors                                           *)

\* Whatever two devices make of a container, with whatever clocks: the change with the
\* latest stamp is kept, what was deleted comes back only as a change that was stamped
\* later, and a tie is for the device that merges (RulesHold).
THEOREM MergeRules == EditorSpec => []RulesHold
<1>1. EditorInv => RulesHold
  <2> SUFFICES ASSUME EditorInv, NEW i \in Id
               PROVE  LatestWins(i) /\ DeletedStays(i) /\ OwnOnTie(i)
    BY DEF RulesHold
  <2>1. PICK b \in Entries, l \in Entries, r \in Entries :
          b = base.list[i] /\ l = copy[1].list[i] /\ r = copy[2].list[i]
    BY InvParts, CopyTypes DEF Side
  <2>2. /\ b.stamp \in Nat /\ (b = Absent <=> b.stamp = 0)
        /\ l.stamp \in Nat /\ (l = Absent <=> l.stamp = 0)
        /\ r.stamp \in Nat /\ (r = Absent <=> r.stamp = 0)
    BY EntryStamps
  <2>3. PICK m : m = MergeEntry(b, l, r)
    OBVIOUS
  <2>4. m = IF l # Absent /\ r # Absent THEN IF l.stamp >= r.stamp THEN l ELSE r
            ELSE IF l # Absent /\ (b = Absent \/ l.stamp > b.stamp) THEN l
            ELSE IF r # Absent /\ (b = Absent \/ r.stamp > b.stamp) THEN r
            ELSE Absent
    BY <2>3 DEF MergeEntry, Survives
  <2>5. MergedList(i) = m /\ Other(1) = 2 /\ Other(2) = 1
    BY <2>1, <2>3 DEF MergedList, Other
  <2>6. LatestWins(i)
    BY <2>1, <2>2, <2>4, <2>5 DEF LatestWins, Side
  <2>7. DeletedStays(i)
    BY <2>1, <2>2, <2>4, <2>5 DEF DeletedStays, Side
  <2>8. OwnOnTie(i)
    BY <2>1, <2>2, <2>4, <2>5 DEF OwnOnTie
  <2>9. QED
    BY <2>6, <2>7, <2>8
<1>2. QED
  BY <1>1, AlwaysEditors, PTL

\* Whatever two devices upload, move, put in the trash, restore, delete and clean up, with
\* the server's answers on the way and with tabs that are closed: a file that the server has
\* is named by the merge, unless it is excused (NothingLost).
THEOREM MergeLosesNothing == EditorSpec => []NothingLost
<1>1. EditorInv => NothingLost
  <2> SUFFICES ASSUME EditorInv, NEW f \in files, f \notin excused,
                      object[f] \in {"stored", "trashed"}, \A s \in Side : call[s][f] = NoCall
               PROVE  MergedList(f) # Absent \/ MergedTrash(f) # Absent
    BY DEF NothingLost
  <2>1. EditorTypeOK /\ f \in Id /\ FileFits(f)
    BY InvParts DEF FitsAt
  <2>2. PICK b \in Entries, l \in Entries, r \in Entries :
          b = base.list[f] /\ l = copy[1].list[f] /\ r = copy[2].list[f]
    BY <2>1, CopyTypes DEF Side
  <2>3. PICK c \in Discarded, x \in Discarded, y \in Discarded :
          c = base.trash[f] /\ x = copy[1].trash[f] /\ y = copy[2].trash[f]
    BY <2>1, CopyTypes DEF Side
  <2>4. b = Absent /\ (l # Absent \/ r # Absent) => MergedList(f) # Absent
    BY <2>2 DEF MergedList, MergeEntry, Survives
  <2>5. l # Absent /\ r # Absent => MergedList(f) # Absent
    BY <2>2 DEF MergedList, MergeEntry, Survives
  <2>6. x # Absent /\ y # Absent => MergedTrash(f) # Absent
    BY <2>3 DEF MergedTrash, MergeEntry, Survives
  <2>7. x.stamp > c.stamp \/ y.stamp > c.stamp => MergedTrash(f) # Absent
    <3>1. /\ c.stamp \in Nat /\ (c = Absent <=> c.stamp = 0)
          /\ x.stamp \in Nat /\ (x = Absent <=> x.stamp = 0)
          /\ y.stamp \in Nat /\ (y = Absent <=> y.stamp = 0)
      BY EntryStamps
    <3>2. QED
      BY <2>3, <3>1 DEF MergedTrash, MergeEntry, Survives
  <2>8. Side = {1, 2} /\ \A s \in Side : call[s][f].op = "none"
    BY DEF Side, NoCall
  <2>9. ASSUME NEW d \in Side, Trashed(d, f) PROVE MergedTrash(f) # Absent
    BY <2>3, <2>7, <2>8, <2>9 DEF Trashed
  <2>10. ASSUME NEW d \in Side, Alive(d, f), b = Absent
         PROVE  MergedList(f) # Absent \/ MergedTrash(f) # Absent
    BY <2>2, <2>4, <2>8, <2>9, <2>10 DEF Alive
  <2>11. Untouched(f) => MergedTrash(f) # Absent
    BY <2>3, <2>6, <2>8 DEF Untouched, Lies
  <2>12. (\A d \in Side : Here(d, f)) => MergedList(f) # Absent
    BY <2>2, <2>5, <2>8 DEF Here
  <2>13. QED
    BY <2>1, <2>2, <2>9, <2>10, <2>11, <2>12 DEF FileFits
<1>2. QED
  BY <1>1, AlwaysEditors, PTL

\* The same for folders, which have no stamps.
THEOREM FoldersKept == EditorSpec => []FoldersMerge
<1>1. EditorInv => FoldersMerge
  BY DEF EditorInv, EditorTypeOK, Side, FoldersMerge, MergeSet
<1>2. QED
  BY <1>1, AlwaysEditors, PTL
=============================================================================

------------------------- MODULE FilecoinBackupProofs -------------------------
(***************************************************************************)
(* For any number of files, packs, providers, networks and overlapping     *)
(* runs: what has lost its fast copy is backed up, the memberships of a    *)
(* key agree, the copies of a key lie apart, and those that are paid for   *)
(* are known.                                                              *)
(*                                                                         *)
(* The argument: a pack that has a member is stored and its providers have *)
(* its bytes, because only packs without members are removed and a pack    *)
(* never gets members after its INSERT.  A key loses its fast copy only    *)
(* while such a base pack has it, and a change of the network finds either *)
(* the mark of that or a fault it waits for.                               *)
(***************************************************************************)
EXTENDS FilecoinBackup, WellFoundedInduction, TLAPS

USE CountAssumption, KindAssumption, BoundAssumption

\* As Job and TypeOK, without the bound of the copies a run still needs.
AnyJob == [at : Step, net : Network \cup {None}, keys : SUBSET Key, kind : {"base", "extra"},
           packs : SUBSET Pack, left : SUBSET Provider, need : Nat,
           avoid : SUBSET Provider, new : 0..MaxPacks]

Marks == {"none", "kept", "evicted", "ended"}

Types ==
  /\ life \in [Key -> Life]
  /\ network \in Network
  /\ pack \in [Pack -> PackRow]
  /\ held \in [Pack -> SUBSET Provider]
  /\ member \in [Key -> [Pack -> Marks]]
  /\ lease \in BOOLEAN
  /\ run \in [Run -> AnyJob]
  /\ admin \in [at : {"idle", "move", "write"}, net : Network \cup {None}]
  /\ admin.at # "idle" => admin.net \in Network
  /\ faults \in Nat
  /\ outlived \in BOOLEAN

-----------------------------------------------------------------------------
(* The least pack of a set, and records                                       *)

LEMMA LeastPack == ASSUME NEW S \in SUBSET Pack, S # {} PROVE Min(S) \in S
<1> DEFINE Less == {ss \in Nat \X Nat : ss[1] < ss[2]}
<1>1. IsWellFoundedOn(Less, Nat)
  <2>1. Less = OpToRel(<, Nat)
    BY DEF OpToRel
  <2>2. QED
    BY <2>1, NatLessThanWellFounded
<1>2. S \subseteq Nat
  BY DEF Pack
<1> HIDE DEF Less
<1>3. PICK x \in S : \A y \in S : ~(<<y, x>> \in Less)
  BY <1>1, <1>2, WFMin
<1>4. ASSUME NEW y \in S PROVE x =< y
  <2>1. <<y, x>> \in Nat \X Nat /\ y \in Nat /\ x \in Nat
    BY <1>2
  <2>2. ~(<<y, x>>[1] < <<y, x>>[2])
    BY <1>3, <2>1 DEF Less
  <2>3. QED
    BY <2>1, <2>2
<1>5. QED
  BY <1>4 DEF Min

LEMMA IdleJob == Idle \in AnyJob /\ Idle.at = "idle"
BY DEF Idle, AnyJob, Step, Pack

\* The run that goes on with a job, and the others.
LEMMA JobAfter ==
  ASSUME run \in [Run -> AnyJob], NEW r \in Run, NEW job \in AnyJob, Do(r, job)
  PROVE  /\ run' \in [Run -> AnyJob]
         /\ run'[r] = job
         /\ \A s \in Run : s # r => run'[s] = run[s]
BY DEF Do

LEMMA JobTo ==
  ASSUME Types, NEW r \in Run, NEW step \in Step, Goto(r, step)
  PROVE  /\ run' \in [Run -> AnyJob]
         /\ run'[r].at = step /\ run'[r].net = run[r].net /\ run'[r].kind = "base"
         /\ \A s \in Run : s # r => run'[s] = run[s]
<1> DEFINE job == [Idle EXCEPT !.at = step, !.net = run[r].net]
<1>1. run[r].net \in Network \cup {None}
  BY DEF Types, AnyJob
<1>2. job \in AnyJob /\ job.at = step /\ job.net = run[r].net /\ job.kind = "base"
  BY <1>1, IdleJob DEF AnyJob, Idle
<1>3. Do(r, job)
  BY DEF Goto
<1> HIDE DEF job
<1>4. QED
  BY <1>2, <1>3, JobAfter DEF Types

\* The next dead pack of a set, or the step after the last one.
LEMMA JobRemoves ==
  ASSUME Types, NEW r \in Run, NEW dead \in SUBSET Pack, RemoveNext(r, dead)
  PROVE  /\ run' \in [Run -> AnyJob]
         /\ run'[r].net = run[r].net
         /\ \/ run'[r].at = "pick"
            \/ run'[r].at = "remove" /\ run'[r].packs = dead /\ dead # {}
         /\ \A s \in Run : s # r => run'[s] = run[s]
<1>1. CASE dead = {}
  BY <1>1, JobTo DEF RemoveNext, Step
<1>2. CASE dead # {}
  <2> DEFINE job == [run[r] EXCEPT !.at = "remove", !.packs = dead, !.left = pack[Min(dead)].copies]
  <2>1. pack[Min(dead)].copies \in SUBSET Provider
    BY <1>2, LeastPack DEF Types, PackRow
  <2>2. run[r] \in AnyJob
    BY DEF Types
  <2>3. job \in AnyJob /\ job.net = run[r].net /\ job.at = "remove" /\ job.packs = dead
    BY <2>1, <2>2 DEF AnyJob, Step
  <2>4. Do(r, job)
    BY <1>2 DEF RemoveNext
  <2> HIDE DEF job
  <2>5. QED
    BY <1>2, <2>3, <2>4, JobAfter DEF Types
<1>3. QED
  BY <1>1, <1>2

-----------------------------------------------------------------------------
(* What becomes of the job of a run                                           *)

\* The steps at which nothing is carried along.
Plain == {"idle", "lease", "mark", "free", "survey", "pick", "extra", "release"}

Acts(r) == Sync(r) \/ Fail(r) \/ Crash(r)

\* The job keeps what the steps that make a pack rely on.
SamePlan(r) == run'[r].kind = run[r].kind /\ run'[r].net = run[r].net

\* The new job of run r, by the action that leads to it.
JobNow(r) ==
  \/ run'[r].at \in Plain
  \/ run'[r].at = "backlog" /\ run'[r].kind = "base"
  \/ /\ Survey(r) /\ run'[r].at = "remove" /\ run'[r].packs # {}
     /\ run'[r].packs = {p \in Pack : /\ pack[p].state = "stored" /\ pack[p].net = run[r].net
                                      /\ \A k \in Key : ~Member(k, p)}
  \/ RemoveCopy(r) /\ run'[r].at = "remove" /\ run'[r].packs = run[r].packs
  \/ /\ Removed(r) /\ run'[r].at = "remove" /\ run'[r].packs # {}
     /\ run'[r].packs \subseteq run[r].packs
  \/ /\ Pick(r) /\ run'[r].at = "unlink"
     /\ run'[r].keys \subseteq {k \in Piece : Evictable(k)}
  \/ Unlink(r) /\ run'[r].at = "note" /\ run'[r].keys = run[r].keys
  \/ /\ Backlog(r) /\ run'[r].at = "read" /\ SamePlan(r)
     /\ run'[r].keys \subseteq {k \in Key : life[k] = "live" /\ Unbased(k)}
  \/ /\ Extra(r) /\ run'[r].at = "holders" /\ run'[r].kind = "extra" /\ run'[r].net = run[r].net
     /\ \A k \in run'[r].keys : \E p \in Counted(r, k) : pack[p].kind = "base"
  \/ /\ Holders(r) /\ run'[r].at = "read" /\ SamePlan(r)
     /\ run'[r].keys = run[r].keys
     /\ run'[r].avoid = UNION {pack[p].copies : p \in UNION {Stored(k) : k \in run[r].keys}}
  \/ /\ Read(r) /\ run'[r].at = "upload" /\ SamePlan(r)
     /\ run'[r].keys \subseteq run[r].keys /\ run'[r].avoid = run[r].avoid
  \/ /\ Upload(r) /\ run'[r].at = "insert" /\ SamePlan(r)
     /\ run'[r].keys = run[r].keys /\ run'[r].avoid = run[r].avoid
     /\ run'[r].new \in Pack
     /\ pack[run'[r].new].state = "none" /\ held[run'[r].new] = {}
     /\ \E C \in SUBSET (Provider \ run[r].avoid) :
          C # {} /\ held' = [held EXCEPT ![run'[r].new] = C]

LEMMA JobMoves ==
  ASSUME Types, NEW r \in Run, Acts(r)
  PROVE  /\ run' \in [Run -> AnyJob]
         /\ \A s \in Run : s # r => run'[s] = run[s]
         /\ JobNow(r)
<1>1. run[r] \in AnyJob /\ run \in [Run -> AnyJob]
  BY DEF Types
<1>2. Plain \subseteq Step /\ "backlog" \in Step
  BY DEF Plain, Step
<1>3. ASSUME NEW step \in Plain, Goto(r, step)
      PROVE  /\ run' \in [Run -> AnyJob] /\ run'[r].at \in Plain
             /\ \A s \in Run : s # r => run'[s] = run[s]
  BY <1>2, <1>3, JobTo
<1>4. ASSUME Goto(r, "backlog")
      PROVE  /\ run' \in [Run -> AnyJob] /\ run'[r].at = "backlog" /\ run'[r].kind = "base"
             /\ \A s \in Run : s # r => run'[s] = run[s]
  BY <1>2, <1>4, JobTo
<1>5. CASE Begin(r)
  <2>1. [Idle EXCEPT !.at = "lease", !.net = network] \in AnyJob
    BY IdleJob DEF AnyJob, Step, Types
  <2>2. [Idle EXCEPT !.at = "lease", !.net = network].at = "lease"
    BY DEF Idle
  <2>3. QED
    BY <1>5, <2>1, <2>2, JobAfter DEF Begin, Types, JobNow, Plain
<1>6. CASE Busy(r) \/ Release(r) \/ Crash(r)
  BY <1>1, <1>6, IdleJob, JobAfter DEF Busy, Release, Crash, JobNow, Plain
<1>7. CASE Acquire(r) \/ Fail(r) \/ Mark(r) \/ Free(r) \/ NoUpload(r)
  <2>1. PICK step \in Plain : Goto(r, step)
    BY <1>7 DEF Acquire, Fail, Mark, Free, NoUpload, Plain
  <2>2. QED
    BY <1>3, <2>1 DEF JobNow
<1>8. CASE Note(r)
  BY <1>4, <1>8 DEF Note, JobNow
<1>9. CASE Insert(r)
  <2>1. After(run[r].kind) \in Plain
    BY DEF After, Plain
  <2>2. QED
    BY <1>3, <1>9, <2>1 DEF Insert, JobNow
<1>10. CASE Survey(r)
  <2> DEFINE dead == {p \in Pack : /\ pack[p].state = "stored" /\ pack[p].net = run[r].net
                                   /\ \A k \in Key : ~Member(k, p)}
  <2>1. dead \in SUBSET Pack /\ RemoveNext(r, dead)
    BY <1>10 DEF Survey
  <2> HIDE DEF dead
  <2>2. /\ run' \in [Run -> AnyJob]
        /\ \/ run'[r].at = "pick"
           \/ run'[r].at = "remove" /\ run'[r].packs = dead /\ dead # {}
        /\ \A s \in Run : s # r => run'[s] = run[s]
    BY <2>1, JobRemoves
  <2>3. JobNow(r)
    BY <1>10, <2>2 DEF JobNow, Plain, dead
  <2>4. QED
    BY <2>2, <2>3
<1>11. CASE RemoveCopy(r)
  <2>1. PICK c \in run[r].left : run' = [run EXCEPT ![r].left = @ \ {c}]
    BY <1>11 DEF RemoveCopy
  <2> DEFINE job == [run[r] EXCEPT !.left = @ \ {c}]
  <2>2. job \in AnyJob /\ job.at = run[r].at /\ job.packs = run[r].packs
    BY <1>1 DEF AnyJob
  <2>3. Do(r, job)
    BY <2>1 DEF Do
  <2> HIDE DEF job
  <2>4. run[r].at = "remove"
    BY <1>11 DEF RemoveCopy, At
  <2>5. /\ run' \in [Run -> AnyJob] /\ run'[r] = job
        /\ \A s \in Run : s # r => run'[s] = run[s]
    BY <1>1, <2>2, <2>3, JobAfter
  <2>6. JobNow(r)
    BY <1>11, <2>2, <2>4, <2>5 DEF JobNow
  <2>7. QED
    BY <2>5, <2>6
<1>12. CASE Removed(r)
  <2> DEFINE dead == run[r].packs \ {Min(run[r].packs)}
  <2>1. dead \in SUBSET Pack /\ RemoveNext(r, dead) /\ dead \subseteq run[r].packs
    BY <1>1, <1>12 DEF Removed, AnyJob
  <2> HIDE DEF dead
  <2>2. /\ run' \in [Run -> AnyJob]
        /\ \/ run'[r].at = "pick"
           \/ run'[r].at = "remove" /\ run'[r].packs = dead /\ dead # {}
        /\ \A s \in Run : s # r => run'[s] = run[s]
    BY <2>1, JobRemoves
  <2>3. JobNow(r)
    BY <1>12, <2>1, <2>2 DEF JobNow, Plain
  <2>4. QED
    BY <2>2, <2>3
<1>13. CASE Pick(r)
  <2>1. PICK S \in SUBSET {k \in Piece : Evictable(k)} :
          IF S = {} THEN Goto(r, "backlog")
          ELSE Do(r, [run[r] EXCEPT !.keys = S, !.at = "unlink"])
    BY <1>13 DEF Pick
  <2>2. CASE S = {}
    BY <1>4, <2>1, <2>2 DEF JobNow
  <2>3. CASE S # {}
    <3> DEFINE job == [run[r] EXCEPT !.keys = S, !.at = "unlink"]
    <3>1. job \in AnyJob /\ job.at = "unlink" /\ job.keys = S
      BY <1>1 DEF AnyJob, Step, Key
    <3>2. Do(r, job)
      BY <2>1, <2>3
    <3> HIDE DEF job
    <3>3. /\ run' \in [Run -> AnyJob] /\ run'[r] = job
          /\ \A s \in Run : s # r => run'[s] = run[s]
      BY <1>1, <3>1, <3>2, JobAfter
    <3>4. JobNow(r)
      BY <1>13, <3>1, <3>3 DEF JobNow
    <3>5. QED
      BY <3>3, <3>4
  <2>4. QED
    BY <2>2, <2>3
<1>14. CASE Unlink(r)
  <2>1. CASE Goto(r, "release")
    BY <1>3, <2>1 DEF JobNow, Plain
  <2>2. CASE run' = [run EXCEPT ![r].at = "note"]
    <3> DEFINE job == [run[r] EXCEPT !.at = "note"]
    <3>1. job \in AnyJob /\ job.at = "note" /\ job.keys = run[r].keys
      BY <1>1 DEF AnyJob, Step
    <3>2. Do(r, job)
      BY <2>2 DEF Do
    <3> HIDE DEF job
    <3>3. /\ run' \in [Run -> AnyJob] /\ run'[r] = job
          /\ \A s \in Run : s # r => run'[s] = run[s]
      BY <1>1, <3>1, <3>2, JobAfter
    <3>4. JobNow(r)
      BY <1>14, <3>1, <3>3 DEF JobNow
    <3>5. QED
      BY <3>3, <3>4
  <2>3. QED
    BY <1>14, <2>1, <2>2 DEF Unlink
<1>15. CASE Backlog(r)
  <2>1. PICK S \in SUBSET {k \in Key : life[k] = "live" /\ Unbased(k)} :
          IF S = {} THEN Goto(r, "extra")
          ELSE Do(r, [run[r] EXCEPT !.at = "read", !.keys = S, !.need = Copies])
    BY <1>15 DEF Backlog
  <2>2. CASE S = {}
    BY <1>3, <2>1, <2>2 DEF JobNow, Plain
  <2>3. CASE S # {}
    <3> DEFINE job == [run[r] EXCEPT !.at = "read", !.keys = S, !.need = Copies]
    <3>1. /\ job \in AnyJob /\ job.at = "read" /\ job.keys = S
          /\ job.kind = run[r].kind /\ job.net = run[r].net
      BY <1>1 DEF AnyJob, Step
    <3>2. Do(r, job)
      BY <2>1, <2>3
    <3> HIDE DEF job
    <3>3. /\ run' \in [Run -> AnyJob] /\ run'[r] = job
          /\ \A s \in Run : s # r => run'[s] = run[s]
      BY <1>1, <3>1, <3>2, JobAfter
    <3>4. JobNow(r)
      BY <1>15, <3>1, <3>3 DEF JobNow, SamePlan
    <3>5. QED
      BY <3>3, <3>4
  <2>4. QED
    BY <2>2, <2>3
<1>16. CASE Extra(r)
  <2> DEFINE W == {k \in Key : /\ life[k] = "live" /\ safe
                               /\ \E p \in Counted(r, k) : pack[p].kind = "base"
                               /\ CopiesOf(r, k) < Target}
  <2>1. CASE Goto(r, "release")
    BY <1>3, <2>1 DEF JobNow, Plain
  <2>2. CASE ~Goto(r, "release")
    <3>1. PICK S \in SUBSET W, lack \in 1..Target :
            Do(r, [run[r] EXCEPT !.at = "holders", !.keys = S, !.kind = "extra", !.need = lack])
      BY <1>16, <2>2 DEF Extra
    <3> DEFINE job == [run[r] EXCEPT !.at = "holders", !.keys = S, !.kind = "extra", !.need = lack]
    <3>2. lack \in Nat /\ S \in SUBSET Key /\ \A k \in S : \E p \in Counted(r, k) : pack[p].kind = "base"
      OBVIOUS
    <3> HIDE DEF W
    <3>3. /\ job \in AnyJob /\ job.at = "holders" /\ job.keys = S
          /\ job.kind = "extra" /\ job.net = run[r].net
      BY <1>1, <3>2 DEF AnyJob, Step
    <3>4. Do(r, job)
      BY <3>1
    <3> HIDE DEF job
    <3>5. /\ run' \in [Run -> AnyJob] /\ run'[r] = job
          /\ \A s \in Run : s # r => run'[s] = run[s]
      BY <1>1, <3>3, <3>4, JobAfter
    <3>6. JobNow(r)
      BY <1>16, <3>2, <3>3, <3>5 DEF JobNow
    <3>7. QED
      BY <3>5, <3>6
  <2>3. QED
    BY <2>1, <2>2
<1>17. CASE Holders(r)
  <2> DEFINE far == UNION {pack[p].copies : p \in UNION {Stored(k) : k \in run[r].keys}}
             job == [run[r] EXCEPT !.at = "read", !.avoid = far]
  <2>1. far \subseteq Provider
    BY DEF Types, PackRow, Stored
  <2>2. Do(r, job)
    BY <1>1, <1>17 DEF Holders, Do
  <2> HIDE DEF far
  <2>3. /\ job \in AnyJob /\ job.at = "read" /\ job.keys = run[r].keys /\ job.avoid = far
        /\ job.kind = run[r].kind /\ job.net = run[r].net
    BY <1>1, <2>1 DEF AnyJob, Step
  <2> HIDE DEF job
  <2>4. /\ run' \in [Run -> AnyJob] /\ run'[r] = job
        /\ \A s \in Run : s # r => run'[s] = run[s]
    BY <1>1, <2>2, <2>3, JobAfter
  <2>5. JobNow(r)
    BY <1>17, <2>3, <2>4 DEF JobNow, SamePlan, far
  <2>6. QED
    BY <2>4, <2>5
<1>18. CASE Read(r)
  <2> DEFINE found == {k \in run[r].keys : Readable(k)}
             job   == [run[r] EXCEPT !.at = "upload", !.keys = found]
  <2>1. CASE found = {}
    <3>1. After(run[r].kind) \in Plain
      BY DEF After, Plain
    <3>2. QED
      BY <1>3, <1>18, <2>1, <3>1 DEF Read, JobNow
  <2>2. CASE found # {}
    <3>1. Do(r, job)
      BY <1>1, <1>18, <2>2 DEF Read, Do
    <3>2. found \subseteq run[r].keys
      OBVIOUS
    <3> HIDE DEF found
    <3>3. /\ job \in AnyJob /\ job.at = "upload" /\ job.keys = found
          /\ job.avoid = run[r].avoid /\ job.kind = run[r].kind /\ job.net = run[r].net
      BY <1>1, <3>2 DEF AnyJob, Step
    <3> HIDE DEF job
    <3>4. /\ run' \in [Run -> AnyJob] /\ run'[r] = job
          /\ \A s \in Run : s # r => run'[s] = run[s]
      BY <1>1, <3>1, <3>3, JobAfter
    <3>5. JobNow(r)
      BY <1>18, <3>2, <3>3, <3>4 DEF JobNow, SamePlan
    <3>6. QED
      BY <3>4, <3>5
  <2>3. QED
    BY <2>1, <2>2
<1>19. CASE Upload(r)
  <2> DEFINE unused == {p \in Pack : pack[p].state = "none" /\ held[p] = {}}
  <2>1. PICK C \in SUBSET (Provider \ run[r].avoid) :
          /\ C # {}
          /\ held' = [held EXCEPT ![Min(unused)] = C]
          /\ run' = [run EXCEPT ![r].at = "insert", ![r].new = Min(unused)]
    BY <1>19 DEF Upload
  <2>2. unused # {} /\ unused \in SUBSET Pack
    BY <1>19 DEF Upload
  <2>3. PICK p \in unused : p = Min(unused)
    BY <2>2, LeastPack
  <2>4. p \in Pack /\ p \in 0..MaxPacks /\ pack[p].state = "none" /\ held[p] = {}
    BY <2>3 DEF Pack
  <2> DEFINE job == [run[r] EXCEPT !.at = "insert", !.new = p]
  <2>5. Do(r, job) /\ held' = [held EXCEPT ![p] = C]
    BY <1>1, <2>1, <2>3 DEF Do
  <2> HIDE DEF unused
  <2>6. job \in AnyJob
    BY <1>1, <2>4 DEF AnyJob, Step
  <2>7. /\ job.at = "insert" /\ job.new = p /\ job.keys = run[r].keys
        /\ job.avoid = run[r].avoid /\ job.kind = run[r].kind /\ job.net = run[r].net
    BY <1>1 DEF AnyJob
  <2> HIDE DEF job
  <2>8. /\ run' \in [Run -> AnyJob] /\ run'[r] = job
        /\ \A s \in Run : s # r => run'[s] = run[s]
    BY <1>1, <2>5, <2>6, JobAfter
  <2>9. JobNow(r)
    BY <1>19, <2>1, <2>4, <2>5, <2>7, <2>8 DEF JobNow, SamePlan
  <2>10. QED
    BY <2>8, <2>9
<1>20. QED
  BY <1>5, <1>6, <1>7, <1>8, <1>9, <1>10, <1>11, <1>12, <1>13, <1>14, <1>15, <1>16, <1>17,
     <1>18, <1>19 DEF Acts, Sync

-----------------------------------------------------------------------------
(* What each step does to the tables                                          *)

\* The rows of a new pack, by the transaction at the end of uploadPack.
Gains(r) ==
  LET p == run[r].new IN
  /\ pack' = [pack EXCEPT ![p] = [state |-> "stored", kind |-> run[r].kind,
                                  net |-> run[r].net, copies |-> held[p]]]
  /\ \A k \in Key : \A q \in Pack :
       member'[k][q] = IF q = p /\ k \in run[r].keys
                       THEN IF \E o \in Pack : member[k][o] = "evicted" THEN "evicted" ELSE "kept"
                       ELSE member[k][q]
  /\ held' = held

\* Memberships end: of keys that are deleted, or in extra packs.
Ends ==
  /\ \A k \in Key, p \in Pack :
       \/ member'[k][p] = member[k][p]
       \/ /\ Member(k, p) /\ member'[k][p] = "ended"
          /\ life[k] = "dead" \/ pack[p].kind = "extra"
  /\ UNCHANGED <<pack, held>>

\* The copies of a pack that run r has found dead go, and then its row.
Drops(r) ==
  /\ At(r, "remove")
  /\ \/ \E p \in Pack : /\ p = Min(run[r].packs) /\ pack' = pack
                       /\ \E c : held' = [held EXCEPT ![p] = @ \ {c}]
     \/ \E p \in Pack : p = Min(run[r].packs) /\ pack' = [pack EXCEPT ![p].state = "removed"] /\ held' = held
     \/ UNCHANGED <<pack, held>>
  /\ member' = member

\* evicted_at is set.
MarksKeys(r) ==
  /\ \A k \in Key, p \in Pack :
       member'[k][p] = IF k \in run[r].keys /\ member[k][p] = "kept" THEN "evicted" ELSE member[k][p]
  /\ UNCHANGED <<pack, held>>

\* What a run does to the tables.
TablesNow(r) ==
  \/ UNCHANGED tables
  \/ (Mark(r) \/ Free(r)) /\ Ends
  \/ (RemoveCopy(r) \/ Removed(r)) /\ Drops(r)
  \/ Note(r) /\ MarksKeys(r)
  \/ /\ Upload(r) /\ run'[r].new \in Pack /\ run'[r].at = "insert"
     /\ pack[run'[r].new].state = "none" /\ held[run'[r].new] = {}
     /\ \E C \in SUBSET (Provider \ run[r].avoid) :
          C # {} /\ held' = [held EXCEPT ![run'[r].new] = C]
     /\ UNCHANGED <<pack, member>>
  \/ Insert(r) /\ Gains(r)

TableTypes ==
  /\ pack \in [Pack -> PackRow]
  /\ held \in [Pack -> SUBSET Provider]
  /\ member \in [Key -> [Pack -> Marks]]

LEMMA EndEnds ==
  ASSUME Types, NEW P, End(P), UNCHANGED <<pack, held>>,
         \A k \in Key, p \in Pack : <<k, p>> \in P => life[k] = "dead" \/ pack[p].kind = "extra"
  PROVE  Ends /\ member' \in [Key -> [Pack -> Marks]]
BY DEF Types, End, Ends, Member, Marks

LEMMA AddGains ==
  ASSUME Types, NEW r \in Run, Insert(r)
  PROVE  Gains(r) /\ TableTypes'
<1> DEFINE p == run[r].new
           mark(k) == IF \E q \in Pack : member[k][q] = "evicted" THEN "evicted" ELSE "kept"
<1>1. /\ pack' = [pack EXCEPT ![p] = [state |-> "stored", kind |-> run[r].kind,
                                      net |-> run[r].net, copies |-> held[p]]]
      /\ member' = [k \in Key |-> IF k \in run[r].keys THEN [member[k] EXCEPT ![p] = mark(k)]
                                  ELSE member[k]]
      /\ held' = held
  BY DEF Insert, Add
<1>2. \A k \in Key : mark(k) \in Marks /\ member[k] \in [Pack -> Marks]
  BY DEF Marks, Types
<1>3. /\ member' \in [Key -> [Pack -> Marks]]
      /\ \A k \in Key : \A q \in Pack :
           member'[k][q] = IF q = p /\ k \in run[r].keys THEN mark(k) ELSE member[k][q]
  <2> HIDE DEF mark, p
  <2>1. ASSUME NEW k \in Key
        PROVE  /\ member'[k] \in [Pack -> Marks]
               /\ \A q \in Pack :
                    member'[k][q] = IF q = p /\ k \in run[r].keys THEN mark(k) ELSE member[k][q]
    BY <1>1, <1>2
  <2>2. DOMAIN member' = Key /\ member' = [k \in Key |-> member'[k]]
    BY <1>1
  <2>3. QED
    BY <2>1, <2>2
<1>4. pack' \in [Pack -> PackRow]
  <2>1. CASE p \in Pack
    <3>1. run[r].kind \in {"base", "extra"} /\ run[r].net \in Network \cup {None}
          /\ held[p] \in SUBSET Provider
      BY <2>1 DEF Types, AnyJob
    <3> DEFINE row == [state |-> "stored", kind |-> run[r].kind, net |-> run[r].net, copies |-> held[p]]
    <3>2. row \in PackRow
      BY <3>1 DEF PackRow
    <3> HIDE DEF row
    <3>3. QED
      BY <1>1, <3>2 DEF Types, row
  <2>2. CASE p \notin Pack
    <3>1. pack' = pack
      BY <1>1, <2>2 DEF Types
    <3>2. QED
      BY <3>1 DEF Types
  <2>3. QED
    BY <2>1, <2>2
<1>5. QED
  BY <1>1, <1>3, <1>4 DEF Gains, TableTypes, Types

\* A run that is about to insert has uploaded to providers that are not to be avoided.
LEMMA UploadPlans ==
  ASSUME NEW r \in Run, JobNow(r), run'[r].at = "insert"
  PROVE  /\ Upload(r) /\ run'[r].new \in Pack /\ SamePlan(r)
         /\ run'[r].keys = run[r].keys /\ run'[r].avoid = run[r].avoid
         /\ pack[run'[r].new].state = "none" /\ held[run'[r].new] = {}
         /\ \E C \in SUBSET (Provider \ run[r].avoid) :
              C # {} /\ held' = [held EXCEPT ![run'[r].new] = C]
<1>1. run'[r].at \notin Plain \cup {"backlog", "remove", "unlink", "note", "read", "holders", "upload"}
  BY DEF Plain
<1>2. QED
  BY <1>1 DEF JobNow

LEMMA TablesMove ==
  ASSUME Types, NEW r \in Run, Acts(r), JobNow(r)
  PROVE  TablesNow(r) /\ TableTypes'
<1>1. run[r] \in AnyJob
  BY DEF Types
<1>2. CASE UNCHANGED tables
  BY <1>2 DEF TablesNow, TableTypes, Types, tables
<1>3. CASE Mark(r)
  BY <1>3, EndEnds DEF Mark, TablesNow, TableTypes, Types
<1>4. CASE Free(r)
  BY <1>4, EndEnds DEF Free, TablesNow, TableTypes, Types
<1>5. CASE RemoveCopy(r)
  <2>1. PICK c : held' = [held EXCEPT ![Min(run[r].packs)] = @ \ {c}]
    BY <1>5 DEF RemoveCopy
  <2>2. held' \in [Pack -> SUBSET Provider] /\ (Min(run[r].packs) \notin Pack => held' = held)
    BY <2>1 DEF Types
  <2>3. UNCHANGED <<pack, member>> /\ At(r, "remove")
    BY <1>5 DEF RemoveCopy
  <2>4. Drops(r)
    BY <2>1, <2>2, <2>3 DEF Drops
  <2>5. QED
    BY <1>5, <2>2, <2>3, <2>4 DEF TablesNow, TableTypes, Types
<1>6. CASE Removed(r)
  <2>1. pack' = [pack EXCEPT ![Min(run[r].packs)].state = "removed"]
        /\ UNCHANGED <<held, member>> /\ At(r, "remove")
    BY <1>6 DEF Removed
  <2>2. pack' \in [Pack -> PackRow] /\ (Min(run[r].packs) \notin Pack => pack' = pack)
    <3> DEFINE m == Min(run[r].packs)
    <3>1. pack \in [Pack -> PackRow] /\ pack' = [pack EXCEPT ![m].state = "removed"]
      BY <2>1 DEF Types
    <3> HIDE DEF m
    <3>2. CASE m \in Pack
      <4>1. [pack[m] EXCEPT !.state = "removed"] \in PackRow
        BY <3>1, <3>2 DEF PackRow
      <4>2. pack' = [pack EXCEPT ![m] = [pack[m] EXCEPT !.state = "removed"]]
        BY <3>1
      <4>3. QED
        BY <3>1, <3>2, <4>1, <4>2 DEF m
    <3>3. CASE m \notin Pack
      <4>1. pack' = pack
        BY <3>1, <3>3
      <4>2. QED
        BY <3>1, <4>1
    <3>4. QED
      BY <3>2, <3>3
  <2>3. Drops(r)
    BY <2>1, <2>2 DEF Drops
  <2>4. QED
    BY <1>6, <2>1, <2>2, <2>3 DEF TablesNow, TableTypes, Types
<1>7. CASE Note(r)
  BY <1>7 DEF Note, MarksKeys, TablesNow, TableTypes, Types, Marks
<1>8. CASE Upload(r)
  <2>1. UNCHANGED <<pack, member>>
    BY <1>8 DEF Upload
  <2>2. At(r, "upload") /\ run'[r].at = "insert"
    <3>1. PICK p : run' = [run EXCEPT ![r].at = "insert", ![r].new = p]
      BY <1>8 DEF Upload
    <3>2. run'[r] = [run[r] EXCEPT !.at = "insert", !.new = p]
      BY <3>1 DEF Types
    <3>3. run'[r].at = "insert"
      BY <1>1, <3>2 DEF AnyJob
    <3>4. QED
      BY <1>8, <3>3 DEF Upload
  <2>3. /\ run'[r].new \in Pack
        /\ pack[run'[r].new].state = "none" /\ held[run'[r].new] = {}
        /\ \E C \in SUBSET (Provider \ run[r].avoid) :
             C # {} /\ held' = [held EXCEPT ![run'[r].new] = C]
    BY <2>2, UploadPlans
  <2>4. held' \in [Pack -> SUBSET Provider]
    BY <2>3 DEF Types
  <2>5. QED
    BY <1>8, <2>1, <2>2, <2>3, <2>4 DEF TablesNow, TableTypes, Types
<1>9. CASE Insert(r)
  BY <1>9, AddGains DEF TablesNow
<1>10. QED
  BY <1>2, <1>3, <1>4, <1>5, <1>6, <1>7, <1>8, <1>9
  DEF Acts, Sync, Begin, Acquire, Busy, Release, Fail, Crash, Survey, Pick, Unlink, Backlog,
      Extra, Holders, Read, NoUpload, tables

\* The steps of the world and of setFocSettings leave the runs alone.
LEMMA WhoActs ==
  ASSUME [Next]_vars
  PROVE  \/ \E r \in Run : Acts(r)
         \/ run' = run /\ (AdminMove \/ UNCHANGED tables)
<1>1. ASSUME NEW k \in Key, Supersede(k) \/ Discard(k) PROVE run' = run /\ UNCHANGED tables
  BY <1>1 DEF Supersede, Discard
<1>2. CASE Book \/ Expire \/ AdminWrite \/ \E n \in Network : AdminCheck(n)
  BY <1>2 DEF Book, Expire, AdminWrite, AdminCheck
<1>3. CASE AdminMove
  BY <1>3 DEF AdminMove
<1>4. QED
  BY <1>1, <1>2, <1>3 DEF Next, Acts, vars, tables

LEMMA MoveTypes == ASSUME Types, AdminMove PROVE TableTypes'
<1> DEFINE other == {p \in Pack : pack[p].state # "none" /\ pack[p].net # admin.net}
<1>1. /\ member' = [k \in Key |-> [p \in Pack |-> IF p \in other THEN "none" ELSE member[k][p]]]
      /\ pack' = [p \in Pack |-> IF p \in other THEN [pack[p] EXCEPT !.state = "removed"] ELSE pack[p]]
      /\ held' = held
  BY DEF AdminMove
<1> HIDE DEF other
<1>2. ASSUME NEW p \in Pack
      PROVE  pack[p] \in PackRow /\ [pack[p] EXCEPT !.state = "removed"] \in PackRow
  <2>1. pack[p] \in PackRow
    BY DEF Types
  <2>2. QED
    BY <2>1 DEF PackRow
<1>3. pack' \in [Pack -> PackRow]
  BY <1>1, <1>2
<1>4. member' \in [Key -> [Pack -> Marks]]
  BY <1>1 DEF Types, Marks
<1>5. QED
  BY <1>1, <1>3, <1>4 DEF TableTypes, Types

LEMMA TypesInit == Init => Types
<1> SUFFICES ASSUME Init PROVE Types
  OBVIOUS
<1>1. NoPack \in PackRow
  BY DEF NoPack, PackRow
<1>2. pack \in [Pack -> PackRow] /\ run \in [Run -> AnyJob]
  BY <1>1, IdleJob DEF Init
<1>3. /\ life \in [Key -> Life] /\ member \in [Key -> [Pack -> Marks]]
      /\ held \in [Pack -> SUBSET Provider]
  BY DEF Init, Life, Marks
<1>4. /\ admin \in [at : {"idle", "move", "write"}, net : Network \cup {None}]
      /\ admin.at = "idle"
  BY DEF Init
<1>5. QED
  BY <1>2, <1>3, <1>4 DEF Init, Types

LEMMA TypesStep == ASSUME Types, [Next]_vars PROVE Types'
<1>1. TableTypes' /\ run' \in [Run -> AnyJob]
  <2>1. ASSUME NEW r \in Run, Acts(r) PROVE TableTypes' /\ run' \in [Run -> AnyJob]
    BY <2>1, JobMoves, TablesMove
  <2>2. CASE run' = run /\ AdminMove
    BY <2>2, MoveTypes DEF Types
  <2>3. CASE run' = run /\ UNCHANGED tables
    BY <2>3 DEF Types, TableTypes, tables
  <2>4. QED
    BY <2>1, <2>2, <2>3, WhoActs
<1>2. /\ life' \in [Key -> Life] /\ network' \in Network /\ lease' \in BOOLEAN
      /\ admin' \in [at : {"idle", "move", "write"}, net : Network \cup {None}]
      /\ (admin.at # "idle" => admin.net \in Network)'
      /\ faults' \in Nat /\ outlived' \in BOOLEAN
  <2> USE DEF Types
  <2>1. ASSUME NEW r \in Run, Sync(r) PROVE
          /\ UNCHANGED <<life, network, admin, outlived>> /\ lease' \in BOOLEAN
          /\ faults' \in Nat
    <3>1. CASE Unlink(r)
      BY <3>1 DEF Unlink, Fault
    <3>2. CASE ~Unlink(r)
      <4>1. UNCHANGED <<life, network, admin, faults, outlived>>
        BY <2>1, <3>2 DEF Sync, Begin, Acquire, Busy, Release, Mark, Free, Survey, RemoveCopy,
           Removed, Pick, Note, Backlog, Extra, Holders, Read, Upload, NoUpload, Insert, world, rest
      <4>2. lease' = lease \/ lease' = TRUE \/ lease' = FALSE
        BY <2>1, <3>2 DEF Sync, Begin, Acquire, Busy, Release, Mark, Free, Survey, RemoveCopy,
           Removed, Pick, Note, Backlog, Extra, Holders, Read, Upload, NoUpload, Insert
      <4>3. QED
        BY <4>1, <4>2
    <3>3. QED
      BY <3>1, <3>2
  <2>2. ASSUME NEW r \in Run, Fail(r) \/ Crash(r) PROVE
          /\ UNCHANGED <<life, network, admin, outlived, lease>> /\ faults' \in Nat
    BY <2>2 DEF Fail, Crash, Fault, world
  <2>3. ASSUME NEW k \in Key, Supersede(k) \/ Discard(k) PROVE
          life' \in [Key -> Life] /\ UNCHANGED <<network, lease, admin, faults, outlived>>
    BY <2>3 DEF Supersede, Discard, Life, rest
  <2>4. CASE Book
    BY <2>4 DEF Book, rest
  <2>10. CASE Expire
    <3>1. UNCHANGED <<life, network, admin>> /\ lease' = FALSE
      BY <2>10 DEF Expire, world
    <3>2. faults' \in Nat /\ outlived' \in BOOLEAN
      <4>1. \/ faults' = faults + 1 /\ outlived' = TRUE
            \/ faults' = faults /\ outlived' = outlived
        BY <2>10 DEF Expire, Fault
      <4>2. faults \in Nat /\ outlived \in BOOLEAN
        OBVIOUS
      <4>3. faults' \in Nat
        BY ONLY <4>1, <4>2
      <4>4. outlived' \in BOOLEAN
        BY ONLY <4>1, <4>2, Zenon
      <4>5. QED
        BY <4>3, <4>4
    <3>3. QED
      BY <3>1, <3>2
  <2>5. ASSUME NEW n \in Network, AdminCheck(n)
        PROVE  /\ admin' \in [at : {"idle", "move", "write"}, net : Network \cup {None}]
               /\ (admin.at # "idle" => admin.net \in Network)'
               /\ UNCHANGED <<life, network, lease, faults, outlived>>
    BY <2>5 DEF AdminCheck, world
  <2>6. CASE AdminMove
    <3>1. /\ admin' = [admin EXCEPT !.at = "write"] /\ admin.at = "move"
          /\ UNCHANGED <<life, network, lease, faults, outlived>>
      BY <2>6 DEF AdminMove, world
    <3>2. /\ admin' \in [at : {"idle", "move", "write"}, net : Network \cup {None}]
          /\ admin'.net = admin.net /\ admin.net \in Network
      BY <3>1
    <3>3. QED
      BY <3>1, <3>2
  <2>7. CASE AdminWrite
    <3>1. /\ network' = admin.net /\ admin' = [at |-> "idle", net |-> None]
          /\ UNCHANGED <<life, lease, faults, outlived>> /\ admin.net \in Network
      BY <2>7 DEF AdminWrite, world
    <3>2. QED
      BY <3>1
  <2>8. CASE UNCHANGED vars
    BY <2>8 DEF vars
  <2>9. QED
    BY <2>1, <2>2, <2>3, <2>4, <2>10, <2>5, <2>6, <2>7, <2>8 DEF Next
<1>3. QED
  BY <1>1, <1>2 DEF Types, TableTypes

\* The types and bounds of the model.
THEOREM BackupTypes == Spec => []Types
<1>1. Init => Types
  BY TypesInit
<1>2. Types /\ [Next]_vars => Types'
  BY TypesStep
<1>3. QED
  BY <1>1, <1>2, PTL DEF Spec

-----------------------------------------------------------------------------
(* The marks of a key                                                         *)

LEMMA MarksStep == ASSUME Types, MarksAgree, [Next]_vars PROVE MarksAgree'
<1> SUFFICES ASSUME NEW k \in Key, NEW p \in Pack, NEW q \in Pack, Member(k, p)', Member(k, q)'
             PROVE  member'[k][p] = member'[k][q]
  BY DEF MarksAgree
<1>1. \A o \in Pack, u \in Pack : Member(k, o) /\ Member(k, u) => member[k][o] = member[k][u]
  BY DEF MarksAgree
<1>2. CASE UNCHANGED tables
  BY <1>1, <1>2 DEF tables, Member
<1>3. CASE AdminMove
  <2>1. \A o \in Pack : member'[k][o] = "none" \/ member'[k][o] = member[k][o]
    BY <1>3 DEF AdminMove
  <2>2. QED
    BY <1>1, <2>1 DEF Member
<1>4. ASSUME NEW r \in Run, Acts(r) PROVE member'[k][p] = member'[k][q]
  <2>1. TablesNow(r)
    BY <1>4, JobMoves, TablesMove
  <2>2. CASE Ends
    <3>1. \A o \in Pack : member'[k][o] = member[k][o] \/ member'[k][o] = "ended"
      BY <2>2 DEF Ends
    <3>2. QED
      BY <1>1, <3>1 DEF Member
  <2>3. CASE MarksKeys(r)
    <3>1. \A o \in Pack : member'[k][o] = IF k \in run[r].keys /\ member[k][o] = "kept"
                                          THEN "evicted" ELSE member[k][o]
      BY <2>3 DEF MarksKeys
    <3>2. QED
      BY <1>1, <3>1 DEF Member
  <2>4. CASE Gains(r)
    <3>1. \A o \in Pack : member'[k][o] =
            IF o = run[r].new /\ k \in run[r].keys
            THEN IF \E u \in Pack : member[k][u] = "evicted" THEN "evicted" ELSE "kept"
            ELSE member[k][o]
      BY <2>4 DEF Gains
    <3>2. QED
      BY <1>1, <3>1 DEF Member
  <2>5. CASE UNCHANGED member
    BY <1>1, <2>5 DEF Member
  <2>6. QED
    BY <2>1, <2>2, <2>3, <2>4, <2>5 DEF TablesNow, Drops, tables
<1>5. QED
  BY <1>2, <1>3, <1>4, WhoActs

\* "gilt das für jede Mitgliedschaft des Keys" (server/foc/sync.ts:333): whatever
\* happens to leases and networks, the memberships of a key agree on its fast copy.
THEOREM AllMembershipsAgree == Spec => []MarksAgree
<1>1. Init => MarksAgree
  BY DEF Init, MarksAgree, Member
<1>2. Types /\ MarksAgree /\ [Next]_vars => MarksAgree'
  BY MarksStep
<1>3. QED
  BY <1>1, <1>2, BackupTypes, PTL DEF Spec

-----------------------------------------------------------------------------
(* The inductive invariant of the backup                                      *)

IsBase(p) == pack[p].kind = "base"

\* Key k is in the base pack p, and p has all the copies of the settings.
Backs(k, p) == Member(k, p) /\ IsBase(p) /\ Cardinality(pack[p].copies) >= Copies

\* What has members is stored, at all the providers of its row.
RowsFit ==
  \A p \in Pack, k \in Key :
    /\ pack[p].state = "none" => member[k][p] = "none"
    /\ Member(k, p) => pack[p].state = "stored" /\ held[p] = pack[p].copies

\* What a run has found is still so: its new pack is uploaded and has no row, the packs
\* it removes have no members, the keys it evicts are backed up.
JobFits(r) ==
  /\ At(r, "insert") => /\ run[r].new \in Pack
                        /\ pack[run[r].new].state = "none" /\ held[run[r].new] # {}
  /\ At(r, "remove") => /\ run[r].packs # {}
                        /\ \A p \in run[r].packs : /\ pack[p].state # "none"
                                                   /\ \A k \in Key : ~Member(k, p)
  /\ run[r].at \in {"unlink", "note"} =>
       \A k \in run[r].keys : life[k] = "dead" \/ \E p \in Pack : Backs(k, p)

NewApart ==
  \A r, s \in Run : r # s /\ At(r, "insert") /\ At(s, "insert") => run[r].new # run[s].new

\* The fast copy of key k may be gone: it says so, or will, or a run has been cut short.
Noted(k) ==
  \/ \E p \in Pack : member[k][p] = "evicted" /\ Backs(k, p)
  \/ /\ faults > 0 \/ \E r \in Run : At(r, "note") /\ k \in run[r].keys
     /\ \E p \in Pack : Backs(k, p)

LostAreNoted == \A k \in Key : life[k] # "dead" /\ k \notin fast => Noted(k)

\* While setFocSettings changes the network nobody is at work.
AdminAlone ==
  /\ admin.at # "idle" => \A r \in Run : At(r, "idle")
  /\ admin.at = "move" => /\ faults = 0
                          /\ \A k \in Key, p \in Pack : member[k][p] = "evicted" => pack[p].net = admin.net

Fits == RowsFit /\ (\A r \in Run : JobFits(r)) /\ NewApart

-----------------------------------------------------------------------------
(* What a step of a run leaves alone                                          *)

\* Rows and memberships never come apart again, but for keys that are deleted.
Stays ==
  /\ \A p \in Pack : pack[p].state # "none" =>
       /\ pack'[p].state # "none" /\ pack'[p].kind = pack[p].kind
       /\ pack'[p].net = pack[p].net /\ pack'[p].copies = pack[p].copies
  /\ \A k \in Key, p \in Pack :
       /\ Member(k, p)' => Member(k, p) \/ pack[p].state = "none"
       /\ Member(k, p) /\ IsBase(p) => Member(k, p)' \/ life[k] = "dead"
       /\ member[k][p] = "evicted" /\ IsBase(p) => member'[k][p] = "evicted" \/ life[k] = "dead"
       /\ member[k][p] # "none" => member'[k][p] # "none"

LEMMA RunsKeep == ASSUME Types, Fits, NEW r \in Run, Acts(r) PROVE Stays
<1>1. TablesNow(r)
  BY JobMoves, TablesMove
<1>2. /\ pack \in [Pack -> PackRow] /\ member \in [Key -> [Pack -> Marks]]
      /\ run[r] \in AnyJob
  BY DEF Types
<1>3. CASE UNCHANGED <<pack, member>>
  BY <1>3 DEF Stays, Member
<1>4. CASE Ends
  BY <1>4 DEF Ends, Stays, Member, IsBase
<1>5. CASE Drops(r)
  <2>1. \/ pack' = pack
        \/ \E p \in Pack : pack' = [pack EXCEPT ![p].state = "removed"]
    BY <1>5 DEF Drops
  <2>2. \A p \in Pack : pack[p].state # "none" =>
          /\ pack'[p].state # "none" /\ pack'[p].kind = pack[p].kind
          /\ pack'[p].net = pack[p].net /\ pack'[p].copies = pack[p].copies
    <3>1. ASSUME NEW p \in Pack
          PROVE  pack'[p] = pack[p] \/ pack'[p] = [pack[p] EXCEPT !.state = "removed"]
      BY <1>2, <2>1
    <3>2. ASSUME NEW p \in Pack, NEW row, row = [pack[p] EXCEPT !.state = "removed"]
          PROVE  /\ row.state = "removed" /\ row.kind = pack[p].kind
                 /\ row.net = pack[p].net /\ row.copies = pack[p].copies
      <4>1. pack[p] \in PackRow
        BY <1>2
      <4>2. QED
        BY <3>2, <4>1 DEF PackRow
    <3>3. QED
      BY <3>1, <3>2
  <2>3. member' = member
    BY <1>5 DEF Drops
  <2>4. QED
    BY <2>2, <2>3 DEF Stays, Member
<1>6. CASE MarksKeys(r)
  <2>1. pack' = pack
    BY <1>6 DEF MarksKeys
  <2>2. \A k \in Key, p \in Pack :
          \/ member'[k][p] = member[k][p]
          \/ member[k][p] = "kept" /\ member'[k][p] = "evicted"
    BY <1>6 DEF MarksKeys
  <2>3. QED
    BY <2>1, <2>2 DEF Stays, Member
<1>7. CASE Insert(r) /\ Gains(r)
  <2> DEFINE n == run[r].new
  <2>1. n \in Pack /\ pack[n].state = "none"
    BY <1>7 DEF Fits, JobFits, Insert
  <2>2. /\ pack'[n].state = "stored" /\ \A p \in Pack : p # n => pack'[p] = pack[p]
        /\ \A k \in Key, p \in Pack : p # n => member'[k][p] = member[k][p]
    BY <1>2, <1>7, <2>1 DEF Gains
  <2>3. \A k \in Key : member[k][n] = "none"
    BY <2>1 DEF Fits, RowsFit
  <2> HIDE DEF n
  <2>4. QED
    BY <2>1, <2>2, <2>3 DEF Stays, Member
<1>8. QED
  BY <1>1, <1>3, <1>4, <1>5, <1>6, <1>7 DEF TablesNow, tables

\* A pack that is uploaded and has no row stays so until its run inserts it.
LEMMA NewKept ==
  ASSUME Types, Fits, NEW r \in Run, Acts(r),
         NEW p \in Pack, pack[p].state = "none", held[p] # {},
         ~(At(r, "insert") /\ run[r].new = p)
  PROVE  pack'[p].state = "none" /\ held'[p] # {}
<1>1. TablesNow(r)
  BY JobMoves, TablesMove
<1>2. /\ pack \in [Pack -> PackRow] /\ held \in [Pack -> SUBSET Provider]
      /\ run[r] \in AnyJob
  BY DEF Types
<1>3. CASE UNCHANGED <<pack, held>>
  BY <1>3
<1>4. CASE Drops(r)
  <2>1. At(r, "remove") /\ run[r].packs # {} /\ run[r].packs \subseteq Pack
        /\ \A q \in run[r].packs : pack[q].state # "none"
    BY <1>2, <1>4 DEF Drops, Fits, JobFits, AnyJob
  <2>2. p # Min(run[r].packs)
    BY <2>1, LeastPack
  <2>3. QED
    BY <1>2, <1>4, <2>2 DEF Drops
<1>5. CASE Upload(r) /\ ~UNCHANGED <<pack, held>>
  <2>1. PICK n \in Pack : held[n] = {} /\ \E C : held' = [held EXCEPT ![n] = C]
    BY <1>1, <1>5 DEF TablesNow, tables, Mark, Free, RemoveCopy, Removed, Note, Insert, Upload, At
  <2>2. pack' = pack
    BY <1>5 DEF Upload
  <2>3. QED
    BY <1>2, <2>1, <2>2
<1>6. CASE Insert(r) /\ Gains(r)
  BY <1>2, <1>6 DEF Insert, Gains
<1>7. QED
  BY <1>1, <1>3, <1>4, <1>5, <1>6 DEF TablesNow, tables, Ends, MarksKeys

\* What is deleted stays deleted.
LEMMA DeadForGood ==
  ASSUME Types, [Next]_vars, NEW k \in Key, life[k] = "dead"
  PROVE  life'[k] = "dead"
<1>1. CASE life' = life
  BY <1>1
<1>2. ASSUME NEW j \in Key, Supersede(j) \/ Discard(j) PROVE life'[k] = "dead"
  BY <1>2 DEF Supersede, Discard, Types
<1>3. ASSUME NEW r \in Run, Acts(r) PROVE life' = life
  BY <1>3 DEF Acts, Sync, Fail, Crash, Begin, Acquire, Busy, Release, Mark, Free, Survey, RemoveCopy,
     Removed, Pick, Unlink, Note, Backlog, Extra, Holders, Read, Upload, NoUpload, Insert, world
<1>4. CASE Book \/ Expire \/ AdminMove \/ AdminWrite \/ \E n \in Network : AdminCheck(n)
  BY <1>4 DEF Book, Expire, AdminMove, AdminWrite, AdminCheck, world
<1>5. QED
  BY <1>1, <1>2, <1>3, <1>4 DEF Next, Acts, vars

-----------------------------------------------------------------------------
(* A step of a run preserves the invariant                                    *)

LEMMA RowsStep == ASSUME Types, Fits, NEW r \in Run, Acts(r) PROVE RowsFit'
<1>1. TablesNow(r)
  BY JobMoves, TablesMove
<1>2. /\ pack \in [Pack -> PackRow] /\ held \in [Pack -> SUBSET Provider]
      /\ member \in [Key -> [Pack -> Marks]] /\ run[r] \in AnyJob
  BY DEF Types
<1>3. \A p \in Pack, k \in Key :
        /\ pack[p].state = "none" => member[k][p] = "none"
        /\ Member(k, p) => pack[p].state = "stored" /\ held[p] = pack[p].copies
  BY DEF Fits, RowsFit
<1> SUFFICES ASSUME NEW p \in Pack, NEW k \in Key
             PROVE  /\ pack'[p].state = "none" => member'[k][p] = "none"
                    /\ Member(k, p)' => pack'[p].state = "stored" /\ held'[p] = pack'[p].copies
  BY DEF RowsFit
<1>4. CASE UNCHANGED <<pack, held>> /\ \/ member' = member
                                       \/ Ends
                                       \/ MarksKeys(r)
  <2>1. \/ member'[k][p] = member[k][p]
        \/ Member(k, p) /\ member'[k][p] \in {"ended", "evicted"}
    BY <1>4 DEF Ends, MarksKeys, Member
  <2>2. QED
    BY <1>3, <1>4, <2>1 DEF Member
<1>5. CASE Drops(r)
  <2> DEFINE m == Min(run[r].packs)
  <2>1. /\ At(r, "remove") /\ run[r].packs # {} /\ run[r].packs \subseteq Pack
        /\ \A q \in run[r].packs : pack[q].state # "none" /\ \A j \in Key : ~Member(j, q)
    BY <1>2, <1>5 DEF Drops, Fits, JobFits, AnyJob
  <2>2. m \in Pack /\ pack[m].state # "none" /\ \A j \in Key : ~Member(j, m)
    BY <2>1, LeastPack
  <2>3. member' = member /\ \A q \in Pack : q # m => pack'[q] = pack[q] /\ held'[q] = held[q]
    BY <1>2, <1>5 DEF Drops
  <2>4. pack'[m].state # "none"
    BY <2>2, RunsKeep DEF Stays
  <2> HIDE DEF m
  <2>5. QED
    BY <1>3, <2>2, <2>3, <2>4 DEF Member
<1>6. CASE Upload(r) /\ ~UNCHANGED <<pack, held>>
  <2>1. PICK n \in Pack : /\ pack[n].state = "none"
                          /\ \E C : held' = [held EXCEPT ![n] = C]
    BY <1>1, <1>6 DEF TablesNow, tables, Mark, Free, RemoveCopy, Removed, Note, Insert, Upload, At
  <2>2. pack' = pack /\ member' = member
    BY <1>6 DEF Upload
  <2>3. \A q \in Pack : q # n => held'[q] = held[q]
    BY <1>2, <2>1
  <2>4. QED
    BY <1>3, <2>1, <2>2, <2>3 DEF Member
<1>7. CASE Insert(r) /\ Gains(r)
  <2> DEFINE n == run[r].new
  <2>1. n \in Pack /\ pack[n].state = "none" /\ member[k][n] = "none"
    BY <1>3, <1>7 DEF Fits, JobFits, Insert
  <2>2. /\ pack'[n].state = "stored" /\ pack'[n].copies = held[n] /\ held' = held
        /\ p # n => pack'[p] = pack[p] /\ member'[k][p] = member[k][p]
    BY <1>2, <1>7, <2>1 DEF Gains
  <2> HIDE DEF n
  <2>3. QED
    BY <1>3, <2>1, <2>2 DEF Member
<1>8. QED
  BY <1>1, <1>4, <1>5, <1>6, <1>7 DEF TablesNow, tables, Ends, MarksKeys

\* A pack that removes was found without members, and gets none.
LEMMA RemoveJobs ==
  ASSUME Types, Fits, NEW r \in Run, Acts(r), NEW s \in Run, run'[s].at = "remove"
  PROVE  /\ run'[s].packs # {}
         /\ \A p \in run'[s].packs : pack'[p].state # "none" /\ \A k \in Key : ~Member(k, p)'
<1>1. /\ run' \in [Run -> AnyJob] /\ (s # r => run'[s] = run[s]) /\ JobNow(r)
  BY JobMoves
<1>2. Stays
  BY RunsKeep
<1>3. /\ run'[s].packs # {} /\ run'[s].packs \subseteq Pack
      /\ \A p \in run'[s].packs : pack[p].state # "none" /\ \A k \in Key : ~Member(k, p)
  <2>1. run'[s].packs \subseteq Pack
    BY <1>1 DEF AnyJob
  <2>2. CASE At(s, "remove") /\ run'[s].packs # {} /\ run'[s].packs \subseteq run[s].packs
    BY <2>1, <2>2 DEF Fits, JobFits
  <2>3. CASE /\ run'[s].packs # {}
             /\ run'[s].packs = {p \in Pack : /\ pack[p].state = "stored" /\ pack[p].net = run[r].net
                                              /\ \A k \in Key : ~Member(k, p)}
    BY <2>3
  <2>4. CASE s # r
    <3>1. At(s, "remove") /\ run'[s].packs = run[s].packs
      BY <1>1, <2>4 DEF At
    <3>2. run[s].packs # {}
      BY <3>1 DEF Fits, JobFits
    <3>3. QED
      BY <2>2, <3>1, <3>2
  <2>5. CASE s = r
    <3>1. \/ /\ Survey(r) /\ run'[r].packs # {}
             /\ run'[r].packs = {p \in Pack : /\ pack[p].state = "stored" /\ pack[p].net = run[r].net
                                              /\ \A k \in Key : ~Member(k, p)}
          \/ RemoveCopy(r) /\ run'[r].packs = run[r].packs
          \/ Removed(r) /\ run'[r].packs # {} /\ run'[r].packs \subseteq run[r].packs
      BY <1>1, <2>5 DEF JobNow, Plain
    <3>2. At(r, "remove") => run[r].packs # {}
      BY DEF Fits, JobFits
    <3>3. QED
      BY <2>2, <2>3, <2>5, <3>1, <3>2 DEF RemoveCopy, Removed
  <2>6. QED
    BY <2>4, <2>5
<1>4. QED
  BY <1>2, <1>3 DEF Stays

\* A pack that is inserted is uploaded, and nobody else's.
LEMMA InsertJobs ==
  ASSUME Types, Fits, NEW r \in Run, Acts(r)
  PROVE  /\ \A s \in Run : run'[s].at = "insert" =>
              run'[s].new \in Pack /\ pack'[run'[s].new].state = "none" /\ held'[run'[s].new] # {}
         /\ NewApart'
<1>1. (\A s \in Run : s # r => run'[s] = run[s]) /\ JobNow(r)
  BY JobMoves
<1>2. held \in [Pack -> SUBSET Provider]
  BY DEF Types
<1>3. ASSUME NEW s \in Run, s # r, At(s, "insert")
      PROVE  /\ run[s].new \in Pack /\ held[run[s].new] # {}
             /\ pack'[run[s].new].state = "none" /\ held'[run[s].new] # {}
  <2>1. run[s].new \in Pack /\ pack[run[s].new].state = "none" /\ held[run[s].new] # {}
    BY <1>3 DEF Fits, JobFits
  <2>2. ~(At(r, "insert") /\ run[r].new = run[s].new)
    BY <1>3 DEF Fits, NewApart
  <2> DEFINE n == run[s].new
  <2>3. n \in Pack /\ pack[n].state = "none" /\ held[n] # {} /\ ~(At(r, "insert") /\ run[r].new = n)
    BY <2>1, <2>2
  <2> HIDE DEF n
  <2>4. pack'[n].state = "none" /\ held'[n] # {}
    BY <2>3, NewKept
  <2>5. QED
    BY <2>1, <2>4 DEF n
<1>4. ASSUME run'[r].at = "insert"
      PROVE  /\ run'[r].new \in Pack /\ held[run'[r].new] = {}
             /\ pack'[run'[r].new].state = "none" /\ held'[run'[r].new] # {}
  <2>1. /\ Upload(r) /\ run'[r].new \in Pack
        /\ pack[run'[r].new].state = "none" /\ held[run'[r].new] = {}
        /\ \E C : C # {} /\ held' = [held EXCEPT ![run'[r].new] = C]
    BY <1>1, <1>4, UploadPlans
  <2>2. pack' = pack
    BY <2>1 DEF Upload
  <2>3. QED
    BY <1>2, <2>1, <2>2
<1>5. ASSUME NEW s \in Run, NEW t \in Run, s # t, run'[s].at = "insert", run'[t].at = "insert"
      PROVE  run'[s].new # run'[t].new
  <2>1. \A u \in Run : u # r /\ run'[u].at = "insert" => At(u, "insert") /\ run'[u].new = run[u].new
    BY <1>1 DEF At
  <2>2. CASE s # r /\ t # r
    BY <1>5, <2>1, <2>2 DEF Fits, NewApart
  <2>3. CASE s = r
    BY <1>3, <1>4, <1>5, <2>1, <2>3
  <2>4. CASE t = r
    BY <1>3, <1>4, <1>5, <2>1, <2>4
  <2>5. QED
    BY <2>2, <2>3, <2>4
<1>6. \A s \in Run : run'[s].at = "insert" =>
        run'[s].new \in Pack /\ pack'[run'[s].new].state = "none" /\ held'[run'[s].new] # {}
  BY <1>1, <1>3, <1>4 DEF At
<1>7. QED
  BY <1>5, <1>6 DEF NewApart, At

LEMMA BacksStay ==
  ASSUME Types, Fits, NEW r \in Run, Acts(r), NEW k \in Key, NEW p \in Pack, Backs(k, p)
  PROVE  life[k] = "dead" \/ Backs(k, p)'
<1>1. pack[p].state # "none"
  BY DEF Backs, Fits, RowsFit
<1>2. QED
  BY <1>1, RunsKeep DEF Stays, Backs, IsBase

\* What a run evicts is backed up, or deleted meanwhile.
LEMMA EvictJobs ==
  ASSUME Types, Fits, [Next]_vars, NEW r \in Run, Acts(r), NEW s \in Run,
         run'[s].at \in {"unlink", "note"}, NEW k \in run'[s].keys
  PROVE  life'[k] = "dead" \/ \E p \in Pack : Backs(k, p)'
<1>1. /\ run' \in [Run -> AnyJob] /\ (s # r => run'[s] = run[s]) /\ JobNow(r)
  BY JobMoves
<1>2. k \in Key
  BY <1>1 DEF AnyJob
<1>3. life[k] = "dead" \/ \E p \in Pack : Backs(k, p)
  <2>1. CASE run[s].at \in {"unlink", "note"} /\ k \in run[s].keys
    BY <2>1 DEF Fits, JobFits
  <2>2. CASE s # r
    BY <1>1, <2>1, <2>2
  <2>3. CASE s = r
    <3>1. \/ Pick(r) /\ run'[r].keys \subseteq {j \in Piece : Evictable(j)}
          \/ Unlink(r) /\ run'[r].keys = run[r].keys
      BY <1>1, <2>3 DEF JobNow, Plain
    <3>2. CASE Evictable(k)
      BY <3>2 DEF Evictable, Backs, Member, IsBase
    <3>3. QED
      BY <2>1, <2>3, <3>1, <3>2 DEF Unlink, At
  <2>4. QED
    BY <2>2, <2>3
<1>4. QED
  BY <1>2, <1>3, BacksStay, DeadForGood

LEMMA RunsFit == ASSUME Types, Fits, [Next]_vars, NEW r \in Run, Acts(r) PROVE Fits'
<1>1. RowsFit'
  BY RowsStep
<1>2. NewApart'
  BY InsertJobs
<1>3. ASSUME NEW s \in Run PROVE JobFits(s)'
  <2>1. run'[s].at = "insert" =>
          run'[s].new \in Pack /\ pack'[run'[s].new].state = "none" /\ held'[run'[s].new] # {}
    BY InsertJobs
  <2>2. run'[s].at = "remove" =>
          /\ run'[s].packs # {}
          /\ \A p \in run'[s].packs : pack'[p].state # "none" /\ \A k \in Key : ~Member(k, p)'
    BY RemoveJobs
  <2>3. run'[s].at \in {"unlink", "note"} =>
          \A k \in run'[s].keys : life'[k] = "dead" \/ \E p \in Pack : Backs(k, p)'
    BY EvictJobs
  <2>4. QED
    BY <2>1, <2>2, <2>3 DEF JobFits, At
<1>4. QED
  BY <1>1, <1>2, <1>3 DEF Fits

-----------------------------------------------------------------------------
(* The invariant, while the network changes only between runs without a fault *)

LEMMA NobodyActs ==
  ASSUME ~AnyTime, AdminAlone, admin.at # "idle", NEW r \in Run
  PROVE  ~Acts(r)
<1>1. run[r].at = "idle"
  BY DEF AdminAlone, At
<1>2. QED
  BY <1>1 DEF Acts, Sync, Fail, Crash, Working, At, Begin, Acquire, Busy, Release, Mark, Free, Survey,
     RemoveCopy, Removed, Pick, Unlink, Note, Backlog, Extra, Holders, Read, Upload, NoUpload, Insert

\* What a run does to the other variables.
LEMMA RunsLeave ==
  ASSUME Types, NEW r \in Run, Acts(r)
  PROVE  /\ admin' = admin /\ life' = life /\ outlived' = outlived
         /\ faults' \in Nat /\ faults' >= faults
         /\ ~Unlink(r) => fast' = fast
<1>1. faults \in Nat
  BY DEF Types
<1>2. CASE Unlink(r)
  BY <1>1, <1>2 DEF Unlink, Fault
<1>3. CASE Fail(r) \/ Crash(r)
  BY <1>1, <1>3 DEF Fail, Crash, Fault, world
<1>4. CASE Sync(r) /\ ~Unlink(r)
  <2>1. UNCHANGED <<life, fast, admin, faults, outlived>>
    BY <1>4 DEF Sync, Begin, Acquire, Busy, Release, Mark, Free, Survey, RemoveCopy,
       Removed, Pick, Note, Backlog, Extra, Holders, Read, Upload, NoUpload, Insert, world, rest
  <2>2. QED
    BY <1>1, <2>1
<1>5. QED
  BY <1>2, <1>3, <1>4 DEF Acts

LEMMA FitsStep == ASSUME ~AnyTime, Types, Fits, AdminAlone, [Next]_vars PROVE Fits'
<1>1. ASSUME NEW r \in Run, Acts(r) PROVE Fits'
  BY <1>1, RunsFit
<1>2. CASE run' = run /\ UNCHANGED tables
  <2>1. RowsFit' /\ NewApart'
    BY <1>2 DEF Fits, RowsFit, NewApart, Member, At, tables
  <2>2. ASSUME NEW r \in Run PROVE JobFits(r)'
    <3>1. JobFits(r) /\ run[r].keys \subseteq Key
      BY DEF Fits, Types, AnyJob
    <3>2. \A k \in Key : life[k] = "dead" => life'[k] = "dead"
      BY DeadForGood
    <3>3. QED
      BY <1>2, <3>1, <3>2 DEF JobFits, At, Member, Backs, IsBase, tables
  <2>3. QED
    BY <2>1, <2>2 DEF Fits
<1>3. CASE run' = run /\ AdminMove
  <2>1. \A r \in Run : run[r].at = "idle"
    BY <1>3 DEF AdminMove, AdminAlone, At
  <2>2. (\A r \in Run : JobFits(r)') /\ NewApart'
    BY <1>3, <2>1 DEF JobFits, NewApart, At
  <2>3. RowsFit'
    <3>1. ASSUME NEW p \in Pack, NEW k \in Key
          PROVE  /\ pack'[p].state = "none" => member'[k][p] = "none"
                 /\ Member(k, p)' => pack'[p].state = "stored" /\ held'[p] = pack'[p].copies
      <4>1. /\ pack[p].state = "none" => member[k][p] = "none"
            /\ Member(k, p) => pack[p].state = "stored" /\ held[p] = pack[p].copies
        BY DEF Fits, RowsFit
      <4>2. CASE pack[p].state # "none" /\ pack[p].net # admin.net
        BY <1>3, <4>2 DEF AdminMove, Member
      <4>3. CASE ~(pack[p].state # "none" /\ pack[p].net # admin.net)
        BY <1>3, <4>1, <4>3 DEF AdminMove, Member
      <4>4. QED
        BY <4>2, <4>3
    <3>2. QED
      BY <3>1 DEF RowsFit
  <2>4. QED
    BY <2>2, <2>3 DEF Fits
<1>4. QED
  BY <1>1, <1>2, <1>3, WhoActs

LEMMA AdminStep == ASSUME ~AnyTime, Types, AdminAlone, [Next]_vars PROVE AdminAlone'
<1>1. ASSUME NEW r \in Run, Acts(r) PROVE AdminAlone'
  <2>1. admin.at = "idle" /\ admin' = admin
    BY <1>1, NobodyActs, RunsLeave
  <2>2. QED
    BY <2>1 DEF AdminAlone
<1>2. ASSUME NEW k \in Key, Supersede(k) \/ Discard(k) PROVE UNCHANGED <<tables, run, rest>>
  BY <1>2 DEF Supersede, Discard
<1>3. CASE UNCHANGED <<tables, run, rest>>
  BY <1>3 DEF AdminAlone, At, tables, rest
<1>4. CASE Expire
  <2>1. UNCHANGED <<tables, run, admin>>
    BY <1>4 DEF Expire
  <2>2. CASE admin.at # "idle"
    <3>1. \A r \in Run : ~Working(r)
      BY <2>2 DEF AdminAlone, At, Working
    <3>2. faults' = faults
      BY <1>4, <3>1 DEF Expire
    <3>3. QED
      BY <2>1, <3>2 DEF AdminAlone, At, tables
  <2>3. QED
    BY <2>1, <2>2 DEF AdminAlone
<1>5. ASSUME NEW n \in Network, AdminCheck(n) PROVE AdminAlone'
  <2>1. faults = 0 /\ \A r \in Run : At(r, "idle")
    BY <1>5 DEF AdminCheck
  <2>2. /\ \A k \in Key, p \in Pack : member[k][p] = "evicted" => pack[p].net = n
        /\ admin'.net = n /\ UNCHANGED <<tables, run, faults>>
    BY <1>5 DEF AdminCheck
  <2>3. QED
    BY <2>1, <2>2 DEF AdminAlone, At, tables
<1>6. CASE AdminMove
  <2>1. admin.at = "move" /\ admin' = [admin EXCEPT !.at = "write"] /\ run' = run
    BY <1>6 DEF AdminMove
  <2>2. admin'.at = "write"
    BY <2>1 DEF Types
  <2>3. QED
    BY <2>1, <2>2 DEF AdminAlone, At
<1>7. CASE AdminWrite
  BY <1>7 DEF AdminWrite, AdminAlone
<1>8. QED
  BY <1>1, <1>2, <1>3, <1>4, <1>5, <1>6, <1>7 DEF Next, Acts, vars, tables, rest, Book

LEMMA NotedStep ==
  ASSUME Types, Fits, [Next]_vars, NEW r \in Run, Acts(r), NEW k \in Key,
         life[k] # "dead", Noted(k)
  PROVE  Noted(k)'
<1>1. PICK p \in Pack :
        /\ Backs(k, p)
        /\ \/ member[k][p] = "evicted"
           \/ faults > 0
           \/ \E s \in Run : At(s, "note") /\ k \in run[s].keys
  BY DEF Noted
<1>2. Backs(k, p)'
  BY <1>1, BacksStay
<1>3. faults \in Nat /\ faults' \in Nat /\ faults' >= faults
  BY RunsLeave DEF Types
<1>4. CASE member[k][p] = "evicted"
  <2>1. member'[k][p] = "evicted"
    BY <1>1, <1>4, RunsKeep DEF Stays, Backs
  <2>2. QED
    BY <1>2, <2>1 DEF Noted
<1>5. CASE faults > 0
  <2>1. faults' > 0
    BY <1>3, <1>5
  <2>2. QED
    BY <1>2, <2>1 DEF Noted
<1>6. ASSUME NEW s \in Run, At(s, "note"), k \in run[s].keys PROVE Noted(k)'
  <2>1. CASE s # r
    <3>1. run'[s] = run[s]
      BY <2>1, JobMoves
    <3>2. QED
      BY <1>2, <1>6, <3>1 DEF Noted, At
  <2>2. CASE s = r
    <3>1. \/ Note(r)
          \/ Fail(r) \/ Crash(r)
      BY <1>6, <2>2 DEF Acts, Sync, At, Begin, Acquire, Busy, Release, Mark, Free, Survey, RemoveCopy,
         Removed, Pick, Unlink, Backlog, Extra, Holders, Read, Upload, NoUpload, Insert
    <3>2. CASE Note(r)
      <4>1. member'[k][p] = IF member[k][p] = "kept" THEN "evicted" ELSE member[k][p]
        BY <1>6, <2>2, <3>2 DEF Note
      <4>2. member'[k][p] = "evicted"
        BY <1>1, <4>1 DEF Backs, Member
      <4>3. QED
        BY <1>2, <4>2 DEF Noted
    <3>3. CASE Fail(r) \/ Crash(r)
      <4>1. faults' > 0
        BY <1>3, <3>3 DEF Fail, Crash, Fault
      <4>2. QED
        BY <1>2, <4>1 DEF Noted
    <3>4. QED
      BY <3>1, <3>2, <3>3
  <2>3. QED
    BY <2>1, <2>2
<1>7. QED
  BY <1>1, <1>4, <1>5, <1>6

LEMMA LostStep ==
  ASSUME ~AnyTime, Types, Fits, LostAreNoted, AdminAlone, [Next]_vars
  PROVE  LostAreNoted'
<1> SUFFICES ASSUME NEW k \in Key, life'[k] # "dead", k \notin fast' PROVE Noted(k)'
  BY DEF LostAreNoted
<1>1. life[k] # "dead"
  BY DeadForGood
<1>2. k \notin fast => Noted(k)
  BY <1>1 DEF LostAreNoted
<1>3. ASSUME NEW r \in Run, Acts(r) PROVE Noted(k)'
  <2>1. CASE k \notin fast
    BY <1>1, <1>2, <1>3, <2>1, NotedStep
  <2>2. CASE k \in fast
    <3>1. Unlink(r) /\ k \in run[r].keys
      <4>1. Unlink(r)
        BY <1>3, <2>2, RunsLeave
      <4>2. QED
        BY <2>2, <4>1 DEF Unlink
    <3>2. PICK p \in Pack : Backs(k, p)
      BY <1>1, <3>1 DEF Fits, JobFits, Unlink, At
    <3>3. Backs(k, p)'
      BY <3>1, <3>2 DEF Unlink, tables, Backs, Member, IsBase
    <3>4. CASE run' = [run EXCEPT ![r].at = "note"]
      <4>1. run[r] \in AnyJob /\ run'[r] = [run[r] EXCEPT !.at = "note"]
        BY <3>4 DEF Types
      <4>2. run'[r].at = "note" /\ run'[r].keys = run[r].keys
        BY <4>1 DEF AnyJob
      <4>3. QED
        BY <3>1, <3>3, <4>2 DEF Noted, At
    <3>5. CASE Fault
      <4>1. faults' > 0
        BY <3>5 DEF Fault, Types
      <4>2. QED
        BY <3>3, <4>1 DEF Noted
    <3>6. QED
      BY <3>1, <3>4, <3>5 DEF Unlink
  <2>3. QED
    BY <2>1, <2>2
<1>4. CASE AdminMove
  <2>1. fast' = fast /\ run' = run
    BY <1>4 DEF AdminMove, world
  <2>2. PICK p \in Pack : member[k][p] = "evicted" /\ Backs(k, p)
    BY <1>2, <1>4, <2>1 DEF Noted, AdminMove, AdminAlone, At
  <2>3. pack[p].net = admin.net
    BY <1>4, <2>2 DEF AdminMove, AdminAlone
  <2>4. member'[k][p] = member[k][p] /\ pack'[p] = pack[p]
    BY <1>4, <2>3 DEF AdminMove
  <2>5. QED
    BY <2>2, <2>4 DEF Noted, Backs, Member, IsBase
<1>5. ASSUME UNCHANGED <<tables, run>>, k \notin fast, faults' \in Nat, faults' >= faults
      PROVE  Noted(k)'
  <2>1. faults > 0 => faults' > 0
    BY <1>5 DEF Types
  <2>2. QED
    BY <1>2, <1>5, <2>1 DEF Noted, Backs, Member, IsBase, At, tables
<1>6. ASSUME NEW j \in Key, Supersede(j) \/ Discard(j) PROVE Noted(k)'
  <2>1. UNCHANGED <<tables, run, rest>>
    BY <1>6 DEF Supersede, Discard
  <2>2. k \notin fast
    <3>1. CASE Supersede(j)
      BY <3>1 DEF Supersede
    <3>2. CASE Discard(j)
      <4>1. j # k
        BY <3>2 DEF Discard, Types
      <4>2. QED
        BY <3>2, <4>1 DEF Discard
    <3>3. QED
      BY <1>6, <3>1, <3>2
  <2>3. faults' \in Nat /\ faults' >= faults
    BY <2>1 DEF rest, Types
  <2>4. QED
    BY <1>5, <2>1, <2>2, <2>3
<1>7. CASE Book \/ Expire \/ AdminWrite \/ (\E n \in Network : AdminCheck(n)) \/ UNCHANGED vars
  <2>1. UNCHANGED <<tables, run>> /\ fast' = fast
    BY <1>7 DEF Book, Expire, AdminWrite, AdminCheck, vars, world, tables
  <2>2. faults' = faults \/ Fault
    BY <1>7 DEF Book, Expire, AdminWrite, AdminCheck, vars, rest
  <2>3. faults' \in Nat /\ faults' >= faults
    BY <2>2 DEF Fault, Types
  <2>4. QED
    BY <1>5, <2>1, <2>3
<1>8. QED
  BY <1>3, <1>4, <1>6, <1>7 DEF Next, Acts

BackupInv == Fits /\ LostAreNoted /\ AdminAlone

LEMMA BackupInit == Init => BackupInv
<1> SUFFICES ASSUME Init PROVE BackupInv
  OBVIOUS
<1>1. \A r \in Run : run[r].at = "idle"
  BY IdleJob DEF Init
<1>2. RowsFit
  BY DEF Init, RowsFit, Member, NoPack
<1>3. (\A r \in Run : JobFits(r)) /\ NewApart /\ AdminAlone
  BY <1>1 DEF Init, JobFits, NewApart, At, AdminAlone
<1>4. LostAreNoted
  BY DEF Init, LostAreNoted
<1>5. QED
  BY <1>2, <1>3, <1>4 DEF BackupInv, Fits

LEMMA BackupHolds == ASSUME ~AnyTime PROVE Spec => [](Types /\ BackupInv)
<1>1. Init => Types /\ BackupInv
  BY TypesInit, BackupInit
<1>2. Types /\ BackupInv /\ [Next]_vars => Types' /\ BackupInv'
  BY TypesStep, FitsStep, LostStep, AdminStep DEF BackupInv
<1>3. QED
  BY <1>1, <1>2, PTL DEF Spec

\* evict (server/foc/sync.ts:268) and setFocSettings (foc/config.ts): whatever runs
\* overlap, fail or die, what has lost its fast copy lies in a base pack with all its
\* copies, as long as the network changes only between runs that have not failed.
THEOREM EvictedIsBackedUp == ASSUME ~AnyTime PROVE Spec => []FastOrBackedUp
<1>1. BackupInv => FastOrBackedUp
  <2> SUFFICES ASSUME BackupInv, NEW k \in Key, life[k] # "dead", k \notin fast
               PROVE  \E p \in Stored(k) : pack[p].kind = "base" /\ Cardinality(held[p]) >= Copies
    BY DEF FastOrBackedUp
  <2>1. PICK p \in Pack : Backs(k, p)
    BY DEF BackupInv, LostAreNoted, Noted
  <2>2. p \in Stored(k) /\ held[p] = pack[p].copies
    BY <2>1 DEF BackupInv, Fits, RowsFit, Backs, Stored
  <2>3. QED
    BY <2>1, <2>2 DEF Backs, IsBase
<1>2. QED
  BY <1>1, BackupHolds, PTL

-----------------------------------------------------------------------------
(* The copies of a key lie apart                                              *)

\* While no lease has run out under its run, one run is at work, and holds the lease.
OneRun == \A r, s \in Run : Working(r) => lease /\ (Working(s) => r = s)

\* Key k is or was in a base pack of network n.
Based(k, n) == \E q \in Pack : member[k][q] # "none" /\ IsBase(q) /\ pack[q].net = n

Making(r) == run[r].at \in {"read", "upload", "insert"}

\* What a run has read for the pack it makes is still so.
PlanFits(r) ==
  /\ At(r, "backlog") => run[r].kind = "base"
  /\ At(r, "holders") => run[r].kind = "extra"
  /\ Making(r) /\ run[r].kind = "base" => \A k \in run[r].keys : Unbased(k)
  /\ (Making(r) \/ At(r, "holders")) /\ run[r].kind = "extra" =>
       \A k \in run[r].keys : Based(k, run[r].net)
  /\ Making(r) /\ run[r].kind = "extra" =>
       \A k \in run[r].keys : \A p \in Stored(k) : pack[p].copies \subseteq run[r].avoid
  /\ At(r, "insert") /\ run[r].kind = "extra" => held[run[r].new] \cap run[r].avoid = {}

ExtraIsBased == \A k \in Key, p \in Pack : Member(k, p) /\ ~IsBase(p) => Based(k, pack[p].net)

LieApart ==
  \A k \in Key : \A p, q \in Stored(k) : p # q /\ pack[p].net = pack[q].net =>
    /\ {pack[p].kind, pack[q].kind} # {"base"}
    /\ pack[p].copies \cap pack[q].copies = {}

Apart    == OneRun /\ (\A r \in Run : PlanFits(r)) /\ ExtraIsBased /\ LieApart
ApartInv == ~outlived => Apart

\* Beside a run at work the others find the lease taken.
LEMMA OthersWait ==
  ASSUME OneRun, NEW r \in Run, Acts(r), NEW s \in Run, s # r, Working(s)
  PROVE  UNCHANGED <<tables, lease>> /\ (Begin(r) \/ Busy(r))
<1>1. ~Working(r) /\ lease
  BY DEF OneRun
<1>2. Begin(r) \/ Busy(r)
  BY <1>1 DEF Acts, Sync, Fail, Crash, Working, At, Acquire, Release, Mark, Free, Survey,
     RemoveCopy, Removed, Pick, Unlink, Note, Backlog, Extra, Holders, Read, Upload, NoUpload, Insert
<1>3. QED
  BY <1>2 DEF Begin, Busy

LEMMA OneRunStep == ASSUME Types, OneRun, NEW r \in Run, Acts(r) PROVE OneRun'
<1>1. \A s \in Run : s # r => run'[s] = run[s]
  BY JobMoves
<1>2. CASE \E s \in Run : s # r /\ Working(s)
  <2>1. lease' = lease /\ (Begin(r) \/ Busy(r))
    BY <1>2, OthersWait
  <2>2. ~Working(r)'
    <3>1. CASE Begin(r)
      <4> DEFINE job == [Idle EXCEPT !.at = "lease", !.net = network]
      <4>1. job.at = "lease"
        BY DEF Idle
      <4>2. run' = [run EXCEPT ![r] = job]
        BY <3>1 DEF Begin, Do
      <4> HIDE DEF job
      <4>3. run'[r] = job
        BY <4>2 DEF Types
      <4>4. QED
        BY <4>1, <4>3 DEF Working
    <3>2. CASE Busy(r)
      BY <3>2, IdleJob DEF Busy, Do, Types, Working
    <3>3. QED
      BY <2>1, <3>1, <3>2
  <2>3. QED
    BY <1>1, <2>1, <2>2 DEF OneRun, Working
<1>3. CASE \A s \in Run : s # r => ~Working(s)
  <2>1. \A s \in Run : Working(s)' => s = r
    BY <1>1, <1>3 DEF Working
  <2>2. Working(r)' => lease'
    <3>1. CASE Acquire(r)
      BY <3>1 DEF Acquire
    <3>2. CASE Busy(r) \/ Release(r) \/ Crash(r)
      BY <3>2, IdleJob DEF Busy, Release, Crash, Do, Types, Working
    <3>3. CASE Begin(r)
      <4> DEFINE job == [Idle EXCEPT !.at = "lease", !.net = network]
      <4>1. job.at = "lease"
        BY DEF Idle
      <4>2. run' = [run EXCEPT ![r] = job]
        BY <3>3 DEF Begin, Do
      <4> HIDE DEF job
      <4>3. run'[r] = job
        BY <4>2 DEF Types
      <4>4. QED
        BY <4>1, <4>3 DEF Working
    <3>4. CASE Working(r) /\ lease' = lease
      BY <3>4 DEF OneRun
    <3>5. QED
      BY <3>1, <3>2, <3>3, <3>4 DEF Acts, Sync, Fail, Working, At, Mark, Free, Survey,
         RemoveCopy, Removed, Pick, Unlink, Note, Backlog, Extra, Holders, Read, Upload, NoUpload, Insert
  <2>3. QED
    BY <2>1, <2>2 DEF OneRun
<1>4. QED
  BY <1>2, <1>3

\* What the run that acts has read is still so.
LEMMA OwnPlan ==
  ASSUME Types, NEW r \in Run, Acts(r), PlanFits(r)
  PROVE  PlanFits(r)'
<1>1. JobNow(r) /\ run[r] \in AnyJob /\ run' \in [Run -> AnyJob]
  BY JobMoves DEF Types
<1>2. held \in [Pack -> SUBSET Provider]
  BY DEF Types
<1>3. CASE run'[r].at \notin {"backlog", "holders", "read", "upload", "insert"}
  BY <1>3 DEF PlanFits, Making, At
<1>4. CASE run'[r].at = "backlog"
  BY <1>1, <1>4 DEF PlanFits, Making, At, JobNow, Plain
<1>5. CASE run'[r].at = "holders"
  <2>1. /\ Extra(r) /\ run'[r].kind = "extra" /\ run'[r].net = run[r].net
        /\ \A k \in run'[r].keys : \E p \in Counted(r, k) : pack[p].kind = "base"
    BY <1>1, <1>5 DEF JobNow, Plain
  <2>2. UNCHANGED tables
    BY <2>1 DEF Extra
  <2>3. \A k \in run'[r].keys : Based(k, run[r].net)
    BY <2>1 DEF Counted, Stored, Member, Based, IsBase
  <2>4. QED
    BY <1>5, <2>1, <2>2, <2>3 DEF PlanFits, Making, At, Based, IsBase, tables
<1>6. CASE run'[r].at = "read"
  <2>1. CASE /\ Backlog(r) /\ SamePlan(r)
             /\ run'[r].keys \subseteq {k \in Key : life[k] = "live" /\ Unbased(k)}
    <3>1. run'[r].kind = "base" /\ UNCHANGED tables
      BY <2>1 DEF PlanFits, Backlog, SamePlan
    <3>2. \A k \in run'[r].keys : Unbased(k)
      BY <2>1
    <3>3. QED
      BY <1>6, <3>1, <3>2 DEF PlanFits, Making, At, Unbased, tables
  <2>2. CASE /\ Holders(r) /\ SamePlan(r) /\ run'[r].keys = run[r].keys
             /\ run'[r].avoid = UNION {pack[p].copies : p \in UNION {Stored(k) : k \in run[r].keys}}
    <3>1. /\ run'[r].kind = "extra" /\ run'[r].net = run[r].net /\ UNCHANGED tables
          /\ \A k \in run[r].keys : Based(k, run[r].net)
      BY <2>2 DEF PlanFits, Holders, SamePlan
    <3>2. \A k \in run[r].keys : \A p \in Stored(k) : pack[p].copies \subseteq run'[r].avoid
      BY <2>2
    <3>3. QED
      BY <1>6, <2>2, <3>1, <3>2 DEF PlanFits, Making, At, Based, IsBase, Stored, Member, tables
  <2>3. QED
    BY <1>1, <1>6, <2>1, <2>2 DEF JobNow, Plain
<1>7. CASE run'[r].at = "upload"
  <2>1. /\ Read(r) /\ SamePlan(r) /\ run'[r].keys \subseteq run[r].keys
        /\ run'[r].avoid = run[r].avoid
    BY <1>1, <1>7 DEF JobNow, Plain
  <2>2. UNCHANGED tables /\ Making(r)
    BY <2>1 DEF Read, Making, At
  <2>3. QED
    BY <1>7, <2>1, <2>2 DEF PlanFits, Making, At, Based, IsBase, Stored, Member, Unbased, SamePlan, tables
<1>8. CASE run'[r].at = "insert"
  <2>1. /\ Upload(r) /\ run'[r].new \in Pack /\ SamePlan(r)
        /\ run'[r].keys = run[r].keys /\ run'[r].avoid = run[r].avoid
        /\ \E C \in SUBSET (Provider \ run[r].avoid) :
             C # {} /\ held' = [held EXCEPT ![run'[r].new] = C]
    BY <1>1, <1>8, UploadPlans
  <2>2. pack' = pack /\ member' = member /\ Making(r)
    BY <2>1 DEF Upload, Making, At
  <2>3. held'[run'[r].new] \cap run'[r].avoid = {}
    BY <1>2, <2>1
  <2>4. QED
    BY <1>8, <2>1, <2>2, <2>3 DEF PlanFits, Making, At, Based, IsBase, Stored, Member, Unbased, SamePlan
<1>9. QED
  BY <1>3, <1>4, <1>5, <1>6, <1>7, <1>8

\* Memberships only end: nothing new is in a pack.
LEMMA NothingNew ==
  ASSUME Types, Fits, NEW r \in Run, Acts(r), ~Insert(r), NEW k \in Key, NEW p \in Pack, Member(k, p)'
  PROVE  Member(k, p)
<1>1. TablesNow(r)
  BY JobMoves, TablesMove
<1>2. \/ member' = member
      \/ Ends
      \/ MarksKeys(r)
  BY <1>1 DEF TablesNow, tables, Drops
<1>3. CASE Ends
  BY <1>3 DEF Ends, Member
<1>4. CASE MarksKeys(r)
  <2>1. member'[k][p] = IF k \in run[r].keys /\ member[k][p] = "kept" THEN "evicted" ELSE member[k][p]
    BY <1>4 DEF MarksKeys
  <2>2. QED
    BY <2>1 DEF Member
<1>5. QED
  BY <1>2, <1>3, <1>4 DEF Member

LEMMA BasedStays ==
  ASSUME Types, Fits, NEW r \in Run, Acts(r), NEW k \in Key, NEW n, Based(k, n)
  PROVE  Based(k, n)'
<1>1. PICK q \in Pack : member[k][q] # "none" /\ IsBase(q) /\ pack[q].net = n
  BY DEF Based
<1>2. pack[q].state # "none"
  BY <1>1 DEF Fits, RowsFit
<1>3. member'[k][q] # "none" /\ pack'[q].kind = pack[q].kind /\ pack'[q].net = pack[q].net
  BY <1>1, <1>2, RunsKeep DEF Stays
<1>4. QED
  BY <1>1, <1>3 DEF Based, IsBase

\* A pack that has a member already keeps its row.
LEMMA RowStays ==
  ASSUME Types, Fits, NEW r \in Run, Acts(r), NEW k \in Key, NEW p \in Pack, Member(k, p)
  PROVE  /\ pack'[p].kind = pack[p].kind /\ pack'[p].net = pack[p].net
         /\ pack'[p].copies = pack[p].copies
<1>1. pack[p].state # "none"
  BY DEF Fits, RowsFit
<1>2. QED
  BY <1>1, RunsKeep DEF Stays

\* The rows of a new pack.
LEMMA InsertRows ==
  ASSUME Types, Fits, NEW r \in Run, Acts(r), Insert(r), NEW n \in Pack, n = run[r].new
  PROVE  /\ pack'[n].kind = run[r].kind /\ pack'[n].net = run[r].net
         /\ pack'[n].copies = held[n]
         /\ \A p \in Pack : p # n => pack'[p] = pack[p]
         /\ \A k \in Key, p \in Pack : p # n => member'[k][p] = member[k][p]
         /\ \A k \in Key : Member(k, n)' => k \in run[r].keys
<1>1. pack[n].state = "none" /\ \A k \in Key : member[k][n] = "none"
  BY DEF Fits, JobFits, RowsFit, Insert
<1>2. Gains(r)
  BY AddGains
<1>3. pack \in [Pack -> PackRow]
  BY DEF Types
<1>4. /\ pack' = [pack EXCEPT ![n] = [state |-> "stored", kind |-> run[r].kind,
                                      net |-> run[r].net, copies |-> held[n]]]
      /\ \A k \in Key : \A q \in Pack :
           member'[k][q] = IF q = n /\ k \in run[r].keys
                           THEN IF \E o \in Pack : member[k][o] = "evicted" THEN "evicted" ELSE "kept"
                           ELSE member[k][q]
  BY <1>2 DEF Gains
<1>5. \A k \in Key : Member(k, n)' => k \in run[r].keys
  BY <1>1, <1>4 DEF Member
<1>6. QED
  BY <1>1, <1>3, <1>4, <1>5

LEMMA NewPack == ASSUME Fits, NEW r \in Run, Insert(r) PROVE \E n \in Pack : n = run[r].new
BY DEF Fits, JobFits, Insert

\* Extra packs are made of what is in base packs of the network.
LEMMA ExtraStep ==
  ASSUME Types, Fits, NEW r \in Run, Acts(r), PlanFits(r), ExtraIsBased
  PROVE  ExtraIsBased'
<1> SUFFICES ASSUME NEW k \in Key, NEW p \in Pack, Member(k, p)', ~IsBase(p)'
             PROVE  Based(k, pack[p].net)'
  BY DEF ExtraIsBased
<1>1. ASSUME Member(k, p) PROVE Based(k, pack[p].net)'
  <2>1. pack'[p].kind = pack[p].kind /\ pack'[p].net = pack[p].net
    BY <1>1, RowStays
  <2>2. PICK n : n = pack[p].net
    OBVIOUS
  <2>3. Based(k, n)
    BY <1>1, <2>1, <2>2 DEF ExtraIsBased, IsBase
  <2>4. Based(k, n)'
    BY <2>3, BasedStays
  <2>5. QED
    BY <2>1, <2>2, <2>4 DEF Based
<1>2. CASE ~Insert(r)
  BY <1>1, <1>2, NothingNew
<1>3. CASE Insert(r) /\ p # run[r].new
  <2>1. member'[k][p] = member[k][p]
    BY <1>3, InsertRows, NewPack
  <2>2. QED
    BY <1>1, <2>1 DEF Member
<1>4. CASE Insert(r) /\ p = run[r].new
  <2>1. pack'[p].kind = run[r].kind /\ pack'[p].net = run[r].net /\ k \in run[r].keys
    BY <1>4, InsertRows
  <2>2. run[r].kind = "extra"
    BY <2>1 DEF IsBase, Types, AnyJob
  <2>3. PICK n : n = run[r].net
    OBVIOUS
  <2>4. Based(k, n)
    BY <1>4, <2>1, <2>2, <2>3 DEF PlanFits, Making, Insert, At
  <2>5. Based(k, n)'
    BY <2>4, BasedStays
  <2>6. QED
    BY <2>1, <2>3, <2>5 DEF Based
<1>5. QED
  BY <1>2, <1>3, <1>4

\* A new pack has its copies elsewhere, or is the only one of its keys.
LEMMA NewLiesApart ==
  ASSUME Types, Fits, NEW r \in Run, Acts(r), PlanFits(r), ExtraIsBased, Insert(r),
         NEW k \in Key, k \in run[r].keys, NEW q \in Pack, Member(k, q)
  PROVE  run[r].kind = "extra" /\ held[run[r].new] \cap pack[q].copies = {}
<1>1. Making(r) /\ At(r, "insert") /\ run[r].kind \in {"base", "extra"}
  BY DEF Insert, Making, At, Types, AnyJob
<1>2. CASE run[r].kind = "base"
  <2>1. Unbased(k)
    BY <1>1, <1>2 DEF PlanFits
  <2>2. ~IsBase(q)
    BY <2>1 DEF Unbased, Member, IsBase
  <2>3. Based(k, pack[q].net)
    BY <2>2 DEF ExtraIsBased
  <2>4. QED
    BY <2>1, <2>3 DEF Based, Unbased, IsBase
<1>3. CASE run[r].kind = "extra"
  <2>1. q \in Stored(k)
    BY DEF Fits, RowsFit, Stored
  <2>2. pack[q].copies \subseteq run[r].avoid /\ held[run[r].new] \cap run[r].avoid = {}
    BY <1>1, <1>3, <2>1 DEF PlanFits
  <2>3. QED
    BY <1>3, <2>2
<1>4. QED
  BY <1>1, <1>2, <1>3

LEMMA LieApartStep ==
  ASSUME Types, Fits, NEW r \in Run, Acts(r), PlanFits(r), ExtraIsBased, LieApart
  PROVE  LieApart'
<1> SUFFICES ASSUME NEW k \in Key, NEW p \in Pack, NEW q \in Pack, p # q,
                    Member(k, p)', Member(k, q)', pack'[p].net = pack'[q].net
             PROVE  /\ {pack'[p].kind, pack'[q].kind} # {"base"}
                    /\ pack'[p].copies \cap pack'[q].copies = {}
  BY DEF LieApart, Stored
<1>1. ASSUME Member(k, p), Member(k, q)
      PROVE  /\ {pack'[p].kind, pack'[q].kind} # {"base"}
             /\ pack'[p].copies \cap pack'[q].copies = {}
  <2>1. p \in Stored(k) /\ q \in Stored(k)
    BY <1>1 DEF Fits, RowsFit, Stored
  <2>2. /\ pack'[p].kind = pack[p].kind /\ pack'[p].net = pack[p].net
        /\ pack'[p].copies = pack[p].copies
        /\ pack'[q].kind = pack[q].kind /\ pack'[q].net = pack[q].net
        /\ pack'[q].copies = pack[q].copies
    BY <1>1, RowStays
  <2>3. QED
    BY <2>1, <2>2 DEF LieApart
<1>2. CASE ~Insert(r)
  BY <1>1, <1>2, NothingNew
<1>3. CASE Insert(r)
  <2>1. PICK n \in Pack : n = run[r].new
    BY <1>3, NewPack
  <2>2. /\ pack'[n].kind = run[r].kind /\ pack'[n].copies = held[n]
        /\ \A o \in Pack : o # n => pack'[o] = pack[o] /\ member'[k][o] = member[k][o]
        /\ Member(k, n)' => k \in run[r].keys
    BY <1>3, <2>1, InsertRows
  <2>3. ASSUME NEW o \in Pack, o # n, Member(k, o)', Member(k, n)'
        PROVE  pack'[n].kind = "extra" /\ pack'[n].copies \cap pack'[o].copies = {}
    <3>1. Member(k, o) /\ k \in run[r].keys /\ pack'[o] = pack[o]
      BY <2>2, <2>3 DEF Member
    <3>2. run[r].kind = "extra" /\ held[run[r].new] \cap pack[o].copies = {}
      BY <1>3, <3>1, NewLiesApart
    <3>3. QED
      BY <2>1, <2>2, <3>1, <3>2
  <2>4. CASE p # n /\ q # n
    BY <1>1, <2>2, <2>4 DEF Member
  <2>5. CASE p = n
    <3>1. pack'[p].kind = "extra" /\ pack'[p].copies \cap pack'[q].copies = {}
      BY <2>3, <2>5
    <3>2. QED
      BY <3>1
  <2>6. CASE q = n
    <3>1. pack'[q].kind = "extra" /\ pack'[q].copies \cap pack'[p].copies = {}
      BY <2>3, <2>6
    <3>2. QED
      BY <3>1
  <2>7. QED
    BY <2>4, <2>5, <2>6
<1>4. QED
  BY <1>2, <1>3

LEMMA RunsLieApart ==
  ASSUME Types, Fits, ApartInv, NEW r \in Run, Acts(r)
  PROVE  ApartInv'
<1> SUFFICES ASSUME ~outlived' PROVE Apart'
  BY DEF ApartInv
<1>1. OneRun /\ (\A s \in Run : PlanFits(s)) /\ ExtraIsBased /\ LieApart
  BY RunsLeave DEF ApartInv, Apart
<1>2. OneRun' /\ ExtraIsBased' /\ LieApart'
  BY <1>1, OneRunStep, ExtraStep, LieApartStep
<1>3. ASSUME NEW s \in Run PROVE PlanFits(s)'
  <2>1. CASE s = r
    BY <1>1, <2>1, OwnPlan
  <2>2. CASE s # r
    <3>1. run'[s] = run[s]
      BY <2>2, JobMoves
    <3>2. CASE Working(s)
      <4>1. UNCHANGED tables
        BY <1>1, <2>2, <3>2, OthersWait
      <4>2. PlanFits(s)
        BY <1>1
      <4>3. QED
        BY <3>1, <4>1, <4>2 DEF PlanFits, Making, At, Based, IsBase, Stored, Member, Unbased, tables
    <3>3. CASE ~Working(s)
      BY <3>1, <3>3 DEF PlanFits, Working, Making, At
    <3>4. QED
      BY <3>2, <3>3
  <2>3. QED
    BY <2>1, <2>2
<1>4. QED
  BY <1>2, <1>3 DEF Apart

LEMMA MoveLiesApart ==
  ASSUME Types, Fits, AdminAlone, ApartInv, AdminMove
  PROVE  ApartInv'
<1>1. outlived' = outlived /\ run' = run /\ lease' = lease
  BY DEF AdminMove
<1>2. \A r \in Run : run'[r].at = "idle"
  BY <1>1 DEF AdminMove, AdminAlone, At
<1>3. ~outlived => ExtraIsBased /\ LieApart
  BY DEF ApartInv, Apart
<1>4. OneRun' /\ (\A r \in Run : PlanFits(r)')
  BY <1>2 DEF OneRun, PlanFits, Working, Making, At
\* What is left is of the new network, and as it was.
<1>5. ASSUME NEW k \in Key, NEW p \in Pack, Member(k, p)'
      PROVE  /\ Member(k, p) /\ p \in Stored(k) /\ pack[p].net = admin.net /\ pack'[p] = pack[p]
  <2>1. ~(pack[p].state # "none" /\ pack[p].net # admin.net)
    BY <1>5 DEF AdminMove, Member
  <2>2. Member(k, p) /\ pack'[p] = pack[p]
    BY <1>5, <2>1 DEF AdminMove, Member
  <2>3. pack[p].state = "stored"
    BY <2>2 DEF Fits, RowsFit
  <2>4. QED
    BY <2>1, <2>2, <2>3 DEF Stored
<1>6. ~outlived => ExtraIsBased'
  <2>1. ASSUME ~outlived, NEW k \in Key, NEW p \in Pack, Member(k, p)', ~IsBase(p)'
        PROVE  Based(k, pack[p].net)'
    <3>1. Member(k, p) /\ ~IsBase(p) /\ pack[p].net = admin.net /\ pack'[p] = pack[p]
      BY <1>5, <2>1 DEF IsBase
    <3>2. PICK q \in Pack : member[k][q] # "none" /\ IsBase(q) /\ pack[q].net = admin.net
      BY <1>3, <2>1, <3>1 DEF ExtraIsBased, Based
    <3>3. member'[k][q] = member[k][q] /\ pack'[q] = pack[q]
      BY <3>2 DEF AdminMove
    <3>4. QED
      BY <3>1, <3>2, <3>3 DEF Based, IsBase
  <2>2. QED
    BY <2>1 DEF ExtraIsBased
<1>7. ~outlived => LieApart'
  <2>1. ASSUME ~outlived, NEW k \in Key, NEW p \in Pack, NEW q \in Pack, p # q,
               Member(k, p)', Member(k, q)', pack'[p].net = pack'[q].net
        PROVE  /\ {pack'[p].kind, pack'[q].kind} # {"base"}
               /\ pack'[p].copies \cap pack'[q].copies = {}
    <3>1. p \in Stored(k) /\ q \in Stored(k) /\ pack'[p] = pack[p] /\ pack'[q] = pack[q]
      BY <1>5, <2>1
    <3>2. QED
      BY <1>3, <2>1, <3>1 DEF LieApart
  <2>2. QED
    BY <2>1 DEF LieApart, Stored
<1>8. QED
  BY <1>1, <1>4, <1>6, <1>7 DEF ApartInv, Apart

LEMMA ApartStep ==
  ASSUME ~AnyTime, Types, Fits, AdminAlone, ApartInv, [Next]_vars
  PROVE  ApartInv'
<1>1. ASSUME NEW r \in Run, Acts(r) PROVE ApartInv'
  BY <1>1, RunsLieApart
<1>2. CASE AdminMove
  BY <1>2, MoveLiesApart
<1>3. ASSUME UNCHANGED <<tables, run>>, ~outlived' => ~outlived,
             ~outlived' => (lease' = lease \/ \A r \in Run : ~Working(r))
      PROVE  ApartInv'
  <2> SUFFICES ASSUME ~outlived' PROVE Apart'
    BY DEF ApartInv
  <2>1. OneRun /\ (\A s \in Run : PlanFits(s)) /\ ExtraIsBased /\ LieApart
    BY <1>3 DEF ApartInv, Apart
  <2>2. OneRun'
    BY <1>3, <2>1 DEF OneRun, Working
  <2>3. ExtraIsBased' /\ LieApart'
    <3>1. ExtraIsBased'
      BY <1>3, <2>1 DEF ExtraIsBased, Based, IsBase, Member, tables
    <3>2. \A k \in Key : Stored(k)' = Stored(k)
      BY <1>3 DEF Stored, Member, tables
    <3>3. LieApart'
      BY <1>3, <2>1, <3>2 DEF LieApart, tables
    <3>4. QED
      BY <3>1, <3>3
  <2>4. ASSUME NEW s \in Run PROVE PlanFits(s)'
    <3>1. PlanFits(s)
      BY <2>1
    <3>2. QED
      BY <1>3, <3>1 DEF PlanFits, Making, At, Based, IsBase, Stored, Member, Unbased, tables
  <2>5. QED
    BY <2>2, <2>3, <2>4 DEF Apart
<1>4. ASSUME NEW k \in Key, Supersede(k) \/ Discard(k) PROVE ApartInv'
  <2>1. UNCHANGED <<tables, run>> /\ lease' = lease /\ outlived' = outlived
    BY <1>4 DEF Supersede, Discard, rest
  <2>2. QED
    BY <1>3, <2>1
<1>5. CASE Book \/ AdminWrite \/ (\E n \in Network : AdminCheck(n)) \/ UNCHANGED vars
  <2>1. UNCHANGED <<tables, run>> /\ lease' = lease /\ outlived' = outlived
    BY <1>5 DEF Book, AdminWrite, AdminCheck, vars, rest, tables
  <2>2. QED
    BY <1>3, <2>1
<1>6. CASE Expire
  <2>1. UNCHANGED <<tables, run>>
    BY <1>6 DEF Expire
  <2>2. CASE \E r \in Run : Working(r)
    BY <1>6, <2>2 DEF Expire, ApartInv
  <2>3. CASE ~ \E r \in Run : Working(r)
    <3>1. outlived' = outlived
      BY <1>6, <2>3 DEF Expire
    <3>2. QED
      BY <1>3, <2>1, <2>3, <3>1
  <2>4. QED
    BY <2>2, <2>3
<1>7. QED
  BY <1>1, <1>2, <1>4, <1>5, <1>6 DEF Next, Acts

LEMMA ApartInit == Init => ApartInv
<1> SUFFICES ASSUME Init PROVE Apart
  BY DEF ApartInv
<1>1. \A r \in Run : run[r].at = "idle"
  BY IdleJob DEF Init
<1>2. \A k \in Key, p \in Pack : ~Member(k, p)
  BY DEF Init, Member
<1>3. OneRun /\ \A r \in Run : PlanFits(r)
  BY <1>1 DEF OneRun, PlanFits, Working, Making, At
<1>4. ExtraIsBased /\ LieApart
  BY <1>2 DEF ExtraIsBased, LieApart, Stored
<1>5. QED
  BY <1>3, <1>4 DEF Apart

\* "Zusatzkopien müssen woanders liegen" (server/foc/sync.ts:62): whatever fails or dies,
\* while no lease runs out under its run a key is in one base pack of a network, and its
\* packs lie at different providers.
THEOREM ExtraCopiesLieElsewhere == ASSUME ~AnyTime PROVE Spec => []CopiesApart
<1>1. Types /\ BackupInv /\ ApartInv /\ [Next]_vars => ApartInv'
  BY ApartStep DEF BackupInv
<1>2. ApartInv => CopiesApart
  BY DEF ApartInv, Apart, LieApart, CopiesApart
<1>3. QED
  BY <1>1, <1>2, ApartInit, BackupHolds, PTL DEF Spec
-----------------------------------------------------------------------------
(* Copies that nobody knows of, with one network                              *)

OneNetwork == \A m, n \in Network : m = n

\* A row names all providers that have bytes of its pack, also while it is removed.
RowsTell == \A p \in Pack : pack[p].state # "none" => held[p] \subseteq pack[p].copies

\* What run r is still to remove is all that there is of the pack.
RemovesAll(r) == At(r, "remove") => held[Min(run[r].packs)] \subseteq run[r].left

AllRemove == \A r \in Run : RemovesAll(r)

NetworkRests == Fits /\ admin.at = "idle"
PaidForInv   == NetworkRests /\ RowsTell /\ AllRemove /\ (faults = 0 => NothingOrphaned)

\* The pack a run removes.
LEMMA NowRemoved ==
  ASSUME Types, Fits, NEW r \in Run, At(r, "remove")
  PROVE  /\ Min(run[r].packs) \in run[r].packs /\ Min(run[r].packs) \in Pack
         /\ pack[Min(run[r].packs)].state # "none"
<1>1. run[r].packs \in SUBSET Pack /\ run[r].packs # {}
      /\ \A p \in run[r].packs : pack[p].state # "none"
  BY DEF Types, AnyJob, Fits, JobFits
<1>2. QED
  BY <1>1, LeastPack

LEMMA RestsStep == ASSUME OneNetwork, Types, NetworkRests, [Next]_vars PROVE NetworkRests'
<1>1. ASSUME NEW r \in Run, Acts(r) PROVE NetworkRests'
  <2>1. Fits' /\ admin' = admin
    BY <1>1, RunsFit, RunsLeave DEF NetworkRests
  <2>2. QED
    BY <2>1 DEF NetworkRests
<1>2. ~AdminMove /\ ~AdminWrite
  BY DEF AdminMove, AdminWrite, NetworkRests
<1>3. ASSUME NEW n \in Network PROVE ~AdminCheck(n)
  BY DEF OneNetwork, Types, AdminCheck
<1>4. ASSUME NEW k \in Key, Supersede(k) \/ Discard(k) PROVE admin' = admin
  BY <1>4 DEF Supersede, Discard, rest
<1>5. CASE ~\E r \in Run : Acts(r)
  <2>1. admin' = admin
    BY <1>2, <1>3, <1>4, <1>5 DEF Next, Acts, Book, Expire, rest, vars
  <2>2. run' = run /\ UNCHANGED tables
    BY <1>2, <1>5, WhoActs
  <2>3. RowsFit' /\ NewApart'
    BY <2>2 DEF NetworkRests, Fits, RowsFit, NewApart, Member, At, tables
  <2>4. ASSUME NEW r \in Run PROVE JobFits(r)'
    <3>1. JobFits(r) /\ run[r].keys \subseteq Key
      BY DEF NetworkRests, Fits, Types, AnyJob
    <3>2. \A k \in Key : life[k] = "dead" => life'[k] = "dead"
      BY DeadForGood
    <3>3. QED
      BY <2>2, <3>1, <3>2 DEF JobFits, At, Member, Backs, IsBase, tables
  <2>5. QED
    BY <2>1, <2>3, <2>4 DEF NetworkRests, Fits
<1>6. QED
  BY <1>1, <1>5

\* What a step of a run does to the bytes of a pack.
BytesNow(r, p) ==
  \/ held'[p] \subseteq held[p] /\ (pack'[p].state = "none" <=> pack[p].state = "none")
     /\ pack'[p].copies = pack[p].copies
  \/ Upload(r) /\ pack'[p].state = "none" /\ run'[r].at = "insert" /\ run'[r].new = p
  \/ Insert(r) /\ run[r].new = p /\ pack'[p].state = "stored" /\ pack'[p].copies = held'[p]

LEMMA BytesMove ==
  ASSUME Types, Fits, NEW r \in Run, Acts(r), NEW p \in Pack
  PROVE  BytesNow(r, p)
<1>1. TablesNow(r)
  BY JobMoves, TablesMove
<1>2. /\ pack \in [Pack -> PackRow] /\ held \in [Pack -> SUBSET Provider]
      /\ run[r] \in AnyJob
  BY DEF Types
<1>3. CASE UNCHANGED <<pack, held>>
  BY <1>3 DEF BytesNow
<1>4. CASE Drops(r)
  <2>1. /\ Min(run[r].packs) \in Pack /\ pack[Min(run[r].packs)].state # "none"
    BY <1>4, NowRemoved DEF Drops
  <2>2. CASE \E q \in Pack : q = Min(run[r].packs) /\ pack' = pack
                             /\ \E c : held' = [held EXCEPT ![q] = @ \ {c}]
    BY <1>2, <2>2 DEF BytesNow
  <2>3. CASE \E q \in Pack : q = Min(run[r].packs) /\ pack' = [pack EXCEPT ![q].state = "removed"]
                             /\ held' = held
    <3>1. PICK q \in Pack : q = Min(run[r].packs) /\ pack' = [pack EXCEPT ![q].state = "removed"]
      BY <2>3
    <3>2. pack'[p] = IF p = q THEN [pack[p] EXCEPT !.state = "removed"] ELSE pack[p]
      BY <1>2, <3>1
    <3>3. ASSUME NEW row, row = [pack[p] EXCEPT !.state = "removed"]
          PROVE  row.state = "removed" /\ row.copies = pack[p].copies
      <4>1. pack[p] \in PackRow
        BY <1>2
      <4>2. QED
        BY <3>3, <4>1 DEF PackRow
    <3>4. QED
      BY <2>1, <2>3, <3>1, <3>2, <3>3 DEF BytesNow
  <2>4. QED
    BY <1>3, <1>4, <2>2, <2>3 DEF Drops
<1>5. CASE Upload(r) /\ ~UNCHANGED <<pack, held>>
  <2>1. /\ run'[r].new \in Pack /\ pack[run'[r].new].state = "none" /\ run'[r].at = "insert"
        /\ \E C : held' = [held EXCEPT ![run'[r].new] = C]
        /\ pack' = pack
    BY <1>1, <1>5 DEF TablesNow, tables, Mark, Free, RemoveCopy, Removed, Note, Insert, Upload, At
  <2>2. QED
    BY <1>2, <1>5, <2>1 DEF BytesNow
<1>6. CASE Insert(r) /\ Gains(r)
  <2>1. CASE p = run[r].new
    <3>1. /\ held' = held
          /\ pack'[p] = [state |-> "stored", kind |-> run[r].kind, net |-> run[r].net, copies |-> held[p]]
      BY <1>2, <1>6, <2>1 DEF Gains
    <3>2. QED
      BY <1>6, <2>1, <3>1 DEF BytesNow
  <2>2. CASE p # run[r].new
    <3>1. held' = held /\ pack'[p] = pack[p]
      BY <1>2, <1>6, <2>2 DEF Gains
    <3>2. QED
      BY <3>1 DEF BytesNow
  <2>3. QED
    BY <2>1, <2>2
<1>7. QED
  BY <1>1, <1>3, <1>4, <1>5, <1>6 DEF TablesNow, tables, Ends, MarksKeys

\* The run that removes starts with all copies of the row, and takes each from both.
LEMMA RemoverStep ==
  ASSUME Types, Fits, RowsTell, NEW r \in Run, Acts(r), RemovesAll(r)
  PROVE  RemovesAll(r)'
<1>1. /\ run' \in [Run -> AnyJob] /\ JobNow(r) /\ run[r] \in AnyJob
      /\ held \in [Pack -> SUBSET Provider] /\ pack \in [Pack -> PackRow]
  BY JobMoves DEF Types
<1> SUFFICES ASSUME run'[r].at = "remove"
             PROVE  held'[Min(run'[r].packs)] \subseteq run'[r].left
  BY DEF RemovesAll, At
<1>2. Survey(r) \/ RemoveCopy(r) \/ Removed(r)
  BY <1>1 DEF JobNow, Plain
<1>3. ASSUME NEW dead \in SUBSET Pack, RemoveNext(r, dead), UNCHANGED held,
             \A p \in dead : pack[p].state # "none"
      PROVE  held'[Min(run'[r].packs)] \subseteq run'[r].left
  <2>1. dead # {}
    <3>1. ASSUME dead = {} PROVE run'[r].at = "pick"
      BY <1>3, <3>1, JobTo DEF RemoveNext, Step
    <3>2. QED
      BY <3>1
  <2> DEFINE job == [run[r] EXCEPT !.at = "remove", !.packs = dead, !.left = pack[Min(dead)].copies]
  <2>2. job.packs = dead /\ job.left = pack[Min(dead)].copies
    BY <1>1 DEF AnyJob
  <2>3. run'[r] = job
    BY <1>1, <1>3, <2>1 DEF RemoveNext, Do, Types
  <2> HIDE DEF job
  <2>4. Min(dead) \in dead
    BY <2>1, LeastPack
  <2>5. held[Min(dead)] \subseteq pack[Min(dead)].copies
    BY <1>3, <2>4 DEF RowsTell
  <2>6. QED
    BY <1>3, <2>2, <2>3, <2>5
<1>4. CASE Survey(r)
  <2> DEFINE dead == {p \in Pack : /\ pack[p].state = "stored" /\ pack[p].net = run[r].net
                                   /\ \A k \in Key : ~Member(k, p)}
  <2>1. RemoveNext(r, dead) /\ held' = held
    BY <1>4 DEF Survey, tables
  <2>2. dead \in SUBSET Pack /\ \A p \in dead : pack[p].state # "none"
    OBVIOUS
  <2> HIDE DEF dead
  <2>3. QED
    BY <1>3, <2>1, <2>2
<1>5. CASE RemoveCopy(r)
  <2>1. PICK c \in run[r].left : /\ held' = [held EXCEPT ![Min(run[r].packs)] = @ \ {c}]
                                 /\ run' = [run EXCEPT ![r].left = @ \ {c}]
    BY <1>5 DEF RemoveCopy
  <2>2. Min(run[r].packs) \in Pack /\ held[Min(run[r].packs)] \subseteq run[r].left
    BY <1>5, NowRemoved DEF RemoveCopy, RemovesAll
  <2>3. run'[r] = [run[r] EXCEPT !.left = run[r].left \ {c}]
    BY <2>1 DEF Types
  <2>4. run'[r].packs = run[r].packs /\ run'[r].left = run[r].left \ {c}
    BY <1>1, <2>3 DEF AnyJob
  <2>5. held'[Min(run[r].packs)] = held[Min(run[r].packs)] \ {c}
    BY <1>1, <2>1, <2>2
  <2>6. QED
    BY <2>2, <2>4, <2>5
<1>6. CASE Removed(r)
  <2>1. RemoveNext(r, run[r].packs \ {Min(run[r].packs)}) /\ held' = held /\ At(r, "remove")
    BY <1>6 DEF Removed
  <2>2. run[r].packs \in SUBSET Pack /\ \A p \in run[r].packs : pack[p].state # "none"
    BY <1>1, <2>1 DEF AnyJob, Fits, JobFits
  <2>3. QED
    BY <1>3, <2>1, <2>2
<1>7. QED
  BY <1>2, <1>4, <1>5, <1>6

LEMMA RowsTellStep ==
  ASSUME Types, Fits, RowsTell, AllRemove, NEW r \in Run, Acts(r)
  PROVE  RowsTell' /\ AllRemove'
<1>1. ASSUME NEW p \in Pack, pack'[p].state # "none" PROVE held'[p] \subseteq pack'[p].copies
  BY <1>1, BytesMove DEF BytesNow, RowsTell
<1>2. ASSUME NEW s \in Run PROVE RemovesAll(s)'
  <2>1. CASE s = r
    BY <2>1, RemoverStep DEF AllRemove
  <2>2. CASE s # r /\ At(s, "remove")
    <3>1. run'[s] = run[s]
      BY <2>2, JobMoves
    <3>2. Min(run[s].packs) \in Pack /\ pack[Min(run[s].packs)].state # "none"
      BY <2>2, NowRemoved
    <3>3. held'[Min(run[s].packs)] \subseteq held[Min(run[s].packs)]
      <4>1. BytesNow(r, Min(run[s].packs))
        BY <3>2, BytesMove
      <4>2. ~(Insert(r) /\ run[r].new = Min(run[s].packs))
        BY <3>2 DEF Insert, Fits, JobFits
      <4>3. pack'[Min(run[s].packs)].state # "none"
        BY <3>2, RunsKeep DEF Stays
      <4>4. QED
        BY <4>1, <4>2, <4>3 DEF BytesNow
    <3>4. QED
      BY <2>2, <3>1, <3>3 DEF AllRemove, RemovesAll, At
  <2>3. CASE s # r /\ ~At(s, "remove")
    <3>1. run'[s] = run[s]
      BY <2>3, JobMoves
    <3>2. QED
      BY <2>3, <3>1 DEF RemovesAll, At
  <2>4. QED
    BY <2>1, <2>2, <2>3
<1>3. QED
  BY <1>1, <1>2 DEF RowsTell, AllRemove

LEMMA OrphansStep ==
  ASSUME Types, Fits, RowsTell, AllRemove, NothingOrphaned, NEW r \in Run, Acts(r),
         ~Fail(r), ~Crash(r)
  PROVE  NothingOrphaned'
<1>1. /\ run[r] \in AnyJob /\ pack \in [Pack -> PackRow] /\ held \in [Pack -> SUBSET Provider]
      /\ JobNow(r) /\ \A s \in Run : s # r => run'[s] = run[s]
  BY JobMoves DEF Types
<1> SUFFICES ASSUME NEW p \in Pack, held'[p] # {}
             PROVE  pack'[p].state = "stored" \/ \E s \in Run : At(s, "insert")' /\ run'[s].new = p
  BY DEF NothingOrphaned, At
<1>2. CASE Upload(r) /\ run'[r].at = "insert" /\ run'[r].new = p
  BY <1>2 DEF At
<1>3. CASE Insert(r) /\ run[r].new = p /\ pack'[p].state = "stored"
  BY <1>3
<1>4. CASE held'[p] \subseteq held[p] /\ ~(Insert(r) /\ run[r].new = p)
  <2>1. held[p] # {}
    BY <1>4
  <2>2. CASE \E s \in Run : At(s, "insert") /\ run[s].new = p
    <3>1. PICK s \in Run : At(s, "insert") /\ run[s].new = p
      BY <2>2
    <3>2. CASE s # r
      BY <1>1, <3>1, <3>2 DEF At
    <3>3. CASE s = r
      <4>1. Insert(r)
        BY <3>1, <3>3 DEF Acts, Sync, At, Begin, Acquire, Busy, Release, Mark, Free, Survey,
           RemoveCopy, Removed, Pick, Unlink, Note, Backlog, Extra, Holders, Read, Upload, NoUpload
      <4>2. QED
        BY <1>4, <3>1, <3>3, <4>1
    <3>4. QED
      BY <3>2, <3>3
  <2>3. CASE pack[p].state = "stored"
    <3>1. CASE pack'[p] = pack[p]
      BY <2>3, <3>1
    <3>2. CASE pack'[p] # pack[p]
      <4>1. Removed(r)
        <5>1. CASE Insert(r)
          <6>1. Gains(r)
            BY <5>1, AddGains
          <6>2. pack'[p] = pack[p]
            BY <1>1, <1>4, <5>1, <6>1 DEF Gains
          <6>3. QED
            BY <3>2, <6>2
        <5>2. CASE ~Insert(r) /\ ~Removed(r)
          <6>1. pack' = pack
            BY <5>2 DEF Acts, Sync, Begin, Acquire, Busy, Release, Fail, Crash, Mark, Free, Survey,
               RemoveCopy, Pick, Unlink, Note, Backlog, Extra, Holders, Read, Upload, NoUpload, tables
          <6>2. QED
            BY <3>2, <6>1
        <5>3. QED
          BY <5>1, <5>2
      <4>2. /\ run[r].left = {} /\ held' = held /\ At(r, "remove")
            /\ pack' = [pack EXCEPT ![Min(run[r].packs)].state = "removed"]
        BY <4>1 DEF Removed
      <4>3. p = Min(run[r].packs)
        BY <1>1, <3>2, <4>2
      <4>4. held[p] = {}
        BY <4>2, <4>3 DEF AllRemove, RemovesAll
      <4>5. QED
        BY <2>1, <4>4
    <3>3. QED
      BY <3>1, <3>2
  <2>4. QED
    BY <2>1, <2>2, <2>3 DEF NothingOrphaned
<1>5. BytesNow(r, p)
  BY BytesMove
<1>6. CASE held'[p] \subseteq held[p] /\ Insert(r) /\ run[r].new = p
  <2>1. pack'[p] = [state |-> "stored", kind |-> run[r].kind, net |-> run[r].net, copies |-> held[p]]
    BY <1>1, <1>6, AddGains DEF Gains
  <2>2. QED
    BY <2>1
<1>7. QED
  BY <1>2, <1>3, <1>4, <1>5, <1>6 DEF BytesNow

LEMMA PaidForStep ==
  ASSUME OneNetwork, Types, PaidForInv, [Next]_vars
  PROVE  PaidForInv'
<1>1. NetworkRests' /\ Fits
  BY RestsStep DEF PaidForInv, NetworkRests
<1>2. ASSUME NEW r \in Run, Acts(r) PROVE PaidForInv'
  <2>1. RowsTell' /\ AllRemove'
    BY <1>1, <1>2, RowsTellStep DEF PaidForInv
  <2>2. ASSUME faults' = 0 PROVE NothingOrphaned'
    <3>1. faults \in Nat /\ faults' >= faults /\ faults' \in Nat
      BY <1>2, RunsLeave DEF Types
    <3>2. faults = 0 /\ ~Fail(r) /\ ~Crash(r)
      BY <2>2, <3>1 DEF Fail, Crash, Fault
    <3>3. QED
      BY <1>1, <1>2, <3>2, OrphansStep DEF PaidForInv
  <2>3. QED
    BY <1>1, <2>1, <2>2 DEF PaidForInv
<1>3. CASE ~\E r \in Run : Acts(r)
  <2>1. run' = run /\ UNCHANGED tables
    BY <1>3, WhoActs DEF PaidForInv, NetworkRests, AdminMove
  <2>2. faults' = 0 => faults = 0
    <3>1. faults \in Nat
      BY DEF Types
    <3>2. faults' = faults \/ faults' = faults + 1
      <4>1. ASSUME NEW k \in Key, Supersede(k) \/ Discard(k) PROVE faults' = faults
        BY <4>1 DEF Supersede, Discard, rest
      <4>2. ASSUME NEW n \in Network, AdminCheck(n) PROVE faults' = faults
        BY <4>2 DEF AdminCheck
      <4>3. QED
        BY <1>3, <4>1, <4>2 DEF Next, Acts, Book, Expire, AdminMove, AdminWrite, Fault, rest, vars
    <3>3. QED
      BY <3>1, <3>2
  <2>3. RowsTell' /\ AllRemove' /\ (NothingOrphaned => NothingOrphaned')
    BY <2>1 DEF PaidForInv, RowsTell, AllRemove, RemovesAll, NothingOrphaned, At, tables
  <2>4. QED
    BY <1>1, <2>2, <2>3 DEF PaidForInv
<1>4. QED
  BY <1>2, <1>3

\* The upload of a pack and the transaction that enters it (server/foc/sync.ts:326): as
\* long as no await has thrown, no run has died and none has outlived its lease, and the
\* network stays, every copy at a provider is one of a stored pack or of one that its run
\* is about to enter.  With a fault or another network NothingOrphaned does not hold.
THEOREM PaidCopiesAreKnown == ASSUME OneNetwork PROVE Spec => [](faults = 0 => NothingOrphaned)
<1>1. Init => Types /\ PaidForInv
  <2> SUFFICES ASSUME Init PROVE PaidForInv
    BY TypesInit
  <2>1. Fits /\ admin.at = "idle"
    BY BackupInit DEF BackupInv, Init
  <2>2. \A r \in Run : run[r].at = "idle"
    BY IdleJob DEF Init
  <2>3. RowsTell /\ AllRemove /\ NothingOrphaned
    BY <2>2 DEF Init, RowsTell, AllRemove, RemovesAll, NothingOrphaned, NoPack, At
  <2>4. QED
    BY <2>1, <2>3 DEF PaidForInv, NetworkRests
<1>2. Types /\ PaidForInv /\ [Next]_vars => Types' /\ PaidForInv'
  BY TypesStep, PaidForStep
<1>3. PaidForInv => (faults = 0 => NothingOrphaned)
  BY DEF PaidForInv
<1>4. QED
  BY <1>1, <1>2, <1>3, PTL DEF Spec
=============================================================================

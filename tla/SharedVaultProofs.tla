--------------------------- MODULE SharedVaultProofs ---------------------------
(***************************************************************************)
(* For any team, bounds and interleaving of browsers and requests, as long *)
(* as no generation is lost: a generation of a shared vault has one key,   *)
(* and what is written is encrypted with a key that no former member has   *)
(* unwrapped.                                                              *)
(*                                                                         *)
(* The argument: a key belongs to a generation (Claimed) from the moment   *)
(* its transaction hands it out.  A rotation that waits for its            *)
(* transaction carries a key that belongs to none and that nobody else has *)
(* seen, and the transaction gives it the generation after all others.     *)
(***************************************************************************)
EXTENDS SharedVault, WellFoundedInduction, TLAPS

USE BoundAssumption, BusyAssumption DEF BoundAssumption, BusyAssumption

\* As Job and TypeOK, without the bound of the key pairs (a sum over all persons).
AnyJob == [at : Step, fresh : BOOLEAN, grants : SUBSET (Gen \X Person), ring : [Gen -> {0} \cup Key],
           pubs : [Person -> Nat], gen : {0} \cup Gen, base : 0..MaxVersion,
           role : Maybe, target : Person]

TypeInv ==
  /\ team \subseteq Person
  /\ role \in [Person -> Maybe]
  /\ pub \in [Person -> Nat]
  /\ env \in [Gen -> [Person -> [key : {0} \cup Key, pub : Nat]]]
  /\ rotate \in BOOLEAN
  /\ body \in [version : 1..MaxVersion, gen : Gen, key : Key]
  /\ job \in [Person -> AnyJob]
  /\ keys \in Key
  /\ know \in [Person -> SUBSET Key]
  /\ fell \in BOOLEAN

Granting == {"grant", "members", "grantTx"}

\* A rotation whose key nobody has yet.
Pending(j) == j.fresh /\ j.at \in Granting

\* A generation that a browser has the key of.
Settled(j, g) == j.ring[g] # 0 /\ ~(Pending(j) /\ j.gen = g)

\* What a request carries: keys of what it hands out or writes; and a rotation is for
\* its maker too, and for one generation.
JobFits(p, j) ==
  /\ j.at \in Granting \cup {"put", "putTx"} => j.gen \in Gen /\ j.ring[j.gen] # 0
  /\ j.at \in Granting => \A x \in j.grants : j.ring[x[1]] # 0
  /\ Pending(j) => <<j.gen, p>> \in j.grants /\ j.grants \subseteq {j.gen} \X Person

JobsFit == \A p \in Person : JobFits(p, job[p])

\* An envelope is there or is not.
WholeEnvelopes == \A g \in Gen, q \in Person : Has(q, g) \/ env[g][q] = NoEnv

\* Somebody or something has k as the key of the generation g.
Claimed(g, k) ==
  \/ \E q \in Person : Has(q, g) /\ env[g][q].key = k
  \/ body.gen = g /\ body.key = k
  \/ \E p \in Person : Settled(job[p], g) /\ job[p].ring[g] = k

\* A generation has one key, and the newest one is in an envelope.
GenerationsAgree ==
  \A g \in Gen, k, l \in Key : Claimed(g, k) => g <= Current /\ (Claimed(g, l) => k = l)

\* The key of a rotation that waits is new, and its own.
PendingKey(p) == job[p].ring[job[p].gen]
PendingIsNew ==
  \A p \in Person : Pending(job[p]) =>
    /\ PendingKey(p) <= keys
    /\ \A g \in Gen : ~Claimed(g, PendingKey(p))
    /\ \A q \in Person : PendingKey(p) \notin know[q]
    /\ \A q \in Person \ {p} : Pending(job[q]) => PendingKey(q) # PendingKey(p)

\* No key is used that was not made.
KeysAreMade ==
  \A k \in Key : k > keys => /\ \A g \in Gen : ~Claimed(g, k)
                             /\ \A q \in Person : k \notin know[q]

\* While no rotation is needed, who is outside does not know the current key.
OutsidersAreOut ==
  ~rotate => \A q \in Person : role[q] = "none" =>
    \A k \in know[q] : Current \in Gen => ~Claimed(Current, k)

KeyInv == GenerationsAgree /\ PendingIsNew /\ KeysAreMade /\ OutsidersAreOut

VaultInv == TypeInv /\ JobsFit /\ WholeEnvelopes /\ (~fell => KeyInv)

\* What currentGeneration reads.
IsNewest ==
  /\ Current \in 0..MaxGen
  /\ Current \in Gen => \E q \in Person : Has(q, Current)
  /\ \A g \in Gen, q \in Person : Has(q, g) => g <= Current

-----------------------------------------------------------------------------
(* The newest generation                                                   *)

\* A set of numbers up to n has a greatest one.
LEMMA GreatestExists ==
  ASSUME NEW n \in Nat, NEW S, S \subseteq 0..n, S # {}
  PROVE  \E x \in S : \A y \in S : x >= y
<1> DEFINE Less == {ss \in Nat \X Nat : ss[1] < ss[2]}
           T    == {n - x : x \in S}
<1>1. IsWellFoundedOn(Less, Nat)
  <2>1. Less = OpToRel(<, Nat)
    BY DEF OpToRel
  <2>2. QED
    BY <2>1, NatLessThanWellFounded
<1>2. \A x \in S : x \in Nat /\ n - x \in Nat
  OBVIOUS
<1>3. T \subseteq Nat /\ T # {}
  <2>1. T \subseteq Nat
    BY <1>2
  <2>2. PICK x : x \in S
    OBVIOUS
  <2>3. n - x \in T
    BY <2>2
  <2>4. QED
    BY <2>1, <2>3
<1> HIDE DEF Less, T
<1>4. PICK t \in T : \A u \in T : ~(<<u, t>> \in Less)
  BY <1>1, <1>3, WFMin
<1>5. ASSUME NEW u \in T PROVE t <= u
  <2>1. <<u, t>> \in Nat \X Nat /\ u \in Nat /\ t \in Nat
    BY <1>3
  <2>2. ~(<<u, t>>[1] < <<u, t>>[2])
    BY <1>4, <2>1 DEF Less
  <2>3. QED
    BY <2>1, <2>2
<1>6. PICK x \in S : t = n - x
  BY DEF T
<1>7. ASSUME NEW y \in S PROVE x >= y
  <2>1. n - y \in T /\ n - x <= n - y
    BY <1>5, <1>6 DEF T
  <2>2. QED
    BY <1>2, <2>1
<1>8. QED
  BY <1>7

\* currentGeneration is the newest generation with an envelope, or 0.
LEMMA CurrentIsNewest == IsNewest
<1> DEFINE S == {0} \cup {g \in Gen : \E p \in Person : Has(p, g)}
<1>1. MaxGen \in Nat /\ S \subseteq 0..MaxGen /\ S # {}
  BY DEF Gen
<1>2. \E x \in S : \A y \in S : x >= y
  BY <1>1, GreatestExists
<1>3. Current \in S /\ \A y \in S : Current >= y
  BY <1>2 DEF Current, Max
<1>4. 0 \notin Gen
  BY DEF Gen
<1>5. \A g \in Gen, q \in Person : Has(q, g) => g <= Current
  <2>1. SUFFICES ASSUME NEW g \in Gen, NEW q \in Person, Has(q, g) PROVE g <= Current
    OBVIOUS
  <2>2. g \in S
    BY <2>1
  <2>3. Current >= g /\ Current \in Nat /\ g \in Nat
    BY <1>1, <1>3, <2>2
  <2>4. QED
    BY <2>3
<1>6. QED
  BY <1>1, <1>3, <1>4, <1>5 DEF IsNewest

LEMMA CurrentIsNewestNext == IsNewest'
BY CurrentIsNewest, PTL

\* It stays when its envelopes and those of later generations stay the same in kind.
LEMMA CurrentStays ==
  ASSUME \A g \in Gen, q \in Person : Has(q, g)' => g <= Current,
         ~(Current' < Current)
  PROVE  Current' = Current
<1>1. Current \in 0..MaxGen /\ Current' \in 0..MaxGen /\ MaxGen \in Nat
  BY CurrentIsNewest, CurrentIsNewestNext DEF IsNewest
<1>2. (Current \in Gen => \E q \in Person : Has(q, Current))'
  BY CurrentIsNewestNext DEF IsNewest
<1>3. Current' <= Current
  <2>1. CASE Current' = 0
    BY <1>1, <2>1
  <2>2. CASE Current' # 0
    <3>1. Current' \in Gen
      BY <1>1, <2>2 DEF Gen
    <3>2. QED
      BY <1>2, <3>1
  <2>3. QED
    BY <2>1, <2>2
<1>4. QED
  BY <1>1, <1>3

LEMMA SameEnvelopes == env' = env => Current' = Current
BY DEF Current, Has

-----------------------------------------------------------------------------
(* Types                                                                   *)

LEMMA InitTypeInv == Init => TypeInv /\ JobsFit /\ WholeEnvelopes
<1>1. SUFFICES ASSUME Init PROVE TypeInv /\ JobsFit /\ WholeEnvelopes
  OBVIOUS
<1>2. role \in [Person -> Maybe] /\ 1 \in Key /\ 1 \in Gen /\ 1 \in 1..MaxVersion
  BY <1>1 DEF Init, Key, Gen
<1>3. ASSUME NEW p \in Person PROVE Idle(p) \in AnyJob /\ JobFits(p, Idle(p))
  BY DEF Idle, AnyJob, NoRing, Step, Maybe, JobFits, Granting, Pending
<1>4. job \in [Person -> AnyJob] /\ JobsFit
  BY <1>1, <1>3 DEF Init, JobsFit
<1>5. env \in [Gen -> [Person -> [key : {0} \cup Key, pub : Nat]]] /\ WholeEnvelopes
  BY <1>1, <1>2 DEF Init, NoEnv, WholeEnvelopes, Has
<1>6. pub \in [Person -> Nat] /\ know \in [Person -> SUBSET Key]
  BY <1>1 DEF Init
<1>7. body \in [version : 1..MaxVersion, gen : Gen, key : Key] /\ keys \in Key
  BY <1>1, <1>2 DEF Init
<1>8. QED
  BY <1>1, <1>2, <1>4, <1>5, <1>6, <1>7 DEF Init, TypeInv

\* What a browser and its request may become.
LEMMA JobTypes ==
  ASSUME TypeInv, JobsFit, NEW p \in Person, NEW j \in AnyJob, JobFits(p, j), Do(p, j)
  PROVE  job' \in [Person -> AnyJob] /\ JobsFit'
<1>1. job' = [job EXCEPT ![p] = j] /\ job \in [Person -> AnyJob]
  BY DEF Do, TypeInv
<1>2. \A q \in Person : job'[q] = IF q = p THEN j ELSE job[q]
  BY <1>1
<1>3. QED
  BY <1>1, <1>2 DEF JobsFit

LEMMA IdleTypes ==
  ASSUME NEW p \in Person PROVE Idle(p) \in AnyJob /\ JobFits(p, Idle(p)) /\ Idle(p).ring = NoRing
                                /\ ~Pending(Idle(p))
BY DEF Idle, AnyJob, NoRing, Step, Maybe, JobFits, Granting, Pending

LEMMA RingTypes ==
  ASSUME TypeInv, NEW p \in Person
  PROVE  /\ Ring(p) \in [Gen -> {0} \cup Key]
         /\ \A g \in Gen : Ring(p)[g] # 0 => Has(p, g) /\ Ring(p)[g] = env[g][p].key
BY DEF TypeInv, Ring, Has

\* What each step makes of the job of p: the steps of the browser, ...
LEMMA RotateJob ==
  ASSUME TypeInv, NEW p \in Person, Rotate(p)
  PROVE  \E j \in AnyJob :
           /\ JobFits(p, j) /\ Do(p, j)
           /\ Pending(j) /\ j.ring[j.gen] = keys + 1 /\ keys + 1 \in Key
           /\ \A g \in Gen : Settled(j, g) => j.ring[g] = Ring(p)[g]
<1> DEFINE g == Current + 1
           j == [Idle(p) EXCEPT !.at = "grant", !.fresh = TRUE, !.gen = g,
                                !.grants = {g} \X Members, !.pubs = pub,
                                !.ring = [Ring(p) EXCEPT ![g] = keys + 1], !.base = body.version]
<1>1. g \in Gen /\ keys + 1 \in Key /\ keys + 1 # 0
  <2>1. Current \in 0..MaxGen /\ Current < MaxGen /\ keys < MaxKeys
    BY CurrentIsNewest DEF IsNewest, Rotate
  <2>2. keys \in 1..MaxKeys
    BY DEF TypeInv, Key
  <2>3. QED
    BY <2>1, <2>2 DEF Gen, Key
<1>2. Do(p, j) /\ role[p] = "manage"
  BY DEF Rotate, Load
<1>3. p \in Members /\ Members \subseteq Person
  BY <1>2 DEF Members
<1>4. Ring(p) \in [Gen -> {0} \cup Key]
  BY RingTypes
<1> HIDE DEF g
<1>5. [Ring(p) EXCEPT ![g] = keys + 1] \in [Gen -> {0} \cup Key]
  BY <1>1, <1>4
<1>6. {g} \X Members \in SUBSET (Gen \X Person) /\ <<g, p>> \in {g} \X Members
  BY <1>1, <1>3
<1>7. pub \in [Person -> Nat] /\ body.version \in 0..MaxVersion
  BY DEF TypeInv
<1>8. j \in AnyJob
  BY <1>1, <1>5, <1>6, <1>7 DEF AnyJob, Idle, Step, Maybe
<1>9. /\ j.at = "grant" /\ j.fresh = TRUE /\ j.gen = g /\ j.grants = {g} \X Members
      /\ j.ring = [Ring(p) EXCEPT ![g] = keys + 1]
  BY DEF Idle
<1>10. j.ring[g] = keys + 1 /\ \A h \in Gen : h # g => j.ring[h] = Ring(p)[h]
  BY <1>1, <1>4, <1>9
<1> HIDE DEF j
<1>11. Pending(j) /\ \A x \in j.grants : x[1] = g
  BY <1>9 DEF Pending, Granting
<1>12. JobFits(p, j)
  BY <1>1, <1>3, <1>6, <1>9, <1>10, <1>11 DEF JobFits
<1>13. \A h \in Gen : Settled(j, h) => j.ring[h] = Ring(p)[h]
  BY <1>9, <1>10, <1>11 DEF Settled
<1>14. QED
  BY <1>1, <1>2, <1>8, <1>9, <1>10, <1>11, <1>12, <1>13

\* ... those that load the keys and make none, ...
LEMMA LoadJob ==
  ASSUME TypeInv, NEW p \in Person, Look(p) \/ Distribute(p) \/ Edit(p)
  PROVE  \E j \in AnyJob :
           /\ JobFits(p, j) /\ Load(p, j) /\ ~Pending(j)
           /\ \A g \in Gen : j.ring[g] # 0 => j.ring[g] = Ring(p)[g]
<1>1. Ring(p) \in [Gen -> {0} \cup Key] /\ pub \in [Person -> Nat] /\ body.version \in 0..MaxVersion
  BY RingTypes DEF TypeInv
<1>2. CASE Look(p)
  BY <1>2, IdleTypes DEF Look, NoRing
<1>3. CASE Edit(p)
  <2> DEFINE j == [Idle(p) EXCEPT !.at = "put", !.gen = Current, !.ring = Ring(p), !.base = body.version]
  <2>1. Current \in Gen /\ Ring(p)[Current] # 0 /\ Load(p, j)
    <3>1. Current \in 0..MaxGen /\ Current # 0 /\ MaxGen \in Nat
      BY <1>3, CurrentIsNewest DEF Edit, IsNewest
    <3>2. QED
      BY <1>3, <3>1 DEF Edit, Gen
  <2>2. j \in AnyJob
    BY <1>1, <2>1 DEF AnyJob, Idle, Step, Maybe
  <2>3. j.at = "put" /\ j.fresh = FALSE /\ j.gen = Current /\ j.ring = Ring(p)
    BY DEF Idle
  <2> HIDE DEF j
  <2>4. JobFits(p, j) /\ ~Pending(j)
    BY <2>1, <2>3 DEF JobFits, Pending, Granting
  <2>5. QED
    BY <2>1, <2>2, <2>3, <2>4
<1>4. CASE Distribute(p)
  <2> DEFINE missing == {x \in Gen \X Members : Ring(p)[x[1]] # 0 /\ ~Has(x[2], x[1])}
  <2>1. PICK x \in missing :
          Load(p, [Idle(p) EXCEPT !.at = "grant", !.grants = missing, !.gen = x[1],
                                  !.ring = Ring(p), !.pubs = pub])
    BY <1>4 DEF Distribute
  <2>2. x[1] \in Gen /\ missing \in SUBSET (Gen \X Person)
    BY DEF Members
  <2>3. \A y \in missing : Ring(p)[y[1]] # 0
    OBVIOUS
  <2> HIDE DEF missing
  <2>4. PICK g \in Gen : g = x[1]
    BY <2>2
  <2> DEFINE j == [Idle(p) EXCEPT !.at = "grant", !.grants = missing, !.gen = g,
                                  !.ring = Ring(p), !.pubs = pub]
  <2>5. j \in AnyJob
    <3>1. Idle(p) \in AnyJob /\ "grant" \in Step
      BY IdleTypes DEF Step
    <3>2. QED
      BY <1>1, <2>2, <3>1 DEF AnyJob
  <2>6. j.at = "grant" /\ j.fresh = FALSE /\ j.gen = g /\ j.ring = Ring(p) /\ j.grants = missing
    BY DEF Idle
  <2>7. Load(p, j)
    BY <2>1, <2>4
  <2> HIDE DEF j
  <2>8. JobFits(p, j) /\ ~Pending(j)
    BY <2>1, <2>3, <2>4, <2>6 DEF JobFits, Pending, Granting
  <2>9. QED
    BY <2>5, <2>6, <2>7, <2>8
<1>5. QED
  BY <1>2, <1>3, <1>4

\* ... and a grant that is over.
LEMMA ContinueJob ==
  ASSUME TypeInv, JobsFit, NEW p \in Person, At(p, "grant") \/ At(p, "members") \/ At(p, "grantTx"),
         Continue(p)
  PROVE  \E j \in AnyJob : /\ JobFits(p, j) /\ Do(p, j) /\ ~Pending(j)
                           /\ \A g \in Gen : j.ring[g] # 0 => Settled(job[p], g) /\ j.ring[g] = job[p].ring[g]
<1>1. job[p] \in AnyJob /\ JobFits(p, job[p]) /\ job[p].at \in Granting
  BY DEF TypeInv, JobsFit, At, Granting
<1>2. CASE Do(p, Idle(p))
  BY <1>2, IdleTypes DEF NoRing
<1>3. CASE Rest(p) # {}
  <2> DEFINE j(x) == [job[p] EXCEPT !.at = "grant", !.grants = Rest(p), !.gen = x[1], !.role = "none"]
  <2>1. PICK x \in Rest(p) : Do(p, j(x))
    BY <1>3 DEF Continue
  <2>2. ~job[p].fresh
    BY <1>1, <2>1 DEF Rest, JobFits, Pending
  <2>3. x \in Gen \X Person /\ job[p].ring[x[1]] # 0 /\ Rest(p) \in SUBSET (Gen \X Person)
        /\ \A y \in Rest(p) : job[p].ring[y[1]] # 0
    BY <1>1, <2>1 DEF Rest, JobFits, AnyJob
  <2>4. j(x) \in AnyJob
    BY <1>1, <2>3 DEF AnyJob, Step, Maybe
  <2>5. /\ j(x).at = "grant" /\ j(x).fresh = FALSE /\ j(x).gen = x[1] /\ j(x).ring = job[p].ring
        /\ j(x).grants = Rest(p)
    BY <1>1, <2>2 DEF AnyJob
  <2> HIDE DEF j
  <2>6. JobFits(p, j(x)) /\ ~Pending(j(x))
    BY <2>3, <2>5 DEF JobFits, Pending, Granting
  <2>7. QED
    BY <2>1, <2>2, <2>4, <2>5, <2>6 DEF Settled, Pending
<1>4. QED
  BY <1>2, <1>3 DEF Continue

\* The steps of a handler that change nothing but what it has read.
LEMMA HandlerJob ==
  ASSUME TypeInv, JobsFit, NEW p \in Person,
         \/ GrantRole(p) \/ GrantMembers(p) \/ GrantRefused(p) \/ PutRole(p)
         \/ Target(p) \/ Count(p)
  PROVE  /\ \E j \in AnyJob :
              /\ JobFits(p, j) /\ Do(p, j)
              /\ Pending(j) => Pending(job[p]) /\ j.gen = job[p].gen /\ j.ring = job[p].ring
              /\ \A g \in Gen : Settled(j, g) => Settled(job[p], g) /\ j.ring[g] = job[p].ring[g]
         /\ UNCHANGED <<crew, pub, vault, keys, know, fell>>
<1>1. job[p] \in AnyJob /\ JobFits(p, job[p]) /\ role[p] \in Maybe
  BY DEF TypeInv, JobsFit
<1> DEFINE Fine(j) ==
      /\ j \in AnyJob /\ JobFits(p, j) /\ Do(p, j)
      /\ Pending(j) => Pending(job[p]) /\ j.gen = job[p].gen /\ j.ring = job[p].ring
      /\ \A g \in Gen : Settled(j, g) => Settled(job[p], g) /\ j.ring[g] = job[p].ring[g]
<1>2. UNCHANGED <<crew, pub, vault, keys, know, fell>>
  BY DEF GrantRole, GrantMembers, GrantRefused, PutRole, Target, Count
<1>3. CASE Do(p, Idle(p))
  <2>1. Fine(Idle(p))
    BY <1>3, IdleTypes DEF Settled, NoRing
  <2>2. QED
    BY <1>2, <2>1
<1>4. ASSUME NEW s \in {"members", "grantTx", "putTx"}, NEW r \in Maybe,
             Do(p, [job[p] EXCEPT !.at = s, !.role = r]),
             s \in {"members", "grantTx"} <=> job[p].at \in Granting,
             s = "putTx" <=> job[p].at = "put"
      PROVE  \E j : Fine(j)
  <2> DEFINE j == [job[p] EXCEPT !.at = s, !.role = r]
  <2>1. j \in AnyJob
    BY <1>1 DEF AnyJob, Step
  <2>2. /\ j.at = s /\ j.fresh = job[p].fresh /\ j.gen = job[p].gen /\ j.ring = job[p].ring
        /\ j.grants = job[p].grants
    BY <1>1 DEF AnyJob
  <2>3. Do(p, j)
    BY <1>4
  <2> HIDE DEF j
  <2>4. Pending(j) <=> Pending(job[p])
    BY <1>4, <2>2 DEF Pending, Granting
  <2>5. JobFits(p, j)
    BY <1>1, <1>4, <2>2, <2>4 DEF JobFits, Granting
  <2>6. Fine(j)
    BY <2>1, <2>2, <2>3, <2>4, <2>5 DEF Settled
  <2>7. QED
    BY <2>6
<1>5. CASE GrantRole(p)
  <2>1. CASE Do(p, [job[p] EXCEPT !.at = "members", !.role = role[p]])
    BY <1>1, <1>2, <1>4, <1>5, <2>1 DEF GrantRole, At, Granting
  <2>2. CASE Continue(p)
    BY <1>2, <1>5, <2>2, ContinueJob DEF GrantRole, Settled
  <2>3. QED
    BY <1>5, <2>1, <2>2 DEF GrantRole
<1>6. CASE GrantMembers(p)
  <2>1. CASE Goto(p, "grantTx")
    <3>1. Do(p, [job[p] EXCEPT !.at = "grantTx", !.role = job[p].role]) /\ job[p].role \in Maybe
      <4>1. [job[p] EXCEPT !.at = "grantTx", !.role = job[p].role] = [job[p] EXCEPT !.at = "grantTx"]
        BY <1>1 DEF AnyJob
      <4>2. QED
        BY <1>1, <2>1, <4>1 DEF Goto, Do, AnyJob
    <3>2. QED
      BY <1>2, <1>4, <1>6, <3>1 DEF GrantMembers, At, Granting
  <2>2. CASE Continue(p)
    BY <1>2, <1>6, <2>2, ContinueJob DEF GrantMembers, Settled
  <2>3. QED
    BY <1>6, <2>1, <2>2 DEF GrantMembers
<1>7. CASE GrantRefused(p)
  <2>1. CASE Continue(p)
    BY <1>2, <1>7, <2>1, ContinueJob DEF GrantRefused, Settled
  <2>2. QED
    BY <1>3, <1>7, <2>1 DEF GrantRefused
<1>8. CASE PutRole(p)
  <2>1. CASE Do(p, [job[p] EXCEPT !.at = "putTx", !.role = role[p]])
    BY <1>1, <1>2, <1>4, <1>8, <2>1 DEF PutRole, At, Granting
  <2>2. QED
    BY <1>3, <1>8, <2>1 DEF PutRole
<1>9. CASE Target(p) \/ Count(p)
  <2>1. ASSUME NEW s \in {"count", "change"}, Goto(p, s), job[p].at \in {"target", "count"}
        PROVE  \E j : Fine(j)
    <3> DEFINE j == [job[p] EXCEPT !.at = s]
    <3>1. j \in AnyJob /\ Do(p, j)
      BY <1>1, <2>1 DEF AnyJob, Step, Goto, Do
    <3>2. j.at = s /\ j.ring = job[p].ring
      BY <1>1 DEF AnyJob
    <3> HIDE DEF j
    <3>3. ~Pending(j) /\ ~Pending(job[p]) /\ JobFits(p, j)
      BY <2>1, <3>2 DEF Pending, Granting, JobFits
    <3>4. Fine(j)
      BY <3>1, <3>2, <3>3 DEF Settled
    <3>5. QED
      BY <3>4
  <2>2. Do(p, Idle(p)) \/ Goto(p, "count") \/ Goto(p, "change")
    BY <1>9 DEF Target, Count
  <2>3. job[p].at \in {"target", "count"}
    BY <1>9 DEF Target, Count, At
  <2>4. QED
    BY <1>2, <1>3, <2>1, <2>2, <2>3
<1>10. QED
  BY <1>5, <1>6, <1>7, <1>8, <1>9

\* The transaction of a grant.
LEMMA InsertStep ==
  ASSUME TypeInv, JobsFit, WholeEnvelopes, NEW p \in Person, At(p, "grantTx"), Insert(p)
  PROVE  /\ env' \in [Gen -> [Person -> [key : {0} \cup Key, pub : Nat]]]
         /\ WholeEnvelopes'
         /\ \A g \in Gen, q \in Person :
              \/ env'[g][q] = env[g][q]
              \/ g = job[p].gen /\ ~Has(q, g) /\ env'[g][q].key = job[p].ring[g]
         /\ job[p].fresh /\ ~Has(p, job[p].gen) => env'[job[p].gen][p].key = job[p].ring[job[p].gen]
         /\ \E j \in AnyJob :
              /\ JobFits(p, j) /\ Do(p, j) /\ ~Pending(j)
              /\ \A g \in Gen : j.ring[g] # 0 => j.ring[g] = job[p].ring[g]
              /\ ~job[p].fresh => \A g \in Gen : j.ring[g] # 0 => Settled(job[p], g)
         /\ rotate' = (rotate /\ ~job[p].fresh)
<1> DEFINE g0 == job[p].gen
           k0 == job[p].ring[g0]
           e0 == [q \in Person |-> IF q \in Now(p) /\ env[g0][q] = NoEnv
                                   THEN [key |-> k0, pub |-> job[p].pubs[q]] ELSE env[g0][q]]
<1>1. job[p] \in AnyJob /\ JobFits(p, job[p]) /\ job[p].at = "grantTx"
  BY DEF TypeInv, JobsFit, At
<1>2. g0 \in Gen /\ k0 \in Key /\ k0 # 0
  BY <1>1 DEF JobFits, Granting, AnyJob
<1>3. env' = [env EXCEPT ![g0] = e0]
  BY DEF Insert
<1>4. \A q \in Person : job[p].pubs[q] \in Nat /\ env[g0][q] \in [key : {0} \cup Key, pub : Nat]
  BY <1>1, <1>2 DEF TypeInv, AnyJob
<1>5. e0 \in [Person -> [key : {0} \cup Key, pub : Nat]]
  BY <1>2, <1>4
<1>6. \A q \in Person : \/ e0[q] = env[g0][q]
                        \/ env[g0][q] = NoEnv /\ e0[q].key = k0
  OBVIOUS
<1>7. p \in Now(p) \/ ~job[p].fresh
  BY <1>1 DEF JobFits, Pending, Granting, Now
<1>8. env[g0][p] = NoEnv /\ p \in Now(p) => e0[p].key = k0
  OBVIOUS
<1> HIDE DEF e0
<1>9. env' \in [Gen -> [Person -> [key : {0} \cup Key, pub : Nat]]]
  BY <1>2, <1>3, <1>5 DEF TypeInv
<1>10. env'[g0] = e0 /\ \A g \in Gen : g # g0 => env'[g] = env[g]
  BY <1>2, <1>3 DEF TypeInv
<1>11. NoEnv.key = 0
  BY DEF NoEnv
<1>12. \A g \in Gen, q \in Person :
          \/ env'[g][q] = env[g][q]
          \/ g = g0 /\ ~Has(q, g) /\ env'[g][q].key = k0
  BY <1>6, <1>10, <1>11 DEF Has
<1>13. WholeEnvelopes'
  BY <1>2, <1>12 DEF WholeEnvelopes, Has
<1>14. job[p].fresh /\ ~Has(p, g0) => env'[g0][p].key = k0
  BY <1>2, <1>7, <1>8, <1>10 DEF WholeEnvelopes
<1>15. \E j \in AnyJob : /\ JobFits(p, j) /\ Do(p, j) /\ ~Pending(j)
                         /\ \A g \in Gen : j.ring[g] # 0 => j.ring[g] = job[p].ring[g]
                         /\ ~job[p].fresh => \A g \in Gen : j.ring[g] # 0 => Settled(job[p], g)
  <2>1. CASE job[p].fresh
    <3> DEFINE j == [job[p] EXCEPT !.at = "put"]
    <3>1. j \in AnyJob /\ Do(p, j)
      BY <1>1, <2>1 DEF AnyJob, Step, Insert, Goto, Do
    <3>2. j.at = "put" /\ j.gen = g0 /\ j.ring = job[p].ring
      BY <1>1 DEF AnyJob
    <3> HIDE DEF j
    <3>3. ~Pending(j) /\ JobFits(p, j)
      BY <1>2, <3>2 DEF Pending, Granting, JobFits
    <3>4. QED
      BY <2>1, <3>1, <3>2, <3>3
  <2>2. CASE ~job[p].fresh
    BY <2>2, ContinueJob DEF Insert
  <2>3. QED
    BY <2>1, <2>2
<1>16. rotate' = (rotate /\ ~job[p].fresh)
  BY <1>1 DEF Insert, TypeInv, AnyJob
<1>17. QED
  BY <1>9, <1>12, <1>13, <1>14, <1>15, <1>16

\* Types in every step; first when no job and no envelope changes.
LEMMA SameJobs ==
  ASSUME TypeInv, JobsFit, WholeEnvelopes, UNCHANGED <<job, env>>
  PROVE  JobsFit' /\ WholeEnvelopes'
BY DEF JobsFit, WholeEnvelopes, Has

LEMMA DropTypes ==
  ASSUME TypeInv, WholeEnvelopes, NEW q,
         env' = [g \in Gen |-> [env[g] EXCEPT ![q] = NoEnv]]
  PROVE  /\ env' \in [Gen -> [Person -> [key : {0} \cup Key, pub : Nat]]] /\ WholeEnvelopes'
         /\ \A g \in Gen, p \in Person : Has(p, g)' => env'[g][p] = env[g][p] /\ p # q
<1>1. NoEnv \in [key : {0} \cup Key, pub : Nat] /\ NoEnv.key = 0
  BY DEF NoEnv
<1>2. \A g \in Gen : env[g] \in [Person -> [key : {0} \cup Key, pub : Nat]]
  BY DEF TypeInv
<1>3. \A g \in Gen : env'[g] \in [Person -> [key : {0} \cup Key, pub : Nat]]
  BY <1>1, <1>2
<1>4. \A g \in Gen, p \in Person : env'[g][p] = IF p = q THEN NoEnv ELSE env[g][p]
  BY <1>2
<1>5. env' = [g \in Gen |-> env'[g]]
  OBVIOUS
<1>6. QED
  BY <1>1, <1>3, <1>4, <1>5 DEF WholeEnvelopes, Has

LEMMA TypeStep ==
  ASSUME TypeInv, JobsFit, WholeEnvelopes, [Next]_vars
  PROVE  TypeInv' /\ JobsFit' /\ WholeEnvelopes'
<1> DEFINE Goal == TypeInv' /\ JobsFit' /\ WholeEnvelopes'
<1>1. CASE UNCHANGED vars
  BY <1>1, SameJobs DEF vars, TypeInv
<1>2. ASSUME NEW p \in Person, Look(p) \/ Distribute(p) \/ Edit(p) PROVE Goal
  <2>1. PICK j \in AnyJob : JobFits(p, j) /\ Load(p, j)
    BY <1>2, LoadJob
  <2>2. job' \in [Person -> AnyJob] /\ JobsFit'
    BY <2>1, JobTypes DEF Load
  <2>3. UNCHANGED <<crew, pub, vault, keys, fell>>
    BY <1>2, <2>1 DEF Load, Look, Distribute, Edit
  <2>4. know' \in [Person -> SUBSET Key]
    <3>1. {Ring(p)[g] : g \in Gen} \ {0} \in SUBSET Key
      BY RingTypes
    <3>2. QED
      BY <2>1, <3>1 DEF Load, TypeInv
  <2>5. QED
    BY <2>2, <2>3, <2>4 DEF TypeInv, crew, vault, WholeEnvelopes, Has
<1>3. ASSUME NEW p \in Person, Rotate(p) PROVE Goal
  <2>1. PICK j \in AnyJob : JobFits(p, j) /\ Do(p, j) /\ keys + 1 \in Key
    BY <1>3, RotateJob
  <2>2. job' \in [Person -> AnyJob] /\ JobsFit'
    BY <2>1, JobTypes
  <2>3. UNCHANGED <<crew, pub, vault, fell>> /\ keys' \in Key
    BY <1>3, <2>1 DEF Rotate, Load
  <2>4. know' \in [Person -> SUBSET Key]
    <3>1. {Ring(p)[g] : g \in Gen} \ {0} \in SUBSET Key
      BY RingTypes
    <3>2. QED
      BY <1>3, <3>1 DEF Rotate, Load, TypeInv
  <2>5. QED
    BY <2>2, <2>3, <2>4 DEF TypeInv, crew, vault, WholeEnvelopes, Has
<1>4. ASSUME NEW p \in Person,
             \/ GrantRole(p) \/ GrantMembers(p) \/ GrantRefused(p) \/ PutRole(p)
             \/ Target(p) \/ Count(p)
      PROVE  Goal
  <2>1. /\ \E j \in AnyJob : JobFits(p, j) /\ Do(p, j)
        /\ UNCHANGED <<crew, pub, vault, keys, know, fell>>
    BY <1>4, HandlerJob
  <2>2. job' \in [Person -> AnyJob] /\ JobsFit'
    BY <2>1, JobTypes
  <2>3. QED
    BY <2>1, <2>2 DEF TypeInv, crew, vault, WholeEnvelopes, Has
<1>5. ASSUME NEW p \in Person, GrantTx(p) PROVE Goal
  <2>1. /\ env' \in [Gen -> [Person -> [key : {0} \cup Key, pub : Nat]]] /\ WholeEnvelopes'
        /\ \E j \in AnyJob : JobFits(p, j) /\ Do(p, j)
        /\ rotate' = (rotate /\ ~job[p].fresh)
    BY <1>5, InsertStep DEF GrantTx
  <2>2. job' \in [Person -> AnyJob] /\ JobsFit'
    BY <2>1, JobTypes
  <2>3. rotate' \in BOOLEAN
    BY <2>1
  <2>4. QED
    BY <1>5, <2>1, <2>2, <2>3 DEF GrantTx, TypeInv, crew
<1>6. ASSUME NEW p \in Person, PutTx(p) PROVE Goal
  <2>1. job' \in [Person -> AnyJob] /\ JobsFit'
    BY <1>6, IdleTypes, JobTypes DEF PutTx
  <2>2. job[p] \in AnyJob /\ JobFits(p, job[p]) /\ body.version \in 1..MaxVersion
    BY DEF TypeInv, JobsFit
  <2>3. job[p].gen \in Gen /\ job[p].ring[job[p].gen] \in Key
    BY <1>6, <2>2 DEF PutTx, At, JobFits, Granting, AnyJob
  <2>4. body.version + 1 \in 1..MaxVersion
    BY <1>6, <2>2 DEF PutTx
  <2>5. body' \in [version : 1..MaxVersion, gen : Gen, key : Key]
    BY <1>6, <2>3, <2>4 DEF PutTx, TypeInv
  <2>6. QED
    BY <1>6, <2>1, <2>5 DEF PutTx, TypeInv, crew, WholeEnvelopes, Has
<1>7. ASSUME NEW p \in Person, SetPublicKey(p) PROVE Goal
  <2> DEFINE j == [job[p] EXCEPT !.at = "wipe"]
  <2>1. job[p] \in AnyJob
    BY DEF TypeInv
  <2>2. j \in AnyJob /\ Do(p, j) /\ j.at = "wipe"
    BY <1>7, <2>1 DEF SetPublicKey, Goto, Do, AnyJob, Step
  <2>3. JobFits(p, j)
    BY <2>2 DEF JobFits, Pending, Granting
  <2>4. job' \in [Person -> AnyJob] /\ JobsFit'
    BY <2>2, <2>3, JobTypes
  <2>5. pub[p] + 1 \in Nat
    BY DEF TypeInv
  <2>6. pub' \in [Person -> Nat]
    BY <1>7, <2>5 DEF SetPublicKey, TypeInv
  <2>7. QED
    BY <1>7, <2>4, <2>6 DEF SetPublicKey, TypeInv, crew, vault, WholeEnvelopes, Has
<1>8. ASSUME NEW p \in Person, Wipe(p) PROVE Goal
  <2>1. job' \in [Person -> AnyJob] /\ JobsFit'
    BY <1>8, IdleTypes, JobTypes DEF Wipe
  <2>2. fell' \in BOOLEAN
    BY <1>8 DEF Wipe
  <2>3. QED
    BY <1>8, <2>1, <2>2, DropTypes DEF Wipe, TypeInv, crew
<1>9. ASSUME NEW p \in Person, NEW q \in Person, NEW to \in Maybe, StartChange(p, q, to) PROVE Goal
  <2> DEFINE j == [Idle(p) EXCEPT !.at = IF q \in Members THEN "target" ELSE "add", !.target = q,
                                  !.role = to]
  <2>1. j \in AnyJob /\ j.at \in {"target", "add"}
    BY IdleTypes DEF AnyJob, Step, Idle
  <2>2. JobFits(p, j)
    BY <2>1 DEF JobFits, Pending, Granting
  <2>3. job' \in [Person -> AnyJob] /\ JobsFit'
    BY <1>9, <2>1, <2>2, JobTypes DEF StartChange
  <2>4. QED
    BY <1>9, <2>3 DEF StartChange, TypeInv, vault, WholeEnvelopes, Has
<1>10. ASSUME NEW p \in Person, Change(p) \/ Add(p) PROVE Goal
  <2>1. job' \in [Person -> AnyJob] /\ JobsFit'
    BY <1>10, IdleTypes, JobTypes DEF Change, Add
  <2>2. job[p].role \in Maybe /\ job[p].target \in Person /\ "none" \in Maybe
    BY DEF TypeInv, AnyJob, Maybe
  <2>3. role' \in [Person -> Maybe]
    BY <1>10, <2>2 DEF Change, Add, Drop, TypeInv
  <2>4. /\ env' \in [Gen -> [Person -> [key : {0} \cup Key, pub : Nat]]] /\ WholeEnvelopes'
        /\ rotate' \in BOOLEAN
    <3>1. CASE UNCHANGED <<env, rotate>>
      BY <3>1 DEF TypeInv, WholeEnvelopes, Has
    <3>2. CASE Drop(job[p].target) /\ rotate' = TRUE
      BY <3>2, DropTypes DEF Drop
    <3>3. QED
      BY <1>10, <3>1, <3>2 DEF Change, Add, vault
  <2>5. fell' \in BOOLEAN
    BY <1>10 DEF Change, Add, TypeInv
  <2>6. QED
    BY <1>10, <2>1, <2>3, <2>4, <2>5 DEF Change, Add, TypeInv, vault
<1>11. ASSUME NEW q \in Person, LeaveTeam(q) PROVE Goal
  <2>1. env' \in [Gen -> [Person -> [key : {0} \cup Key, pub : Nat]]] /\ WholeEnvelopes'
    BY <1>11, DropTypes DEF LeaveTeam, Drop
  <2>2. rotate' \in BOOLEAN /\ fell' \in BOOLEAN
    BY <1>11 DEF LeaveTeam
  <2>3. role' \in [Person -> Maybe]
    BY <1>11 DEF LeaveTeam, Drop, TypeInv, Maybe
  <2>4. JobsFit'
    BY <1>11 DEF LeaveTeam, JobsFit
  <2>5. QED
    BY <1>11, <2>1, <2>2, <2>3, <2>4 DEF LeaveTeam, TypeInv
<1>12. QED
  BY <1>1, <1>2, <1>3, <1>4, <1>5, <1>6, <1>7, <1>8, <1>9, <1>10, <1>11 DEF Next, Client, Handler

-----------------------------------------------------------------------------
(* Keys and generations                                                    *)

LEMMA InitKeyInv == Init => KeyInv
<1>1. SUFFICES ASSUME Init PROVE KeyInv
  OBVIOUS
<1>2. \A p \in Person : ~Pending(job[p]) /\ \A g \in Gen : ~Settled(job[p], g)
  BY <1>1 DEF Init, Idle, NoRing, Pending, Settled
<1>3. 1 \in Gen
  BY DEF Gen
<1>4. \A g \in Gen, q \in Person : Has(q, g) => g = 1 /\ env[g][q].key = 1 /\ role[q] # "none"
  BY <1>1 DEF Init, Has, NoEnv
<1>5. \A g \in Gen, k \in Key : Claimed(g, k) => g = 1 /\ k = 1
  BY <1>1, <1>2, <1>4 DEF Init, Claimed
<1>6. PICK m \in Person : role[m] = "manage"
  BY <1>1 DEF Init
<1>7. Has(m, 1)
  BY <1>1, <1>3, <1>6 DEF Init, Has
<1>8. 1 <= Current
  BY <1>3, <1>7, CurrentIsNewest DEF IsNewest
<1>9. GenerationsAgree
  BY <1>5, <1>8 DEF GenerationsAgree
<1>10. PendingIsNew
  BY <1>2 DEF PendingIsNew
<1>11. KeysAreMade
  BY <1>1, <1>5 DEF KeysAreMade, Init
<1>12. OutsidersAreOut
  BY <1>1 DEF OutsidersAreOut, Init
<1>13. QED
  BY <1>9, <1>10, <1>11, <1>12 DEF KeyInv

\* What the browser of p loads belongs to its generation.
LEMMA RingClaimed ==
  ASSUME TypeInv, NEW p \in Person, NEW g \in Gen, Ring(p)[g] # 0
  PROVE  Claimed(g, Ring(p)[g]) /\ Ring(p)[g] \in Key
BY RingTypes DEF Claimed

\* The key of a rotation that waits is a key.
LEMMA KeyOfPending ==
  ASSUME TypeInv, JobsFit, NEW p \in Person, Pending(job[p])
  PROVE  job[p].gen \in Gen /\ PendingKey(p) \in Key
<1>1. job[p] \in AnyJob /\ JobFits(p, job[p])
  BY DEF TypeInv, JobsFit
<1>2. QED
  BY <1>1 DEF JobFits, Pending, PendingKey, Granting, AnyJob

\* A step after which nobody holds a key for a generation that was not held for it
\* before, and the newest generation is the same.
LEMMA NothingNew ==
  ASSUME TypeInv, JobsFit, KeyInv,
         \A g \in Gen, k \in Key : Claimed(g, k)' => Claimed(g, k),
         Current' = Current, keys' = keys,
         \A q \in Person : Pending(job'[q]) => Pending(job[q]) /\ PendingKey(q)' = PendingKey(q),
         \A q \in Person : \A k \in know'[q] :
            k \in know[q] \/ (role'[q] # "none" /\ \E g \in Gen : Claimed(g, k)),
         rotate' \/ (~rotate /\ \A q \in Person : role'[q] = "none" => role[q] = "none")
  PROVE  KeyInv'
<1> USE DEF KeyInv
<1>1. GenerationsAgree'
  BY DEF GenerationsAgree
<1>2. PendingIsNew'
  <2>1. SUFFICES ASSUME NEW p \in Person, Pending(job'[p])
                 PROVE  /\ PendingKey(p)' <= keys'
                        /\ \A g \in Gen : ~Claimed(g, PendingKey(p))'
                        /\ \A q \in Person : PendingKey(p)' \notin know'[q]
                        /\ \A q \in Person \ {p} : Pending(job'[q]) => PendingKey(q)' # PendingKey(p)'
    BY DEF PendingIsNew
  <2>2. Pending(job[p]) /\ PendingKey(p)' = PendingKey(p) /\ PendingKey(p) \in Key
    BY <2>1, KeyOfPending
  <2>3. /\ PendingKey(p) <= keys
        /\ \A g \in Gen : ~Claimed(g, PendingKey(p))
        /\ \A q \in Person : PendingKey(p) \notin know[q]
        /\ \A q \in Person \ {p} : Pending(job[q]) => PendingKey(q) # PendingKey(p)
    BY <2>2 DEF PendingIsNew
  <2>4. \A g \in Gen : ~Claimed(g, PendingKey(p))'
    BY <2>2, <2>3 DEF Claimed
  <2>5. QED
    BY <2>2, <2>3, <2>4
<1>3. KeysAreMade'
  <2>1. SUFFICES ASSUME NEW k \in Key, k > keys'
                 PROVE (\A g \in Gen : ~Claimed(g, k)') /\ \A q \in Person : k \notin know'[q]
    BY DEF KeysAreMade
  <2>2. QED
    BY <2>1 DEF KeysAreMade
<1>4. OutsidersAreOut'
  <2>1. SUFFICES ASSUME ~rotate', NEW q \in Person, role'[q] = "none", NEW k \in know'[q],
                        Current' \in Gen
                 PROVE  ~Claimed(Current, k)'
    BY DEF OutsidersAreOut
  <2>2. k \in know[q] /\ role[q] = "none" /\ ~rotate /\ k \in Key
    BY <2>1 DEF TypeInv
  <2>3. ~Claimed(Current, k)
    BY <2>1, <2>2 DEF OutsidersAreOut
  <2>4. \A g \in Gen : g = Current => ~Claimed(g, k)'
    BY <2>2, <2>3
  <2>5. QED
    BY <2>1, <2>4
<1>5. QED
  BY <1>1, <1>2, <1>3, <1>4

\* Only the job of p changes, to one that carries what is known already.
LEMMA JobCarries ==
  ASSUME TypeInv, NEW p \in Person, NEW j \in AnyJob, Do(p, j),
         \A g \in Gen : Settled(j, g) => Claimed(g, j.ring[g]),
         \A g \in Gen, q \in Person : Has(q, g)' => Claimed(g, env'[g][q].key),
         Claimed(body'.gen, body'.key)
  PROVE  \A g \in Gen, k \in Key : Claimed(g, k)' => Claimed(g, k)
<1>1. \A q \in Person : job'[q] = IF q = p THEN j ELSE job[q]
  BY DEF Do, TypeInv
<1>2. SUFFICES ASSUME NEW g \in Gen, NEW k \in Key, Claimed(g, k)' PROVE Claimed(g, k)
  OBVIOUS
<1>3. CASE \E q \in Person : Has(q, g)' /\ env'[g][q].key = k
  BY <1>3
<1>4. CASE body'.gen = g /\ body'.key = k
  BY <1>4
<1>5. CASE \E q \in Person : Settled(job'[q], g) /\ job'[q].ring[g] = k
  <2>1. PICK q \in Person : Settled(job'[q], g) /\ job'[q].ring[g] = k
    BY <1>5
  <2>2. CASE q = p
    BY <1>1, <2>1, <2>2
  <2>3. CASE q # p
    BY <1>1, <2>1, <2>3 DEF Claimed
  <2>4. QED
    BY <2>2, <2>3
<1>6. QED
  BY <1>2, <1>3, <1>4, <1>5 DEF Claimed

\* What is there is known already.
LEMMA KnownAlready ==
  /\ \A g \in Gen, q \in Person : Has(q, g) => Claimed(g, env[g][q].key)
  /\ Claimed(body.gen, body.key)
  /\ \A p \in Person, g \in Gen : Settled(job[p], g) => Claimed(g, job[p].ring[g])
BY DEF Claimed

\* Requests that change nothing but what they have read.
LEMMA ReadingKeys ==
  ASSUME TypeInv, JobsFit, KeyInv, NEW p \in Person, NEW j \in AnyJob, Do(p, j),
         UNCHANGED <<role, vault, keys, know>>,
         Pending(j) => Pending(job[p]) /\ j.gen = job[p].gen /\ j.ring = job[p].ring,
         \A g \in Gen : Settled(j, g) => Settled(job[p], g) /\ j.ring[g] = job[p].ring[g]
  PROVE  KeyInv'
<1>1. \A q \in Person : job'[q] = IF q = p THEN j ELSE job[q]
  BY DEF Do, TypeInv
<1>2. \A g \in Gen : Settled(j, g) => Claimed(g, j.ring[g])
  BY KnownAlready
<1>3. \A g \in Gen, q \in Person : Has(q, g)' => Claimed(g, env'[g][q].key)
  BY KnownAlready DEF vault, Has
<1>4. Claimed(body'.gen, body'.key)
  BY KnownAlready DEF vault
<1>5. \A g \in Gen, k \in Key : Claimed(g, k)' => Claimed(g, k)
  BY <1>2, <1>3, <1>4, JobCarries
<1>6. Current' = Current
  BY SameEnvelopes DEF vault
<1>7. \A q \in Person : Pending(job'[q]) => Pending(job[q]) /\ PendingKey(q)' = PendingKey(q)
  BY <1>1 DEF PendingKey
<1>8. rotate' \/ (~rotate /\ \A q \in Person : role'[q] = "none" => role[q] = "none")
  BY DEF vault, TypeInv
<1>9. QED
  BY <1>5, <1>6, <1>7, <1>8, NothingNew

\* A browser loads the vault: it unwraps keys of members.
LEMMA LoadKeys ==
  ASSUME TypeInv, JobsFit, KeyInv, NEW p \in Person, Look(p) \/ Distribute(p) \/ Edit(p)
  PROVE  KeyInv'
<1>1. PICK j \in AnyJob : /\ JobFits(p, j) /\ Load(p, j) /\ ~Pending(j)
                          /\ \A g \in Gen : j.ring[g] # 0 => j.ring[g] = Ring(p)[g]
  BY LoadJob
<1>2. Do(p, j) /\ UNCHANGED <<crew, pub, vault, keys>>
  BY <1>1 DEF Load, Look, Distribute, Edit
<1>3. \A q \in Person : job'[q] = IF q = p THEN j ELSE job[q]
  BY <1>2 DEF Do, TypeInv
<1>4. \A g \in Gen : Settled(j, g) => Claimed(g, j.ring[g])
  BY <1>1, RingClaimed DEF Settled
<1>5. \A g \in Gen, q \in Person : Has(q, g)' => Claimed(g, env'[g][q].key)
  BY <1>2, KnownAlready DEF vault, Has
<1>6. Claimed(body'.gen, body'.key)
  BY <1>2, KnownAlready DEF vault
<1>7. \A g \in Gen, k \in Key : Claimed(g, k)' => Claimed(g, k)
  BY <1>2, <1>4, <1>5, <1>6, JobCarries
<1>8. Current' = Current
  BY <1>2, SameEnvelopes DEF vault
<1>9. \A q \in Person : Pending(job'[q]) => Pending(job[q]) /\ PendingKey(q)' = PendingKey(q)
  BY <1>1, <1>3 DEF PendingKey
<1>10. \A q \in Person : \A k \in know'[q] :
          k \in know[q] \/ (role'[q] # "none" /\ \E g \in Gen : Claimed(g, k))
  <2>1. know' = [know EXCEPT ![p] = @ \cup ({Ring(p)[g] : g \in Gen} \ {0})] /\ May(p, "view")
    BY <1>1 DEF Load
  <2>2. role[p] # "none"
    BY <2>1 DEF May, Rank
  <2>3. \A k \in {Ring(p)[g] : g \in Gen} \ {0} : \E g \in Gen : Claimed(g, k)
    BY RingClaimed
  <2>4. QED
    BY <1>2, <2>1, <2>2, <2>3 DEF TypeInv, crew
<1>11. rotate' \/ (~rotate /\ \A q \in Person : role'[q] = "none" => role[q] = "none")
  BY <1>2 DEF vault, crew, TypeInv
<1>12. QED
  BY <1>2, <1>7, <1>8, <1>9, <1>10, <1>11, NothingNew

\* A rotation begins: its key belongs to no generation, and nobody has it.
LEMMA RotateKeys ==
  ASSUME TypeInv, JobsFit, KeyInv, NEW p \in Person, Rotate(p)
  PROVE  KeyInv'
<1> USE DEF KeyInv
<1>1. PICK j \in AnyJob :
        /\ JobFits(p, j) /\ Do(p, j)
        /\ Pending(j) /\ j.ring[j.gen] = keys + 1 /\ keys + 1 \in Key
        /\ \A g \in Gen : Settled(j, g) => j.ring[g] = Ring(p)[g]
  BY RotateJob
<1>2. UNCHANGED <<crew, pub, vault>> /\ keys' = keys + 1 /\ keys \in Nat /\ At(p, "idle") /\ May(p, "view")
      /\ rotate
  BY DEF Rotate, Load, TypeInv, Key
<1>3. \A q \in Person : job'[q] = IF q = p THEN j ELSE job[q]
  BY <1>1 DEF Do, TypeInv
<1>4. \A g \in Gen : Settled(j, g) => Claimed(g, j.ring[g])
  BY <1>1, RingClaimed DEF Settled
<1>5. \A g \in Gen, k \in Key : Claimed(g, k)' => Claimed(g, k)
  <2>1. \A g \in Gen, q \in Person : Has(q, g)' => Claimed(g, env'[g][q].key)
    BY <1>2, KnownAlready DEF vault, Has
  <2>2. Claimed(body'.gen, body'.key)
    BY <1>2, KnownAlready DEF vault
  <2>3. QED
    BY <1>1, <1>4, <2>1, <2>2, JobCarries
<1>6. Current' = Current
  BY <1>2, SameEnvelopes DEF vault
<1>7. PendingKey(p)' = keys + 1
  BY <1>1, <1>3 DEF PendingKey
<1>8. \A q \in Person \ {p} : job'[q] = job[q] /\ PendingKey(q)' = PendingKey(q)
  BY <1>3 DEF PendingKey
<1>9. \A q \in Person : \A k \in know'[q] : k \in know[q] \/ \E g \in Gen : Claimed(g, k)
  <2>1. know' = [know EXCEPT ![p] = @ \cup ({Ring(p)[g] : g \in Gen} \ {0})]
    BY DEF Rotate, Load
  <2>2. \A k \in {Ring(p)[g] : g \in Gen} \ {0} : \E g \in Gen : Claimed(g, k)
    BY RingClaimed
  <2>3. QED
    BY <2>1, <2>2 DEF TypeInv
<1>10. \A k \in Key : k > keys => (\A g \in Gen : ~Claimed(g, k)') /\ \A q \in Person : k \notin know'[q]
  BY <1>5, <1>9 DEF KeysAreMade
<1>11. \A q \in Person : Pending(job[q]) => PendingKey(q) <= keys /\ PendingKey(q) \in Key
  BY KeyOfPending DEF PendingIsNew
<1>12. GenerationsAgree'
  BY <1>5, <1>6 DEF GenerationsAgree
<1>13. KeysAreMade'
  <2>1. \A k \in Key : k > keys' => k > keys
    BY <1>2 DEF Key
  <2>2. QED
    BY <1>10, <2>1 DEF KeysAreMade
<1>14. PendingIsNew'
  <2>1. keys + 1 > keys /\ keys + 1 <= keys'
    BY <1>2
  <2>2. \A q \in Person : Pending(job[q]) => PendingKey(q) # keys + 1 /\ PendingKey(q) <= keys'
    BY <1>2, <1>11 DEF Key
  <2>3. /\ PendingKey(p)' <= keys'
        /\ \A g \in Gen : ~Claimed(g, PendingKey(p))'
        /\ \A q \in Person : PendingKey(p)' \notin know'[q]
        /\ \A q \in Person \ {p} : Pending(job'[q]) => PendingKey(q)' # PendingKey(p)'
    <3>1. \A g \in Gen : ~Claimed(g, PendingKey(p))'
      BY <1>1, <1>7, <1>10, <2>1 DEF Claimed
    <3>2. QED
      BY <1>1, <1>7, <1>8, <1>10, <2>1, <2>2, <3>1
  <2>4. ASSUME NEW q \in Person \ {p}, Pending(job'[q])
        PROVE  /\ PendingKey(q)' <= keys'
               /\ \A g \in Gen : ~Claimed(g, PendingKey(q))'
               /\ \A r \in Person : PendingKey(q)' \notin know'[r]
               /\ \A r \in Person \ {q} : Pending(job'[r]) => PendingKey(r)' # PendingKey(q)'
    <3>1. Pending(job[q]) /\ PendingKey(q)' = PendingKey(q) /\ PendingKey(q) \in Key
      BY <1>8, <1>11, <2>4
    <3>2. /\ \A g \in Gen : ~Claimed(g, PendingKey(q))
          /\ \A r \in Person : PendingKey(q) \notin know[r]
          /\ \A r \in Person \ {q} : Pending(job[r]) => PendingKey(r) # PendingKey(q)
      BY <3>1 DEF PendingIsNew
    <3>3. \A g \in Gen : ~Claimed(g, PendingKey(q))'
      BY <1>5, <3>1, <3>2 DEF Claimed
    <3>4. \A r \in Person : PendingKey(q)' \notin know'[r]
      BY <1>9, <3>1, <3>2
    <3>5. \A r \in Person \ {q} : Pending(job'[r]) => PendingKey(r)' # PendingKey(q)'
      BY <1>7, <1>8, <2>2, <3>1, <3>2
    <3>6. QED
      BY <2>2, <3>1, <3>3, <3>4, <3>5
  <2>5. QED
    BY <2>3, <2>4 DEF PendingIsNew
<1>15. OutsidersAreOut'
  BY <1>2 DEF OutsidersAreOut, vault
<1>16. QED
  BY <1>12, <1>13, <1>14, <1>15

\* The transaction of a grant: an old key is handed on, or the new one becomes the key
\* of the next generation.
LEMMA GrantKeys ==
  ASSUME TypeInv, JobsFit, WholeEnvelopes, KeyInv, NEW p \in Person, GrantTx(p)
  PROVE  KeyInv'
<1>1. UNCHANGED <<crew, body, keys, know>> /\ job[p].at = "grantTx"
  BY DEF GrantTx, At
<1>2. /\ job[p] \in AnyJob /\ job[p].gen \in Gen
      /\ job[p].ring[job[p].gen] \in Key /\ job[p].ring[job[p].gen] # 0
  <2>1. job[p] \in AnyJob /\ JobFits(p, job[p])
    BY DEF TypeInv, JobsFit
  <2>2. job[p].gen \in Gen /\ job[p].ring[job[p].gen] # 0
    BY <1>1, <2>1 DEF JobFits, Granting
  <2>3. job[p].ring \in [Gen -> {0} \cup Key]
    BY <2>1 DEF AnyJob
  <2>4. QED
    BY <2>1, <2>2, <2>3
<1>3. PICK n \in Gen, k0 \in Key : n = job[p].gen /\ k0 = job[p].ring[n] /\ k0 # 0
  BY <1>2
<1>4. /\ \A g \in Gen, q \in Person :
            \/ env'[g][q] = env[g][q]
            \/ g = n /\ ~Has(q, g) /\ env'[g][q].key = job[p].ring[g]
      /\ job[p].fresh /\ ~Has(p, n) => env'[n][p].key = k0
      /\ rotate' = (rotate /\ ~job[p].fresh)
  BY <1>3, InsertStep DEF GrantTx
<1>5. PICK j \in AnyJob :
        /\ JobFits(p, j) /\ Do(p, j) /\ ~Pending(j)
        /\ \A g \in Gen : j.ring[g] # 0 => j.ring[g] = job[p].ring[g]
        /\ ~job[p].fresh => \A g \in Gen : j.ring[g] # 0 => Settled(job[p], g)
  BY InsertStep DEF GrantTx
<1>6. \A q \in Person : job'[q] = IF q = p THEN j ELSE job[q]
  BY <1>5 DEF Do, TypeInv
<1>7. \A q \in Person : Pending(job'[q]) => q # p /\ Pending(job[q]) /\ PendingKey(q)' = PendingKey(q)
  BY <1>5, <1>6 DEF PendingKey
<1>8. CASE ~job[p].fresh
  <2>1. n <= Current /\ Settled(job[p], n)
    BY <1>3, <1>8 DEF GrantTx, Settled, Pending
  <2>2. \A g \in Gen, q \in Person : Has(q, g)' => Claimed(g, env'[g][q].key) /\ g <= Current
    <3>1. SUFFICES ASSUME NEW g \in Gen, NEW q \in Person, Has(q, g)'
                   PROVE  Claimed(g, env'[g][q].key) /\ g <= Current
      OBVIOUS
    <3>2. CASE env'[g][q] = env[g][q]
      BY <3>1, <3>2, KnownAlready, CurrentIsNewest DEF Has, IsNewest
    <3>3. CASE g = n /\ env'[g][q].key = job[p].ring[g]
      BY <2>1, <3>3, KnownAlready
    <3>4. QED
      BY <1>4, <3>2, <3>3
  <2>3. Current' = Current
    <3>1. Current \in 0..MaxGen /\ Current' \in 0..MaxGen
      BY CurrentIsNewest, CurrentIsNewestNext DEF IsNewest
    <3>2. ~(Current' < Current)
      <4>1. CASE Current = 0
        BY <3>1, <4>1
      <4>2. CASE Current # 0
        <5>1. Current \in Gen
          BY <3>1, <4>2 DEF Gen
        <5>2. PICK q \in Person : Has(q, Current)
          BY <5>1, CurrentIsNewest DEF IsNewest
        <5>3. ASSUME NEW g \in Gen, g = Current PROVE g <= Current'
          <6>1. Has(q, g)'
            BY <1>4, <5>2, <5>3 DEF Has
          <6>2. QED
            BY <6>1, CurrentIsNewestNext DEF IsNewest
        <5>4. Current <= Current'
          BY <5>1, <5>3
        <5>5. QED
          BY <3>1, <5>4
      <4>3. QED
        BY <4>1, <4>2
    <3>3. QED
      BY <2>2, <3>2, CurrentStays
  <2>4. \A g \in Gen : Settled(j, g) => Claimed(g, j.ring[g])
    BY <1>5, <1>8, KnownAlready DEF Settled
  <2>5. Claimed(body'.gen, body'.key)
    BY <1>1, KnownAlready
  <2>6. \A g \in Gen, k \in Key : Claimed(g, k)' => Claimed(g, k)
    BY <1>5, <2>2, <2>4, <2>5, JobCarries
  <2>7. rotate' \/ (~rotate /\ \A q \in Person : role'[q] = "none" => role[q] = "none")
    BY <1>4, <1>1, <1>8 DEF crew, TypeInv
  <2>8. QED
    BY <1>1, <1>7, <2>3, <2>6, <2>7, NothingNew
<1>9. CASE job[p].fresh
  <2>1. n = Current + 1 /\ Pending(job[p]) /\ k0 = PendingKey(p)
    BY <1>1, <1>3, <1>9 DEF GrantTx, Pending, Granting, PendingKey
  <2>2. Current \in Nat /\ ~(n <= Current)
    <3>1. Current \in Nat
      BY CurrentIsNewest DEF IsNewest
    <3>2. QED
      BY <2>1, <3>1
  <2>3. ~Has(p, n)
    BY <1>3, <2>2, CurrentIsNewest DEF IsNewest
  <2>4. \A g \in Gen, k \in Key : Claimed(g, k)' => Claimed(g, k) \/ (g = n /\ k = k0)
    <3>1. SUFFICES ASSUME NEW g \in Gen, NEW k \in Key, Claimed(g, k)', ~(g = n /\ k = k0)
                   PROVE  Claimed(g, k)
      OBVIOUS
    <3>2. CASE \E q \in Person : Has(q, g)' /\ env'[g][q].key = k
      <4>1. PICK q \in Person : Has(q, g)' /\ env'[g][q].key = k
        BY <3>2
      <4>2. env'[g][q] = env[g][q]
        BY <1>3, <1>4, <3>1, <4>1
      <4>3. QED
        BY <4>1, <4>2 DEF Has, Claimed
    <3>3. CASE body'.gen = g /\ body'.key = k
      BY <1>1, <3>3 DEF Claimed
    <3>4. CASE \E q \in Person : Settled(job'[q], g) /\ job'[q].ring[g] = k
      <4>1. PICK q \in Person : Settled(job'[q], g) /\ job'[q].ring[g] = k
        BY <3>4
      <4>2. CASE q # p
        BY <1>6, <4>1, <4>2 DEF Claimed
      <4>3. CASE q = p
        <5>1. j.ring[g] # 0 /\ j.ring[g] = job[p].ring[g] /\ k = job[p].ring[g]
          BY <1>5, <1>6, <4>1, <4>3 DEF Settled
        <5>2. g # n
          BY <1>3, <3>1, <5>1
        <5>3. Settled(job[p], g)
          BY <1>3, <5>1, <5>2 DEF Settled
        <5>4. QED
          BY <5>1, <5>3, KnownAlready
      <4>4. QED
        BY <4>2, <4>3
    <3>5. QED
      BY <3>1, <3>2, <3>3, <3>4 DEF Claimed
  <2>5. Current' = n
    <3>1. Has(p, n)'
      BY <1>4, <1>3, <1>9, <2>3 DEF Has
    <3>2. n <= Current'
      BY <1>3, <3>1, CurrentIsNewestNext DEF IsNewest
    <3>3. Current' \in 0..MaxGen /\ n \in Nat
      BY <1>3, CurrentIsNewestNext DEF IsNewest, Gen
    <3>4. Current' \in Gen
      BY <2>1, <2>2, <3>2, <3>3 DEF Gen
    <3>5. PICK q \in Person : (\E r \in Person : Has(r, Current) /\ r = q)'
      BY <3>4, CurrentIsNewestNext DEF IsNewest
    <3>6. ASSUME NEW g \in Gen, g = Current' PROVE g <= n
      <4>1. Has(q, g)'
        BY <3>5, <3>6 DEF Has
      <4>2. Has(q, g) \/ g = n
        BY <1>4, <4>1 DEF Has
      <4>3. Has(q, g) => g <= Current
        BY CurrentIsNewest DEF IsNewest
      <4>4. QED
        BY <2>1, <2>2, <3>3, <3>6, <4>2, <4>3
    <3>7. QED
      BY <3>2, <3>3, <3>4, <3>6
  <2>6. /\ k0 <= keys
        /\ \A g \in Gen : ~Claimed(g, k0)
        /\ \A q \in Person : k0 \notin know[q]
        /\ \A q \in Person \ {p} : Pending(job[q]) => PendingKey(q) # k0
    BY <2>1 DEF KeyInv, PendingIsNew
  <2>7. \A g \in Gen, k \in Key : Claimed(g, k) => g <= Current /\ g # n
    BY <2>1, <2>2 DEF KeyInv, GenerationsAgree
  <2>8. GenerationsAgree'
    <3>1. SUFFICES ASSUME NEW g \in Gen, NEW k \in Key, NEW l \in Key, Claimed(g, k)'
                   PROVE  g <= Current' /\ (Claimed(g, l)' => k = l)
      BY DEF GenerationsAgree
    <3>2. g \in Nat /\ Current <= n /\ n \in Nat
      BY <1>3, <2>1, <2>2 DEF Gen
    <3>3. CASE g = n
      BY <2>4, <2>5, <2>7, <3>1, <3>2, <3>3
    <3>4. CASE g # n
      <4>1. Claimed(g, k) /\ g <= Current /\ (Claimed(g, l)' => Claimed(g, l))
        BY <2>4, <2>7, <3>1, <3>4
      <4>2. QED
        BY <2>2, <2>5, <3>2, <4>1 DEF KeyInv, GenerationsAgree
    <3>5. QED
      BY <3>3, <3>4
  <2>9. PendingIsNew'
    <3>1. SUFFICES ASSUME NEW q \in Person, Pending(job'[q])
                   PROVE  /\ PendingKey(q)' <= keys'
                          /\ \A g \in Gen : ~Claimed(g, PendingKey(q))'
                          /\ \A r \in Person : PendingKey(q)' \notin know'[r]
                          /\ \A r \in Person \ {q} : Pending(job'[r]) => PendingKey(r)' # PendingKey(q)'
      BY DEF PendingIsNew
    <3>2. q # p /\ Pending(job[q]) /\ PendingKey(q)' = PendingKey(q) /\ PendingKey(q) \in Key
      BY <1>7, <3>1, KeyOfPending
    <3>3. /\ PendingKey(q) <= keys
          /\ \A g \in Gen : ~Claimed(g, PendingKey(q))
          /\ \A r \in Person : PendingKey(q) \notin know[r]
          /\ \A r \in Person \ {q} : Pending(job[r]) => PendingKey(r) # PendingKey(q)
      BY <3>2 DEF KeyInv, PendingIsNew
    <3>4. \A g \in Gen, k \in Key : k = PendingKey(q) => ~Claimed(g, k)'
      BY <2>4, <2>6, <3>2, <3>3
    <3>5. \A g \in Gen : ~Claimed(g, PendingKey(q))'
      BY <3>2, <3>4 DEF Claimed
    <3>6. QED
      BY <1>1, <1>7, <3>2, <3>3, <3>5
  <2>10. KeysAreMade'
    <3>1. \A k \in Key : k > keys => k # k0
      BY <1>3, <2>6 DEF TypeInv, Key
    <3>2. QED
      BY <1>1, <2>4, <3>1 DEF KeyInv, KeysAreMade
  <2>11. OutsidersAreOut'
    <3>1. SUFFICES ASSUME NEW q \in Person, NEW k \in know'[q] PROVE ~Claimed(Current, k)'
      BY DEF OutsidersAreOut
    <3>2. k \in know[q] /\ k \in Key /\ k # k0
      BY <1>1, <2>6 DEF TypeInv
    <3>3. \A g \in Gen : g = n => ~Claimed(g, k)'
      BY <2>4, <2>7, <3>2
    <3>4. QED
      BY <1>3, <2>5, <3>3 DEF Claimed
  <2>12. QED
    BY <2>8, <2>9, <2>10, <2>11 DEF KeyInv
<1>10. QED
  BY <1>8, <1>9

\* The index is written with a key its writer had: nothing new.
LEMMA WriteKeys ==
  ASSUME TypeInv, JobsFit, KeyInv, NEW p \in Person, PutTx(p)
  PROVE  /\ KeyInv'
         /\ body' # body => \A q \in Person : role[q] = "none" => body'.key \notin know[q]
<1>1. job[p] \in AnyJob /\ JobFits(p, job[p]) /\ job[p].at = "putTx"
  BY DEF TypeInv, JobsFit, PutTx, At
<1>2. job[p].gen \in Gen /\ job[p].ring[job[p].gen] # 0 /\ job[p].ring[job[p].gen] \in {0} \cup Key
  BY <1>1 DEF JobFits, Granting, AnyJob
<1>3. Claimed(job[p].gen, job[p].ring[job[p].gen])
  BY <1>1, <1>2, KnownAlready DEF Settled, Pending, Granting
<1>4. body' = body \/ (Fits(p) /\ body'.gen = job[p].gen /\ body'.key = job[p].ring[job[p].gen])
  BY DEF PutTx
<1>5. Do(p, Idle(p)) /\ UNCHANGED <<crew, pub, env, rotate, keys, know>>
  BY DEF PutTx
<1>6. Claimed(body'.gen, body'.key)
  BY <1>3, <1>4, KnownAlready
<1>7. \A g \in Gen, k \in Key : Claimed(g, k)' => Claimed(g, k)
  <2>1. \A g \in Gen : ~Settled(Idle(p), g)
    BY IdleTypes DEF Settled, NoRing
  <2>2. \A g \in Gen, q \in Person : Has(q, g)' => Claimed(g, env'[g][q].key)
    BY <1>5, KnownAlready DEF Has
  <2>3. QED
    BY <1>5, <1>6, <2>1, <2>2, IdleTypes, JobCarries
<1>8. \A q \in Person : Pending(job'[q]) => Pending(job[q]) /\ PendingKey(q)' = PendingKey(q)
  <2>1. \A q \in Person : job'[q] = IF q = p THEN Idle(p) ELSE job[q]
    BY <1>5 DEF Do, TypeInv
  <2>2. QED
    BY <2>1, IdleTypes DEF PendingKey
<1>9. rotate' \/ (~rotate /\ \A q \in Person : role'[q] = "none" => role[q] = "none")
  BY <1>5 DEF crew, TypeInv
<1>10. KeyInv'
  BY <1>5, <1>7, <1>8, <1>9, SameEnvelopes, NothingNew
<1>11. ASSUME body' # body, NEW q \in Person, role[q] = "none" PROVE body'.key \notin know[q]
  <2>1. body'.key = job[p].ring[job[p].gen] /\ job[p].gen = Current /\ ~rotate
    BY <1>4, <1>11 DEF Fits
  <2>2. Claimed(Current, body'.key) /\ Current \in Gen
    BY <1>2, <1>3, <2>1
  <2>3. QED
    BY <1>11, <2>1, <2>2 DEF KeyInv, OutsidersAreOut
<1>12. QED
  BY <1>10, <1>11

\* Envelopes are taken away, and not the last ones of a generation that counts.
LEMMA FewerKeys ==
  ASSUME TypeInv, JobsFit, WholeEnvelopes, KeyInv,
         \A g \in Gen, q \in Person : Has(q, g)' => env'[g][q] = env[g][q],
         ~(Current' < Current), UNCHANGED <<body, keys, know>>,
         \A q \in Person : job'[q] = job[q] \/ job'[q] = Idle(q),
         rotate' \/ (~rotate /\ \A q \in Person : role'[q] = "none" => role[q] = "none")
  PROVE  KeyInv'
<1>1. \A g \in Gen, q \in Person : Has(q, g)' => Has(q, g) /\ g <= Current
  BY CurrentIsNewest DEF Has, IsNewest
<1>2. Current' = Current
  BY <1>1, CurrentStays
<1>3. \A g \in Gen, k \in Key : Claimed(g, k)' => Claimed(g, k)
  <2>1. \A q \in Person, g \in Gen : ~Settled(Idle(q), g)
    BY IdleTypes DEF Settled, NoRing
  <2>2. SUFFICES ASSUME NEW g \in Gen, NEW k \in Key, Claimed(g, k)' PROVE Claimed(g, k)
    OBVIOUS
  <2>3. CASE \E q \in Person : Has(q, g)' /\ env'[g][q].key = k
    BY <1>1, <2>3 DEF Claimed
  <2>4. CASE body'.gen = g /\ body'.key = k
    BY <2>4 DEF Claimed
  <2>5. CASE \E q \in Person : Settled(job'[q], g) /\ job'[q].ring[g] = k
    <3>1. PICK q \in Person : Settled(job'[q], g) /\ job'[q].ring[g] = k
      BY <2>5
    <3>2. job'[q] = job[q]
      BY <2>1, <3>1
    <3>3. QED
      BY <3>1, <3>2 DEF Claimed
  <2>6. QED
    BY <2>2, <2>3, <2>4, <2>5 DEF Claimed
<1>4. \A q \in Person : Pending(job'[q]) => Pending(job[q]) /\ PendingKey(q)' = PendingKey(q)
  BY IdleTypes DEF PendingKey
<1>5. QED
  BY <1>2, <1>3, <1>4, NothingNew

\* Members and roles: who leaves makes a rotation needed.
LEMMA MemberKeys ==
  ASSUME TypeInv, JobsFit, WholeEnvelopes, KeyInv, ~fell',
         \/ \E p \in Person : Wipe(p) \/ Change(p) \/ Add(p)
         \/ \E q \in Person : LeaveTeam(q)
  PROVE  KeyInv'
<1>1. ASSUME NEW p \in Person, Do(p, Idle(p))
      PROVE  \A q \in Person : job'[q] = job[q] \/ job'[q] = Idle(q)
  BY <1>1 DEF Do, TypeInv
<1>2. ASSUME NEW p \in Person, Wipe(p) PROVE KeyInv'
  <2>1. \A g \in Gen, q \in Person : Has(q, g)' => env'[g][q] = env[g][q]
    <3>1. env' = [g \in Gen |-> [env[g] EXCEPT ![p] = NoEnv]]
      BY <1>2 DEF Wipe
    <3>2. QED
      BY <3>1, DropTypes
  <2>2. rotate' \/ (~rotate /\ \A q \in Person : role'[q] = "none" => role[q] = "none")
    BY <1>2 DEF Wipe, crew, TypeInv
  <2>3. QED
    BY <1>1, <1>2, <2>1, <2>2, FewerKeys DEF Wipe
<1>3. ASSUME NEW p \in Person, Change(p) PROVE KeyInv'
  <2>1. CASE Drop(job[p].target) /\ rotate' = TRUE
    <3>1. \A g \in Gen, q \in Person : Has(q, g)' => env'[g][q] = env[g][q]
      <4>1. PICK t : t = job[p].target
        OBVIOUS
      <4>2. env' = [g \in Gen |-> [env[g] EXCEPT ![t] = NoEnv]]
        BY <2>1, <4>1 DEF Drop
      <4>3. QED
        BY <4>2, DropTypes
    <3>2. QED
      BY <1>1, <1>3, <2>1, <3>1, FewerKeys DEF Change
  <2>2. CASE job[p].role # "none"
    <3>1. UNCHANGED <<env, rotate>>
          /\ role' = [role EXCEPT ![job[p].target] = IF @ = "none" THEN @ ELSE job[p].role]
      BY <1>3, <2>2 DEF Change
    <3>2. \A q \in Person : role'[q] = "none" => role[q] = "none"
      BY <2>2, <3>1 DEF TypeInv
    <3>3. \A g \in Gen, q \in Person : Has(q, g)' => env'[g][q] = env[g][q]
      BY <3>1
    <3>4. rotate' \/ ~rotate
      BY <3>1 DEF TypeInv
    <3>5. QED
      BY <1>1, <1>3, <3>2, <3>3, <3>4, FewerKeys DEF Change
  <2>3. QED
    BY <1>3, <2>1, <2>2 DEF Change
<1>4. ASSUME NEW p \in Person, Add(p) PROVE KeyInv'
  <2>1. role' = [role EXCEPT ![job[p].target] = IF @ = "none" THEN job[p].role ELSE @]
        /\ UNCHANGED vault
    BY <1>4 DEF Add
  <2>2. \A q \in Person : role'[q] = "none" => role[q] = "none"
    BY <2>1 DEF TypeInv
  <2>3. \A g \in Gen, q \in Person : Has(q, g)' => env'[g][q] = env[g][q]
    BY <2>1 DEF vault
  <2>4. (rotate' \/ ~rotate) /\ Current' = Current
    BY <2>1, SameEnvelopes DEF vault, TypeInv
  <2>5. ~(Current' < Current)
    <3>1. Current \in 0..MaxGen
      BY CurrentIsNewest DEF IsNewest
    <3>2. QED
      BY <2>4, <3>1
  <2>6. QED
    BY <1>1, <1>4, <2>1, <2>2, <2>3, <2>4, <2>5, FewerKeys DEF Add, vault
<1>5. ASSUME NEW q \in Person, LeaveTeam(q) PROVE KeyInv'
  <2>1. \A g \in Gen, r \in Person : Has(r, g)' => env'[g][r] = env[g][r]
    <3>1. env' = [g \in Gen |-> [env[g] EXCEPT ![q] = NoEnv]]
      BY <1>5 DEF LeaveTeam, Drop
    <3>2. QED
      BY <3>1, DropTypes
  <2>2. rotate' \/ (~rotate /\ \A r \in Person : role'[r] = "none" => role[r] = "none")
    BY <1>5 DEF LeaveTeam, Drop, TypeInv
  <2>3. QED
    BY <1>5, <2>1, <2>2, FewerKeys DEF LeaveTeam
<1>6. QED
  BY <1>2, <1>3, <1>4, <1>5

\* The rest: requests begin, and the public key changes.
LEMMA BeginKeys ==
  ASSUME TypeInv, JobsFit, KeyInv, NEW p \in Person,
         SetPublicKey(p) \/ \E q \in Person, to \in Maybe : StartChange(p, q, to)
  PROVE  KeyInv'
<1>1. UNCHANGED <<role, vault, keys, know>>
  BY DEF SetPublicKey, StartChange, crew
<1>2. CASE SetPublicKey(p)
  <2> DEFINE j == [job[p] EXCEPT !.at = "wipe"]
  <2>1. job[p] \in AnyJob /\ job[p].at = "idle"
    BY <1>2 DEF TypeInv, SetPublicKey, At
  <2>2. j \in AnyJob /\ Do(p, j) /\ j.at = "wipe" /\ j.ring = job[p].ring
    BY <1>2, <2>1 DEF SetPublicKey, Goto, Do, AnyJob, Step
  <2> HIDE DEF j
  <2>3. ~Pending(j) /\ \A g \in Gen : Settled(j, g) => Settled(job[p], g) /\ j.ring[g] = job[p].ring[g]
    BY <2>1, <2>2 DEF Pending, Granting, Settled
  <2>4. QED
    BY <1>1, <2>2, <2>3, ReadingKeys
<1>3. ASSUME NEW q \in Person, NEW to \in Maybe, StartChange(p, q, to) PROVE KeyInv'
  <2> DEFINE j == [Idle(p) EXCEPT !.at = IF q \in Members THEN "target" ELSE "add", !.target = q,
                                  !.role = to]
  <2>1. j \in AnyJob /\ j.at \in {"target", "add"} /\ j.ring = NoRing /\ Do(p, j)
    BY <1>3, IdleTypes DEF AnyJob, Step, Idle, StartChange
  <2> HIDE DEF j
  <2>2. ~Pending(j) /\ \A g \in Gen : ~Settled(j, g)
    BY <2>1 DEF Pending, Granting, Settled, NoRing
  <2>3. QED
    BY <1>1, <2>1, <2>2, ReadingKeys
<1>4. QED
  BY <1>2, <1>3

LEMMA InitVaultInv == Init => VaultInv
BY InitTypeInv, InitKeyInv DEF VaultInv

LEMMA KeyStep ==
  ASSUME TypeInv, JobsFit, WholeEnvelopes, ~fell => KeyInv, Next
  PROVE  ~fell' => KeyInv'
<1>1. SUFFICES ASSUME ~fell' PROVE KeyInv'
  OBVIOUS
<1>2. ASSUME NEW p \in Person, Look(p) \/ Distribute(p) \/ Edit(p) PROVE KeyInv'
  <2>1. ~fell
    BY <1>1, <1>2 DEF Look, Distribute, Edit, Load
  <2>2. QED
    BY <1>2, <2>1, LoadKeys
<1>3. ASSUME NEW p \in Person, Rotate(p) PROVE KeyInv'
  <2>1. ~fell
    BY <1>1, <1>3 DEF Rotate, Load
  <2>2. QED
    BY <1>3, <2>1, RotateKeys
<1>4. ASSUME NEW p \in Person,
             \/ GrantRole(p) \/ GrantMembers(p) \/ GrantRefused(p) \/ PutRole(p)
             \/ Target(p) \/ Count(p)
      PROVE  KeyInv'
  <2>1. UNCHANGED <<role, vault, keys, know>> /\ ~fell
    BY <1>1, <1>4, HandlerJob DEF crew
  <2>2. QED
    BY <1>4, <2>1, HandlerJob, ReadingKeys
<1>5. ASSUME NEW p \in Person, GrantTx(p) PROVE KeyInv'
  BY <1>1, <1>5, GrantKeys DEF GrantTx
<1>6. ASSUME NEW p \in Person, PutTx(p) PROVE KeyInv'
  BY <1>1, <1>6, WriteKeys DEF PutTx
<1>7. ASSUME NEW p \in Person, Wipe(p) \/ Change(p) \/ Add(p) PROVE KeyInv'
  <2>1. ~fell
    BY <1>1, <1>7 DEF Wipe, Change, Add
  <2>2. QED
    BY <1>1, <1>7, <2>1, MemberKeys
<1>8. ASSUME NEW q \in Person, LeaveTeam(q) PROVE KeyInv'
  <2>1. ~fell
    BY <1>1, <1>8 DEF LeaveTeam
  <2>2. QED
    BY <1>1, <1>8, <2>1, MemberKeys
<1>9. ASSUME NEW p \in Person,
             SetPublicKey(p) \/ \E q \in Person, to \in Maybe : StartChange(p, q, to)
      PROVE  KeyInv'
  BY <1>1, <1>9, BeginKeys DEF SetPublicKey, StartChange
<1>10. QED
  BY <1>2, <1>3, <1>4, <1>5, <1>6, <1>7, <1>8, <1>9 DEF Next, Client, Handler

LEMMA VaultInvStep == VaultInv /\ [Next]_vars => VaultInv'
<1>1. SUFFICES ASSUME VaultInv, [Next]_vars PROVE VaultInv'
  OBVIOUS
<1>2. TypeInv' /\ JobsFit' /\ WholeEnvelopes'
  BY <1>1, TypeStep DEF VaultInv
<1>3. CASE Next
  BY <1>1, <1>2, <1>3, KeyStep DEF VaultInv
<1>4. CASE UNCHANGED vars
  <2>1. KeyInv => KeyInv'
    <3>1. \A g \in Gen, k \in Key : Claimed(g, k)' => Claimed(g, k)
      BY <1>4 DEF vars, Claimed, Has
    <3>2. \A q \in Person : Pending(job'[q]) => Pending(job[q]) /\ PendingKey(q)' = PendingKey(q)
      BY <1>4 DEF vars, PendingKey
    <3>3. rotate' \/ (~rotate /\ \A q \in Person : role'[q] = "none" => role[q] = "none")
      BY <1>1, <1>4 DEF vars, VaultInv, TypeInv
    <3>4. UNCHANGED <<env, keys, know>>
      BY <1>4 DEF vars
    <3>5. QED
      BY <1>1, <3>1, <3>2, <3>3, <3>4, SameEnvelopes, NothingNew DEF VaultInv
  <2>2. QED
    BY <1>1, <1>2, <1>4, <2>1 DEF VaultInv, vars
<1>5. QED
  BY <1>1, <1>3, <1>4

\* Whoever has an envelope of a generation can open what is encrypted for it, however
\* rotations, grants, writes and changes of members interleave: two rotations do not
\* give out one generation with two keys.
THEOREM OneKey == Spec => []OneKeyPerGeneration
<1>1. VaultInv => OneKeyPerGeneration
  <2>1. SUFFICES ASSUME VaultInv, ~fell, NEW g \in Gen, NEW p \in Person, NEW q \in Person, Has(p, g)
                 PROVE  /\ Has(q, g) => env[g][p].key = env[g][q].key
                        /\ body.gen = g => env[g][p].key = body.key
    BY DEF OneKeyPerGeneration
  <2>2. /\ env[g][p].key \in Key /\ Claimed(g, env[g][p].key)
        /\ Has(q, g) => env[g][q].key \in Key /\ Claimed(g, env[g][q].key)
    BY <2>1, KnownAlready DEF VaultInv, TypeInv, Has
  <2>3. body.gen = g => body.key \in Key /\ Claimed(g, body.key)
    BY <2>1, KnownAlready DEF VaultInv, TypeInv
  <2>4. QED
    BY <2>1, <2>2, <2>3 DEF VaultInv, KeyInv, GenerationsAgree
<1>2. QED
  BY <1>1, InitVaultInv, VaultInvStep, PTL DEF Spec

\* A write goes through only with a key that no former member has unwrapped: who is
\* removed makes a rotation needed, and the key of the rotation is one they never had.
THEOREM FormerMembersStayOut == Spec => FormerMembersCannotRead
<1>1. VaultInv /\ [Next]_vars =>
        [body' # body /\ ~fell =>
           \A p \in Person : role[p] = "none" => body'.key \notin know[p]]_vars
  <2>1. SUFFICES ASSUME VaultInv, Next, body' # body, ~fell
                 PROVE  \A p \in Person : role[p] = "none" => body'.key \notin know[p]
    OBVIOUS
  <2>2. PICK p \in Person : PutTx(p)
    <3>1. ASSUME NEW p \in Person, Rotate(p) \/ Distribute(p) \/ Edit(p) \/ Look(p) PROVE FALSE
      BY <2>1, <3>1 DEF Rotate, Distribute, Edit, Look, Load, vault
    <3>2. ASSUME NEW p \in Person, SetPublicKey(p) \/ Wipe(p) PROVE FALSE
      BY <2>1, <3>2 DEF SetPublicKey, Wipe, vault
    <3>3. ASSUME NEW p \in Person,
                 \/ GrantRole(p) \/ GrantMembers(p) \/ GrantTx(p) \/ GrantRefused(p) \/ PutRole(p)
          PROVE  FALSE
      BY <2>1, <3>3 DEF GrantRole, GrantMembers, GrantTx, GrantRefused, PutRole, vault
    <3>4. ASSUME NEW p \in Person,
                 \/ \E q \in Person, to \in Maybe : StartChange(p, q, to)
                 \/ Target(p) \/ Count(p) \/ Change(p) \/ Add(p) \/ LeaveTeam(p)
          PROVE  FALSE
      BY <2>1, <3>4 DEF StartChange, Target, Count, Change, Add, LeaveTeam, vault
    <3>5. QED
      BY <2>1, <3>1, <3>2, <3>3, <3>4 DEF Next, Client, Handler
  <2>3. QED
    BY <2>1, <2>2, WriteKeys DEF VaultInv
<1>2. QED
  BY <1>1, InitVaultInv, VaultInvStep, PTL DEF Spec, FormerMembersCannotRead
=============================================================================

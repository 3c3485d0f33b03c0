----------------------------- MODULE SharedVault -----------------------------
(***************************************************************************)
(* A shared team vault: the handlers of server/vaults/service.ts, what     *)
(* server/family/space.ts does to it (setPublicKey, detachFromSpace), and  *)
(* the client that hands keys on and rotates them (features/vaults).       *)
(*                                                                         *)
(* One vault, one team, one browser per person.  One step per await of a   *)
(* handler; a transaction is one step, so is the listing of listVaults.    *)
(***************************************************************************)
EXTENDS Integers, FiniteSets, FiniteSetsExt

CONSTANTS
  Person,       \* the members of the team at the beginning
  Busy,         \* bound: who does more than open the vault
  MaxGen,       \* bound: generations of the vault key
  MaxKeys,      \* bound: secret keys, one more for every rotation that is begun
  MaxVersion,   \* bound: versions of the index
  MaxChanges,   \* bound: requests that change members or roles
  MaxPub        \* bound: key pairs that are made anew

Gen == 1..MaxGen
Key == 1..MaxKeys

ASSUME BoundAssumption == {MaxGen, MaxKeys, MaxVersion} \subseteq Nat \ {0} /\ {MaxChanges, MaxPub} \subseteq Nat
ASSUME BusyAssumption  == Busy \subseteq Person

VARIABLES
  team,       \* who is in the team
  role,       \* shared_vault_members
  pub,        \* account_pubkeys: the number of the key pair
  env,        \* shared_vault_keys: what is wrapped, for which key pair
  rotate,     \* rotate_needed
  body,       \* the index: version, generation in its header, key it is encrypted with
  job,        \* what the browser of a person, and its request, are doing
  keys,       \* how many secret keys there are
  changes,    \* how many requests to change members there were
  know,       \* history: the keys a person has unwrapped
  fell        \* history: the newest generation was lost with its last envelope

vars == <<team, role, pub, env, rotate, body, job, keys, changes, know, fell>>

Role  == {"view", "edit", "manage"}
Maybe == Role \cup {"none"}
NoEnv == [key |-> 0, pub |-> 0]

Step == {"idle", "grant", "members", "grantTx", "put", "putTx", "target", "count", "change",
         "add", "wipe"}

\* grants: what is to be handed out, by generation.  ring, pubs: the keys and public
\* keys as the browser has seen them.  gen: the generation at work.  role: as the
\* handler has read it, or as it is to be.
Job == [at : Step, fresh : BOOLEAN, grants : SUBSET (Gen \X Person), ring : [Gen -> {0} \cup Key],
        pubs : [Person -> 0..MaxPub + 1], gen : {0} \cup Gen, base : 0..MaxVersion,
        role : Maybe, target : Person]

NoRing  == [g \in Gen |-> 0]
Idle(p) == [at |-> "idle", fresh |-> FALSE, grants |-> {}, ring |-> NoRing,
            pubs |-> [q \in Person |-> 0], gen |-> 0, base |-> 0, role |-> "none", target |-> p]

TypeOK ==
  /\ team \subseteq Person
  /\ role \in [Person -> Maybe]
  /\ pub \in [Person -> 1..MaxPub + 1]
  /\ env \in [Gen -> [Person -> [key : {0} \cup Key, pub : 0..MaxPub + 1]]]
  /\ rotate \in BOOLEAN
  /\ body \in [version : 1..MaxVersion, gen : Gen, key : Key]
  /\ job \in [Person -> Job]
  /\ keys \in Key
  /\ changes \in 0..MaxChanges
  /\ know \in [Person -> SUBSET Key]
  /\ fell \in BOOLEAN

\* A vault with its first key, handed to every member.
Init ==
  /\ team = Person
  /\ role \in {r \in [Person -> Maybe] : \E p \in Person : r[p] = "manage"}
  /\ pub = [p \in Person |-> 1]
  /\ env = [g \in Gen |-> [p \in Person |->
              IF g = 1 /\ role[p] # "none" THEN [key |-> 1, pub |-> 1] ELSE NoEnv]]
  /\ rotate = FALSE
  /\ body = [version |-> 1, gen |-> 1, key |-> 1]
  /\ job = [p \in Person |-> Idle(p)]
  /\ keys = 1 /\ changes = 0
  /\ know = [p \in Person |-> {}]
  /\ fell = FALSE

crew  == <<team, role, changes>>
vault == <<env, rotate, body>>

At(p, step) == job[p].at = step
Do(p, j)    == job' = [job EXCEPT ![p] = j]
Goto(p, s)  == job' = [job EXCEPT ![p].at = s]

\* requireRole: a member of the team with a row.
Rank    == [none |-> 0, view |-> 1, edit |-> 2, manage |-> 3]
May(p, r) == p \in team /\ Rank[role[p]] >= Rank[r]

Members == {p \in Person : role[p] # "none"}
Has(p, g) == env[g][p].key # 0

\* currentGeneration: the newest generation anybody has an envelope of.
Current == Max({0} \cup {g \in Gen : \E p \in Person : Has(p, g)})

-----------------------------------------------------------------------------
(* The browser: SharedVaultsClient.run and update                          *)

\* The envelopes that fit the key pair.
Ring(p) == [g \in Gen |-> IF env[g][p].pub = pub[p] THEN env[g][p].key ELSE 0]

\* It loads the vault, unwraps its keys and goes on with j.
Load(p, j) ==
  /\ At(p, "idle") /\ May(p, "view")
  /\ know' = [know EXCEPT ![p] = @ \cup ({Ring(p)[g] : g \in Gen} \ {0})]
  /\ Do(p, j)
  /\ UNCHANGED <<crew, pub, vault, fell>>

Look(p) == Load(p, Idle(p)) /\ UNCHANGED keys

\* rotate: a new key for all members it saw.
Rotate(p) ==
  /\ rotate /\ role[p] = "manage"
  /\ Ring(p)[body.gen] = body.key
  /\ Current < MaxGen /\ keys < MaxKeys
  /\ keys' = keys + 1
  /\ Load(p, [Idle(p) EXCEPT !.at = "grant", !.fresh = TRUE, !.gen = Current + 1,
                          !.grants = {Current + 1} \X Members, !.pubs = pub,
                          !.ring = [Ring(p) EXCEPT ![Current + 1] = keys + 1],
                          !.base = body.version])

\* Missing envelopes of every generation it has.
Distribute(p) ==
  LET missing == {x \in Gen \X Members : Ring(p)[x[1]] # 0 /\ ~Has(x[2], x[1])} IN
  /\ ~(rotate /\ role[p] = "manage")
  /\ missing # {}
  /\ \E x \in missing :
       Load(p, [Idle(p) EXCEPT !.at = "grant", !.grants = missing, !.gen = x[1],
                            !.ring = Ring(p), !.pubs = pub])
  /\ UNCHANGED keys

\* update: with the newest key it has, if that is the newest there is.
Edit(p) ==
  /\ Current # 0 /\ Ring(p)[Current] # 0 /\ Ring(p)[body.gen] = body.key
  /\ Load(p, [Idle(p) EXCEPT !.at = "put", !.gen = Current, !.ring = Ring(p), !.base = body.version])
  /\ UNCHANGED keys

\* A new key pair: public key first, then the old envelopes.
SetPublicKey(p) ==
  /\ At(p, "idle")
  /\ MapThenSumSet(LAMBDA q : pub[q] - 1, Person) < MaxPub
  /\ pub' = [pub EXCEPT ![p] = @ + 1]
  /\ Goto(p, "wipe")
  /\ UNCHANGED <<crew, vault, keys, know, fell>>

Wipe(p) ==
  /\ At(p, "wipe")
  /\ env' = [g \in Gen |-> [env[g] EXCEPT ![p] = NoEnv]]
  /\ fell' = (fell \/ Current' < Current)
  /\ Do(p, Idle(p))
  /\ UNCHANGED <<crew, pub, rotate, body, keys, know>>

-----------------------------------------------------------------------------
(* grantVaultKeys                                                          *)

Now(p)  == {q \in Person : <<job[p].gen, q>> \in job[p].grants}
Rest(p) == {x \in job[p].grants : x[1] # job[p].gen}

\* A grant that is over: the next generation is handed on.
Continue(p) ==
  IF Rest(p) = {} THEN Do(p, Idle(p))
  ELSE \E x \in Rest(p) :
         Do(p, [job[p] EXCEPT !.at = "grant", !.grants = Rest(p), !.gen = x[1], !.role = "none"])

GrantRole(p) ==
  /\ At(p, "grant")
  /\ IF May(p, "view") THEN Do(p, [job[p] EXCEPT !.at = "members", !.role = role[p]])
     ELSE Continue(p)
  /\ UNCHANGED <<crew, pub, vault, keys, know, fell>>

\* All of them are members, and only a manager begins a generation.
GrantMembers(p) ==
  /\ At(p, "members")
  /\ IF Now(p) \subseteq Members /\ (job[p].fresh => job[p].role = "manage")
     THEN Goto(p, "grantTx") ELSE Continue(p)
  /\ UNCHANGED <<crew, pub, vault, keys, know, fell>>

\* The inserts of the transaction: what is there already stays.
Insert(p) ==
  /\ env' = [env EXCEPT ![job[p].gen] = [q \in Person |->
               IF q \in Now(p) /\ env[job[p].gen][q] = NoEnv
               THEN [key |-> job[p].ring[job[p].gen], pub |-> job[p].pubs[q]]
               ELSE env[job[p].gen][q]]]
  /\ IF job[p].fresh
     THEN /\ rotate' = FALSE
          /\ Goto(p, "put")
     ELSE UNCHANGED rotate /\ Continue(p)

\* Faulty variant of GrantTx: what the newest generation is is not read again.
GrantTxBlindly(p) ==
  /\ At(p, "grantTx")
  /\ ~job[p].fresh => Has(p, job[p].gen)
  /\ Insert(p)
  /\ UNCHANGED <<crew, pub, body, keys, know, fell>>

\* Under the lock: a new generation is the next one, an old one is the granter's.
GrantTx(p) ==
  /\ At(p, "grantTx")
  /\ IF job[p].fresh THEN job[p].gen = Current + 1
     ELSE job[p].gen <= Current /\ Has(p, job[p].gen)
  /\ Insert(p)
  /\ UNCHANGED <<crew, pub, body, keys, know, fell>>

\* VERSION_CONFLICT, FORBIDDEN.
GrantRefused(p) ==
  /\ At(p, "grantTx")
  /\ IF job[p].fresh THEN job[p].gen # Current + 1
     ELSE job[p].gen > Current \/ ~Has(p, job[p].gen)
  /\ IF job[p].fresh THEN Do(p, Idle(p)) ELSE Continue(p)
  /\ UNCHANGED <<crew, pub, vault, keys, know, fell>>

-----------------------------------------------------------------------------
(* putVaultIndex                                                           *)

PutRole(p) ==
  /\ At(p, "put")
  /\ IF May(p, "view") THEN Do(p, [job[p] EXCEPT !.at = "putTx", !.role = role[p]])
     ELSE Do(p, Idle(p))
  /\ UNCHANGED <<crew, pub, vault, keys, know, fell>>

\* Newest generation, the right to edit, no rotation pending, the version it knows.
Fits(p) ==
  /\ job[p].gen = Current
  /\ Rank[job[p].role] >= Rank["edit"]
  /\ ~rotate
  /\ job[p].base = body.version

\* Faulty variant of PutTx: a pending rotation is not looked at.
PutTxAnyway(p) ==
  /\ At(p, "putTx")
  /\ body.version < MaxVersion
  /\ body' = IF job[p].gen = Current /\ Rank[job[p].role] >= Rank["edit"] /\ job[p].base = body.version
             THEN [version |-> body.version + 1, gen |-> job[p].gen, key |-> job[p].ring[job[p].gen]]
             ELSE body
  /\ Do(p, Idle(p))
  /\ UNCHANGED <<crew, pub, env, rotate, keys, know, fell>>

PutTx(p) ==
  /\ At(p, "putTx")
  /\ body.version < MaxVersion
  /\ body' = IF Fits(p)
             THEN [version |-> body.version + 1, gen |-> job[p].gen, key |-> job[p].ring[job[p].gen]]
             ELSE body
  /\ Do(p, Idle(p))
  /\ UNCHANGED <<crew, pub, env, rotate, keys, know, fell>>

-----------------------------------------------------------------------------
(* addVaultMember, setVaultRole, removeVaultMember                         *)

\* requireRole; to = "none" removes, and oneself may always leave.
StartChange(p, q, to) ==
  /\ At(p, "idle") /\ changes < MaxChanges
  /\ May(p, IF to = "none" /\ p = q THEN "view" ELSE "manage")
  /\ q \in Members \/ (q \in team /\ to # "none")
  /\ changes' = changes + 1
  /\ Do(p, [Idle(p) EXCEPT !.at = IF q \in Members THEN "target" ELSE "add", !.target = q, !.role = to])
  /\ UNCHANGED <<team, role, pub, vault, keys, know, fell>>

\* The role of the target; the last manager is looked for if it is one.
Target(p) ==
  /\ At(p, "target")
  /\ LET was == role[job[p].target] IN
       IF was = "none" THEN Do(p, Idle(p))
       ELSE Goto(p, IF was = "manage" /\ job[p].role # "manage" THEN "count" ELSE "change")
  /\ UNCHANGED <<crew, pub, vault, keys, know, fell>>

\* managerCount
Count(p) ==
  /\ At(p, "count")
  /\ IF Cardinality({q \in Person : role[q] = "manage"}) <= 1 THEN Do(p, Idle(p)) ELSE Goto(p, "change")
  /\ UNCHANGED <<crew, pub, vault, keys, know, fell>>

\* The rows of a person who leaves the vault.
Drop(q) ==
  /\ role' = [role EXCEPT ![q] = "none"]
  /\ env' = [g \in Gen |-> [env[g] EXCEPT ![q] = NoEnv]]

Change(p) ==
  /\ At(p, "change")
  /\ IF job[p].role = "none" THEN Drop(job[p].target) /\ rotate' = TRUE
     ELSE /\ role' = [role EXCEPT ![job[p].target] = IF @ = "none" THEN @ ELSE job[p].role]
          /\ UNCHANGED <<env, rotate>>
  /\ fell' = (fell \/ Current' < Current)
  /\ Do(p, Idle(p))
  /\ UNCHANGED <<team, changes, pub, body, keys, know>>

\* Members of the team only; who has access keeps the role.
Add(p) ==
  /\ At(p, "add")
  /\ role' = [role EXCEPT ![job[p].target] =
                IF @ = "none" THEN job[p].role ELSE @]
  /\ Do(p, Idle(p))
  /\ UNCHANGED <<team, changes, pub, vault, keys, know, fell>>

\* detachFromSpace: somebody leaves the team, in the transaction of removeMember.
LeaveTeam(q) ==
  /\ q \in team /\ changes < MaxChanges
  /\ changes' = changes + 1
  /\ team' = team \ {q}
  /\ rotate' = (rotate \/ role[q] # "none")
  /\ Drop(q)
  /\ fell' = (fell \/ Current' < Current)
  /\ UNCHANGED <<pub, body, job, keys, know>>

-----------------------------------------------------------------------------
Client(p)  == Rotate(p) \/ Distribute(p) \/ Edit(p) \/ SetPublicKey(p) \/ Wipe(p)
Handler(p) ==
  \/ GrantRole(p) \/ GrantMembers(p) \/ GrantTx(p) \/ GrantRefused(p)
  \/ PutRole(p) \/ PutTx(p)
  \/ \E q \in Person, to \in Maybe : StartChange(p, q, to)
  \/ Target(p) \/ Count(p) \/ Change(p) \/ Add(p)

Next ==
  \/ \E p \in Person : Look(p) \/ LeaveTeam(p)
  \/ \E p \in Busy : Client(p) \/ Handler(p)

Spec == Init /\ [][Next]_vars

-----------------------------------------------------------------------------
(* Properties                                                              *)

\* "Wer entfernt wird, bekommt sofort nichts mehr", and what is written afterwards is
\* encrypted with a key that nobody outside has ever unwrapped, however removals,
\* rotations and writes under way interleave, while no generation is lost.
FormerMembersCannotRead ==
  [][body' # body /\ ~fell => \A p \in Person : role[p] = "none" => body'.key \notin know[p]]_vars

\* A generation has one key: who has an envelope of it can open what the others
\* encrypt, and the index is encrypted with the key its header names.
OneKeyPerGeneration ==
  ~fell => \A g \in Gen : \A p, q \in Person :
    /\ Has(p, g) /\ Has(q, g) => env[g][p].key = env[g][q].key
    /\ Has(p, g) /\ body.gen = g => env[g][p].key = body.key

\* Does not hold: "Ein Tresor braucht mindestens einen Verwalter" (two managers at the
\* same time, a manager who leaves the team).
SomebodyManages == \E p \in Person : role[p] = "manage"

\* Does not hold: "Ehemalige besitzen den neuen Schlüssel nicht" (a rotation that has
\* read the members before one of them was removed).
FormerMembersHaveNoEnvelope ==
  ~rotate /\ Current # 0 => \A p \in Person : role[p] = "none" => ~Has(p, Current)

\* Does not hold: who makes the new key after a removal is a member when it counts (a
\* manager that is removed while its own rotation runs has made the key itself; know
\* holds what was unwrapped, not what was made).
RotatorsAreMembers ==
  [][rotate /\ ~rotate' => \E p \in Person :
       At(p, "grantTx") /\ role[p] # "none" /\ At(p, "put")']_vars

\* Does not hold: every envelope is wrapped for the key pair of its owner (handed out
\* after its owner has published a new one).
EnvelopesFit ==
  \A p \in Person, g \in Gen : Has(p, g) /\ ~At(p, "wipe") => env[g][p].pub = pub[p]
=============================================================================

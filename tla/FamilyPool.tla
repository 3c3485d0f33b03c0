------------------------------ MODULE FamilyPool ------------------------------
(***************************************************************************)
(* A family and the quota its accounts share: the quota check of an upload *)
(* statement by statement, and the ways into and out of the family.        *)
(*                                                                         *)
(* An account alone has its own quota; the owner of a family and its       *)
(* members share the owner's.  createObject (server/objects/service.ts)    *)
(* checks and inserts in a transaction that holds FOR UPDATE the row of    *)
(* the uploading account; the S3 store (server/s3/store.ts) checks without *)
(* a transaction.  Under READ COMMITTED a statement sees what is committed *)
(* when it runs, so what a handler has read can be old when it writes.     *)
(* Plans change in server/billing and server/stripe; what follows for the  *)
(* members is syncFamilyAfterPlanChange of server/family/service.ts.       *)
(***************************************************************************)
EXTENDS Integers, FiniteSets, Functions

CONSTANTS
  Account,       \* the accounts
  Owner,         \* the account that owns the family
  FirstMembers,  \* the members of the family at the start
  Invitee,       \* the accounts that can be invited
  Changing,      \* the accounts whose own plan can change
  GroupPlan,     \* the plans with members
  Upload,        \* createObject requests that can run at the same time
  S3Upload,      \* PUTs of the S3 store that can run at the same time
  Sync,          \* plan changes that can be under way at the same time
  PoolQuota,     \* per plan of GroupPlan: bytes the family may hold
  SoloQuota,     \* bytes an account alone may hold
  LargestQuota,  \* no quota is larger
  Seats,         \* per plan of the owner: places in the family, the owner's included
  MaxSize,       \* bound: the largest upload
  MaxChanges,    \* bound: plan changes and departures
  None           \* "nobody" and "no account"

ASSUME AccountAssumption ==
  /\ Owner \in Account
  /\ FirstMembers \subseteq Account \ {Owner}
  /\ Invitee \subseteq Account \ {Owner}
  /\ Changing \subseteq Account
  /\ None \notin Account \cup Upload \cup S3Upload
  /\ Upload \cap S3Upload = {} /\ Account \cap (Upload \cup S3Upload) = {}
  /\ "free" \notin GroupPlan /\ GroupPlan # {}
ASSUME SeatAssumption == IsFiniteSet(Account) /\ Seats \in [GroupPlan \cup {"free"} -> Nat]
ASSUME PutAssumption  == IsFiniteSet(S3Upload)
ASSUME SizeAssumption ==
  /\ {LargestQuota, MaxSize, MaxChanges} \subseteq Nat
  /\ SoloQuota \in 0..LargestQuota /\ PoolQuota \in [GroupPlan -> 0..LargestQuota]

Size   == 1..MaxSize
Plan   == GroupPlan \cup {"free"}
Writer == Upload \cup S3Upload

VARIABLES
  used,        \* per account: the committed bytes in objects that count
  paid,        \* per account: the plan it has itself
  plan,        \* per account: accounts.plan, of a member that of its owner
  members,     \* the rows of family_members
  rowLock,     \* per account: who holds its row FOR UPDATE
  writer,      \* per upload: where it is, and what it has read
  joining,     \* per invitee: its invitation, and where joinFamily is
  sync,        \* per plan change: where it is, and what it has read
  changes,     \* how many plan changes and departures there were
  joined,      \* history: the accounts that have ever joined, and how often
  joins        \*   somebody did (who has left can join again)

quotas == <<used, writer>>
past   == <<joined, joins>>
family == <<paid, plan, members, joining, sync, changes, past>>
vars   == <<used, paid, plan, members, rowLock, writer, joining, sync, changes, joined, joins>>

\* acct, size: the request.  quota: what the transaction has read.
Task == [at : {"idle", "sum", "insert"}, acct : Account \cup {None},
         size : {0} \cup Size, quota : 0..LargestQuota]

\* todo: the members that syncFamilyAfterPlanChange has found.
Job == [at : {"idle", "plan", "follow", "leave", "list", "end"}, acct : Account \cup {None},
        plan : Plan, todo : SUBSET Account]

Idle    == [at |-> "idle", acct |-> None, size |-> 0, quota |-> 0]
Resting == [at |-> "idle", acct |-> None, plan |-> "free", todo |-> {}]

TypeOK ==
  /\ used    \in [Account -> Nat]
  /\ paid    \in [Account -> Plan]
  /\ plan    \in [Account -> Plan]
  /\ members \subseteq Account \ {Owner}
  /\ rowLock \in [Account -> Writer \cup Account \cup {None}]
  /\ writer  \in [Writer -> Task]
  /\ joining \in [Invitee -> [at : {"none", "counted", "invited", "own", "owner", "seat"}, plan : Plan]]
  /\ sync    \in [Sync -> Job]
  /\ changes \in 0..MaxChanges
  /\ joined  \subseteq Invitee
  /\ joins   \in Nat

Init ==
  /\ used    = [a \in Account |-> 0]
  /\ \E p \in GroupPlan :
       /\ Cardinality(FirstMembers) < Seats[p]
       /\ paid = [a \in Account |-> IF a = Owner THEN p ELSE "free"]
       /\ plan = [a \in Account |-> IF a \in FirstMembers \cup {Owner} THEN p ELSE "free"]
  /\ members = FirstMembers
  /\ rowLock = [a \in Account |-> None]
  /\ writer  = [w \in Writer |-> Idle]
  /\ joining = [a \in Invitee |-> [at |-> "none", plan |-> "free"]]
  /\ sync    = [s \in Sync |-> Resting]
  /\ changes = 0
  /\ joined = {} /\ joins = 0

\* The accounts whose objects count together (familyPool), the quota that the plan
\* of an account gives (quotaFor), the sum of the pool (pooledUsedBytes), and whether
\* the seats that the plan of the owner gives (groupSeats) are taken (assertFreeSeat).
InFamily(a)   == a = Owner \/ a \in members
Pool(a)       == IF InFamily(a) THEN {Owner} \cup members ELSE {a}
Quota(a)      == IF plan[a] = "free" THEN SoloQuota ELSE PoolQuota[plan[a]]
PooledUsed(a) == SumFunctionOnSet(used, Pool(a))
Full          == Cardinality(members) >= Seats[plan[Owner]] - 1

Set(w, t)     == writer' = [writer EXCEPT ![w] = t]
Take(a, who)  == rowLock[a] = None /\ rowLock' = [rowLock EXCEPT ![a] = who]
Drop(w)       == rowLock' = [a \in Account |-> IF rowLock[a] = w THEN None ELSE rowLock[a]]

-----------------------------------------------------------------------------
(* The quota check                                                         *)

\* Faulty variant of LockRow: the SELECT has no FOR UPDATE.
ReadRow(w, a, n) ==
  /\ w \in Upload
  /\ writer[w].at = "idle"
  /\ Set(w, [at |-> "sum", acct |-> a, size |-> n, quota |-> Quota(a)])
  /\ UNCHANGED <<used, rowLock, family>>

\* A client announces an upload, and the transaction has got the row: SELECT ... FROM
\* accounts WHERE id = ... FOR UPDATE, and the quota of that row.
LockRow(w, a, n) ==
  /\ w \in Upload
  /\ writer[w].at = "idle"
  /\ Take(a, w)
  /\ Set(w, [at |-> "sum", acct |-> a, size |-> n, quota |-> Quota(a)])
  /\ UNCHANGED <<used, family>>

\* The S3 store's assertQuota starts: no transaction, no lock.
S3Start(w, a, n) ==
  /\ w \in S3Upload
  /\ writer[w].at = "idle"
  /\ Set(w, [at |-> "sum", acct |-> a, size |-> n, quota |-> Quota(a)])
  /\ UNCHANGED <<used, rowLock, family>>

\* SELECT SUM(cipher_bytes): the request goes on, or ends with QUOTA_EXCEEDED.
SumPool(w) ==
  /\ writer[w].at = "sum"
  /\ IF PooledUsed(writer[w].acct) + writer[w].size > writer[w].quota
     THEN Set(w, Idle) /\ Drop(w)
     ELSE /\ Set(w, [at |-> "insert", acct |-> writer[w].acct, size |-> writer[w].size, quota |-> 0])
          /\ UNCHANGED rowLock
  /\ UNCHANGED <<used, family>>

\* INSERT INTO objects ... 'uploading' becomes visible: the transaction commits
\* and gives its row lock back (createObject), or the single statement ends (S3).
Insert(w) ==
  /\ writer[w].at = "insert"
  /\ used' = [used EXCEPT ![writer[w].acct] = @ + writer[w].size]
  /\ Set(w, Idle)
  /\ Drop(w)
  /\ UNCHANGED family

\* An object is deleted or its upload fails.
Free(a, n) ==
  /\ used[a] >= n
  /\ used' = [used EXCEPT ![a] = @ - n]
  /\ UNCHANGED <<rowLock, writer, family>>

-----------------------------------------------------------------------------
(* createInvite, joinFamily                                                *)

Joins(a) == joining[a].at \in {"own", "owner", "seat"}
Open(a)  == joining[a].at = "invited" \/ Joins(a)

\* createInvite counts members and open invitations; the INSERT comes later.
CountSeats(a) ==
  /\ joining[a].at = "none" /\ a \notin members
  /\ plan[Owner] \in GroupPlan
  /\ Cardinality(members) + Cardinality({b \in Invitee : Open(b)}) < Seats[plan[Owner]] - 1
  /\ joining' = [joining EXCEPT ![a].at = "counted"]
  /\ UNCHANGED <<quotas, rowLock, paid, plan, members, sync, changes, past>>

CreateInvite(a) ==
  /\ joining[a].at = "counted"
  /\ joining' = [joining EXCEPT ![a].at = "invited"]
  /\ UNCHANGED <<quotas, rowLock, paid, plan, members, sync, changes, past>>

\* revokeInvite: the UPDATE waits for a joinFamily that holds the invitation.
RevokeInvite(a) ==
  /\ joining[a].at = "invited"
  /\ joining' = [joining EXCEPT ![a].at = "none"]
  /\ UNCHANGED <<quotas, rowLock, paid, plan, members, sync, changes, past>>

\* One transaction that holds the account's row, then the owner's, too.
JoinOwn(a) ==
  /\ joining[a].at = "invited"
  /\ a \notin members /\ plan[a] = "free"
  /\ Take(a, a)
  /\ joining' = [joining EXCEPT ![a].at = "own"]
  /\ UNCHANGED <<quotas, paid, plan, members, sync, changes, past>>

\* Faulty variant of JoinOwner: the owner's row is read without FOR UPDATE.
JoinOwnerUnlocked(a) ==
  /\ joining[a].at = "own"
  /\ plan[Owner] \in GroupPlan
  /\ joining' = [joining EXCEPT ![a] = [at |-> "owner", plan |-> plan[Owner]]]
  /\ UNCHANGED <<quotas, rowLock, paid, plan, members, sync, changes, past>>

JoinOwner(a) ==
  /\ joining[a].at = "own"
  /\ plan[Owner] \in GroupPlan
  /\ Take(Owner, a)
  /\ joining' = [joining EXCEPT ![a] = [at |-> "owner", plan |-> plan[Owner]]]
  /\ UNCHANGED <<quotas, paid, plan, members, sync, changes, past>>

\* The owner has no such plan any more, or no seat is free: nothing happens.
JoinRefused(a) ==
  /\ \/ joining[a].at = "own" /\ rowLock[Owner] = None /\ plan[Owner] \notin GroupPlan
     \/ joining[a].at = "owner" /\ Full
  /\ joining' = [joining EXCEPT ![a] = [at |-> "invited", plan |-> "free"]]
  /\ Drop(a)
  /\ UNCHANGED <<quotas, paid, plan, members, sync, changes, past>>

\* assertFreeSeat, with the owner's plan of now.
JoinSeat(a) ==
  /\ joining[a].at = "owner" /\ ~Full
  /\ joining' = [joining EXCEPT ![a].at = "seat"]
  /\ UNCHANGED <<quotas, rowLock, paid, plan, members, sync, changes, past>>

\* The INSERT, the UPDATEs and the commit, with the plan that JoinOwner has read.  The
\* invitation is used up; who leaves can be invited again.
JoinCommit(a) ==
  /\ joining[a].at = "seat"
  /\ members' = members \cup {a}
  /\ plan' = [plan EXCEPT ![a] = joining[a].plan]
  /\ joining' = [joining EXCEPT ![a] = [at |-> "none", plan |-> "free"]]
  /\ Drop(a)
  /\ joined' = joined \cup {a} /\ joins' = joins + 1
  /\ UNCHANGED <<quotas, paid, sync, changes>>

-----------------------------------------------------------------------------
(* removeMember, syncFamilyAfterPlanChange                                 *)

\* The transaction that ends a membership waits for the account's row.  What a member
\* has in the family's folder, any share of its bytes, goes to the owner
\* (detachFromSpace); who had already left has nothing there.
Detach(a) ==
  /\ rowLock[a] = None
  /\ \E n \in IF a \in members THEN 0..used[a] ELSE {0} :
       used' = [used EXCEPT ![a] = @ - n, ![Owner] = @ + n]
  /\ members' = members \ {a}
  /\ plan' = [plan EXCEPT ![a] = "free"]

\* By the owner, or by the member itself.
RemoveMember(a) ==
  /\ a \in members /\ changes < MaxChanges
  /\ changes' = changes + 1
  /\ Detach(a)
  /\ UNCHANGED <<rowLock, writer, paid, joining, sync, past>>

Go(s, job) == sync' = [sync EXCEPT ![s] = job]

\* changePlan, applySubscription, setPlan: the plan, then the family.  Any plan: setPlan
\* and the webhooks of applySubscription do not look at members and bytes, and
\* changePlan does so without a lock and before its transaction (at the seats only for
\* a business), so what fitted then need not fit now.
ChangePlan(s, a, p) ==
  /\ sync[s].at = "idle" /\ changes < MaxChanges
  /\ a \in Changing \ members /\ p # paid[a]
  /\ rowLock[a] = None
  /\ paid' = [paid EXCEPT ![a] = p]
  /\ plan' = [plan EXCEPT ![a] = p]
  /\ Go(s, [Resting EXCEPT !.at = "plan", !.acct = a])
  /\ changes' = changes + 1
  /\ UNCHANGED <<quotas, rowLock, members, joining, past>>

ReadPlan(s) ==
  /\ sync[s].at = "plan"
  /\ LET p == plan[sync[s].acct] IN
       Go(s, [sync[s] EXCEPT !.at = IF p \in GroupPlan THEN "follow" ELSE "leave", !.plan = p])
  /\ UNCHANGED <<quotas, rowLock, paid, plan, members, joining, changes, past>>

MembersOf(a) == IF a = Owner THEN members ELSE {}

\* Members follow the plan that has been read.
Follow(s) ==
  /\ sync[s].at = "follow"
  /\ LET their == {a \in MembersOf(sync[s].acct) : plan[a] \in GroupPlan} IN
       /\ \A a \in their : rowLock[a] = None
       /\ plan' = [a \in Account |-> IF a \in their THEN sync[s].plan ELSE plan[a]]
  /\ Go(s, Resting)
  /\ UNCHANGED <<quotas, rowLock, paid, members, joining, changes, past>>

\* A member with a plan of its own leaves.
Leave(s) ==
  /\ sync[s].at = "leave"
  /\ members' = members \ {sync[s].acct}
  /\ Go(s, [sync[s] EXCEPT !.at = "list"])
  /\ UNCHANGED <<quotas, rowLock, paid, plan, joining, changes, past>>

List(s) ==
  /\ sync[s].at = "list"
  /\ Go(s, IF sync[s].acct = Owner THEN [sync[s] EXCEPT !.at = "end", !.todo = members] ELSE Resting)
  /\ UNCHANGED <<quotas, rowLock, paid, plan, members, joining, changes, past>>

EndMembership(s) ==
  /\ sync[s].at = "end"
  /\ \E a \in sync[s].todo : Detach(a) /\ Go(s, [sync[s] EXCEPT !.todo = @ \ {a}])
  /\ UNCHANGED <<rowLock, writer, paid, joining, changes, past>>

\* Invitations end; the UPDATE waits for those that joinFamily holds.
RevokeInvites(s) ==
  /\ sync[s].at = "end" /\ sync[s].todo = {}
  /\ \A a \in Invitee : ~Joins(a)
  /\ joining' = [a \in Invitee |->
       IF Open(a) THEN [at |-> "none", plan |-> "free"] ELSE joining[a]]
  /\ Go(s, Resting)
  /\ UNCHANGED <<quotas, rowLock, paid, plan, members, changes, past>>

-----------------------------------------------------------------------------
Next ==
  \/ \E w \in Writer :
       \/ \E a \in Account, n \in Size : LockRow(w, a, n) \/ S3Start(w, a, n)
       \/ SumPool(w) \/ Insert(w)
  \/ \E a \in Account, n \in Size : Free(a, n)
  \/ \E a \in Invitee :
       \/ CountSeats(a) \/ CreateInvite(a) \/ RevokeInvite(a)
       \/ JoinOwn(a) \/ JoinOwner(a) \/ JoinRefused(a) \/ JoinSeat(a) \/ JoinCommit(a)
  \/ \E a \in Account : RemoveMember(a)
  \/ \E s \in Sync :
       \/ \E a \in Account, p \in Plan : ChangePlan(s, a, p)
       \/ ReadPlan(s) \/ Follow(s) \/ Leave(s) \/ List(s) \/ EndMembership(s) \/ RevokeInvites(s)

Spec == Init /\ [][Next]_vars

-----------------------------------------------------------------------------
(* Properties                                                              *)

S3Most == Cardinality(S3Upload) * MaxSize

\* An account but the owner is overbooked by S3 writers only: one that does not take
\* the row lock adds at most one upload that the others did not see.  Until it joins or
\* has a plan of its own that is over its own quota; after that, whatever it joins,
\* leaves and joins again, over the largest there is.
AloneOverbooking ==
  \A a \in Account \ {Owner} :
    used[a] <= S3Most + IF a \in FirstMembers \cup joined \cup Changing
                        THEN LargestQuota ELSE SoloQuota

\* How far a pool can be overbooked at most: by one upload for every account but the
\* owner that has come to it, since checks of different accounts do not see each other,
\* by one for every S3 writer, and by what those brought with them who joined, each
\* time anew (they leave with their bytes or leave them to the owner).
PoolOverbooking ==
  PooledUsed(Owner) <=
    LargestQuota + (Cardinality(FirstMembers) + joins) * MaxSize + joins * (LargestQuota + S3Most) + S3Most

\* "gleichzeitige Beitritte zählen die Plätze nacheinander": however many invitations
\* are out, and whatever plan the owner changes to meanwhile, nobody gets in without a
\* seat that the owner's plan has at that moment.
SeatsSuffice ==
  [][\/ members' \subseteq members
     \/ plan[Owner] \in GroupPlan /\ Cardinality(members') < Seats[plan[Owner]]]_vars

\* Nobody keeps the plan of a family that nobody pays for, whatever joins, departures
\* and plan changes of the owner are under way at the same time.
NobodyRidesFree ==
  (\A s \in Sync : sync[s].at = "idle") =>
    \A a \in Account : plan[a] \in GroupPlan =>
      paid[a] \in GroupPlan \/ (a \in members /\ paid[Owner] \in GroupPlan)

\* createObject: "Quota kann nicht überbucht werden", for an account and for a pool.
AloneWithinQuota == \A a \in Account : Pool(a) = {a} => used[a] <= Quota(a)
PoolWithinQuota  == PooledUsed(Owner) <= LargestQuota

\* Do not hold.  "passt er nicht mehr hinein, wird der Beitritt abgelehnt": joinFamily
\* does not look at what the account holds.
JoinFits ==
  [][members' \subseteq members \/ SumFunctionOnSet(used, {Owner} \cup members') <= LargestQuota]_vars

\* "Weniger Plätze buchen geht nur, wenn die bestehenden Mitglieder hineinpassen": from a
\* business to a family nobody looks.
MembersHaveSeats == plan[Owner] \in GroupPlan => Cardinality(members) < Seats[plan[Owner]]

\* Members have the plan of their owner (two plan changes at the same time).
MembersFollow ==
  (\A s \in Sync : sync[s].at = "idle") => \A a \in members : plan[a] = plan[Owner]

\* Who pays has the plan (a member that left and has bought a plan of its own is
\* still in the list of a plan change that ends the family).
PaidPlansStay == \A a \in Account \ {Owner} : paid[a] \in GroupPlan => plan[a] = paid[a]
=============================================================================

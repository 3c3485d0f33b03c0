----------------------------- MODULE TeamRecovery -----------------------------
(***************************************************************************)
(* The emergency access of a business team (server/team/service.ts): the   *)
(* owner makes a team key, members leave their master key wrapped for it,  *)
(* and what a member has left is handed out after one admin has asked and  *)
(* another one has approved.                                               *)
(*                                                                         *)
(* The server sees no key: a row says for which generation something is    *)
(* wrapped, the browser decides for which key, and binds the generation of *)
(* its view into the wrapping.  What fits what is the subject here.  A     *)
(* handler awaits every statement; several run at the same time, and roles *)
(* change between their checks and their writes.                           *)
(***************************************************************************)
EXTENDS Integers, FiniteSets

CONSTANTS
  Account,       \* the accounts
  Owner,         \* the owner of the team
  FirstAdmins,   \* the admins at the start
  FirstMembers,  \* the other members at the start
  Leaver,        \* bound: who leaves a key
  Request,       \* recovery requests
  Tab,           \* pages of the owner that can renew the key at the same time
  Handler,       \* other requests that can run at the same time
  MaxKeys,       \* bound: team keys that are made
  MaxMoves,      \* bound: changes of roles and departures
  None           \* "nobody"

ASSUME AccountAssumption ==
  /\ Owner \in Account
  /\ FirstAdmins \subseteq Account \ {Owner}
  /\ FirstMembers \subseteq Account \ ({Owner} \cup FirstAdmins)
  /\ None \notin Account \cup Request
  /\ Leaver \subseteq Account
ASSUME BoundAssumption == {MaxKeys, MaxMoves} \subseteq Nat

\* nth: keys differ, also those that two pages make for one generation.  A key has its
\* name when it is stored: nothing is wrapped for it before.
Gen   == 0..MaxKeys
Key   == [gen : 1..MaxKeys, nth : 1..MaxKeys]
NoKey == [gen |-> 0, nth |-> 0]

VARIABLES
  role,     \* per account: family_members.role
  key,      \* team_recovery_keys
  grants,   \* team_recovery_grants: the key wrapped for an admin
  escrow,   \* per account: team_escrow, with the key it is wrapped for
  request,  \* team_recovery_requests
  page,     \* per page: the generation in its view
  renewal,  \* per page: how far its renewal is
  made,     \* how many keys there have been
  task,     \* per handler: where it is, and what it has read
  moves     \* how many roles have changed

rows == <<key, grants, escrow, request>>
team == <<role, moves>>
pages == <<page, renewal, made>>
vars == <<role, key, grants, escrow, request, page, renewal, made, task, moves>>

\* gen: the generation in the row.  key: what is in the wrapping.  seal: the generation
\* that is bound into it (of an escrow, that in the row).
Grant  == [gen : Gen, to : Account, key : Key, seal : Gen]
Escrow == [gen : Gen, key : Key \cup {NoKey}]

NoEscrow == [gen |-> 0, key |-> NoKey]

Renewing  == [at : {"idle", "read", "store"}, seal : Gen, gen : Gen]
NoRenewal == [at |-> "idle", seal |-> 0, gen |-> 0]

\* late: the request, or the access it gives, has expired.  left: its target has left
\* the team since the request was made (of no handler, for the properties).
Claim == [at : {"none", "open", "approved", "rejected"}, target : Account \cup {None},
          by : Account \cup {None}, second : Account \cup {None}, late : BOOLEAN, left : BOOLEAN]

\* by: the account that calls.  to: the admin that is given the key, or the target of
\* a request.  req: the request.  item: what it carries, or the escrow it has read.
\* wrapped, seal: the grant it has read.  public: the public key it has read.
Step == {"idle", "grant", "insert", "escrow", "store", "ask", "approve", "reject", "strip",
         "find", "unlock", "deliver", "answered"}
Task == [at : Step, by : Account \cup {None}, to : Account \cup {None},
         req : Request \cup {None}, item : Escrow, wrapped : Key \cup {NoKey}, seal : Gen,
         public : Key \cup {NoKey}]

Idle == [at |-> "idle", by |-> None, to |-> None, req |-> None, item |-> NoEscrow,
         wrapped |-> NoKey, seal |-> 0, public |-> NoKey]
Unused == [at |-> "none", target |-> None, by |-> None, second |-> None,
           late |-> FALSE, left |-> FALSE]

TypeOK ==
  /\ role    \in [Account -> {"owner", "admin", "member", "out"}]
  /\ key     \in Key \cup {NoKey}
  /\ grants  \subseteq Grant
  /\ escrow  \in [Account -> Escrow]
  /\ request \in [Request -> Claim]
  /\ page    \in [Tab -> Gen]
  /\ renewal \in [Tab -> Renewing]
  /\ made    \in Gen
  /\ task    \in [Handler -> Task]
  /\ moves   \in 0..MaxMoves

Init ==
  /\ role = [a \in Account |-> CASE a = Owner          -> "owner"
                                 [] a \in FirstAdmins  -> "admin"
                                 [] a \in FirstMembers -> "member"
                                 [] OTHER              -> "out"]
  /\ key = NoKey
  /\ grants = {}
  /\ escrow = [a \in Account |-> NoEscrow]
  /\ request = [r \in Request |-> Unused]
  /\ page = [t \in Tab |-> 0]
  /\ renewal = [t \in Tab |-> NoRenewal]
  /\ made = 0
  /\ task = [h \in Handler |-> Idle]
  /\ moves = 0

IsAdmin(a) == role[a] \in {"owner", "admin"}
InTeam(a)  == role[a] # "out"

At(h, step) == task[h].at = step
Do(h, t)    == task' = [task EXCEPT ![h] = t]
Return(h)   == Do(h, Idle)

-----------------------------------------------------------------------------
(* setRecoveryKey                                                          *)

Renewal(t, at, seal, gen) == renewal' = [renewal EXCEPT ![t] = [at |-> at, seal |-> seal, gen |-> gen]]

\* The owner's page loads its view; after a renewal too, unless that fails or the
\* answer to the renewal was lost.
Load(t) ==
  /\ renewal[t].at = "idle" /\ page[t] # key.gen
  /\ page' = [page EXCEPT ![t] = key.gen]
  /\ UNCHANGED <<rows, team, renewal, made, task>>

\* It makes a key, and seals it for the generation after that of its view.
StartRenewal(t) ==
  /\ renewal[t].at = "idle" /\ made < MaxKeys
  /\ Renewal(t, "read", page[t] + 1, 0)
  /\ UNCHANGED <<rows, team, page, made, task>>

\* Faulty variant of ReadGeneration: a new key keeps the generation.
ReadGenerationInPlace(t) ==
  /\ renewal[t].at = "read" /\ made < MaxKeys
  /\ Renewal(t, "store", renewal[t].seal, IF key.gen = 0 THEN 1 ELSE key.gen)
  /\ UNCHANGED <<rows, team, page, made, task>>

\* The handler reads the generation, and counts on from it.
ReadGeneration(t) ==
  /\ renewal[t].at = "read" /\ made < MaxKeys
  /\ Renewal(t, "store", renewal[t].seal, key.gen + 1)
  /\ UNCHANGED <<rows, team, page, made, task>>

\* The transaction: what was wrapped for the key before is gone.
Renew(t) ==
  /\ renewal[t].at = "store" /\ made < MaxKeys
  /\ made' = made + 1
  /\ key' = [gen |-> renewal[t].gen, nth |-> made']
  /\ grants' = {[gen |-> key'.gen, to |-> Owner, key |-> key', seal |-> renewal[t].seal]}
  /\ escrow' = [a \in Account |-> NoEscrow]
  /\ renewal' = [renewal EXCEPT ![t] = NoRenewal]
  /\ UNCHANGED <<request, team, page, task>>

\* The request, or its transaction, fails: the page's key is thrown away.
GiveUp(t) ==
  /\ renewal[t].at # "idle"
  /\ renewal' = [renewal EXCEPT ![t] = NoRenewal]
  /\ UNCHANGED <<rows, team, page, made, task>>

-----------------------------------------------------------------------------
(* grantRecoveryKey, escrowMasterKey                                       *)

Holds(a, gen) == \E g \in grants : g.to = a /\ g.gen = gen

\* distributeTeamKey: an admin that can open the key wraps it for one that has none.
Distribute(h, a, b) ==
  /\ At(h, "idle") /\ IsAdmin(a) /\ IsAdmin(b) /\ ~Holds(b, key.gen)
  /\ \E g \in grants :
       /\ g.to = a /\ g.gen = key.gen /\ g.seal = g.gen
       /\ Do(h, [Idle EXCEPT !.at = "grant", !.by = a, !.to = b,
                             !.item = [gen |-> g.gen, key |-> g.key]])
  /\ UNCHANGED <<rows, team, pages>>

\* The caller is an admin and holds that generation, and the other one is an admin.
CheckGrant(h) ==
  /\ At(h, "grant")
  /\ IF IsAdmin(task[h].by) /\ Holds(task[h].by, task[h].item.gen) /\ IsAdmin(task[h].to)
     THEN Do(h, [task[h] EXCEPT !.at = "insert", !.by = None])
     ELSE Return(h)
  /\ UNCHANGED <<rows, team, pages>>

\* INSERT ... ON CONFLICT DO NOTHING
InsertGrant(h) ==
  /\ At(h, "insert")
  /\ LET t == task[h]
         g == [gen |-> t.item.gen, to |-> t.to, key |-> t.item.key, seal |-> t.item.gen]
     IN  grants' = IF Holds(t.to, g.gen) THEN grants ELSE grants \cup {g}
  /\ Return(h)
  /\ UNCHANGED <<key, escrow, request, team, pages>>

\* escrowForTeam: a member wraps its master key for the key of its account view.
LeaveKey(h, m) ==
  /\ At(h, "idle") /\ InTeam(m) /\ key # NoKey
  /\ Do(h, [Idle EXCEPT !.at = "escrow", !.by = m, !.item = [gen |-> key.gen, key |-> key]])
  /\ UNCHANGED <<rows, team, pages>>

CheckEscrow(h) ==
  /\ At(h, "escrow")
  /\ IF InTeam(task[h].by) /\ key.gen = task[h].item.gen
     THEN Do(h, [task[h] EXCEPT !.at = "store"])
     ELSE Return(h)
  /\ UNCHANGED <<rows, team, pages>>

StoreEscrow(h) ==
  /\ At(h, "store")
  /\ escrow' = [escrow EXCEPT ![task[h].by] = task[h].item]
  /\ Return(h)
  /\ UNCHANGED <<key, grants, request, team, pages>>

-----------------------------------------------------------------------------
(* createRecoveryRequest, decideRecoveryRequest                            *)

\* Bound: no more handlers ask than there are requests left to make.
CheckAsk(h, a, m) ==
  /\ At(h, "idle") /\ IsAdmin(a) /\ InTeam(m) /\ m # a
  /\ Cardinality({k \in Handler : At(k, "ask")}) < Cardinality({r \in Request : request[r] = Unused})
  /\ escrow[m] # NoEscrow
  /\ Do(h, [Idle EXCEPT !.at = "ask", !.by = a, !.to = m])
  /\ UNCHANGED <<rows, team, pages>>

Ask(h, r) ==
  /\ At(h, "ask") /\ request[r] = Unused
  /\ request' = [request EXCEPT ![r] =
       [Unused EXCEPT !.at = "open", !.target = task[h].to, !.by = task[h].by]]
  /\ Return(h)
  /\ UNCHANGED <<key, grants, escrow, team, pages>>

\* The request is read and looked at, ...
CheckDecision(h, a, r, verdict) ==
  /\ At(h, "idle") /\ IsAdmin(a)
  /\ request[r].at = "open" /\ ~request[r].late
  /\ verdict = "approve" => a \notin {request[r].by, request[r].target}
  /\ Do(h, [Idle EXCEPT !.at = verdict, !.req = r,
                        !.by = IF verdict = "approve" THEN a ELSE None])
  /\ UNCHANGED <<rows, team, pages>>

Outcome(h) ==
  [request[task[h].req] EXCEPT !.at     = IF At(h, "approve") THEN "approved" ELSE "rejected",
                               !.second = task[h].by]

\* Faulty variant of Decide: the UPDATE finds the request by its id alone.
DecideAnyway(h) ==
  /\ task[h].at \in {"approve", "reject"}
  /\ request' = [request EXCEPT ![task[h].req] = Outcome(h)]
  /\ Return(h)
  /\ UNCHANGED <<key, grants, escrow, team, pages>>

\* ... and the UPDATE looks again: open, and not expired.
Decide(h) ==
  /\ task[h].at \in {"approve", "reject"}
  /\ LET r == task[h].req IN
       request' = IF request[r].at = "open" /\ ~request[r].late
                  THEN [request EXCEPT ![r] = Outcome(h)] ELSE request
  /\ Return(h)
  /\ UNCHANGED <<key, grants, escrow, team, pages>>

\* Seven days after the request, or 24 hours after its approval.
Expire(r) ==
  /\ request[r].at \in {"open", "approved"} /\ ~request[r].late
  /\ request' = [request EXCEPT ![r].late = TRUE]
  /\ UNCHANGED <<key, grants, escrow, team, pages, task>>

-----------------------------------------------------------------------------
(* recoveryVault                                                           *)

\* openRequest: one of the two admins, in time, and the member is still there.
Open(h, a, r) ==
  /\ At(h, "idle") /\ IsAdmin(a)
  /\ a \in {request[r].by, request[r].second}
  /\ request[r].at = "approved" /\ ~request[r].late
  /\ InTeam(request[r].target)
  /\ Do(h, [Idle EXCEPT !.at = "find", !.by = a, !.req = r, !.to = request[r].target])
  /\ UNCHANGED <<rows, team, pages>>

FindEscrow(h) ==
  /\ At(h, "find")
  /\ IF escrow[task[h].to] = NoEscrow THEN Return(h)
     ELSE Do(h, [task[h] EXCEPT !.at = "unlock", !.to = None, !.req = None,
                                !.item = escrow[task[h].to]])
  /\ UNCHANGED <<rows, team, pages>>

Unlock(h, gen) ==
  /\ At(h, "unlock")
  /\ \/ ~Holds(task[h].by, gen) /\ Return(h)
     \/ \E g \in grants :
          /\ g.to = task[h].by /\ g.gen = gen
          /\ Do(h, [task[h] EXCEPT !.at = "deliver", !.wrapped = g.key, !.seal = g.seal])
  /\ UNCHANGED <<rows, team, pages>>

\* Faulty variant of FindGrant: the grant of the current generation is taken.
FindCurrentGrant(h) == Unlock(h, key.gen)

\* The team key as it is wrapped for the caller, of the generation of the escrow.
FindGrant(h) == Unlock(h, task[h].item.gen)

\* The answer, with the public key and the vault index as they are now.
Deliver(h) ==
  /\ At(h, "deliver")
  /\ Do(h, [task[h] EXCEPT !.at = "answered", !.public = key])
  /\ UNCHANGED <<rows, team, pages>>

\* openRecoveredVault: the browser opens it, or cannot.
Finish(h) ==
  /\ At(h, "answered")
  /\ Return(h)
  /\ UNCHANGED <<rows, team, pages>>

-----------------------------------------------------------------------------
(* setMemberRole, removeMember, joinFamily                                 *)

Move == moves < MaxMoves /\ moves' = moves + 1

Promote(a) ==
  /\ role[a] = "member" /\ Move
  /\ role' = [role EXCEPT ![a] = "admin"]
  /\ UNCHANGED <<rows, pages, task>>

\* The role first; its grants in a statement of their own.
Demote(h, a) ==
  /\ At(h, "idle") /\ role[a] = "admin" /\ Move
  /\ role' = [role EXCEPT ![a] = "member"]
  /\ Do(h, [Idle EXCEPT !.at = "strip", !.to = a])
  /\ UNCHANGED <<rows, pages>>

GrantsWithout(a) == {g \in grants : g.to # a}

Strip(h) ==
  /\ At(h, "strip")
  /\ grants' = GrantsWithout(task[h].to)
  /\ Return(h)
  /\ UNCHANGED <<key, escrow, request, team, pages>>

\* One transaction (dropTeamRecovery); the requests stay.
Depart(a) ==
  /\ role[a] \in {"admin", "member"} /\ Move
  /\ role' = [role EXCEPT ![a] = "out"]
  /\ grants' = GrantsWithout(a)
  /\ escrow' = [escrow EXCEPT ![a] = NoEscrow]
  /\ request' = [r \in Request |-> [request[r] EXCEPT !.left = @ \/ request[r].target = a]]
  /\ UNCHANGED <<key, pages, task>>

Join(a) ==
  /\ role[a] = "out" /\ Move
  /\ role' = [role EXCEPT ![a] = "member"]
  /\ UNCHANGED <<rows, pages, task>>

-----------------------------------------------------------------------------
Next ==
  \/ \E t \in Tab : Load(t) \/ StartRenewal(t) \/ ReadGeneration(t) \/ Renew(t) \/ GiveUp(t)
  \/ \E h \in Handler :
       \/ \E a, b \in Account : Distribute(h, a, b) \/ CheckAsk(h, a, b)
       \/ \E a \in Account : Demote(h, a)
       \/ \E a \in Leaver : LeaveKey(h, a)
       \/ \E a \in Account, r \in Request :
            \/ \E verdict \in {"approve", "reject"} : CheckDecision(h, a, r, verdict)
            \/ Open(h, a, r)
       \/ \E r \in Request : Ask(h, r)
       \/ CheckGrant(h) \/ InsertGrant(h) \/ CheckEscrow(h) \/ StoreEscrow(h)
       \/ Decide(h) \/ FindEscrow(h) \/ FindGrant(h) \/ Deliver(h) \/ Finish(h) \/ Strip(h)
  \/ \E r \in Request : Expire(r)
  \/ \E a \in Account : Promote(a) \/ Depart(a) \/ Join(a)

Spec == Init /\ [][Next]_vars

-----------------------------------------------------------------------------
(* Properties                                                              *)

\* A decision is final: an approval and a rejection at the same time do not both
\* count, nor do two approvals.
DecidedOnce ==
  [][\A r \in Request : request[r].at \in {"approved", "rejected"} =>
       request'[r].at = request[r].at /\ request'[r].second = request[r].second]_vars

\* What is handed out opens: the key wrapped for the admin is the one that the member's
\* master key is wrapped for; who is given it can unwrap it, only the owner may hold one
\* that its own page has sealed with a view that was out of date; and the public key
\* beside it is that of the same key, unless the owner has renewed it meanwhile, and with
\* that voided what was left.
DeliveryOpens ==
  \A h \in Handler : At(h, "answered") =>
    LET t == task[h] IN
    /\ t.wrapped = t.item.key
    /\ t.seal = t.item.gen \/ (t.by = Owner /\ t.seal < t.item.gen)
    /\ t.public = t.item.key \/ key.gen > t.item.gen

\* Whatever carries the current generation is made with the current key, also what a
\* browser has wrapped before the owner renewed it.
CurrentKeyOnly ==
  /\ \A g \in grants : g.gen = key.gen => g.key = key
  /\ \A a \in Account : escrow[a].gen = key.gen => escrow[a].key = key

\* Do not hold.  Without the exceptions: a renewal between the two reads leaves a public
\* key that does not fit, a page whose answer was lost seals for the wrong generation.
DeliveryAlwaysOpens ==
  \A h \in Handler : At(h, "answered") =>
    LET t == task[h] IN t.wrapped = t.item.key /\ t.seal = t.item.gen /\ t.public = t.item.key

\* The owner can always open the key that it has made.
OwnerHoldsTheKey == \A g \in grants : g.seal = g.gen

\* An approval ends when the member leaves (it comes back, and the old
\* approval opens what it has left anew).
LeavingEndsApprovals ==
  [][\A h \in Handler : At(h, "idle") /\ At(h, "find")' => ~request[task'[h].req].left]_vars

\* Who is not an admin any more holds no key, once all handlers have ended.
KeysOfAdminsOnly ==
  (\A h \in Handler : At(h, "idle")) => \A g \in grants : IsAdmin(g.to)

\* Who is not in the team any more has left nothing, once all handlers have ended.
EscrowsOfMembersOnly ==
  (\A h \in Handler : At(h, "idle")) => \A a \in Account : ~InTeam(a) => escrow[a] = NoEscrow
=============================================================================

-------------------------- MODULE TeamRecoveryProofs --------------------------
(***************************************************************************)
(* For any team, requests and handlers, however often the owner renews the *)
(* team key: decisions are final; and if the owner renews it from one page *)
(* at a time, what is handed out opens and what carries the current        *)
(* generation is made with the current key.                                *)
(*                                                                         *)
(* The argument: the server compares generations only, and a browser opens *)
(* with keys.  So each generation must stand for one key, in the rows and  *)
(* in whatever a handler that was overtaken by a renewal still carries;    *)
(* and only the owner's own wrapping may be bound to another generation.   *)
(***************************************************************************)
EXTENDS TeamRecovery, TLAPS

USE AccountAssumption, BoundAssumption DEF AccountAssumption, BoundAssumption

\* One page of the owner renews the key.  (Two of them can give one generation to two
\* keys: both read the same one, and CurrentKeyOnly does not hold.)
OneTab == \A s, t \in Tab : s = t

\* A request is about somebody, and so is what runs for it; what is granted is a key.
AboutSomebody ==
  /\ \A r \in Request : request[r].at # "none" => request[r].target \in Account
  /\ \A h \in Handler :
       /\ task[h].at \in {"grant", "insert", "ask", "find"} => task[h].to \in Account
       /\ task[h].at \in {"grant", "insert"} => task[h].item.key \in Key

\* Generations are counted up to the number of keys that were made.
CountedKeys ==
  /\ key.gen <= made
  /\ \A t \in Tab : /\ page[t] <= made
                    /\ renewal[t].gen <= made + 1
                    /\ renewal[t].at = "store" => renewal[t].gen >= 1

TypeInv == TypeOK /\ AboutSomebody /\ CountedKeys

\* Every key that something is wrapped for, in a row or on its way to one.
KeysInUse ==
  {NoKey, key} \cup {g.key : g \in grants} \cup {escrow[a].key : a \in Account}
    \cup {task[h].item.key : h \in Handler} \cup {task[h].wrapped : h \in Handler}

\* The generation in a row is the one of the key in the wrapping.
GenerationsTold ==
  /\ \A g \in grants : g.gen = g.key.gen
  /\ \A a \in Account : escrow[a].gen = escrow[a].key.gen
  /\ \A h \in Handler : task[h].item.gen = task[h].item.key.gen

\* A generation stands for one key, and there is none beyond the current one.
OneKeyEach == \A k, l \in KeysInUse : k.gen <= key.gen /\ (k.gen = l.gen => k = l)

\* The key that is coming has the generation after the current one; a page is never
\* ahead of the server.
RenewalIsNext == \A t \in Tab :
  /\ page[t] <= key.gen
  /\ renewal[t].at # "idle" => renewal[t].seal <= key.gen + 1
  /\ renewal[t].at = "store" => renewal[t].gen = key.gen + 1

\* Only the owner holds a key that is sealed for another generation, an earlier one.
Fits(a, seal, gen) == seal = gen \/ (a = Owner /\ seal < gen)
SealsFit == \A g \in grants : Fits(g.to, g.seal, g.gen)

\* What is delivered was looked up by generation; the public key was read after that.
DeliveryFits == \A h \in Handler :
  /\ task[h].at \in {"deliver", "answered"} =>
       /\ task[h].wrapped.gen = task[h].item.gen
       /\ Fits(task[h].by, task[h].seal, task[h].item.gen)
  /\ At(h, "answered") => task[h].public = task[h].item.key \/ key.gen > task[h].item.gen

KeyInv == GenerationsTold /\ OneKeyEach /\ RenewalIsNext /\ SealsFit /\ DeliveryFits

-----------------------------------------------------------------------------
(* Types                                                                   *)

LEMMA InitTypeInv == Init => TypeInv
<1>1. SUFFICES ASSUME Init PROVE TypeInv
  OBVIOUS
<1>2. role \in [Account -> {"owner", "admin", "member", "out"}]
  BY <1>1 DEF Init
<1>3. escrow \in [Account -> Escrow] /\ task \in [Handler -> Task]
  BY <1>1 DEF Init, Escrow, NoEscrow, Task, Idle, Step, Gen
<1>4. request \in [Request -> Claim]
  BY <1>1 DEF Init, Claim, Unused
<1>5. renewal \in [Tab -> Renewing] /\ page \in [Tab -> Gen] /\ made \in Gen /\ moves \in 0..MaxMoves
  BY <1>1 DEF Init, Gen, Renewing, NoRenewal
<1>6. TypeOK
  BY <1>1, <1>2, <1>3, <1>4, <1>5 DEF Init, TypeOK
<1>7. AboutSomebody /\ CountedKeys
  BY <1>1 DEF Init, AboutSomebody, CountedKeys, Idle, Unused, NoKey, NoRenewal
<1>8. QED
  BY <1>6, <1>7 DEF TypeInv

\* The owner's pages.
LEMMA RenewalTypes ==
  ASSUME TypeInv, NEW t \in Tab,
         Load(t) \/ StartRenewal(t) \/ ReadGeneration(t) \/ Renew(t) \/ GiveUp(t)
  PROVE  TypeInv'
<1>1. /\ made \in Nat /\ MaxKeys \in Nat /\ made <= MaxKeys
      /\ key.gen \in Nat /\ key.gen <= made
      /\ \A s \in Tab : /\ page[s] \in Nat /\ page[s] <= made
                        /\ renewal[s] \in Renewing /\ renewal[s].gen \in Nat
                        /\ renewal[s].gen <= made + 1
                        /\ renewal[s].at = "store" => renewal[s].gen >= 1
  BY DEF TypeInv, TypeOK, Gen, Key, NoKey, CountedKeys, Renewing
<1>2. ASSUME NEW n \in Renewing, renewal' = [renewal EXCEPT ![t] = n],
             n.gen <= made + 1, n.at = "store" => n.gen >= 1,
             UNCHANGED <<rows, team, page, made, task>>
      PROVE  TypeInv'
  <2>1. renewal' \in [Tab -> Renewing] /\ \A s \in Tab : renewal'[s] = n \/ renewal'[s] = renewal[s]
    BY <1>2 DEF TypeInv, TypeOK
  <2>2. CountedKeys'
    BY <1>1, <1>2, <2>1 DEF CountedKeys, rows
  <2>3. QED
    BY <1>2, <2>1, <2>2 DEF rows, team, AboutSomebody, TypeInv, TypeOK
<1>3. CASE Load(t)
  <2>1. key.gen \in Gen
    BY <1>1 DEF Gen
  <2>2. page' \in [Tab -> Gen] /\ \A s \in Tab : page'[s] = key.gen \/ page'[s] = page[s]
    BY <1>3, <2>1 DEF Load, TypeInv, TypeOK
  <2>3. CountedKeys'
    BY <1>1, <1>3, <2>2 DEF Load, rows, CountedKeys
  <2>4. QED
    BY <1>3, <2>2, <2>3 DEF Load, rows, team, AboutSomebody, TypeInv, TypeOK
<1>4. CASE StartRenewal(t)
  <2> DEFINE n == [at |-> "read", seal |-> page[t] + 1, gen |-> 0]
  <2>1. page[t] + 1 \in Gen /\ 0 \in Gen
    <3>1. made < MaxKeys /\ page[t] \in Nat /\ page[t] <= made
      BY <1>1, <1>4 DEF StartRenewal
    <3>2. QED
      BY <1>1, <3>1 DEF Gen
  <2>2. n \in Renewing /\ n.gen = 0 /\ n.at = "read"
    BY <2>1 DEF Renewing
  <2>3. renewal' = [renewal EXCEPT ![t] = n]
    BY <1>4 DEF StartRenewal, Renewal
  <2>4. n.gen <= made + 1 /\ (n.at = "store" => n.gen >= 1)
    BY <1>1, <2>2
  <2>5. UNCHANGED <<rows, team, page, made, task>>
    BY <1>4 DEF StartRenewal
  <2> HIDE DEF n
  <2>6. QED
    BY <1>2, <2>2, <2>3, <2>4, <2>5
<1>5. CASE ReadGeneration(t)
  <2> DEFINE n == [at |-> "store", seal |-> renewal[t].seal, gen |-> key.gen + 1]
  <2>1. key.gen + 1 \in Gen /\ renewal[t].seal \in Gen
    <3>1. made < MaxKeys /\ renewal[t].seal \in Gen
      BY <1>1, <1>5 DEF ReadGeneration, Renewing
    <3>2. QED
      BY <1>1, <3>1 DEF Gen
  <2>2. n \in Renewing /\ n.gen = key.gen + 1
    BY <2>1 DEF Renewing
  <2>3. renewal' = [renewal EXCEPT ![t] = n]
    BY <1>5 DEF ReadGeneration, Renewal
  <2>4. n.gen <= made + 1 /\ (n.at = "store" => n.gen >= 1)
    BY <1>1, <2>2
  <2>5. UNCHANGED <<rows, team, page, made, task>>
    BY <1>5 DEF ReadGeneration
  <2> HIDE DEF n
  <2>6. QED
    BY <1>2, <2>2, <2>3, <2>4, <2>5
<1>6. CASE Renew(t)
  <2>1. made' = made + 1 /\ made' \in Gen /\ made' \in 1..MaxKeys
    BY <1>1, <1>6 DEF Renew, Gen
  <2>2. renewal[t].gen \in 1..MaxKeys /\ renewal[t].gen <= made' /\ renewal[t].seal \in Gen
    <3>1. renewal[t].gen >= 1 /\ renewal[t].gen <= made + 1 /\ made < MaxKeys
      BY <1>1, <1>6 DEF Renew
    <3>2. renewal[t].seal \in Gen /\ renewal[t].gen \in Nat
      BY <1>1 DEF Renewing
    <3>3. QED
      BY <1>1, <2>1, <3>1, <3>2
  <2>3. key' = [gen |-> renewal[t].gen, nth |-> made']
    BY <1>6 DEF Renew
  <2>4. key' \in Key /\ key'.gen = renewal[t].gen
    BY <2>1, <2>2, <2>3 DEF Key
  <2>5. key'.gen \in Gen
    BY <2>2, <2>4 DEF Gen
  <2>6. grants' \subseteq Grant
    BY <1>6, <2>2, <2>4, <2>5 DEF Renew, Grant
  <2>7. escrow' \in [Account -> Escrow]
    BY <1>6 DEF Renew, Escrow, NoEscrow, Gen
  <2>8. NoRenewal \in Renewing /\ NoRenewal.gen = 0 /\ NoRenewal.at = "idle"
    BY DEF NoRenewal, Renewing, Gen
  <2>9. /\ renewal' \in [Tab -> Renewing]
        /\ \A s \in Tab : renewal'[s] = NoRenewal \/ renewal'[s] = renewal[s]
    BY <1>6, <2>8 DEF Renew, TypeInv, TypeOK
  <2>10. CountedKeys'
    <3>1. key'.gen <= made' /\ page' = page
      BY <1>6, <2>2, <2>4 DEF Renew
    <3>2. \A s \in Tab : /\ page[s] <= made' /\ renewal'[s].gen <= made' + 1
                         /\ (renewal'[s].at = "store" => renewal'[s].gen >= 1)
      <4>1. SUFFICES ASSUME NEW s \in Tab
                     PROVE  /\ page[s] <= made' /\ renewal'[s].gen <= made' + 1
                            /\ (renewal'[s].at = "store" => renewal'[s].gen >= 1)
        OBVIOUS
      <4>2. page[s] <= made' /\ renewal[s].gen <= made' + 1
        BY <1>1, <2>1
      <4>3. NoRenewal.gen <= made' + 1
        BY <1>1, <2>1, <2>8
      <4>4. QED
        BY <1>1, <2>8, <2>9, <4>2, <4>3
    <3>3. QED
      BY <3>1, <3>2 DEF CountedKeys
  <2>11. QED
    BY <1>6, <2>1, <2>4, <2>6, <2>7, <2>9, <2>10 DEF Renew, team, AboutSomebody, TypeInv, TypeOK
<1>7. CASE GiveUp(t)
  <2>1. NoRenewal \in Renewing /\ NoRenewal.gen = 0 /\ NoRenewal.at = "idle"
    BY DEF NoRenewal, Renewing, Gen
  <2>2. NoRenewal.gen <= made + 1
    BY <1>1, <2>1
  <2>3. QED
    BY <1>2, <1>7, <2>1, <2>2 DEF GiveUp
<1>8. QED
  BY <1>3, <1>4, <1>5, <1>6, <1>7

\* A handler that only moves on.
LEMMA TaskTypes ==
  ASSUME TypeInv, NEW h \in Handler, NEW t \in Task, Do(h, t),
         t.at \in {"grant", "insert", "ask", "find"} => t.to \in Account,
         t.at \in {"grant", "insert"} => t.item.key \in Key
  PROVE  /\ task' \in [Handler -> Task]
         /\ \A i \in Handler :
              /\ task'[i].at \in {"grant", "insert", "ask", "find"} => task'[i].to \in Account
              /\ task'[i].at \in {"grant", "insert"} => task'[i].item.key \in Key
BY DEF TypeInv, TypeOK, AboutSomebody, Do

LEMMA IdleTask == Idle \in Task /\ Idle.at = "idle"
BY DEF Idle, Task, Step, Escrow, NoEscrow, Gen

\* Grants and escrows.
LEMMA WrapTypes ==
  ASSUME TypeInv, NEW h \in Handler,
         \/ \E a, b \in Account : Distribute(h, a, b)
         \/ \E a \in Account : LeaveKey(h, a)
         \/ CheckGrant(h) \/ InsertGrant(h) \/ CheckEscrow(h) \/ StoreEscrow(h)
  PROVE  TypeInv'
<1> USE DEF TypeInv, TypeOK
<1>1. task[h] \in Task
  OBVIOUS
<1>2. ASSUME NEW t \in Task, Do(h, t), UNCHANGED <<rows, team, pages>>,
             t.at \in {"grant", "insert", "ask", "find"} => t.to \in Account,
             t.at \in {"grant", "insert"} => t.item.key \in Key
      PROVE  TypeInv'
  BY <1>2, TaskTypes DEF rows, team, pages, AboutSomebody, CountedKeys
<1>3. ASSUME NEW a \in Account, NEW b \in Account, Distribute(h, a, b) PROVE TypeInv'
  <2>1. PICK g \in grants :
          Do(h, [Idle EXCEPT !.at = "grant", !.by = a, !.to = b,
                             !.item = [gen |-> g.gen, key |-> g.key]])
    BY <1>3 DEF Distribute
  <2>2. g.gen \in Gen /\ g.key \in Key
    BY DEF Grant
  <2>3. [Idle EXCEPT !.at = "grant", !.by = a, !.to = b,
                     !.item = [gen |-> g.gen, key |-> g.key]] \in Task
    BY <2>2, IdleTask DEF Idle, Task, Step, Escrow
  <2>4. QED
    BY <1>2, <1>3, <2>1, <2>2, <2>3 DEF Distribute, Idle
<1>4. ASSUME NEW a \in Account, LeaveKey(h, a) PROVE TypeInv'
  <2>1. key.gen \in Gen
    BY DEF Key, NoKey, Gen
  <2>2. [Idle EXCEPT !.at = "escrow", !.by = a, !.item = [gen |-> key.gen, key |-> key]] \in Task
    BY <2>1, IdleTask DEF Idle, Task, Step, Escrow
  <2>3. QED
    BY <1>2, <1>4, <2>2 DEF LeaveKey, Idle
<1>5. CASE CheckGrant(h)
  <2>1. [task[h] EXCEPT !.at = "insert", !.by = None] \in Task
    BY <1>1 DEF Task, Step
  <2>2. CASE Return(h)
    BY <1>2, <1>5, <2>2, IdleTask DEF CheckGrant, Return
  <2>3. CASE Do(h, [task[h] EXCEPT !.at = "insert", !.by = None])
    BY <1>1, <1>2, <1>5, <2>1, <2>3 DEF CheckGrant, AboutSomebody, At, Task
  <2>4. QED
    BY <1>5, <2>2, <2>3 DEF CheckGrant
<1>6. CASE CheckEscrow(h)
  <2>1. [task[h] EXCEPT !.at = "store"] \in Task
    BY <1>1 DEF Task, Step
  <2>2. CASE Return(h)
    BY <1>2, <1>6, <2>2, IdleTask DEF CheckEscrow, Return
  <2>3. CASE Do(h, [task[h] EXCEPT !.at = "store"])
    BY <1>1, <1>2, <1>6, <2>1, <2>3 DEF CheckEscrow, Task
  <2>4. QED
    BY <1>6, <2>2, <2>3 DEF CheckEscrow
<1>7. CASE InsertGrant(h)
  <2>1. task[h].to \in Account /\ task[h].item.key \in Key /\ task[h].item.gen \in Gen
    BY <1>1, <1>7 DEF InsertGrant, At, AboutSomebody, Task, Escrow
  <2>2. grants' \subseteq Grant
    BY <1>7, <2>1 DEF InsertGrant, Grant
  <2>3. QED
    BY <1>7, <2>2, TaskTypes, IdleTask
    DEF InsertGrant, Return, team, pages, AboutSomebody, CountedKeys
<1>8. CASE StoreEscrow(h)
  <2>1. task[h].item \in Escrow
    BY <1>1 DEF Task
  <2>2. escrow' \in [Account -> Escrow]
    BY <1>8, <2>1 DEF StoreEscrow
  <2>3. QED
    BY <1>8, <2>2, TaskTypes, IdleTask
    DEF StoreEscrow, Return, team, pages, AboutSomebody, CountedKeys
<1>9. QED
  BY <1>3, <1>4, <1>5, <1>6, <1>7, <1>8

\* Requests, and what they open.
LEMMA RequestTypes ==
  ASSUME TypeInv, NEW h \in Handler,
         \/ \E a, b \in Account : CheckAsk(h, a, b)
         \/ \E a \in Account, r \in Request :
              (\E verdict \in {"approve", "reject"} : CheckDecision(h, a, r, verdict)) \/ Open(h, a, r)
         \/ \E r \in Request : Ask(h, r)
         \/ Decide(h) \/ FindEscrow(h) \/ FindGrant(h) \/ Deliver(h) \/ Finish(h)
  PROVE  TypeInv'
<1> USE DEF TypeInv, TypeOK
<1>1. task[h] \in Task
  OBVIOUS
<1>2. ASSUME NEW t \in Task, Do(h, t), UNCHANGED <<rows, team, pages>>,
             t.at \in {"grant", "insert", "ask", "find"} => t.to \in Account,
             t.at \in {"grant", "insert"} => t.item.key \in Key
      PROVE  TypeInv'
  BY <1>2, TaskTypes DEF rows, team, pages, AboutSomebody, CountedKeys
<1>3. ASSUME NEW a \in Account, NEW b \in Account, CheckAsk(h, a, b) PROVE TypeInv'
  <2>1. [Idle EXCEPT !.at = "ask", !.by = a, !.to = b] \in Task
    BY IdleTask DEF Idle, Task, Step
  <2>2. QED
    BY <1>2, <1>3, <2>1 DEF CheckAsk, Idle
<1>4. ASSUME NEW a \in Account, NEW r \in Request, NEW verdict \in {"approve", "reject"},
             CheckDecision(h, a, r, verdict)
      PROVE  TypeInv'
  <2> DEFINE t == [Idle EXCEPT !.at = verdict, !.req = r,
                               !.by = IF verdict = "approve" THEN a ELSE None]
  <2>1. t \in Task /\ t.at = verdict
    BY IdleTask DEF Idle, Task, Step
  <2>2. QED
    BY <1>2, <1>4, <2>1 DEF CheckDecision
<1>5. ASSUME NEW a \in Account, NEW r \in Request, Open(h, a, r) PROVE TypeInv'
  <2> DEFINE t == [Idle EXCEPT !.at = "find", !.by = a, !.req = r, !.to = request[r].target]
  <2>1. request[r].target \in Account
    BY <1>5 DEF Open, AboutSomebody
  <2>2. t \in Task /\ t.at = "find" /\ t.to \in Account
    BY <2>1, IdleTask DEF Idle, Task, Step
  <2>3. QED
    BY <1>2, <1>5, <2>2 DEF Open
<1>6. ASSUME NEW r \in Request, Ask(h, r) PROVE TypeInv'
  <2> DEFINE c == [Unused EXCEPT !.at = "open", !.target = task[h].to, !.by = task[h].by]
  <2>1. task[h].to \in Account /\ task[h].by \in Account \cup {None}
    BY <1>1, <1>6 DEF Ask, At, AboutSomebody, Task
  <2>2. c \in Claim /\ c.target \in Account
    BY <2>1 DEF Unused, Claim
  <2>3. request' = [request EXCEPT ![r] = c]
    BY <1>6 DEF Ask
  <2>4. request' \in [Request -> Claim]
    BY <2>2, <2>3
  <2>5. \A q \in Request : request'[q].at # "none" => request'[q].target \in Account
    BY <2>2, <2>3 DEF AboutSomebody
  <2>6. QED
    BY <1>6, <2>4, <2>5, TaskTypes, IdleTask
    DEF Ask, Return, team, pages, AboutSomebody, CountedKeys
<1>7. CASE Decide(h)
  <2> DEFINE r == task[h].req
  <2>1. CASE request' = request
    BY <1>7, <2>1, TaskTypes, IdleTask
    DEF Decide, Return, team, pages, AboutSomebody, CountedKeys
  <2>2. CASE request[r].at = "open" /\ request' = [request EXCEPT ![r] = Outcome(h)] /\ r \in Request
    <3>1. task[h].by \in Account \cup {None} /\ request[r] \in Claim
      BY <1>1, <2>2 DEF Task
    <3>2. Outcome(h) \in Claim /\ Outcome(h).target = request[r].target
      BY <3>1 DEF Outcome, Claim
    <3>3. request' \in [Request -> Claim]
      BY <2>2, <3>2
    <3>4. \A q \in Request : request'[q].at # "none" => request'[q].target \in Account
      BY <2>2, <3>2 DEF AboutSomebody
    <3>5. QED
      BY <1>7, <3>3, <3>4, TaskTypes, IdleTask
      DEF Decide, Return, team, pages, AboutSomebody, CountedKeys
  <2>3. r \notin Request => [request EXCEPT ![r] = Outcome(h)] = request
    OBVIOUS
  <2>4. QED
    BY <1>7, <2>1, <2>2, <2>3 DEF Decide
<1>8. CASE FindEscrow(h)
  <2> DEFINE t == [task[h] EXCEPT !.at = "unlock", !.to = None, !.req = None,
                                !.item = escrow[task[h].to]]
  <2>1. task[h].to \in Account
    BY <1>8 DEF FindEscrow, At, AboutSomebody
  <2>2. t \in Task /\ t.at = "unlock"
    BY <1>1, <2>1 DEF Task, Step
  <2>3. CASE Return(h)
    BY <1>2, <1>8, <2>3, IdleTask DEF FindEscrow, Return
  <2>4. CASE Do(h, t)
    BY <1>2, <1>8, <2>2, <2>4 DEF FindEscrow
  <2>5. QED
    BY <1>8, <2>3, <2>4 DEF FindEscrow
<1>9. CASE FindGrant(h)
  <2>1. CASE Return(h)
    BY <1>2, <1>9, <2>1, IdleTask DEF FindGrant, Unlock, Return
  <2>2. CASE \E g \in grants :
                Do(h, [task[h] EXCEPT !.at = "deliver", !.wrapped = g.key, !.seal = g.seal])
    <3>1. PICK g \in grants :
            Do(h, [task[h] EXCEPT !.at = "deliver", !.wrapped = g.key, !.seal = g.seal])
      BY <2>2
    <3> DEFINE t == [task[h] EXCEPT !.at = "deliver", !.wrapped = g.key, !.seal = g.seal]
    <3>2. t \in Task /\ t.at = "deliver"
      BY <1>1 DEF Task, Step, Grant
    <3>3. QED
      BY <1>2, <1>9, <3>1, <3>2 DEF FindGrant, Unlock
  <2>3. QED
    BY <1>9, <2>1, <2>2 DEF FindGrant, Unlock
<1>10. CASE Deliver(h)
  <2> DEFINE t == [task[h] EXCEPT !.at = "answered", !.public = key]
  <2>1. t \in Task /\ t.at = "answered"
    BY <1>1 DEF Task, Step
  <2>2. QED
    BY <1>2, <1>10, <2>1 DEF Deliver
<1>11. CASE Finish(h)
  BY <1>2, <1>11, IdleTask DEF Finish, Return
<1>12. QED
  BY <1>3, <1>4, <1>5, <1>6, <1>7, <1>8, <1>9, <1>10, <1>11

\* Roles, departures, and time.
LEMMA MoveTypes ==
  ASSUME TypeInv,
         \/ \E h \in Handler : Strip(h) \/ \E a \in Account : Demote(h, a)
         \/ \E r \in Request : Expire(r)
         \/ \E a \in Account : Promote(a) \/ Depart(a) \/ Join(a)
  PROVE  TypeInv'
<1> USE DEF TypeInv, TypeOK
<1>1. moves \in Nat /\ (Move => moves' \in 0..MaxMoves)
  BY DEF Move
<1>2. ASSUME NEW h \in Handler, Strip(h) PROVE TypeInv'
  BY <1>2, TaskTypes, IdleTask
  DEF Strip, GrantsWithout, Return, team, pages, AboutSomebody, CountedKeys
<1>3. ASSUME NEW h \in Handler, NEW a \in Account, Demote(h, a) PROVE TypeInv'
  <2> DEFINE t == [Idle EXCEPT !.at = "strip", !.to = a]
  <2>1. t \in Task /\ t.at = "strip"
    BY IdleTask DEF Idle, Task, Step
  <2>2. role' \in [Account -> {"owner", "admin", "member", "out"}]
    BY <1>3 DEF Demote
  <2>3. QED
    BY <1>1, <1>3, <2>1, <2>2, TaskTypes DEF Demote, rows, pages, AboutSomebody, CountedKeys
<1>4. ASSUME NEW r \in Request, Expire(r) PROVE TypeInv'
  <2>1. request' = [request EXCEPT ![r] = [request[r] EXCEPT !.late = TRUE]]
    BY <1>4 DEF Expire
  <2>2. request[r] \in Claim
    OBVIOUS
  <2>3. [request[r] EXCEPT !.late = TRUE] \in Claim
    BY <2>2 DEF Claim
  <2>4. request' \in [Request -> Claim]
    BY <2>1, <2>3
  <2>5. \A q \in Request : request'[q].at # "none" => request'[q].target \in Account
    BY <2>1, <2>2 DEF AboutSomebody, Claim
  <2>6. QED
    BY <1>4, <2>4, <2>5 DEF Expire, team, pages, AboutSomebody, CountedKeys
<1>5. ASSUME NEW a \in Account, Promote(a) \/ Join(a) PROVE TypeInv'
  BY <1>1, <1>5 DEF Promote, Join, rows, pages, AboutSomebody, CountedKeys
<1>6. ASSUME NEW a \in Account, Depart(a) PROVE TypeInv'
  <2>1. role' \in [Account -> {"owner", "admin", "member", "out"}] /\ grants' \subseteq Grant
    BY <1>6 DEF Depart, GrantsWithout
  <2>2. escrow' \in [Account -> Escrow]
    BY <1>6 DEF Depart, NoEscrow, Escrow, Gen
  <2>3. ASSUME NEW r \in Request
        PROVE  [request[r] EXCEPT !.left = @ \/ request[r].target = a] \in Claim
    <3>1. request[r] \in Claim
      OBVIOUS
    <3>2. (request[r].left \/ request[r].target = a) \in BOOLEAN
      OBVIOUS
    <3>3. QED
      BY <3>1, <3>2 DEF Claim
  <2>4. request' \in [Request -> Claim]
    BY <1>6, <2>3 DEF Depart
  <2>5. \A q \in Request : request[q] \in Claim
    OBVIOUS
  <2>6. \A q \in Request : request'[q].at # "none" => request'[q].target \in Account
    BY <1>6, <2>5 DEF Depart, AboutSomebody, Claim
  <2>7. QED
    BY <1>1, <1>6, <2>1, <2>2, <2>4, <2>6 DEF Depart, pages, AboutSomebody, CountedKeys
<1>7. QED
  BY <1>2, <1>3, <1>4, <1>5, <1>6

LEMMA TypeInvStep == TypeInv /\ [Next]_vars => TypeInv'
<1>1. SUFFICES ASSUME TypeInv, [Next]_vars PROVE TypeInv'
  OBVIOUS
<1>2. CASE UNCHANGED vars
  BY <1>1, <1>2 DEF vars, TypeInv, TypeOK, AboutSomebody, CountedKeys, At
<1>3. CASE Next
  BY <1>1, <1>3, RenewalTypes, WrapTypes, RequestTypes, MoveTypes DEF Next
<1>4. QED
  BY <1>1, <1>2, <1>3

\* Every state has the types the rows and the handlers of the code have.
THEOREM RecoveryTypes == Spec => []TypeOK
<1>1. TypeInv => TypeOK
  BY DEF TypeInv
<1>2. QED
  BY <1>1, InitTypeInv, TypeInvStep, PTL DEF Spec

-----------------------------------------------------------------------------
(* Decisions                                                               *)

\* A handler that decides writes to an open request only, and a new request takes a
\* row that was never used.  So a decision is final: no approval, rejection, expiry or
\* departure takes another one back.
THEOREM DecisionsAreFinal == Spec => DecidedOnce
<1> DEFINE Final(r) == request'[r].at = request[r].at /\ request'[r].second = request[r].second
<1>1. ASSUME TypeOK, [Next]_vars, NEW r \in Request, request[r].at \in {"approved", "rejected"}
      PROVE  Final(r)
  <2>1. request[r] \in Claim /\ request \in [Request -> Claim]
    BY <1>1 DEF TypeOK
  <2>2. CASE request' = request
    BY <2>2
  <2>3. ASSUME NEW h \in Handler, NEW q \in Request, Ask(h, q) PROVE Final(r)
    <3>1. request' = [request EXCEPT ![q] = request'[q]] /\ request[q].at = "none"
      BY <2>1, <2>3 DEF Ask, Unused
    <3>2. q # r
      BY <1>1, <3>1
    <3>3. QED
      BY <2>1, <3>1, <3>2
  <2>4. ASSUME NEW h \in Handler, Decide(h) PROVE Final(r)
    BY <1>1, <2>1, <2>4 DEF Decide
  <2>5. ASSUME NEW q \in Request, Expire(q) PROVE Final(r)
    BY <2>1, <2>5 DEF Expire, Claim
  <2>6. ASSUME NEW a \in Account, Depart(a) PROVE Final(r)
    BY <2>1, <2>6 DEF Depart, Claim
  <2>7. \/ request' = request
        \/ \E h \in Handler : Decide(h) \/ \E q \in Request : Ask(h, q)
        \/ \E q \in Request : Expire(q)
        \/ \E a \in Account : Depart(a)
    <3>1. CASE UNCHANGED vars
      BY <3>1 DEF vars, rows
    <3>2. ASSUME NEW t \in Tab,
                 Load(t) \/ StartRenewal(t) \/ ReadGeneration(t) \/ Renew(t) \/ GiveUp(t)
          PROVE  request' = request
      BY <3>2 DEF Load, StartRenewal, ReadGeneration, Renew, GiveUp, rows
    <3>3. ASSUME NEW h \in Handler, NEW a \in Account, NEW b \in Account,
                 Distribute(h, a, b) \/ CheckAsk(h, a, b) \/ LeaveKey(h, a) \/ Demote(h, a)
          PROVE  request' = request
      BY <3>3 DEF Distribute, CheckAsk, LeaveKey, Demote, rows
    <3>4. ASSUME NEW h \in Handler, NEW a \in Account, NEW q \in Request,
                 NEW verdict \in {"approve", "reject"},
                 CheckDecision(h, a, q, verdict) \/ Open(h, a, q)
          PROVE  request' = request
      BY <3>4 DEF CheckDecision, Open, rows
    <3>5. ASSUME NEW h \in Handler,
                 \/ CheckGrant(h) \/ InsertGrant(h) \/ CheckEscrow(h) \/ StoreEscrow(h)
                 \/ FindEscrow(h) \/ FindGrant(h) \/ Deliver(h) \/ Finish(h) \/ Strip(h)
          PROVE  request' = request
      BY <3>5 DEF CheckGrant, InsertGrant, CheckEscrow, StoreEscrow, FindEscrow, FindGrant, Unlock,
                  Deliver, Finish, Strip, rows
    <3>6. ASSUME NEW a \in Account, Promote(a) \/ Join(a) PROVE request' = request
      BY <3>6 DEF Promote, Join, rows
    <3>7. QED
      BY <1>1, <3>1, <3>2, <3>3, <3>4, <3>5, <3>6 DEF Next
  <2>8. QED
    BY <2>2, <2>3, <2>4, <2>5, <2>6, <2>7
<1>2. TypeOK /\ [Next]_vars =>
        [\A r \in Request : request[r].at \in {"approved", "rejected"} => Final(r)]_vars
  BY <1>1
<1>3. QED
  BY <1>2, RecoveryTypes, PTL DEF Spec, DecidedOnce

-----------------------------------------------------------------------------
(* Keys                                                                    *)

\* A key is told by its generation when it is NoKey.
LEMMA KeysAreKeys ==
  ASSUME TypeInv PROVE KeysInUse \subseteq Key \cup {NoKey}
BY DEF TypeInv, TypeOK, KeysInUse, Grant, Escrow, Task

LEMMA GenerationsAreNumbers ==
  ASSUME NEW k \in Key \cup {NoKey} PROVE k.gen \in Nat /\ (k.gen = 0 <=> k = NoKey)
BY DEF Key, NoKey

LEMMA InitKeyInv == Init => KeyInv
<1>1. SUFFICES ASSUME Init PROVE KeyInv
  OBVIOUS
<1>2. KeysInUse = {NoKey} /\ key = NoKey
  BY <1>1 DEF Init, KeysInUse, NoEscrow, Idle
<1>3. OneKeyEach
  BY <1>2 DEF OneKeyEach, NoKey
<1>4. GenerationsTold /\ RenewalIsNext /\ SealsFit /\ DeliveryFits
  BY <1>1 DEF Init, GenerationsTold, RenewalIsNext, SealsFit, DeliveryFits, NoEscrow, NoKey,
              NoRenewal, Idle, At
<1>5. QED
  BY <1>3, <1>4 DEF KeyInv

\* As long as nobody renews, keys are only passed on.
LEMMA KeysPassedOn ==
  ASSUME KeyInv, key' = key, KeysInUse' \subseteq KeysInUse
  PROVE  OneKeyEach'
BY DEF KeyInv, OneKeyEach

\* The key of something that is in use is in use.
LEMMA ItemKeys ==
  /\ NoKey \in KeysInUse /\ key \in KeysInUse
  /\ \A g \in grants : g.key \in KeysInUse
  /\ \A a \in Account : escrow[a].key \in KeysInUse
  /\ \A h \in Handler : task[h].item.key \in KeysInUse /\ task[h].wrapped \in KeysInUse
BY DEF KeysInUse

\* A handler that only moves on: what it carries is in use already.
LEMMA TaskKeys ==
  ASSUME TypeInv, KeyInv, NEW h \in Handler, NEW t, Do(h, t), UNCHANGED <<key, escrow, pages>>,
         \A g \in grants' : \/ g \in grants
                          \/ (g.key \in KeysInUse /\ g.gen = g.key.gen /\ g.seal = g.gen),
         t.item.key \in KeysInUse, t.wrapped \in KeysInUse, t.item.gen = t.item.key.gen,
         t.at \in {"deliver", "answered"} =>
           t.wrapped.gen = t.item.gen /\ Fits(t.by, t.seal, t.item.gen),
         t.at = "answered" => t.public = t.item.key \/ key.gen > t.item.gen
  PROVE  KeyInv'
<1>1. task' = [task EXCEPT ![h] = t] /\ task \in [Handler -> Task]
  BY DEF Do, TypeInv, TypeOK
<1>2. \A i \in Handler : task'[i] = t \/ task'[i] = task[i]
  BY <1>1
<1>3. KeysInUse' \subseteq KeysInUse
  <2>1. \A g \in grants' : g.key \in KeysInUse
    BY ItemKeys
  <2>2. \A i \in Handler : task'[i].item.key \in KeysInUse /\ task'[i].wrapped \in KeysInUse
    BY <1>2, ItemKeys
  <2>3. key' = key /\ escrow' = escrow
    OBVIOUS
  <2>4. key \in KeysInUse /\ NoKey \in KeysInUse /\ \A a \in Account : escrow[a].key \in KeysInUse
    BY ItemKeys
  <2>5. ASSUME NEW k \in KeysInUse' PROVE k \in KeysInUse
    <3>1. \/ k \in {NoKey, key'} \/ \E g \in grants' : k = g.key
          \/ \E a \in Account : k = escrow'[a].key
          \/ \E i \in Handler : k = task'[i].item.key \/ k = task'[i].wrapped
      BY <2>5 DEF KeysInUse
    <3>2. QED
      BY <2>1, <2>2, <2>3, <2>4, <3>1
  <2>6. QED
    BY <2>5
<1>4. GenerationsTold'
  BY <1>2 DEF GenerationsTold, KeyInv
<1>5. DeliveryFits'
  BY <1>2 DEF DeliveryFits, KeyInv, At
<1>6. RenewalIsNext' /\ SealsFit'
  BY DEF RenewalIsNext, SealsFit, Fits, KeyInv, pages
<1>7. QED
  BY <1>3, <1>4, <1>5, <1>6, KeysPassedOn DEF KeyInv

\* A renewal: the new key is ahead of every other one.
LEMMA RenewalKeys ==
  ASSUME OneTab, TypeInv, KeyInv, NEW t \in Tab,
         Load(t) \/ StartRenewal(t) \/ ReadGeneration(t) \/ Renew(t) \/ GiveUp(t)
  PROVE  KeyInv'
<1>1. /\ key \in Key \cup {NoKey} /\ key.gen \in Nat
      /\ page \in [Tab -> Gen] /\ \A s \in Tab : page[s] \in Nat
      /\ renewal \in [Tab -> Renewing]
      /\ \A s \in Tab : s = t
  BY GenerationsAreNumbers DEF TypeInv, TypeOK, Gen, OneTab
<1>2. ASSUME UNCHANGED <<rows, task>> PROVE GenerationsTold' /\ OneKeyEach' /\ SealsFit' /\ DeliveryFits'
  BY <1>2 DEF rows, KeysInUse, KeyInv, GenerationsTold, OneKeyEach, SealsFit, DeliveryFits, At
<1>3. CASE Load(t)
  <2>1. RenewalIsNext'
    BY <1>1, <1>3 DEF Load, rows, RenewalIsNext, KeyInv
  <2>2. QED
    BY <1>2, <1>3, <2>1 DEF Load, KeyInv
<1>4. CASE StartRenewal(t)
  <2>1. renewal'[t] = [at |-> "read", seal |-> page[t] + 1, gen |-> 0]
    BY <1>1, <1>4 DEF StartRenewal, Renewal
  <2>2. RenewalIsNext'
    BY <1>1, <1>4, <2>1 DEF StartRenewal, rows, RenewalIsNext, KeyInv
  <2>3. QED
    BY <1>2, <1>4, <2>2 DEF StartRenewal, KeyInv
<1>5. CASE ReadGeneration(t)
  <2>1. renewal'[t] = [at |-> "store", seal |-> renewal[t].seal, gen |-> key.gen + 1]
    BY <1>1, <1>5 DEF ReadGeneration, Renewal
  <2>2. RenewalIsNext'
    BY <1>1, <1>5, <2>1 DEF ReadGeneration, rows, RenewalIsNext, KeyInv
  <2>3. QED
    BY <1>2, <1>5, <2>2 DEF ReadGeneration, KeyInv
<1>6. CASE GiveUp(t)
  <2>1. renewal'[t].at = "idle"
    BY <1>1, <1>6 DEF GiveUp, NoRenewal
  <2>2. RenewalIsNext'
    BY <1>1, <1>6, <2>1 DEF GiveUp, rows, RenewalIsNext, KeyInv
  <2>3. QED
    BY <1>2, <1>6, <2>2 DEF GiveUp, KeyInv
<1>7. CASE Renew(t)
  <2>1. PICK k : k = key' /\ k = [gen |-> renewal[t].gen, nth |-> made']
    BY <1>7 DEF Renew
  <2>2. k.gen = key.gen + 1 /\ k.gen \in Nat
    BY <1>1, <1>7, <2>1 DEF Renew, KeyInv, RenewalIsNext
  <2>3. \A l \in KeysInUse : l.gen \in Nat /\ l.gen <= key.gen
    BY KeysAreKeys, GenerationsAreNumbers DEF KeyInv, OneKeyEach
  <2>4. /\ grants' = {[gen |-> k.gen, to |-> Owner, key |-> k, seal |-> renewal[t].seal]}
        /\ escrow' = [a \in Account |-> NoEscrow] /\ task' = task /\ page' = page
        /\ renewal' = [renewal EXCEPT ![t] = NoRenewal]
    BY <1>7, <2>1 DEF Renew
  <2>5. KeysInUse' \subseteq KeysInUse \cup {k}
    BY <2>1, <2>4 DEF KeysInUse, NoEscrow
  <2>6. OneKeyEach'
    <3>1. \A l \in KeysInUse : l.gen <= k.gen /\ l.gen # k.gen
      BY <1>1, <2>2, <2>3
    <3>2. k.gen <= k.gen
      BY <2>2
    <3>3. QED
      BY <2>1, <2>5, <3>1, <3>2 DEF OneKeyEach, KeyInv
  <2>7. GenerationsTold'
    BY <2>4 DEF GenerationsTold, KeyInv, NoEscrow, NoKey
  <2>8. SealsFit'
    <3>1. renewal[t].seal <= k.gen /\ renewal[t].seal \in Nat
      BY <1>1, <1>7, <2>2 DEF Renew, KeyInv, RenewalIsNext, Renewing, Gen
    <3>2. Fits(Owner, renewal[t].seal, k.gen)
      BY <2>2, <3>1 DEF Fits
    <3>3. QED
      BY <2>4, <3>2 DEF SealsFit
  <2>9. DeliveryFits'
    <3>1. \A h \in Handler : task[h].item.gen \in Nat /\ task[h].item.gen < k.gen
      <4>1. SUFFICES ASSUME NEW h \in Handler PROVE task[h].item.gen \in Nat /\ task[h].item.gen < k.gen
        OBVIOUS
      <4>2. task[h].item.key \in KeysInUse /\ task[h].item.gen = task[h].item.key.gen
        BY DEF KeysInUse, KeyInv, GenerationsTold
      <4>3. QED
        BY <1>1, <2>2, <2>3, <4>2
    <3>2. key'.gen = k.gen
      BY <2>1
    <3>3. \A h \in Handler : k.gen > task[h].item.gen
      BY <2>2, <3>1
    <3>4. QED
      BY <2>4, <3>2, <3>3 DEF DeliveryFits, KeyInv, At
  <2>10. RenewalIsNext'
    <3>1. renewal'[t].at = "idle"
      BY <1>1, <2>4 DEF NoRenewal
    <3>2. page[t] <= k.gen
      BY <1>1, <2>2 DEF KeyInv, RenewalIsNext
    <3>3. QED
      BY <1>1, <2>1, <2>4, <3>1, <3>2 DEF RenewalIsNext
  <2>11. QED
    BY <2>6, <2>7, <2>8, <2>9, <2>10 DEF KeyInv
<1>8. QED
  BY <1>3, <1>4, <1>5, <1>6, <1>7

LEMMA IdleKeys == /\ Idle.item = NoEscrow /\ Idle.wrapped = NoKey /\ Idle.at = "idle"
                  /\ NoEscrow.key = NoKey /\ NoEscrow.gen = NoKey.gen
BY DEF Idle, NoEscrow, NoKey

\* Grants, escrows and their lookups: wrappings are taken over with their generation.
LEMMA WrapKeys ==
  ASSUME TypeInv, KeyInv, NEW h \in Handler,
         \/ \E a, b \in Account : Distribute(h, a, b)
         \/ \E a \in Account : LeaveKey(h, a)
         \/ CheckGrant(h) \/ InsertGrant(h) \/ CheckEscrow(h) \/ StoreEscrow(h)
         \/ FindEscrow(h) \/ FindGrant(h) \/ Deliver(h)
  PROVE  KeyInv'
<1> USE ItemKeys, IdleKeys
<1>1. /\ task[h] \in Task /\ task[h].item.gen = task[h].item.key.gen
      /\ \A g \in grants : g.gen = g.key.gen
      /\ \A a \in Account : escrow[a].gen = escrow[a].key.gen
  BY DEF TypeInv, TypeOK, KeyInv, GenerationsTold
<1>2. CASE Return(h) /\ UNCHANGED <<rows, team, pages>>
  BY <1>2, TaskKeys DEF Return, rows
<1>3. ASSUME NEW a \in Account, NEW b \in Account, Distribute(h, a, b) PROVE KeyInv'
  <2>1. PICK g \in grants :
          Do(h, [Idle EXCEPT !.at = "grant", !.by = a, !.to = b,
                             !.item = [gen |-> g.gen, key |-> g.key]])
    BY <1>3 DEF Distribute
  <2>2. QED
    BY <1>1, <1>3, <2>1, TaskKeys DEF Distribute, Idle, rows
<1>4. ASSUME NEW a \in Account, LeaveKey(h, a) PROVE KeyInv'
  BY <1>4, TaskKeys DEF LeaveKey, Idle, rows
<1>5. CASE CheckGrant(h)
  <2>1. CASE Do(h, [task[h] EXCEPT !.at = "insert", !.by = None])
    BY <1>1, <1>5, <2>1, TaskKeys DEF CheckGrant, rows, Task
  <2>2. QED
    BY <1>2, <1>5, <2>1 DEF CheckGrant
<1>6. CASE CheckEscrow(h)
  <2>1. CASE Do(h, [task[h] EXCEPT !.at = "store"])
    BY <1>1, <1>6, <2>1, TaskKeys DEF CheckEscrow, rows, Task
  <2>2. QED
    BY <1>2, <1>6, <2>1 DEF CheckEscrow
<1>7. CASE InsertGrant(h)
  BY <1>1, <1>7, TaskKeys DEF InsertGrant, Return
<1>8. CASE StoreEscrow(h)
  <2>1. escrow' = [escrow EXCEPT ![task[h].by] = task[h].item] /\ task' = [task EXCEPT ![h] = Idle]
    BY <1>8 DEF StoreEscrow, Return, Do
  <2>2. /\ \A a \in Account : escrow'[a] = escrow[a] \/ escrow'[a] = task[h].item
        /\ \A i \in Handler : task'[i] = task[i] \/ task'[i] = Idle
    BY <2>1 DEF TypeInv, TypeOK
  <2>3. UNCHANGED <<key, grants, pages>>
    BY <1>8 DEF StoreEscrow
  <2>4. KeysInUse' \subseteq KeysInUse
    BY <2>2, <2>3 DEF KeysInUse
  <2>5. GenerationsTold' /\ DeliveryFits' /\ RenewalIsNext' /\ SealsFit'
    BY <1>1, <2>2, <2>3 DEF GenerationsTold, DeliveryFits, RenewalIsNext, SealsFit, KeyInv, At, pages
  <2>6. QED
    BY <2>3, <2>4, <2>5, KeysPassedOn DEF KeyInv
<1>9. CASE FindEscrow(h)
  <2>1. CASE Do(h, [task[h] EXCEPT !.at = "unlock", !.to = None, !.req = None,
                                !.item = escrow[task[h].to]])
    <3>1. task[h].to \in Account
      BY <1>9 DEF FindEscrow, At, TypeInv, AboutSomebody
    <3>2. QED
      BY <1>1, <1>9, <2>1, <3>1, TaskKeys DEF FindEscrow, rows, Task
  <2>2. QED
    BY <1>2, <1>9, <2>1 DEF FindEscrow
<1>10. CASE FindGrant(h)
  <2>1. ASSUME NEW g \in grants, g.to = task[h].by, g.gen = task[h].item.gen,
               Do(h, [task[h] EXCEPT !.at = "deliver", !.wrapped = g.key, !.seal = g.seal])
        PROVE  KeyInv'
    <3> DEFINE t == [task[h] EXCEPT !.at = "deliver", !.wrapped = g.key, !.seal = g.seal]
    <3>1. t.at = "deliver" /\ t.wrapped = g.key /\ t.seal = g.seal /\ t.by = g.to /\ t.item = task[h].item
      BY <1>1, <2>1 DEF Task
    <3>2. Fits(t.by, t.seal, t.item.gen) /\ t.wrapped.gen = t.item.gen
      BY <1>1, <2>1, <3>1 DEF KeyInv, SealsFit
    <3>3. Do(h, t) /\ UNCHANGED <<key, grants, escrow, pages>>
      BY <1>10, <2>1 DEF FindGrant, Unlock, rows
    <3> HIDE DEF t
    <3>4. QED
      BY <1>1, <3>1, <3>2, <3>3, TaskKeys
  <2>2. QED
    BY <1>2, <1>10, <2>1 DEF FindGrant, Unlock
<1>11. CASE Deliver(h)
  <2> DEFINE t == [task[h] EXCEPT !.at = "answered", !.public = key]
  <2>1. /\ t.at = "answered" /\ t.public = key /\ t.wrapped = task[h].wrapped
        /\ t.seal = task[h].seal /\ t.by = task[h].by /\ t.item = task[h].item
    BY <1>1 DEF Task
  <2>2. Fits(t.by, t.seal, t.item.gen) /\ t.wrapped.gen = t.item.gen
    BY <1>11, <2>1 DEF Deliver, At, KeyInv, DeliveryFits
  <2>3. t.public = t.item.key \/ key.gen > t.item.gen
    <3>1. \A k \in KeysInUse : k.gen \in Nat
      BY KeysAreKeys, GenerationsAreNumbers
    <3>2. t.item.key.gen <= key.gen /\ (t.item.key.gen = key.gen => t.item.key = key)
      BY <2>1 DEF KeyInv, OneKeyEach
    <3>3. t.item.key.gen \in Nat /\ key.gen \in Nat /\ t.item.gen = t.item.key.gen
      BY <1>1, <2>1, <3>1
    <3>4. QED
      BY <2>1, <3>2, <3>3
  <2>4. Do(h, t) /\ UNCHANGED <<key, grants, escrow, pages>>
    BY <1>11 DEF Deliver, rows
  <2>5. t.item.key \in KeysInUse /\ t.wrapped \in KeysInUse /\ t.item.gen = t.item.key.gen
    BY <1>1, <2>1
  <2> HIDE DEF t
  <2>6. QED
    BY <2>2, <2>3, <2>4, <2>5, TaskKeys
<1>12. QED
  BY <1>3, <1>4, <1>5, <1>6, <1>7, <1>8, <1>9, <1>10, <1>11

\* Requests and roles touch no key; a departure only takes wrappings away.
LEMMA OtherKeys ==
  ASSUME TypeInv, KeyInv,
         \/ \E h \in Handler :
              \/ \E a, b \in Account : CheckAsk(h, a, b)
              \/ \E a \in Account : Demote(h, a)
              \/ \E a \in Account, r \in Request :
                   (\E verdict \in {"approve", "reject"} : CheckDecision(h, a, r, verdict))
                     \/ Open(h, a, r)
              \/ \E r \in Request : Ask(h, r)
              \/ Decide(h) \/ Finish(h) \/ Strip(h)
         \/ \E r \in Request : Expire(r)
         \/ \E a \in Account : Promote(a) \/ Depart(a) \/ Join(a)
  PROVE  KeyInv'
<1> USE ItemKeys, IdleKeys
<1>1. ASSUME NEW h \in Handler, NEW t, Do(h, t), t.item = NoEscrow, t.wrapped = NoKey,
             t.at \notin {"deliver", "answered"}, grants' \subseteq grants, UNCHANGED <<key, escrow, pages>>
      PROVE  KeyInv'
  BY <1>1, TaskKeys
<1>2. ASSUME NEW h \in Handler, NEW a \in Account, NEW b \in Account, CheckAsk(h, a, b) PROVE KeyInv'
  BY <1>1, <1>2 DEF CheckAsk, Idle, rows
<1>3. ASSUME NEW h \in Handler, NEW a \in Account, Demote(h, a) PROVE KeyInv'
  BY <1>1, <1>3 DEF Demote, Idle, rows
<1>4. ASSUME NEW h \in Handler, NEW a \in Account, NEW r \in Request,
             NEW verdict \in {"approve", "reject"}, CheckDecision(h, a, r, verdict)
      PROVE  KeyInv'
  BY <1>1, <1>4 DEF CheckDecision, Idle, rows
<1>5. ASSUME NEW h \in Handler, NEW a \in Account, NEW r \in Request, Open(h, a, r) PROVE KeyInv'
  BY <1>1, <1>5 DEF Open, Idle, rows
<1>6. ASSUME NEW h \in Handler,
             Decide(h) \/ Finish(h) \/ Strip(h) \/ \E r \in Request : Ask(h, r)
      PROVE  KeyInv'
  BY <1>1, <1>6 DEF Decide, Finish, Strip, GrantsWithout, Ask, Return, rows
<1>7. ASSUME UNCHANGED <<key, pages, task>>, grants' \subseteq grants,
             \A a \in Account : escrow'[a] = escrow[a] \/ escrow'[a] = NoEscrow
      PROVE  KeyInv'
  <2>1. KeysInUse' \subseteq KeysInUse
    BY <1>7 DEF KeysInUse
  <2>2. GenerationsTold' /\ DeliveryFits' /\ RenewalIsNext' /\ SealsFit'
    BY <1>7 DEF GenerationsTold, DeliveryFits, RenewalIsNext, SealsFit, KeyInv, At, pages
  <2>3. QED
    BY <1>7, <2>1, <2>2, KeysPassedOn DEF KeyInv
<1>8. ASSUME NEW r \in Request, Expire(r) PROVE KeyInv'
  BY <1>7, <1>8 DEF Expire
<1>9. ASSUME NEW a \in Account, Promote(a) \/ Join(a) PROVE KeyInv'
  BY <1>7, <1>9 DEF Promote, Join, rows
<1>10. ASSUME NEW a \in Account, Depart(a) PROVE KeyInv'
  BY <1>7, <1>10 DEF Depart, GrantsWithout, TypeInv, TypeOK
<1>11. QED
  BY <1>2, <1>3, <1>4, <1>5, <1>6, <1>8, <1>9, <1>10

LEMMA KeyInvStep == OneTab /\ TypeInv /\ KeyInv /\ [Next]_vars => KeyInv'
<1>1. SUFFICES ASSUME OneTab, TypeInv, KeyInv, [Next]_vars PROVE KeyInv'
  OBVIOUS
<1>2. CASE UNCHANGED vars
  BY <1>1, <1>2 DEF vars, KeyInv, GenerationsTold, OneKeyEach, KeysInUse, RenewalIsNext,
                    SealsFit, DeliveryFits, At
<1>3. CASE Next
  BY <1>1, <1>3, RenewalKeys, WrapKeys, OtherKeys DEF Next
<1>4. QED
  BY <1>1, <1>2, <1>3

LEMMA KeysHold == ASSUME OneTab PROVE Spec => [](TypeInv /\ KeyInv)
<1>1. TypeInv /\ KeyInv /\ [Next]_vars => (TypeInv /\ KeyInv)'
  BY TypeInvStep, KeyInvStep
<1>2. Init => TypeInv /\ KeyInv
  BY InitTypeInv, InitKeyInv
<1>3. QED
  BY <1>1, <1>2, PTL DEF Spec

\* recoveryVault looks the wrapped team key up by the generation of the escrow, and the
\* public key after that.  However the owner's renewals fall between its reads, who asks
\* is given the key that was used, sealed for its generation, unless the owner itself
\* asks with a key its page sealed late; and the public key fits, unless a renewal has
\* already voided what was left.
THEOREM WhatIsDeliveredOpens == ASSUME OneTab PROVE Spec => []DeliveryOpens
<1>1. TypeInv /\ KeyInv => DeliveryOpens
  BY ItemKeys DEF KeyInv, GenerationsTold, OneKeyEach, DeliveryFits, Fits, DeliveryOpens, At
<1>2. QED
  BY <1>1, KeysHold, PTL

\* Nothing carries the current generation that is wrapped for another key, whatever
\* handlers were under way when the owner renewed it.
THEOREM CurrentGenerationMeansCurrentKey == ASSUME OneTab PROVE Spec => []CurrentKeyOnly
<1>1. TypeInv /\ KeyInv => CurrentKeyOnly
  BY ItemKeys DEF KeyInv, GenerationsTold, OneKeyEach, CurrentKeyOnly
<1>2. QED
  BY <1>1, KeysHold, PTL
=============================================================================

---------------------------- MODULE FilecoinBackup ----------------------------
(***************************************************************************)
(* The backup to Filecoin (server/foc): runFocSync of foc/sync.ts with its *)
(* lease, the reads of FocBackedProvider (foc/provider.ts) that rely on    *)
(* it, and the change of the network in setFocSettings (foc/config.ts),    *)
(* over the tables foc_packs and foc_members, the fast storage and the     *)
(* storage providers.  One step per await.                                 *)
(*                                                                         *)
(* Sizes and ages only delay a step: what is too small, too young or over  *)
(* a limit is a choice not to take it yet.  One account owns all keys.     *)
(***************************************************************************)
EXTENDS Integers, FiniteSets, FiniteSetsExt

CONSTANTS
  Piece,           \* storage keys of file pieces, u/.../o/...
  Index,           \* storage keys of vault indexes
  Provider,        \* storage providers
  Network,         \* networks an admin can choose
  None,            \* no network read or asked for
  Run,             \* runs of runFocSync that can overlap
  MaxPacks,        \* bound: packs uploaded
  Copies,          \* settings: copies of a base pack
  Target,          \* Super Safe: copies wanted in all
  MaxFaults,       \* bound: awaits that throw, runs that die or outlive their lease
  MaxBookings,     \* bound: times Super Safe is booked or ends
  AnyTime          \* TRUE: the network changes also during a run, or after a fault

Key  == Piece \cup Index
Pack == 1..MaxPacks

ASSUME CountAssumption  == {MaxPacks, Copies, Target} \subseteq Nat \ {0}
ASSUME KindAssumption   == Piece \cap Index = {} /\ None \notin Network
ASSUME BoundAssumption  == {MaxFaults, MaxBookings} \subseteq Nat /\ AnyTime \in BOOLEAN

VARIABLES
  life,            \* per key: is it in LIVE_KEYS, or a row of vault_indexes at least
  fast,            \* the keys with a copy in the fast storage
  safe,            \* the account has an active Super Safe booking
  bookings,        \* how often that has changed
  network,         \* the network of the settings
  pack,            \* the rows of foc_packs
  held,            \* per pack: the providers that have its bytes
  member,          \* the rows of foc_members: what <<key, pack>> is
  lease,           \* is there a row foc_lease that has not run out
  run,             \* what each run is doing
  admin,           \* setFocSettings: the network it changes to, and its step
  faults,          \* of these so far
  outlived         \* history: a lease ran out while its run was at work

vars == <<life, fast, safe, bookings, network, pack, held, member, lease, run, admin,
          faults, outlived>>

\* An index is old once there is a newer one.
Life == {"live", "old", "dead"}

NoPack == [state |-> "none", kind |-> "base", net |-> None, copies |-> {}]
PackRow == [state : {"none", "stored", "removed"}, kind : {"base", "extra"},
            net : Network \cup {None}, copies : SUBSET Provider]

Step == {"idle", "lease", "mark", "free", "survey", "remove", "pick", "unlink", "note",
         "backlog", "extra", "holders", "read", "upload", "insert", "release"}

\* net: the settings it has read.  keys: what it works on.  kind: of the pack it
\* makes.  packs, left: the dead packs it has found, copies of the first still to
\* be removed.  need: copies to upload.  avoid: excludeProviderIds.  new: its pack.
Job == [at : Step, net : Network \cup {None}, keys : SUBSET Key, kind : {"base", "extra"},
        packs : SUBSET Pack, left : SUBSET Provider, need : 0..Target,
        avoid : SUBSET Provider, new : 0..MaxPacks]

Idle == [at |-> "idle", net |-> None, keys |-> {}, kind |-> "base", packs |-> {},
         left |-> {}, need |-> 0, avoid |-> {}, new |-> 0]

TypeOK ==
  /\ life \in [Key -> Life]
  /\ fast \subseteq Key
  /\ safe \in BOOLEAN /\ bookings \in 0..MaxBookings
  /\ network \in Network
  /\ pack \in [Pack -> PackRow]
  /\ held \in [Pack -> SUBSET Provider]
  /\ member \in [Key -> [Pack -> {"none", "kept", "evicted", "ended"}]]
  /\ lease \in BOOLEAN
  /\ run \in [Run -> Job]
  /\ admin \in [at : {"idle", "move", "write"}, net : Network \cup {None}]
  /\ faults \in 0..MaxFaults
  /\ outlived \in BOOLEAN

Init ==
  /\ life = [k \in Key |-> "live"]
  /\ fast = Key
  /\ safe = TRUE /\ bookings = 0
  /\ network \in Network
  /\ pack = [p \in Pack |-> NoPack]
  /\ held = [p \in Pack |-> {}]
  /\ member = [k \in Key |-> [p \in Pack |-> "none"]]
  /\ lease = FALSE
  /\ run = [r \in Run |-> Idle]
  /\ admin = [at |-> "idle", net |-> None]
  /\ faults = 0
  /\ outlived = FALSE

world  == <<life, fast, safe, bookings>>
tables == <<pack, held, member>>
rest   == <<network, admin, faults, outlived>>

At(r, step)   == run[r].at = step
Do(r, job)    == run' = [run EXCEPT ![r] = job]
Goto(r, step) == Do(r, [Idle EXCEPT !.at = step, !.net = run[r].net])
Working(r)    == run[r].at \notin {"idle", "lease"}

Member(k, p)  == member[k][p] \in {"kept", "evicted"}            \* deleted_at IS NULL
Stored(k)     == {p \in Pack : Member(k, p) /\ pack[p].state = "stored"}

\* FocBackedProvider.readStream and getSmall: the fast copy, or any copy of any pack.
Readable(k) == k \in fast \/ \E p \in Stored(k) : held[p] # {}

-----------------------------------------------------------------------------
(* Keys go.  A key stored later is one that the runs leave for later; so   *)
(* is an index younger than 30 minutes.                                    *)

\* A newer index is written.
Supersede(k) ==
  /\ k \in Index /\ life[k] = "live"
  /\ life' = [life EXCEPT ![k] = "old"]
  /\ UNCHANGED <<fast, safe, bookings, tables, lease, run, rest>>

\* A file is deleted for good, an old version of the index is dropped.
Discard(k) ==
  /\ life[k] = IF k \in Piece THEN "live" ELSE "old"
  /\ life' = [life EXCEPT ![k] = "dead"]
  /\ fast' \in {fast, fast \ {k}}
  /\ UNCHANGED <<safe, bookings, tables, lease, run, rest>>

\* Super Safe is booked or ends.
Book ==
  /\ bookings < MaxBookings
  /\ bookings' = bookings + 1 /\ safe' = ~safe
  /\ UNCHANGED <<life, fast, tables, lease, run, rest>>

-----------------------------------------------------------------------------
(* runFocSync: the lease                                                   *)

Begin(r) ==
  /\ At(r, "idle")
  /\ AnyTime \/ admin.at = "idle"
  /\ Do(r, [Idle EXCEPT !.at = "lease", !.net = network])
  /\ UNCHANGED <<world, tables, lease, rest>>

\* Faulty variant of Acquire: a lease that is there does not keep anybody out.
AcquireAnyway(r) ==
  /\ At(r, "lease")
  /\ lease' = TRUE /\ Goto(r, "mark")
  /\ UNCHANGED <<world, tables, rest>>

Acquire(r) ==
  /\ At(r, "lease")
  /\ ~lease
  /\ lease' = TRUE /\ Goto(r, "mark")
  /\ UNCHANGED <<world, tables, rest>>

\* "Läuft bereits."
Busy(r) ==
  /\ At(r, "lease") /\ lease
  /\ Do(r, Idle)
  /\ UNCHANGED <<world, tables, lease, rest>>

Fault == faults < MaxFaults /\ faults' = faults + 1

\* 15 minutes are over.  A run that is still at work notices nothing.
Expire ==
  /\ lease
  /\ lease' = FALSE
  /\ IF \E r \in Run : Working(r) THEN Fault /\ outlived' = TRUE
     ELSE UNCHANGED <<faults, outlived>>
  /\ UNCHANGED <<world, tables, run, network, admin>>

\* releaseLease deletes the row, whoever has set it.
Release(r) ==
  /\ At(r, "release")
  /\ lease' = FALSE /\ Do(r, Idle)
  /\ UNCHANGED <<world, tables, rest>>

\* An exception, or a health check that says "critical".
Fail(r) ==
  /\ Working(r) /\ ~At(r, "release")
  /\ Fault
  /\ Goto(r, "release")
  /\ UNCHANGED <<world, tables, lease, network, admin, outlived>>

\* The process dies; a restarted one waits until the lease is over.
Crash(r) ==
  /\ Working(r)
  /\ Fault
  /\ Do(r, Idle)
  /\ UNCHANGED <<world, tables, lease, network, admin, outlived>>

-----------------------------------------------------------------------------
(* reconcileDeletions                                                      *)

\* Every membership in the set of pairs <<k, p>> ends: deleted_at = now().
End(pairs) ==
  member' = [k \in Key |-> [p \in Pack |->
               IF Member(k, p) /\ <<k, p>> \in pairs THEN "ended" ELSE member[k][p]]]

\* Keys that are neither in LIVE_KEYS nor in vault_indexes.
Mark(r) ==
  /\ At(r, "mark")
  /\ End({k \in Key : life[k] = "dead"} \X Pack)
  /\ Goto(r, "free")
  /\ UNCHANGED <<world, pack, held, lease, rest>>

\* Extra copies of keys that are not live, or without Super Safe.
Free(r) ==
  /\ At(r, "free")
  /\ End({k \in Key : ~(life[k] = "live" /\ safe)} \X {p \in Pack : pack[p].kind = "extra"})
  /\ Goto(r, "survey")
  /\ UNCHANGED <<world, pack, held, lease, rest>>

\* The next pack of a set of dead packs, and its copies.
RemoveNext(r, dead) ==
  IF dead = {} THEN Goto(r, "pick")
  ELSE Do(r, [run[r] EXCEPT !.at = "remove", !.packs = dead, !.left = pack[Min(dead)].copies])

\* Faulty variant of Survey: packs with one dead member are removed.
SurveyAny(r) ==
  /\ At(r, "survey")
  /\ RemoveNext(r, {p \in Pack : /\ pack[p].state = "stored" /\ pack[p].net = run[r].net
                                 /\ \E k \in Key : member[k][p] = "ended"})
  /\ UNCHANGED <<world, tables, lease, rest>>

Survey(r) ==
  /\ At(r, "survey")
  /\ RemoveNext(r, {p \in Pack : /\ pack[p].state = "stored" /\ pack[p].net = run[r].net
                                 /\ \A k \in Key : ~Member(k, p)})
  /\ UNCHANGED <<world, tables, lease, rest>>

\* backend.removePiece; a copy that is gone already is no error.
RemoveCopy(r) ==
  /\ At(r, "remove")
  /\ \E c \in run[r].left :
       /\ held' = [held EXCEPT ![Min(run[r].packs)] = @ \ {c}]
       /\ run' = [run EXCEPT ![r].left = @ \ {c}]
  /\ UNCHANGED <<world, pack, member, lease, rest>>

Removed(r) ==
  /\ At(r, "remove") /\ run[r].left = {}
  /\ LET p == Min(run[r].packs) IN
       /\ pack' = [pack EXCEPT ![p].state = "removed"]
       /\ RemoveNext(r, run[r].packs \ {p})
  /\ UNCHANGED <<world, held, member, lease, rest>>

-----------------------------------------------------------------------------
(* evict                                                                   *)

\* Pieces whose base pack has all its copies, not evicted yet.
Evictable(k) ==
  /\ k \in Piece
  /\ \E p \in Pack : /\ member[k][p] = "kept"
                     /\ pack[p].state = "stored" /\ pack[p].kind = "base"
                     /\ Cardinality(pack[p].copies) >= Copies

Pick(r) ==
  /\ At(r, "pick")
  /\ \E S \in SUBSET {k \in Piece : Evictable(k)} :
       IF S = {} THEN Goto(r, "backlog")
       ELSE Do(r, [run[r] EXCEPT !.keys = S, !.at = "unlink"])
  /\ UNCHANGED <<world, tables, lease, rest>>

\* storage.delete; when it throws, some may be gone.
Unlink(r) ==
  /\ At(r, "unlink")
  /\ \/ /\ fast' = fast \ run[r].keys
        /\ run' = [run EXCEPT ![r].at = "note"]
        /\ UNCHANGED faults
     \/ /\ Fault
        /\ \E S \in SUBSET run[r].keys : fast' = fast \ S
        /\ Goto(r, "release")
  /\ UNCHANGED <<life, safe, bookings, tables, lease, network, admin, outlived>>

\* UPDATE foc_members SET evicted_at = now(), every membership of the keys.
Note(r) ==
  /\ At(r, "note")
  /\ member' = [k \in Key |-> [p \in Pack |->
                  IF k \in run[r].keys /\ member[k][p] = "kept" THEN "evicted" ELSE member[k][p]]]
  /\ Goto(r, "backlog")
  /\ UNCHANGED <<world, pack, held, lease, rest>>

-----------------------------------------------------------------------------
(* packAndUpload, packExtra, uploadPack                                    *)

\* NOT_BASED: no membership in any base pack, not even an ended one.
Unbased(k) == \A p \in Pack : member[k][p] # "none" => pack[p].kind # "base"

\* What the run does after a pack.
After(kind) == IF kind = "base" THEN "extra" ELSE "release"

Backlog(r) ==
  /\ At(r, "backlog")
  /\ \E S \in SUBSET {k \in Key : life[k] = "live" /\ Unbased(k)} :
       IF S = {} THEN Goto(r, "extra")
       ELSE Do(r, [run[r] EXCEPT !.at = "read", !.keys = S, !.need = Copies])
  /\ UNCHANGED <<world, tables, lease, rest>>

\* KEY_COPIES: what the packs of the network count for a key.
Counted(r, k)  == {p \in Stored(k) : pack[p].net = run[r].net}
CopiesOf(r, k) == MapThenSumSet(LAMBDA p : Cardinality(pack[p].copies), Counted(r, k))

\* extraCandidates and choose: keys that lack the same number of copies.
Extra(r) ==
  /\ At(r, "extra")
  /\ LET Wanting == {k \in Key : /\ life[k] = "live" /\ safe
                                /\ \E p \in Counted(r, k) : pack[p].kind = "base"
                                /\ CopiesOf(r, k) < Target}
     IN \/ Goto(r, "release")
        \/ /\ Target > Copies
           /\ \E S \in (SUBSET Wanting) \ {{}}, lack \in 1..Target :
                /\ \A k \in S : Target - CopiesOf(r, k) = lack
                /\ Do(r, [run[r] EXCEPT !.at = "holders", !.keys = S, !.kind = "extra", !.need = lack])
  /\ UNCHANGED <<world, tables, lease, rest>>

\* The providers that have one of the keys.
Holders(r) ==
  /\ At(r, "holders")
  /\ run' = [run EXCEPT ![r].at = "read",
        ![r].avoid = UNION {pack[p].copies : p \in UNION {Stored(k) : k \in run[r].keys}}]
  /\ UNCHANGED <<world, tables, lease, rest>>

\* readInto: what is missing is left for later.
Read(r) ==
  /\ At(r, "read")
  /\ LET found == {k \in run[r].keys : Readable(k)} IN
       IF found = {} THEN Goto(r, After(run[r].kind))
       ELSE run' = [run EXCEPT ![r].at = "upload", ![r].keys = found]
  /\ UNCHANGED <<world, tables, lease, rest>>

\* Fewer copies than asked for may be confirmed; with providers to avoid, as for an
\* extra pack, there must be enough others.
Upload(r) ==
  /\ At(r, "upload")
  /\ LET free == Provider \ run[r].avoid
         unused == {p \in Pack : pack[p].state = "none" /\ held[p] = {}}
     IN /\ run[r].avoid # {} => Cardinality(free) >= run[r].need
        /\ unused # {}
        /\ \E C \in (SUBSET free) \ {{}} :
             /\ Cardinality(C) <= run[r].need
             /\ held' = [held EXCEPT ![Min(unused)] = C]
             /\ run' = [run EXCEPT ![r].at = "insert", ![r].new = Min(unused)]
  /\ UNCHANGED <<world, pack, member, lease, rest>>

\* Too few providers ("nichts hochgeladen"), or no more packs within the bound.
NoUpload(r) ==
  /\ At(r, "upload")
  /\ \/ run[r].avoid # {} /\ Cardinality(Provider \ run[r].avoid) < run[r].need
     \/ \A p \in Pack : pack[p].state # "none" \/ held[p] # {}
  /\ Goto(r, "release")
  /\ UNCHANGED <<world, tables, lease, rest>>

\* Rows of a new pack: mark(k) is what the membership of k is.
Add(r, mark(_)) ==
  LET p == run[r].new IN
  /\ pack' = [pack EXCEPT ![p] = [state |-> "stored", kind |-> run[r].kind,
                                  net |-> run[r].net, copies |-> held[p]]]
  /\ member' = [k \in Key |-> IF k \in run[r].keys THEN [member[k] EXCEPT ![p] = mark(k)]
                              ELSE member[k]]

\* Faulty variant of Insert: a new membership is not marked.
InsertUnmarked(r) ==
  /\ At(r, "insert")
  /\ Add(r, LAMBDA k : "kept")
  /\ Goto(r, After(run[r].kind))
  /\ UNCHANGED <<world, held, lease, rest>>

\* The transaction at the end of uploadPack, with the marks of earlier memberships.
Insert(r) ==
  /\ At(r, "insert")
  /\ Add(r, LAMBDA k : IF \E p \in Pack : member[k][p] = "evicted" THEN "evicted" ELSE "kept")
  /\ Goto(r, After(run[r].kind))
  /\ UNCHANGED <<world, held, lease, rest>>

-----------------------------------------------------------------------------
(* setFocSettings: another network                                         *)

\* Not while something lies only in another network.
AdminCheck(n) ==
  /\ admin.at = "idle" /\ n # network
  /\ AnyTime \/ (faults = 0 /\ \A r \in Run : At(r, "idle"))
  /\ \A k \in Key, p \in Pack : member[k][p] = "evicted" => pack[p].net = n
  /\ admin' = [at |-> "move", net |-> n]
  /\ UNCHANGED <<world, tables, lease, run, network, faults, outlived>>

\* The packs of other networks and their memberships are given up.
AdminMove ==
  /\ admin.at = "move"
  /\ LET other == {p \in Pack : pack[p].state # "none" /\ pack[p].net # admin.net} IN
       /\ member' = [k \in Key |-> [p \in Pack |-> IF p \in other THEN "none" ELSE member[k][p]]]
       /\ pack' = [p \in Pack |-> IF p \in other THEN [pack[p] EXCEPT !.state = "removed"] ELSE pack[p]]
  /\ admin' = [admin EXCEPT !.at = "write"]
  /\ UNCHANGED <<world, held, lease, run, network, faults, outlived>>

AdminWrite ==
  /\ admin.at = "write"
  /\ network' = admin.net /\ admin' = [at |-> "idle", net |-> None]
  /\ UNCHANGED <<world, tables, lease, run, faults, outlived>>

-----------------------------------------------------------------------------
Sync(r) ==
  \/ Begin(r) \/ Acquire(r) \/ Busy(r) \/ Release(r)
  \/ Mark(r) \/ Free(r) \/ Survey(r) \/ RemoveCopy(r) \/ Removed(r)
  \/ Pick(r) \/ Unlink(r) \/ Note(r)
  \/ Backlog(r) \/ Extra(r) \/ Holders(r) \/ Read(r) \/ Upload(r) \/ NoUpload(r) \/ Insert(r)

Next ==
  \/ \E k \in Key : Supersede(k) \/ Discard(k)
  \/ Book \/ Expire
  \/ \E r \in Run : Sync(r) \/ Fail(r) \/ Crash(r)
  \/ \E n \in Network : AdminCheck(n)
  \/ AdminMove \/ AdminWrite

Spec == Init /\ [][Next]_vars

-----------------------------------------------------------------------------
(* Properties                                                              *)

\* What is not deleted and has lost its fast copy (evict) lies in a base pack with
\* all the copies of the settings, at providers that still have them.
FastOrBackedUp ==
  \A k \in Key : life[k] # "dead" /\ k \notin fast =>
    \E p \in Stored(k) : pack[p].kind = "base" /\ Cardinality(held[p]) >= Copies

\* "gilt das für jede Mitgliedschaft des Keys" (sync.ts:333): the memberships of a
\* key agree on whether its fast copy is gone; presignGet looks at the first only.
MarksAgree ==
  \A k \in Key : \A p, q \in Pack :
    Member(k, p) /\ Member(k, q) => member[k][p] = member[k][q]

\* "Zusatzkopien müssen woanders liegen" (sync.ts:62): while no lease runs out under
\* its run, a key is in one base pack, and no two packs of one network have a key
\* at the same provider, so its copies are as many as are counted and paid for.
CopiesApart ==
  ~outlived =>
    \A k \in Key : \A p, q \in Stored(k) : p # q /\ pack[p].net = pack[q].net =>
      /\ {pack[p].kind, pack[q].kind} # {"base"}
      /\ pack[p].copies \cap pack[q].copies = {}

\* Does not hold: bytes at providers always belong to a pack that is stored or about
\* to be (a crash between upload and transaction, a change of the network).
NothingOrphaned ==
  \A p \in Pack : held[p] # {} =>
    pack[p].state = "stored" \/ \E r \in Run : At(r, "insert") /\ run[r].new = p
=============================================================================

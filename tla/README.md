# FocVault in TLA+

FocVault is an encrypted storage service: files, notes and passwords are encrypted in the
browser, the server keeps ciphertext, quotas, versions, a trash, shares, an S3 interface,
family and team vaults and a Filecoin backup. This directory holds TLA+ specifications of its
core, the TLC runs that check them on small instances and proofs, checked by TLAPS, of what
matters most for every instance. All paths are relative to the repository.

Section 1 is the inventory, section 2 says which module models what, 3 describes the runs and
their bounds, 4 fairness, 5 the proofs, 6 what the code does not keep, 7 what is not modelled,
8 the plan.

To check a module: `tlc -config objects_faults.cfg MCObjectLifecycle.tla`; to check proofs:
`tlapm ObjectLifecycleProofs.tla`. `PROJECT.json` maps every definition to the lines it models
and lists the runs, a faulty variant of the code for every property of a passing run, the
hazards and the theorems.

## 1. Inventory

The program is a Next.js application (`app/`, `features/`, `lib/` in the browser, `server/` on
the server) over one PostgreSQL database and a blob storage, plus a worker process
(`server/foc/worker.ts`) for maintenance and backup and a second listener for S3
(`server/s3/server.ts`). Handlers run concurrently, in several processes; they meet in the
database (READ COMMITTED, single statements and short transactions, a few `SELECT ... FOR
UPDATE`) and in the storage, which has no transactions at all.

| Component | State | Operations | Hard behaviour | What makes it correct |
|---|---|---|---|---|
| Object service `server/objects` | `objects` (state, deadline), `object_pieces`, `usage_ledger`, blobs, presigned URLs | create, complete, trash, restore, version, promote, delete, cron purge, release of stalled uploads | a read, several storage calls, then a conditional UPDATE; two sweepers; crashes between storage and database | the life cycle, one booking per file, deadlines exactly on the shelf, bytes of a held file are there, what is due goes |
| Quota and family pool `server/billing/quota.ts`, `server/family/service.ts` | `objects`, `family_members`, `family_invites`, plans, row locks on `accounts` | the checks of createObject and S3 PUT; invite, join, remove, join again, plan changes and what follows for members | check then act; a lock on another row than the one that is summed; a list of members that is old when it is worked off; quota and seats that change with the owner's plan | a quota is exceeded by no more than a known amount, nobody gets in without a seat, nobody keeps a plan that nobody pays for |
| Vault index, server `server/vault` | `vault_indexes` (version, key), blobs | putIndex, getIndex | optimistic versions, upload before the row, cleanup of old versions | table and storage are one versioned register |
| Vault index, client `features/account/AccountProvider.tsx`, `features/vault/sync.ts`, `lib/merge.ts` | refs: base, local, key, saving, dirty | mutate, flush, saveIndex, merge, lock, enter | edits during an await, conflicts, lost answers, locking in the middle | no edit is lost, nothing deleted returns, a locked device holds nothing |
| S3 store `server/s3` | `s3_objects`, `s3_uploads`, `s3_parts`, `objects`, `object_pieces`, blobs | put, delete, retention, multipart create / part / complete / abort, retention rules | handlers that race on one key, multipart steps in any order, crashes, WORM locks | what a key names is readable and booked once; Object Lock holds |
| Storage providers `server/storage` | blobs | put, head, delete, presign | idempotent deletes, URLs that outlive their object | (external) |
| Maintenance `server/maintenance.ts` | none of its own | runs every cleanup in turn | two runs overlap; one failing step ends the run | what is due is done in the end |
| Filecoin backup `server/foc` | `foc_packs`, `foc_members`, lease, network, copies at providers | mark, release, remove, evict, pack, extra copies, read, change of the network | a lease with a timeout, paid uploads, eviction of the fast copy, three steps of a change of the network | never without a copy; copies lie apart; marks of a key agree |
| Family space and keys `server/family/space.ts` | public keys, generations, wrapped keys, index versions | publish a key, create space, rotate, grant, write, detach | two tabs, removal during a write | one key per generation, removed members write no more |
| Shared team vaults `server/vaults` | members with roles, generations, index versions | share, change role, remove, write | roles read before a lock | a manager remains; readers do not write |
| Emergency access `server/emergency` | contact state, waiting period | invite, confirm, request, reject, release | owner and contact at the same time, a timer | released only after the wait and never after a veto |
| Shares `server/shares` | share, downloads left, payload | create, open, download, revoke | counted downloads at the same time | at most n downloads |
| Billing, Stripe, credits | plan, subscription, `stripe_events`, `credit_ledger`, `payg_invoices` | webhooks, checkout, top up, reverse, consume, close a month | late, doubled, lost and reordered webhooks; a month that is closed twice at the same time | the credit follows what Stripe did; every month is paid once; a debt stops Pay-as-you-go |
| Accounts and deletion | accounts and everything that hangs on them | register, delete | storage deletes after the row is gone | nothing readable remains |
| Sessions, sign-in | sessions, one-time challenges, rate limits | login, passkey, logout | a challenge used twice | a challenge opens one session |
| Team administration `server/team`, `features/team/client.ts` | team keys, grants, escrows, recovery requests, roles; the generation in a page's view | renew, grant, leave a key, ask, decide, hand out | a renewal while something wrapped for the old key is under way, or between the reads of a delivery; a page that is out of date; two decisions at the same time | what is handed out opens; a decision is final; two admins |
| Pages `app/(konto)/app/page.tsx`, `components/NotesPanel.tsx` | the open container, calls under way | save, pin, move, trash, restore, delete, clean the trash list up | a call of the server and a change of the index that follows it; changes that keep their stamp; a closed tab | a file on the server is named by the index |
| Protocol, crypto, other pages, CLI, status, support, admin, rates, icons | little or none | | I/O and formatting | |

Interactions. The client uploads pieces with presigned URLs, bypassing the server, then asks it
to complete. The S3 store shares `objects`, `object_pieces`, the quota and the release of
stalled uploads with the object service. The vault index names the files the object service
stores; the two are saved one after the other. Family members share the quota of the owner.
Leaving a family or a team (`detachFromSpace`, `dropTeamRecovery`) takes the member's rows in
the shared vaults and the team recovery with it. A new public key (`setPublicKey`) wipes what
was wrapped for the old one. The backup reads what the object service and the vault index hold
and may delete its fast copy. Plans change by webhook, by request and by admin; each change is
followed by `syncFamilyAfterPlanChange`. Maintenance calls the cleanups of all others.

## 2. Modules

| Module | Models | State and actions |
|---|---|---|
| `ObjectLife` | what the object service promises: life cycle and ledger | `state`, `stores`, `deletes`; Reserve, Book, Release, Shelve, Remove |
| `ObjectLifecycle` | `server/objects/service.ts`, the cron purge | adds deadlines, blobs, URLs and one task per request handler and maintenance run; one action per await that touches shared state. A task keeps what the handler has read, so it can be old when it is used |
| `FamilyPool` | one family: the quota checks, and the ways in and out (`server/family/service.ts`, `changePlan`) | committed bytes, plans and what is paid, members, invitations, row locks; quota and seats follow the plan of an account; createObject as lock, sum, insert; the S3 check as sum, insert; joinFamily as two locks, a count and a commit, which who has left can go through again; a plan change and the steps of syncFamilyAfterPlanChange |
| `VersionedRegister` | a register with compare-and-set by version | Write |
| `VaultIndex` | `server/vault/service.ts` | rows and blobs; put as check, upload, insert, clean, purge (or undo); get as read, fetch |
| `VaultMerge` | `lib/merge.ts` | operators only: Merge, MergeSet and the rules of their comment |
| `TwoEditors` | what `app/(konto)/app/page.tsx` and `components/NotesPanel.tsx` do to an index, on two devices that do not see each other | base, copies with their lists of entries and of trash, the files on the server, the call each page awaits; every pair of copies meets the rules. An edit stamps by a clock that need not agree with the other's; a pin, a move and a restore keep the stamp |
| `VaultSync` | AccountProvider, `features/vault/sync.ts` | the refs of every device, its running flush, the server as a register; one action per stretch of JavaScript between two awaits |
| `S3Store` | `server/s3/store.ts` for one key | the rows of the tables, blobs, one task per handler; put (which may also fail after its commit), delete, retention, multipart uploads |
| `S3History` | what clients of `S3Store` may rely on | adds two history variables: the handlers that were overtaken between their look at the row and their write (`stale`), and the objects of PUTs that failed after their commit (`undone`) |
| `FilecoinBackup` | `server/foc/sync.ts`, the reads of `foc/provider.ts`, the change of the network in `foc/config.ts` | rows of packs and memberships, who holds bytes, the fast copies, the lease; a run as a chain of awaits from lease to release; keys that are superseded or deleted, Super Safe, expiry, faults |
| `SharedVault` | `server/vaults/service.ts`, `features/vaults/client.ts`, setPublicKey and detachFromSpace of `server/family/space.ts` | roles, envelopes per generation and person, index; the browser of each person (load, rotate, hand on, edit) and the await its request is at; history: which keys each person has unwrapped |
| `StripeCredit` | credit and Pay-as-you-go of one account: `server/stripe/service.ts`, `server/credits/service.ts`, setPayg of `server/billing/service.ts` | what Stripe did and sent, `stripe_events`, the ledger by reference, months and their bills; one action per await of handleStripeEvent and closePaygMonth; setPayg as a look at the balance and a write some awaits later (`LookAtBalance`, `PaygOn`) |
| `TeamRecovery` | `server/team/service.ts`, `features/team/client.ts` | roles, team key, grants, escrows, requests; the generation a page of the owner has in its view, and its renewal, which seals for the generation after that (StartRenewal) while the handler counts on from the row (ReadGeneration, Renew); one task per other handler; a delivery as three reads: escrow, grant, public key |
| `MC*` | symmetry sets for TLC | |
| `ObjectLifecycleProofs`, `VaultIndexProofs`, `VaultSyncProofs`, `S3StoreProofs`, `FilecoinBackupProofs`, `SharedVaultProofs`, `TeamRecoveryProofs` | theorems about the module they are named after; `VaultSyncProofs` also about `TwoEditors` | |
| `AccountProofs` | theorems about `FamilyPool` and `StripeCredit`, and what both need to know about sums | |

`S3Store` and `ObjectLifecycle` both EXTEND `ObjectLife`, whose life cycle and ledger agreement
(`LedgerAgrees`) they share. `ObjectLifecycle` implements `ObjectLife`; `S3Store` goes through
the same life cycle with one step more, the replacement of an object (`StoreKeepsTheLife`).
`VaultIndex` implements `VersionedRegister` (refinement mapping: version and writer of the
newest row), and `VaultSync` uses that register as its server: putIndex is one atomic step
there. `VaultSync` and `TwoEditors` both use `VaultMerge`. `FilecoinBackup` sees the object
service and the vault index as keys that are live, old or dead; `FamilyPool` and `TeamRecovery`
each have their own view of who is in a family: one of plans and bytes, one of roles and keys.

How the code becomes steps: a single SQL statement or a transaction is one step, unless another
transaction can slip in (the `SELECT ... FOR UPDATE` that finds no row, the row locks of the
quota check). A storage call for one piece is one step. A handler that ends with an error goes
back to idle. `Abort`, `Die` and `Crash` end a handler at any await. A definition that begins
with "Faulty variant of" is a bug the code could have; it is part of no specification and shows
that the properties notice it.

Abstractions. A body of the S3 store or a part has one piece; a file of the object service has
the pieces of `Piece`. A key of the vault index is the version and the writer. An entry of a
container is its stamp and a revision that stands for the rest. Clocks are the events they
cause: a deadline is ahead or past, an upload is older than 24 hours or not. In `VaultSync` the
stamps of all devices come from one clock; `TwoEditors` has no such assumption. In the vaults
and the team recovery the server never sees a key: a row carries the generation, the model also
which key is inside. In `StripeCredit` money is counted in small units and a month costs one
number; of the gateway only whether it charges, which it does for an account with a customer at
Stripe. In `FilecoinBackup` all keys belong to one account, and sizes, ages and waiting times
only make a step possible later.

## 3. Runs

All runs are complete searches. `None` and `NoEvent` are model values.

| Run | Instance | Shows |
|---|---|---|
| `objects_faults` | 1 file of 2 pieces, 2 requests, 2 overlapping maintenance runs, failures at every await, stalled uploads | TypeOK; DeadlineIffShelved; LedgerAgrees; ImplementsLife |
| `objects_live` | 2 files, 1 request, 1 maintenance run, no failures, fairness | HeldHasBytes: bytes are complete unless a purge of that file runs; DueIsPurged |
| `quota_family` | owner and two accounts that are invited, join, leave and join again; the owner changes between a plan with 2 seats and quota 1, one with 3 and quota 2, and none; 2 web uploads, 1 S3 PUT, 2 departures or changes of plan | AloneOverbooking and PoolOverbooking: how far the quotas can be exceeded; SeatsSuffice: nobody gets in without a seat; NobodyRidesFree |
| `vault_safe` | 2 handlers that can die, 5 versions, 2 kept | EveryRowHasItsBlob; NewestAreKept; reads and writes fail only when outpaced by `Keep` versions; ImplementsRegister |
| `s3_careful` | 3 handlers that die or meet exceptions, also after their commit, 2 objects, 2 parts; clients await answers | KeyIsReadable, except for the object of a PUT that failed after its commit; PartsAreKept; LedgerAgrees |
| `s3_locks` | 2 handlers at the same time, 2 objects, 1 part, both modes, 3 instants | LocksHold: a lock is broken only by a handler that was overtaken between its look at the row and its write |
| `merge_rules` | 1 entry, which is a note or a file, 1 folder, 2 instants of the base and 1 later, any clocks | RulesHold; NothingLost: a file of the server is in one of the two merged lists; FoldersMerge |
| `sync_devices` | 2 devices, 2 entries, 3 edits, each device locked once, lost answers, edits that keep the stamp, 2 attempts | SyncedMeansSaved for devices never locked; DeletionsStay while no answer is lost; LockedHoldsNothing; StampsAdvance |
| `foc_backup` | 2 runs, a file and an index, 2 providers, 2 networks, 2 packs, 1 fault, Super Safe ends or begins once | FastOrBackedUp; CopiesApart; MarksAgree |
| `vault_team` | 3 persons, 2 of them active, 2 generations, 3 secret keys, 2 changes of members, 1 new key pair | OneKeyPerGeneration; FormerMembersCannotRead |
| `credit_events` | 1 top-up of 2, 2 handlers, 2 closings that overlap, 3 months, a minimum of 2 for a bill, with or without a customer, 1 fault | CreditFollowsStripe; ReversedAtMostPaid; MonthsAddUp and NothingForgotten: what becomes of each month's cost; DebtStopsPayg |
| `team_recovery` | owner, admin and member; 2 team keys, 1 page of the owner, 1 request, 2 handlers, 2 changes of roles or members | DeliveryOpens; CurrentKeyOnly; DecidedOnce |

Why the bounds are enough. The object service acts on one row, or on two in promoteVersion.
`objects_faults` has every pair of handlers on one file and a third that comes between; two
pieces let a handler stop half way through a file. `objects_live` has two files and with them
promoteVersion. That another request or purge comes between its reads and its swap, or a
deletion between the checks of completeObject and its UPDATE, needs two files or two requests
where no run has them: there the theorems `Refinement`, `DeadlinesCorrect` and `BytesAreKept`
take over, which hold for any number of each. `Object` is finite because ids are not reused:
when all are used up, creation is refused and everything else goes on. The quota is a sum that
one upload can fill, so two writers and a lock show each way two checks can miss each other;
two invitations for one free seat or two, a departure with a new invitation, and a plan change
with a list that is old or with fewer seats, show each way into and out of the family. Two kept
versions and five written ones let a writer and a reader fall behind by more than `Keep`. On
one key of the S3 store a handler meets the object it makes and the one it replaces; three
handlers on two objects include a replacement that is replaced. Two handlers on a lock are the
one that looked and the one that overtakes it. The merge treats each id by itself, so one entry
that is a note or a file, and one folder, show what it makes of them; three instants order base
and two edits, with ties and a clock behind. In `VaultSync` two edits of one device and one of
another suffice for a conflict, an edit during its merge, and one that comes after; two
attempts let saveIndex succeed after a conflict and give up; the button that retries is pressed
until the server has version `MaxRetry`. A backup needs one base and one extra pack of a key to
disagree, two runs to overlap, one fault to let the lease run out or a run die. In a shared
vault one rotation needs two generations, two that race a third key, and a member that is
removed while another writes three persons. One top-up has every order of payment, two partial
refunds, dispute and its end; two handlers have each pair of events at the same time. The first
month is below the minimum, so the second carries it on or is due, and a third can come after
one that was missed; two closings overlap on one month or on two. `Bounded` (in
`MCStripeCredit`) keeps apart what need not meet: up to five events and two requests while the
second month runs, two events and one request at a time after that, and Pay-as-you-go is
switched while the third month runs. Two team keys are the renewal that something under way is
too old for; `Leaver` keeps the owner, who can leave a key like a member, out of that run; no
more handlers ask for a recovery than there are requests left to make. Every run fires its
interesting case: for every property a faulty variant of the code breaks it within the same
bounds.

Runs without `Deadlock` checking: `sync_devices`, `vault_team`, `credit_events` and
`team_recovery` end when what the bounds allow has been done. In all others something can
always happen.

## 4. Fairness

Only `objects_live` needs it. `FairSpec` assumes weak fairness of `Continue(w)` (a handler that
has started goes on: nothing in it waits for another handler) and of `Select(w)` for
maintenance runs (`server/foc/worker.ts` calls runMaintenance by setInterval, on Vercel a cron
route does). Nothing is assumed of users, clients, clocks or expiries: a user need never do
anything, and files can be restored for ever. `objects_live` has no failures, because a process
may die in every single run, nor stalled uploads, which are not its question. It is checked
without symmetry.

## 5. Proofs

Checked by TLAPS for any constants that meet the assumptions named in the modules: any number
of files, keys, persons, devices, handlers, runs and steps. A hypothesis of a theorem is a
switch of the model, said below; what happens without it is in section 6. The invariants were
checked by TLC on the runs before they were proved.

**`ObjectLifecycleProofs`.** `TypeCorrect`, `LedgerCorrect`, `DeadlinesCorrect` and
`Refinement` (the service implements `ObjectLife`), with failures and stalled uploads. The
inductive invariant is `ServiceInv == TypeOK /\ LedgerAgrees /\ TasksAreSound /\
DeadlineIffShelved`. LedgerAgrees alone is not inductive: a purge books by what its task has
read, and only `TasksAreSound` says that an old reading is still good enough: what was held
when it was read is now held or deleted (`Settled`), which no step undoes (`SettledStays`).
Each action is shown to be a step of `ObjectLife` or a stutter (`StepRefines`), and the ledger
follows from `ObjectLife`'s own invariant (`LifeInvStep`, theorem `LifeLedger`). `BytesAreKept`
(HeldHasBytes) and `StoredIsComplete` (StoredWhenComplete) hold if nothing fails and no upload
stalls (`~MayAbort`, `~MayStall`, the question of `objects_live`): `BytesInv` says that then
the release of stale uploads has nothing to do (`NothingHangs`), that the pieces completeObject
has checked are still there when it gets to its UPDATE (`CheckedPiecesLie`), and so are those
of a held file (`HeldPiecesLie`), unless a purge of it runs or it is deleted.

**`VaultIndexProofs`.** The server's index is a register: `IndexIsARegister`
(ImplementsRegister), `NewestStay`, `LostWritesWereOutpaced` and `IndexTypes` need no
hypothesis and hold with crashes and lost answers. Their invariant `TableInv` says that a
handler writes on top of a version that was the newest one (`OnTop`), that no version is
missing unless it was outpaced by `Keep` newer ones (`NoGaps`), and that each has one row
(`OneRowEach`), so that the newest row, which the mapping chooses, exists and is unique
(`SomeCurrent`). `RowsHaveBlobs` and `ReadersAreOutpaced` assume that the database tells the
truth (`~MayLoseAnswer`). `KeyInv` adds where each worker's key may be at each step (`OwnKey`)
and that what one worker purges or undoes is apart from what others insert or have inserted
(`Apart`); `ReaderKnows` that the row a reader has found is there or was outpaced.

**`VaultSyncProofs`.** `SyncedIsSaved` (SyncedMeansSaved), `LockedForgets` (LockedHoldsNothing)
and `StampsOnlyAdvance` (StampsAdvance), for any number of devices, conflicts, retries, lost
answers and locks, and `SyncTypes`. "c covers b" says that every entry of b is in c with the
same or a newer stamp, or was deleted by somebody in a revision as new: a preorder
(`CoversThrough`) that a merge keeps for both sides if both cover the base (`MergeCovers`).
`SyncInv` says for each device that base is covered by the server, local by base and by what
was sent, that a base of the present version is the present container (`Known`), that its own
edits are in local while it was never locked (`EditsFit`), and that without a flush or an error
local is base (`Settled`). Other devices can only make the server cover more (`OthersKeep`).
Keys are numbered by unlocks (`KeysFit`), so a flush that was started before a lock is told
apart from the device after it.

`ServerIsARegister`: what the devices do to the server are writes of `VersionedRegister` or
stutters. `VaultIndex` implements that register (`IndexIsARegister`), so that treating putIndex
as one step is justified by two proofs. `RevisionsOnlyAdvance` (RevisionsAdvance) assumes
`~MayTouch`: then stamp and revision of every entry are equal everywhere (`StampsTell`), so
only moves and pins, which change an entry and keep its stamp, can be undone by another device.

`DeletionsAreKept` (DeletionsStay) is for one device or two (`OneOrTwo`), which is all for
which it holds: with three it does not (section 6). The property itself speaks of runs without
lost answers and locks, and the invariant `TwoFit` does, too. It looks at one entry at a time,
at the cell of the server and what each of the two devices has in its refs and its flush
(`CellsFit`). What differs from the server is of one device only (`CellsAgree`): a local copy
that is not its base, and what a flush puts without having read it, neither the server nor the
other device has; what both devices have is on the server, or something newer is, or nothing
(`SharedIsThere`). A revision is one entry (`OneOfRev`). With that every deleted revision is
dying (`Dying`): nobody has it (`Extinct`), or one device has deleted it, what that device does
or has under way leaves nothing of it, and the other has it unchanged at most (`Gone`), so that
its merge lets the deletion win. Each step of a flush keeps that (`FlushMoves`), and once all
devices are synced what is dying is not on the server.

The last part is about `TwoEditors`: `MergeRules` (RulesHold), `MergeLosesNothing`
(NothingLost) and `FoldersKept` (FoldersMerge), for any entries, folders and instants, any
clocks, and without a hypothesis. RulesHold follows from what the operators do, for entries of
any stamps; `MergeLosesNothing` needs an invariant, `EditorInv`, about each file by itself. A
file that the saved index does not list is untouched in both trash lists (`Untouched`), or some
device has, or is about to make, an entry that no merge drops (`Alive`); of one that it lists,
both devices have an entry (`Here`), or one has it in its trash with a stamp later than the
base's (`Trashed`) and the other still has the entry. What the page asked the server for before
names every file that is to stay (`\A L \in listed[d] : f \in L`).

**`S3StoreProofs`.** One invariant per question, each on top of the one before it. `StoreInv`
says at which steps a request can be and what its task carries; it gives `S3Types`, without a
hypothesis. Object Lock needs none either (`LocksOutliveTheirRequests`, LocksHold): for any
handlers at the same time, dying at any step, `LockInv` says that what a handler has seen of
the row still allows its write (`CheckHolds`), unless it was overtaken (`stale`), and
`WhoBreaks` that only a write which is not allowed breaks an active lock. So a lock holds from
the answers to those requests on that were under way when it was set; that it holds against
these too is not so (section 6). `StoreLedger` (LedgerAgrees) assumes that a request for an
upload is not repeated before its answer (`~MayRepeat`) and that no completion dies; then no
two handlers have the same object (`OwnInv`), and what a handler is about to publish is not
booked yet (`LedgerInv`). `StoreKeepsTheLife` compares the store with the object service: its
rows go through the life cycle of `ObjectLife`, extended by one step that only the store has,
`Replace`, in which a finished object takes the place of the one the key named and both are
booked in one transaction. It is for clients that await their answers and finish within a day,
when no completion and no abort dies (`Orderly`); `LifeInv` says that what a handler works on,
or what is open, is an upload (a completion that died could be aborted after its commit, and a
repeated one would publish twice). `TheKeyCanBeRead` (KeyIsReadable) and `OpenPartsStay`
(PartsAreKept) are for careful clients (`Careful`): they await their answers, finish within a
day, nothing is locked, and no request for a part, a completion or an abort dies; puts,
deletions and retentions may, and a put may also meet an exception after its commit, which
drops what it has published (`undone`, the exception that KeyIsReadable makes). `BytesInv` says
how far each handler is with the pieces of its object, and that an object nobody works on has
what it shows. Each of these hypotheses is needed: section 6 has what happens without it.

**`AccountProofs`.** Quotas and credit are sums, and what a sum is has to be proved first: the
module starts with `FiniteInduction`, an induction over the subsets of a finite set that the
library's theorem on well-founded orders gives without an operator as a parameter, and from it
what `SumFunctionOnSet` is when an element is taken out, added or changed.

Of `StripeCredit`, for finitely many top-ups of any price (`TopupAssumption`), and any number
of requests, closings, months and faults. `BaseInv` is what does not depend on the order of
events: types, no two requests with the same event (`HandlersWork`), closings only of months
that have ended (`ClosersWork`), a won dispute gives back what it took (`WonAsTaken`), there is
a newest bill (`HasNewest`), and the property itself: `NoMoreThanPaid` (ReversedAtMostPaid).
`DebtTurnsPaygOff` (DebtStopsPayg) needs no hypothesis: a webhook that leaves less than nothing
turns Pay-as-you-go off in the same transaction, a bill consumes no more than the balance has,
and a switch that is turned on with a debt, by a setPayg that looked before or by a stored
card, is noted as such (`blind`). `EveryMonthOnce` (MonthsAddUp), which counts the closed
months whatever months were missed in between, with and without a customer, holds while no two
closings have overlapped and none has died after its charge (`doubled`, which the property
names): `MonthsInv` says how far each run is with the month it closes (`RunFits`), what a run
that has failed leaves to the next (`MonthsFit`: credit taken, nothing charged), and that
nothing has happened to a month that has not ended. `CreditEndsAtStripe` (CreditFollowsStripe)
needs no further hypothesis, nor does `CreditTypes`. `EventsInv` says that Stripe has told all
it knows (`StripeTells`), that the rows are never ahead of it (`BooksFit`), where each request
is and what that means (`RequestsFit`), and that every event in `stripe_events` is being worked
on, is lost, or has brought about what it was to (`EventsFit`). What an event has brought
about, no other undoes (`RequestBooks`), although a refund that arrives late finds the sum of a
later one and takes nothing: that `Refunds` is no less than any cumulated sum with a row is
part of `BookFits`. It holds where nothing was refunded after a dispute was won (`Fair`), which
is the exception the property makes, and which once gone does not come back.

Of `FamilyPool`: `FamilyTypes` and `SeatsAlwaysSuffice` (SeatsSuffice), if the accounts are
finitely many and every plan has a number of seats (`SeatAssumption`), which the owner may
change to another one's at any time: who gets in has a seat of the plan of that moment. Whether
the INSERT of joinFamily may still be made depends on a count that is two steps old, so
`SeatInv` adds that who has counted holds the owner's row (`OwnerIsLocked`) and that the seat
it has found is still free in the owner's plan (`SeatIsFree`): nobody else can have counted or
changed that plan, and all other steps only take members away. That a plan change works for an
account (`WorksForSomebody`) is needed for the types. `NoFreeRides` (NobodyRidesFree) assumes
that only the owner's own plan changes (`OwnerChanges`); any number of its changes may be under
way. Its invariant `PayInv` says that others have the plan as members only (`MembersOnly`),
that who is about to be inserted has read a plan that is still paid, because it holds the
owner's row (`JoinsPaid`), and that, once nobody pays, whoever still has the plan is in the
list of a follow-up or one is still to make its list (`OthersAreDoomed`). For the two bounds on
overbooking, what is committed is not inductive, since a check that has passed is still to
insert. The proofs follow `Load`: what a set of accounts has, what the upload that holds the
row of one of them has been promised, and what the S3 store is about to insert. Only a check
that goes on raises it (`WritesLoad`, `QuietLoad`), and that check has just found the quota
kept (`CheckLoad`), by what it could see: not the promises of the other accounts' rows, and not
the S3 store's. For the family's rows this rests on `RowsFit`, that a request has a row exactly
from its lock to its end. `AloneIsBounded` (AloneOverbooking) and `PoolIsBounded`
(PoolOverbooking) have no hypothesis but finitely many accounts and PUTs at a time
(`SeatAssumption`, `PutAssumption`). An account that has never joined a family and never had a
plan (`Newcomer`) has the quota of one alone; any other is bounded by the largest quota there
is (`MostOf`), also after it has left. Who has left can join again, with what it has uploaded
meanwhile, and leave it to the owner when it goes: so the bound on a family grows with every
join (`joins`), each by the most that an account can bring and by one upload of its own
(`MostWith`). That a family stays below any bound is not so.

**`FilecoinBackupProofs`.** `BackupTypes`; `AllMembershipsAgree` (MarksAgree) without a
hypothesis, from `RowsFit`, `JobFits` (what a run has read and made) and `NewApart` (the packs
two runs are about to insert are different). `EvictedIsBackedUp` (FastOrBackedUp) and
`ExtraCopiesLieElsewhere` (CopiesApart) assume `~AnyTime`: the network is changed while no run
is under way and none has failed, which is what the admin page tries to make sure of. For the
first, `LostAreNoted` says that a key without a fast copy has a full base pack and is noted as
evicted there, or the run that will note it is under way, or was cut short by a fault;
`AdminAlone` that a change of the network meets no run. For the second, as long as no run has
outlived its lease, one run is at work (`OneRun`), what it has read for the pack it makes is
still so (`PlanFits`), an extra pack has a base (`ExtraIsBased`) and the packs of a key lie
apart (`LieApart`). `PaidCopiesAreKnown` is what is left of NothingOrphaned, which section 6
refutes for faults and for a change of the network: with one network (`OneNetwork`), and as
long as nothing has failed (`faults = 0`), every copy that was paid for is one of a stored pack
or of one that its run is about to enter, also when runs overlap. A row names all that its
providers hold (`RowsTell`), and a run takes a pack for removed only when none of it is left
(`RemovesAll`).

**`SharedVaultProofs`.** `OneKey` (OneKeyPerGeneration) and `FormerMembersStayOut`
(FormerMembersCannotRead), both as long as no generation was lost (`fell`, which the properties
name). A key belongs to a generation (`Claimed`) from the moment its transaction hands it out,
and a generation has one (`GenerationsAgree`): a rotation that waits for its transaction
carries a key that belongs to none and that nobody else has seen (`PendingIsNew`), and the
transaction gives it the generation after all others (`GreatestExists` shows that there is a
newest one). While no rotation is needed nobody outside knows the current key
(`OutsidersAreOut`), and while one is needed nothing is written.

**`TeamRecoveryProofs`.** `RecoveryTypes`, and `DecisionsAreFinal` (DecidedOnce), need no
hypothesis. `WhatIsDeliveredOpens` (DeliveryOpens) and `CurrentGenerationMeansCurrentKey`
(CurrentKeyOnly) are for one page of the owner (`OneTab`); with two the code does not keep
them, and a page that gives up waiting while its request runs on counts as two. Each generation
then stands for one key in everything that is stored or under way (`OneKeyEach`), and the row's
generation is that of its key (`GenerationsTold`); a renewal is the next one, and no page's
view is ahead of the server (`RenewalIsNext`). `DeliveryFits` follows a delivery through its
three reads: what was found by generation is of one key, and the public key, which is read
last, fits it or the key has been renewed since. Only the owner can have a grant that was
sealed by a page out of date, for an earlier generation than the one in the row (`SealsFit`):
everybody else's was wrapped by somebody who could open its own.

Every property of the runs is stated by a theorem but two: `DueIsPurged` is liveness under
fairness, which is out of reach of the prover, and `NothingForgotten` (what overlapping runs
make of one month) is only model-checked.

No module uses a recursive operator.

## 6. What the code does not keep

These statements of comments, documents and tests are contradicted by what the code does. Each
is stated in its module, and TLC refutes it with the constants given here. Constants that are
not given are as in the module's run that comes closest, or smaller: one or two of everything
suffices.

| Statement | Where | What happens | Constants |
|---|---|---|---|
| `PoolWithinQuota` | `server/objects/service.ts:107`, "Quota kann nicht überbucht werden" | two members of a family lock different rows and overbook the pool; whoever joins brings what it has | as `quota_family` |
| `AloneWithinQuota` | `server/s3/store.ts:154` | an S3 PUT checks without a lock and misses a web upload; who leaves a family keeps its bytes | as `quota_family` |
| `JoinFits` | `server/family/service.ts:225`, "passt er nicht mehr hinein, wird der Beitritt abgelehnt" | joinFamily never compares the bytes with the quota | as `quota_family` |
| `MembersHaveSeats` | `server/billing/service.ts:239`, "Weniger Plätze buchen geht nur, wenn die bestehenden Mitglieder hineinpassen" | from a business to a family nobody compares (`server/billing/service.ts:207-209`), and the webhooks never do | as `quota_family` |
| `MembersFollow` | `server/family/service.ts:86` | two plan changes follow up at the same time, the older one last | `GroupPlan = {"family", "business"}`, `Sync = {y1, y2}`, `Upload = {u1}`, `S3Upload = {}` |
| `PaidPlansStay`, `NobodyRidesFree` | `server/family/service.ts:98` | of two follow-ups at the same time one works with a plan or a list that is old: a member that left and bought a family plan of its own loses it | `Changing = {own, a1}`, `Sync = {y1, y2}`, `MaxChanges = 3` |
| `StoredWhenComplete` (proved without stalled uploads) | `server/objects/service.ts:86,192` | releaseStaleUploads erases pieces between the checks and the UPDATE of completeObject | `MayStall = TRUE`, 2 files |
| `LedgerClosed` | `server/objects/service.ts:248` | a deletion that read "uploading" does not book the end of a file completed meanwhile | 1 file, 2 requests |
| `CronPurgesShelfOnly` | `server/objects/service.ts:310` | a file restored after the SELECT of the purge is erased | 1 file, 1 request |
| `PromoteSwaps` | `server/objects/service.ts:344` | the version was purged, the current file is shelved, no file is current | 2 files, 2 requests |
| `DeletedLeavesNothing` | `server/objects/service.ts:241` | a presigned PUT arrives after the deletion | 1 file, 1 request |
| `StaleIsReleased` | `server/objects/service.ts:100` | only a further upload of the account releases stalled ones | `FairSpec`, `MayStall = TRUE` |
| `EveryRowHasItsBlob` | `server/vault/service.ts:63` | an INSERT that commits and reports an error loses the blob of the newest row | `MayLoseAnswer = TRUE` |
| `AcceptedOnCurrentOnly` | `server/vault/service.ts:58` | a writer outpaced by more than `Keep` versions inserts an old version and is told it was saved | `Keep = 2`, `MaxVersion = 4` |
| `LocksAlwaysHold` | `server/s3/store.ts:217,267,287` | the lock is looked at before the transaction that deletes; FOR UPDATE finds no row to lock at two first PUTs; two setRetention compare with the same row | as `s3_locks` |
| `KeyIsAlwaysReadable` | `server/s3/store.ts:241-261` | the COMMIT of a PUT is done and its answer is lost, or the SELECT after it fails: the catch drops the object that the key names | as `s3_careful` |
| `KeyIsReadable` | `server/s3/store.ts:346` | a repeated CompleteMultipartUpload discards the renumbered pieces | `MayRepeat = TRUE`, `Part = {p1}`, 2 handlers |
| `KeyIsReadable` | `server/s3/store.ts:221` | the 24 hour cleanup of the web app releases a multipart upload that is completed later | `MayStall = TRUE`, `Part = {p1}` |
| `KeyIsReadable` | `server/s3/store.ts:346` | a completion that a locked key refuses has renumbered the pieces already, and the upload stays open: completed again once the lock has run out, it discards them all and publishes an empty object | `Mode = {"GOVERNANCE"}`, `MaxTime = 1`, `Part = {p1}`, 1 request |
| `KeyIsReadable`, `PartsAreKept` | `server/s3/store.ts` | a part sent again, or an abort, dies between rows and bytes | `Failing = {"part"}` or `{"abort"}` |
| `ReadableStays` | `server/s3/store.ts:364` | a handler dies between the commit and the closing of the upload, whose abort then erases the object | `Failing = {"complete"}`, `Part = {p1}`, 2 requests |
| `LockedMeansSaved` | `features/account/AccountProvider.tsx:214` | edits collected during a flush are lost when the device is locked before it ends | 1 device, `MaxLocks = 1` |
| `RevisionsAdvance` | `lib/merge.ts:20` | a move or a pin keeps the stamp and is undone by another device (without them it is proved) | `MayTouch = TRUE`, `Attempts = 4` |
| `NothingUndone`, `ChangesWin` | `lib/merge.ts:9,20` | a pin or a move keeps the stamp: it is undone if the device that merges has the unchanged entry, and loses to a deletion, as does an edit by a clock that is behind | as `merge_rules` |
| `AlwaysNamed` | `app/(konto)/app/page.tsx:466` | a tab is closed between restoreObject and the save of the index: the entry stays in the trash list, and the next clean-up drops it, although the server has the file stored | as `merge_rules` |
| `NamedOnce` | `lib/merge.ts` | the lists of files and trash are merged one by one: of a file that one device moves and the other edits both remain | as `merge_rules` |
| `DeletionsStay` without `~lost` | `lib/merge.ts:24` | after a lost answer a new entry is unknown to base; deleted, it comes back | 1 device, `MayLoseAnswer = TRUE` |
| `DeletionsStay` with three devices | `lib/merge.ts:20` | both sides have the entry, and the newer stamp wins without a look at base: an older edit survives a deletion on the server, and the unchanged copy of a third device, which is newer than that edit, brings the deleted revision back | 3 devices, 2 entries, 5 edits, `Attempts = 2`, no lost answers, no locks |
| `NothingOrphaned` | `server/foc/sync.ts:326` | a run dies between the paid upload and the transaction, or the network changes: copies nobody will remove (otherwise proved) | as `foc_backup` |
| `FastOrBackedUp` | `server/foc/config.ts:99` | the settings change while a run is between its steps (the admin page refuses only while the lease stands) | `AnyTime = TRUE` |
| `SomebodyManages` | `server/vaults/service.ts:303`, "mindestens einen Verwalter" | two managers step back at the same time, or the only one leaves the team | as `vault_team` |
| `FormerMembersHaveNoEnvelope` | `server/vaults/service.ts:244` | a rotation has read the members before one of them was removed | as `vault_team` |
| `EnvelopesFit` | `server/family/space.ts:61` | an envelope for the old key pair arrives after the new one wiped the others | as `vault_team` |
| `OneKeyPerGeneration`, `FormerMembersCannotRead` without `~fell` | `server/vaults/service.ts:227` | the newest generation goes with its last envelope and its number is given out again, with another key | as `vault_team` |
| `NothingIsLost` | `server/stripe/service.ts:420` | a duplicate is answered with 200 while the first request fails or dies; a dispute is won before it is booked | as `credit_events` |
| `BillsAddUp` | `server/stripe/service.ts:626-638` | two closings overlap, or one dies after chargeOnce, which has no idempotency key: the month is charged twice | as `credit_events` |
| `NothingUnpaid` | `server/stripe/service.ts:626,641` | a bill is due and there is no gateway or no customer: the rest is 'recorded', and neither charged nor carried over | as `credit_events` |
| `EveryMonthCloses` | `server/stripe/service.ts` | only the month before this one is closed: one that was missed never gets a bill | as `credit_events` |
| `DebtKeepsPaygOff` | `server/billing/service.ts:329,355`, `server/stripe/service.ts:458` | setPayg writes some awaits after its look at the balance; the webhook of a stored card does not look at all | as `credit_events` |
| `CreditFollowsStripe` without its exception | `server/stripe/service.ts` | what is refunded after a dispute was won is not debited | as `credit_events` |
| `RotatorsAreMembers` | `server/vaults/service.ts:214-246`, "Ehemalige besitzen den neuen Schlüssel nicht" (:244) | a manager who is removed between the check and the transaction of its own rotation has made the new key; `FormerMembersCannotRead` counts what was unwrapped, not what was made | as `vault_team` |
| `CurrentKeyOnly`, `DeliveryOpens` | `server/team/service.ts:417` | two tabs of the owner renew the key at the same time and mix their pages in one generation | `Tab = {t1, t2}` |
| `DeliveryAlwaysOpens` | `server/team/service.ts:536-544` | a renewal between the reads of grant and public key: the browser gets a scalar and a public key that do not fit (and what the member left is void) | as `team_recovery` |
| `OwnerHoldsTheKey` | `features/team/client.ts:25`, `server/team/service.ts:417` | a page whose answer was lost, or whose load afterwards failed, seals for the generation after the one it knows; the handler stores the next one but one, and the owner can never open its own key | as `team_recovery` |
| `LeavingEndsApprovals` | `server/team/service.ts:529` | who leaves the team and comes back is still covered by an old approval | `MaxMoves = 3`, `MaxKeys = 1` |
| `KeysOfAdminsOnly`, `EscrowsOfMembersOnly` | `server/team/service.ts` | a grant or an escrow that is under way is stored after its account has lost the role or left | as `team_recovery` |

Read, and not run: a removal from the provider that keeps failing ends every backup run at the
same pack (`server/foc/sync.ts`); `setPublicKey` (`server/family/space.ts:60-66`) leaves the
grants of the team recovery that are wrapped for the old key pair, and `ON CONFLICT DO NOTHING`
never replaces them.

## 7. Not modelled

In modelled components: moving an object to a family space (`moveToSpace`), buckets, listings,
access keys and retention rules of S3 (`applyS3Retention` deletes by key what it has listed
some awaits earlier), a storage that keeps refusing one object and so stops every purge at it
(`server/objects/service.ts:311`), the timers that lock a device. In `TwoEditors`: file
versions (their clean-up keeps the stamp, like a move; what it deletes is `ObjectLifecycle`'s),
a page awaits at most one call per file, answers to the trash list come within the minute that
the clean-up spares, and there is one base and one merge: what follows from merge to merge is
`VaultSync`'s. In `FamilyPool` the tiers of a business are one plan, and a plan has one quota,
without add-ons and Pay-as-you-go. The refused quota is the subject of `FamilyPool`, so
`ObjectLifecycle` refuses at will and `S3Store` does not sum. Of shared vaults: deletion of a
whole vault. In `StripeCredit` there is one free account in one currency, and "no gateway" is
the same as "no customer", read once per run. Of billing: subscriptions and their webhooks,
checkouts, add-ons and the booking of Super Safe, which are calls to Stripe around single
UPDATEs; `FamilyPool` has their effect (a plan changes, and members follow).

Components left to the plan, for time and not because TLC could not reach them: the family
space (its generations follow the pattern of `SharedVault`), emergency access, shares, deletion
of accounts, sessions and challenges. `server/policy`, reports, single sign-on, status,
support, admin, exchange rates: reads and single statements. Health and proofs of the backup
only read the chain. Encryption, signatures, protocols, formatting, the other pages and the
command line are data or I/O. `PROJECT.json` gives the status of every component.

## 8. Plan

Order: what can lose or expose a user's data first.

1. Done: object service, family pool, vault index on both sides, merge, S3 store, Filecoin
   backup, shared vaults, credit and Pay-as-you-go, team recovery; the proofs of section 5.
2. Next: the keys of the family space (createSpace and rotate in two tabs, detachFromSpace
   against a write), emergency access (states of a contact against owner and clock), shares
   (counted downloads), account deletion against late uploads, one-time challenges.
3. Then the pure algorithms (`gfsExpired`, pricing, pieces) as functions against a
   reference definition.

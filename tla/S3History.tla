------------------------------ MODULE S3History ------------------------------
(***************************************************************************)
(* What clients of the S3 store (server/s3/store.ts) may rely on with      *)
(* several requests at the same time: that the key can be read, and Object *)
(* Lock.  Both have exceptions that depend on what happened before, so two *)
(* history variables are added to S3Store; no handler reads them.          *)
(*                                                                         *)
(* A handler looks at the row of the key and acts on what it saw some      *)
(* awaits later: delete and setRetention read the row before they write    *)
(* (store.ts:264-293), and the SELECT ... FOR UPDATE of commit locks       *)
(* nothing when there is no row yet.                                       *)
(***************************************************************************)
EXTENDS S3Store

VARIABLES
  stale,        \* the handlers between their look at the row and their write, for
                \* which the row has changed in between
  undone        \* the objects that a PUT published before it ended with an error:
                \* its catch drops them

historyVars == <<vars, stale, undone>>

\* A handler that has looked at the row and not yet written.
HasLooked(t) == t.at \in {"remove", "retain", "upsert"}

HistoryInit == Init /\ stale = {} /\ undone = {}

HistoryNext ==
  /\ Next
  /\ stale' = {w \in Request : HasLooked(task'[w]) /\ (w \in stale \/ entry' # entry)}
  /\ undone' = undone \cup
       {task[w].obj : w \in {v \in Request : For(v, "put") /\ At(v, "free")
                                             /\ task'[v].at = "drop"}}

HistorySpec == HistoryInit /\ [][HistoryNext]_historyVars

-----------------------------------------------------------------------------
(* Properties                                                              *)

\* What a GET of the key finds can be read.  The key may be rewritten, deleted and
\* completed by several requests meanwhile, and handlers may die.  The exception is an
\* object whose PUT ended with an error after its commit.
KeyIsReadable == entry # NoEntry => Complete(entry.obj) \/ entry.obj \in undone

\* Without the exception: an answer that is lost after the COMMIT takes away what the
\* key names.
KeyIsAlwaysReadable == entry # NoEntry => Complete(entry.obj)

\* What a GET of the key finds stays readable as long as the key names it.
ReadableStays ==
  [][entry # NoEntry /\ entry' = entry /\ Complete(entry.obj) =>
       Complete(entry.obj)' \/ entry.obj \in undone]_historyVars

Protected(e) == e.ret.until > now
Compliant(e) == Protected(e) /\ e.ret.mode = "COMPLIANCE"

\* A step takes an active lock away: the row of a COMPLIANCE lock is deleted, a locked
\* row of any mode gets another object, or a COMPLIANCE lock ends earlier or turns into
\* GOVERNANCE.
Breaks ==
  \/ Compliant(entry) /\ entry' = NoEntry
  \/ Protected(entry) /\ entry' # NoEntry /\ entry'.obj # entry.obj
  \/ /\ Compliant(entry) /\ entry'.obj = entry.obj
     /\ entry'.ret.until < entry.ret.until \/ entry'.ret.mode = "GOVERNANCE"

\* Whatever PUTs, deletions, retentions and completions run at the same time, an
\* active lock is broken only by the write of a handler that looked at the row before
\* it last changed: from the answers to those on, the lock holds.
LocksHold == [][Breaks => \E w \in stale : task'[w] # task[w]]_historyVars

\* Without the exception: two requests at once can break a lock.
LocksAlwaysHold == [][~Breaks]_historyVars
=============================================================================

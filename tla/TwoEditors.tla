------------------------------ MODULE TwoEditors ------------------------------
(***************************************************************************)
(* Two devices edit copies of one vault index without seeing each other,   *)
(* as the editors of app/(konto)/app/page.tsx and components/NotesPanel.tsx *)
(* do: what mergeContainers would make of every pair of copies is compared *)
(* with the rules of its comment, and with what the server holds.  How and *)
(* when devices come to merge is VaultSync's subject.                      *)
(*                                                                         *)
(* An edit sets the stamp of its entry to the device's clock, and clocks   *)
(* need not agree: any instant will do.  Pinning a note, moving a file and *)
(* cleaning its versions up keep the stamp.  A file goes to the trash, a   *)
(* list of its own with its own stamps, and back, or away for good, with   *)
(* an await of the server in between; what the server no longer has in its *)
(* trash is cleaned out of the list.  A tab may be closed with all that    *)
(* under way or unsaved.                                                   *)
(***************************************************************************)
EXTENDS VaultMerge

CONSTANTS
  Dir,        \* folders
  Old,        \* the last instant of the base
  Last        \* bound: the last instant of an edit

ASSUME TimeAssumption == Old \in Nat \ {0} /\ Last \in Nat /\ Old <= Last

VARIABLES
  base,       \* the container both devices started from: its lists of entries and of trash
  copy,       \* per device: its container
  files,      \* the ids that are files; the others are notes and passwords
  baseDirs,   \* the folders of the base
  dirs,       \* per device: its folders
  object,     \* per file: its state on the server
  call,       \* per device and file: the call of the server the page awaits, and for
              \* which entry
  listed,     \* per device: while it awaits the server's trash list, the files that it
              \* will find there, or that it has put in the trash since
  excused     \* history: files for which no promise is made

editorVars == <<base, copy, files, baseDirs, dirs, object, call, listed, excused>>

Side    == {1, 2}
Instant == 1..Last
Author  == {0} \cup Side

Entries   == {Absent} \cup [stamp : Instant, rev : Author]
Discarded == {Absent} \cup [stamp : Instant, rev : Author, filed : Instant]
Lists == [list : [Id -> Entries], trash : [Id -> Discarded]]

NoCall == [op |-> "none", entry |-> Absent]
Call   == {NoCall} \cup [op : {"store", "delete"}, entry : {Absent}]
                   \cup [op : {"trash"}, entry : Entries \ {Absent}]
                   \cup [op : {"check", "restore"}, entry : Discarded \ {Absent}]

EditorTypeOK ==
  /\ base \in Lists
  /\ copy \in [Side -> Lists]
  /\ files \subseteq Id
  /\ baseDirs \subseteq Dir /\ dirs \in [Side -> SUBSET Dir]
  /\ object \in [Id -> {"none", "stored", "trashed", "gone"}]
  /\ call \in [Side -> [Id -> Call]]
  /\ listed \in [Side -> SUBSET (SUBSET Id)]
  /\ excused \subseteq Id

\* A saved index names every file the server has, in the list or in the trash.
EditorInit ==
  /\ base \in [list  : [Id -> {Absent} \cup [stamp : 1..Old, rev : {0}]],
               trash : [Id -> {Absent} \cup [stamp : 1..Old, rev : {0}, filed : 1..Old]]]
  /\ files \in SUBSET Id
  /\ \A i \in Id : base.trash[i] # Absent => i \in files /\ base.list[i] = Absent
  /\ copy = [s \in Side |-> base]
  /\ baseDirs \in SUBSET Dir
  /\ dirs = [s \in Side |-> baseDirs]
  /\ object = [i \in Id |-> IF base.trash[i] # Absent THEN "trashed"
                            ELSE IF i \in files /\ base.list[i] # Absent THEN "stored" ELSE "none"]
  /\ call = [s \in Side |-> [i \in Id |-> NoCall]]
  /\ listed = [s \in Side |-> {}]
  /\ excused = {}

-----------------------------------------------------------------------------
SetEntry(s, i, e) == copy' = [copy EXCEPT ![s].list[i] = e]
Awaits(s, f, op)  == call[s][f].op = op
SetCall(s, f, c)  == call' = [call EXCEPT ![s][f] = c]

saved     == <<base, files, baseDirs>>
fileState == <<object, call, listed, excused>>

(* Notes and passwords *)

\* A new entry gets an id of its own.
Unused(n) == base.list[n] = Absent /\ \A d \in Side : copy[d].list[n] = Absent

\* A new or changed entry (upsertSecret)
SaveNote(s, n, t) ==
  /\ copy[s].list[n] # Absent \/ Unused(n)
  /\ SetEntry(s, n, [stamp |-> t, rev |-> s])
  /\ UNCHANGED <<saved, dirs, fileState>>

\* Pinning a note saves it with the stamp it had.
PinNote(s, n) ==
  /\ copy[s].list[n] # Absent
  /\ SetEntry(s, n, [copy[s].list[n] EXCEPT !.rev = s])
  /\ UNCHANGED <<saved, dirs, fileState>>

DeleteNote(s, n) ==
  /\ copy[s].list[n] # Absent
  /\ SetEntry(s, n, Absent)
  /\ UNCHANGED <<saved, dirs, fileState>>

(* Folders *)

AddDir(s, x) ==
  /\ dirs' = [dirs EXCEPT ![s] = @ \cup {x}]
  /\ UNCHANGED <<saved, copy, fileState>>

DropDir(s, x) ==
  /\ dirs' = [dirs EXCEPT ![s] = @ \ {x}]
  /\ UNCHANGED <<saved, copy, fileState>>

(* Files *)

\* onMoveTo, and the clean-up of expired versions: the stamp stays.
MoveFile(s, f) ==
  /\ copy[s].list[f] # Absent
  /\ SetEntry(s, f, [copy[s].list[f] EXCEPT !.rev = s])
  /\ UNCHANGED <<saved, dirs, fileState>>

\* An upload is complete on the server; then onStored puts the file in the list.
StoreObject(s, f) ==
  /\ object[f] = "none"
  /\ object' = [object EXCEPT ![f] = "stored"]
  /\ SetCall(s, f, [op |-> "store", entry |-> Absent])
  /\ UNCHANGED <<saved, copy, dirs, listed, excused>>

FileStored(s, f, t) ==
  /\ Awaits(s, f, "store")
  /\ SetEntry(s, f, [stamp |-> t, rev |-> s])
  /\ SetCall(s, f, NoCall)
  /\ UNCHANGED <<saved, dirs, object, listed, excused>>

\* onDelete: trashObject moves what is stored, then the entry changes lists.
TrashObject(s, f) ==
  /\ copy[s].list[f] # Absent /\ Awaits(s, f, "none")
  /\ object[f] = "stored"
  /\ object' = [object EXCEPT ![f] = "trashed"]
  /\ SetCall(s, f, [op |-> "trash", entry |-> copy[s].list[f]])
  /\ UNCHANGED <<saved, copy, dirs, listed, excused>>

\* Faulty variant of FileTrashed: the clean-up does not spare what came in a minute ago.
FileTrashedUnseen(s, f, t) ==
  /\ Awaits(s, f, "trash")
  /\ LET e == call[s][f].entry IN
       copy' = [copy EXCEPT ![s].list[f] = Absent,
                            ![s].trash[f] = [stamp |-> t, rev |-> e.rev, filed |-> e.stamp]]
  /\ SetCall(s, f, NoCall)
  /\ excused' = IF base.trash[f] # Absent /\ t <= base.trash[f].stamp
                THEN excused \cup {f} ELSE excused
  /\ UNCHANGED <<saved, dirs, object, listed>>

\* A stamp that is not later than the one the base's trash has for the file excuses.
FileTrashed(s, f, t) ==
  /\ Awaits(s, f, "trash")
  /\ LET e == call[s][f].entry IN
       copy' = [copy EXCEPT ![s].list[f] = Absent,
                            ![s].trash[f] = [stamp |-> t, rev |-> e.rev, filed |-> e.stamp]]
  /\ SetCall(s, f, NoCall)
  /\ listed' = [listed EXCEPT ![s] = {L \cup {f} : L \in @}]
  /\ excused' = IF base.trash[f] # Absent /\ t <= base.trash[f].stamp
                THEN excused \cup {f} ELSE excused
  /\ UNCHANGED <<saved, dirs, object>>

\* onRestore: restoreObject looks whether the file is in the trash ...
RestoreChecked(s, f) ==
  /\ copy[s].trash[f] # Absent /\ Awaits(s, f, "none")
  /\ object[f] = "trashed"
  /\ SetCall(s, f, [op |-> "check", entry |-> copy[s].trash[f]])
  /\ UNCHANGED <<saved, copy, dirs, object, listed, excused>>

\* ... restores it if it still is, and does not look at whether it was ...
RestoreObject(s, f) ==
  /\ Awaits(s, f, "check")
  /\ object' = [object EXCEPT ![f] = IF @ = "trashed" THEN "stored" ELSE @]
  /\ SetCall(s, f, [call[s][f] EXCEPT !.op = "restore"])
  /\ UNCHANGED <<saved, copy, dirs, listed, excused>>

\* ... then the entry goes back to the list with the stamp it had there.
FileRestored(s, f) ==
  /\ Awaits(s, f, "restore")
  /\ LET e == call[s][f].entry IN
       copy' = [copy EXCEPT ![s].list[f] = [stamp |-> e.filed, rev |-> e.rev],
                            ![s].trash[f] = Absent]
  /\ SetCall(s, f, NoCall)
  /\ UNCHANGED <<saved, dirs, object, listed, excused>>

\* deleteForever: the objects, then the entry in both lists
DeleteObject(s, f) ==
  /\ copy[s].list[f] # Absent \/ copy[s].trash[f] # Absent
  /\ Awaits(s, f, "none")
  /\ object' = [object EXCEPT ![f] = "gone"]
  /\ SetCall(s, f, [op |-> "delete", entry |-> Absent])
  /\ UNCHANGED <<saved, copy, dirs, listed, excused>>

FileDeleted(s, f) ==
  /\ Awaits(s, f, "delete")
  /\ copy' = [copy EXCEPT ![s].list[f] = Absent, ![s].trash[f] = Absent]
  /\ SetCall(s, f, NoCall)
  /\ UNCHANGED <<saved, dirs, object, listed, excused>>

\* The page asks the server for its trash, and when the answer is there drops the
\* entries it does not name, except those of the last minute by the device's clock.
ListTrash(s) ==
  /\ listed[s] = {}
  /\ listed' = [listed EXCEPT ![s] = {{f \in files : object[f] = "trashed"}}]
  /\ UNCHANGED <<saved, copy, dirs, object, call, excused>>

TrashListed(s, D) ==
  /\ \E L \in listed[s] : D \cap L = {}
  /\ copy' = [copy EXCEPT ![s].trash = [i \in Id |-> IF i \in D THEN Absent ELSE @[i]]]
  /\ listed' = [listed EXCEPT ![s] = {}]
  /\ UNCHANGED <<saved, dirs, object, call, excused>>

\* purgeTrash on the server, after its days
PurgeTrash(f) ==
  /\ object[f] = "trashed"
  /\ object' = [object EXCEPT ![f] = "gone"]
  /\ UNCHANGED <<saved, copy, dirs, call, listed, excused>>

\* The tab is closed before its changes are saved, or in the middle of a call.
CloseTab(s) ==
  /\ copy' = [copy EXCEPT ![s] = base]
  /\ dirs' = [dirs EXCEPT ![s] = baseDirs]
  /\ call' = [call EXCEPT ![s] = [i \in Id |-> NoCall]]
  /\ listed' = [listed EXCEPT ![s] = {}]
  /\ excused' = excused \cup
       {f \in files : \/ call[s][f] # NoCall
                      \/ copy[s].list[f] # base.list[f]
                      \/ copy[s].trash[f] # base.trash[f]}
  /\ UNCHANGED <<saved, object>>

EditorNext ==
  \/ \E s \in Side :
       \/ \E n \in Id \ files :
            (\E t \in Instant : SaveNote(s, n, t)) \/ PinNote(s, n) \/ DeleteNote(s, n)
       \/ \E x \in Dir : AddDir(s, x) \/ DropDir(s, x)
       \/ \E f \in files :
            \/ MoveFile(s, f) \/ StoreObject(s, f) \/ TrashObject(s, f) \/ RestoreChecked(s, f)
            \/ RestoreObject(s, f) \/ FileRestored(s, f) \/ DeleteObject(s, f) \/ FileDeleted(s, f)
            \/ \E t \in Instant : FileStored(s, f, t) \/ FileTrashed(s, f, t)
       \/ ListTrash(s)
       \/ \E D \in SUBSET files : TrashListed(s, D)
       \/ CloseTab(s)
  \/ \E f \in files : PurgeTrash(f)

EditorSpec == EditorInit /\ [][EditorNext]_editorVars

-----------------------------------------------------------------------------
(* Properties                                                              *)

\* What device 1 makes of its copy when the server has the one of device 2
MergedList(i)  == MergeEntry(base.list[i], copy[1].list[i], copy[2].list[i])
MergedTrash(f) == MergeEntry(base.trash[f], copy[1].trash[f], copy[2].trash[f])

Other(s) == 3 - s

\* A change that is stamped later than the base and than what the other device has is kept,
\* whether the other one changed, pinned or deleted the entry.
LatestWins(i) ==
  \A s \in Side :
    LET mine == copy[s].list[i]  theirs == copy[Other(s)].list[i] IN
      mine.stamp > base.list[i].stamp /\ mine.stamp > theirs.stamp => MergedList(i) = mine

\* What a device deleted is there only as a change the other one stamped later.
DeletedStays(i) ==
  \A s \in Side :
    base.list[i] # Absent /\ copy[s].list[i] = Absent /\ MergedList(i) # Absent =>
      /\ MergedList(i) = copy[Other(s)].list[i]
      /\ MergedList(i).stamp > base.list[i].stamp

\* Of two entries with one stamp, the device that merges keeps its own.
OwnOnTie(i) ==
  copy[1].list[i] # Absent /\ copy[1].list[i].stamp = copy[2].list[i].stamp =>
    MergedList(i) = copy[1].list[i]

\* What merge3 keeps, with any clocks and with changes that keep their stamp.  Its comment
\* has three rules; they are about changes that have a newer stamp.
RulesHold == \A i \in Id : LatestWins(i) /\ DeletedStays(i) /\ OwnOnTie(i)

\* A file that the server has, stored or in its trash, is in the list or in the trash of
\* the merge: nobody's copy is lost between the two lists, which are merged one by one.
\* Excused are the files of which a closed tab lost a change, and those that a clock behind
\* the base's put in the trash.
NothingLost ==
  \A f \in files \ excused :
    object[f] \in {"stored", "trashed"} /\ (\A s \in Side : call[s][f] = NoCall) =>
      MergedList(f) # Absent \/ MergedTrash(f) # Absent

\* Without the exception, for a file that the saved index names: a tab that is closed
\* between restoreObject and the save of the index leaves an entry in the trash that the
\* next clean-up drops.
AlwaysNamed ==
  \A f \in files :
    /\ base.list[f] # Absent \/ base.trash[f] # Absent
    /\ object[f] \in {"stored", "trashed"} /\ \A s \in Side : call[s][f] = NoCall
    =>
      MergedList(f) # Absent \/ MergedTrash(f) # Absent

\* A file is in one of the two lists.
NamedOnce == \A f \in files : MergedList(f) = Absent \/ MergedTrash(f) = Absent

\* What one device does to an entry that the other leaves alone is kept.  A pin is not,
\* nor an edit by a clock that is behind.
NothingUndone ==
  \A i \in Id : \A s \in Side :
    copy[Other(s)].list[i] = base.list[i] => MergedList(i) = copy[s].list[i]

\* The comment's last rule, for any change: a change after the base wins over a deletion.
ChangesWin ==
  \A i \in Id : \A s \in Side :
    base.list[i] # Absent /\ copy[Other(s)].list[i] = Absent
      /\ copy[s].list[i] \notin {base.list[i], Absent} => MergedList(i) = copy[s].list[i]

\* A folder that one device adds or deletes, while the other leaves it alone, is
\* there or gone after the merge.
FoldersMerge ==
  LET merged == MergeSet(baseDirs, dirs[1], dirs[2]) IN
    \A x \in Dir :
      /\ (x \in dirs[1] <=> x \in baseDirs) => (x \in merged <=> x \in dirs[2])
      /\ (x \in dirs[2] <=> x \in baseDirs) => (x \in merged <=> x \in dirs[1])
=============================================================================

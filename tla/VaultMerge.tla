----------------------------- MODULE VaultMerge -----------------------------
(***************************************************************************)
(* The three-way merge of the vault index (lib/merge.ts): merge3 for lists *)
(* of entries with a time stamp, mergeSet for folders.                     *)
(*                                                                         *)
(* A container is a function from entry ids to entries.  An entry has the  *)
(* stamp merge3 compares and a revision, which stands for all the rest of  *)
(* it: name, folder, text.                                                 *)
(***************************************************************************)
EXTENDS Naturals

CONSTANT Id                   \* ids of entries

Entry  == [stamp : Nat, rev : Nat]
Absent == [stamp |-> 0, rev |-> 0]
Empty  == [i \in Id |-> Absent]

\* Faulty variant of Survives: an unchanged entry is as good as a newer one.
SurvivesOnTie(b, x) == x # Absent /\ (b = Absent \/ x.stamp >= b.stamp)

\* An entry that only one side has is kept if it is new or newer than the base.
Survives(b, x) == x # Absent /\ (b = Absent \/ x.stamp > b.stamp)

\* Faulty variant of MergeEntry: if both sides have the entry, the local one is taken.
MergeLocalFirst(b, l, r) ==
  IF l # Absent /\ r # Absent THEN l
  ELSE IF Survives(b, l) THEN l ELSE IF Survives(b, r) THEN r ELSE Absent

\* One id of merge3.  On a tie of the stamps the local entry is taken.
MergeEntry(b, l, r) ==
  IF l # Absent /\ r # Absent THEN IF l.stamp >= r.stamp THEN l ELSE r
  ELSE IF Survives(b, l) THEN l
  ELSE IF Survives(b, r) THEN r
  ELSE Absent

Merge(b, l, r) == [i \in Id |-> MergeEntry(b[i], l[i], r[i])]

\* Faulty variant of MergeSet: the base is not looked at.
MergeUnion(b, l, r) == l \cup r

\* mergeSet: on both sides, or new on one of them
MergeSet(b, l, r) == {x \in l \cup r : (x \in l /\ x \in r) \/ x \notin b}

=============================================================================

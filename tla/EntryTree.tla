------------------------------ MODULE EntryTree ------------------------------
(***************************************************************************)
(* Entry trees and their patches: EntryTree, EntryGroup and Patch of       *)
(* crates/tessivum-core/src/loader.rs.                                     *)
(*                                                                         *)
(* A tree is the sequence of its sections in the order in which the code   *)
(* walks them: the entries of the root first, then each group followed by  *)
(* the groups in it.  A section names its parent section by its index.     *)
(* The id of a group is a path, because a group may spell out its parents. *)
(***************************************************************************)
EXTENDS Naturals, SequencesExt

\* An entry: `version' stands for its package, options and configuration;
\* version 0 is one that Entry::validate refuses.
Entry(id, version, disabled) == [id |-> id, version |-> version, disabled |-> disabled]

Root(entries) == [group |-> <<>>, parent |-> 0, disabled |-> FALSE, entries |-> entries]

EmptyTree == <<Root(<<>>)>>

\* The result of a patch that has no target, or of one that is refused
NoTree == <<>>

\* Entries, and trees of them: the root is always there.
Entries(Ids) == [id : Ids, version : Nat, disabled : BOOLEAN]
Sections(Ids) ==
  [group : Seq(STRING), parent : Nat, disabled : BOOLEAN, entries : Seq(Entries(Ids))]
Trees(Ids) == Seq(Sections(Ids)) \ {NoTree}

\* The elements of s that are in K, in order
Keep(s, K) ==
  FlattenSeq([i \in DOMAIN s |-> IF s[i] \in K THEN <<s[i]>> ELSE <<>>])

\* EntryTree::entries
AllEntries(tree) == FlattenSeq([i \in DOMAIN tree |-> tree[i].entries])

\* A disabled group suppresses its entries and the groups in it.
Off(tree) ==
  LET off[i \in DOMAIN tree] ==
        tree[i].disabled \/ (tree[i].parent # 0 /\ off[tree[i].parent])
  IN off

EnabledIn(entries) == Keep(entries, {e \in Range(entries) : ~e.disabled})

\* EntryTree::active_entries
ActiveEntries(tree) ==
  FlattenSeq([i \in DOMAIN tree |->
    IF Off(tree)[i] THEN <<>> ELSE EnabledIn(tree[i].entries)])

\* The name of a group: its id, below its parent's unless it says so itself
Qualified(tree) ==
  LET name[i \in DOMAIN tree] ==
        IF tree[i].parent = 0 THEN <<>>
        ELSE LET p == name[tree[i].parent] IN
             IF p = <<>> \/ IsStrictPrefix(p, tree[i].group)
             THEN tree[i].group ELSE p \o tree[i].group
  IN name

UniqueIds(tree) ==
  \A j, k \in DOMAIN AllEntries(tree) :
    AllEntries(tree)[j].id = AllEntries(tree)[k].id => j = k

\* EntryTree::validate
Valid(tree) ==
  /\ \A e \in Range(AllEntries(tree)) : e.version # 0
  /\ UniqueIds(tree)
  /\ IsInjective(Qualified(tree))

-----------------------------------------------------------------------------
(***************************************************************************)
(* Patches.  `before' is "" for None.                                      *)
(***************************************************************************)
Patches(Ids) ==
  [op : {"insert", "update", "update-config", "remove", "move"},
   id : STRING, entry : Entries(Ids), before : STRING]

InEntries(entries, id) == SelectInSeq(entries, LAMBDA e : e.id = id)

\* The first section that has the entry, 0 if there is none
SectionOf(tree, id) == SelectInSeq(tree, LAMBDA s : InEntries(s.entries, id) # 0)

FindEntry(tree, id) ==
  tree[SectionOf(tree, id)].entries[InEntries(tree[SectionOf(tree, id)].entries, id)]

\* find_entry_mut, and the assignment through it
SetEntry(tree, id, e) ==
  LET s == SectionOf(tree, id) IN
  IF s = 0 THEN NoTree
  ELSE [tree EXCEPT ![s].entries[InEntries(tree[s].entries, id)] = e]

\* remove_entry
RemoveEntry(tree, id) ==
  LET s == SectionOf(tree, id) IN
  IF s = 0 THEN NoTree
  ELSE [tree EXCEPT ![s].entries = RemoveAt(@, InEntries(@, id))]

Place(entries, i, e) == InsertAt(entries, i, e)

\* insert_entry: at the end of the root, or in the section of `before'
InsertEntry(tree, e, before) ==
  LET s == SectionOf(tree, before) IN
  CASE before = "" -> [tree EXCEPT ![1].entries = Append(@, e)]
    [] before # "" /\ s = 0 -> NoTree
    [] OTHER -> [tree EXCEPT ![s].entries = Place(@, InEntries(@, before), e)]

\* Patch::apply_to
ApplyPatch(tree, p) ==
  IF tree = NoTree THEN NoTree ELSE
  CASE p.op = "insert" -> InsertEntry(tree, p.entry, p.before)
    [] p.op = "update" ->
         IF p.entry.id # p.id THEN NoTree ELSE SetEntry(tree, p.id, p.entry)
    [] p.op = "update-config" ->
         IF SectionOf(tree, p.id) = 0 THEN NoTree
         ELSE SetEntry(tree, p.id,
                       [FindEntry(tree, p.id) EXCEPT !.version = p.entry.version])
    [] p.op = "remove" -> RemoveEntry(tree, p.id)
    [] p.op = "move" ->
         IF p.before = p.id \/ SectionOf(tree, p.id) = 0 THEN NoTree
         ELSE InsertEntry(RemoveEntry(tree, p.id), FindEntry(tree, p.id), p.before)

\* The tree after each of the patches
AfterPatches(tree, patches) ==
  LET after[i \in 0 .. Len(patches)] ==
        IF i = 0 THEN tree ELSE ApplyPatch(after[i - 1], patches[i])
  IN after

\* EntryTree::apply_all: only the last tree has to be valid.
ApplyAll(tree, patches) ==
  LET result == AfterPatches(tree, patches)[Len(patches)] IN
  IF result # NoTree /\ Valid(result) THEN result ELSE NoTree

\* The ids that a list of patches is about
Named(patches) == {p.id : p \in Range(patches)} \cup {p.entry.id : p \in Range(patches)}

\* The entries that are not about the ids `named'
Others(entries, named) == Keep(entries, {e \in Range(entries) : e.id \notin named})

\* What two trees have in common outside the ids `named': every section with
\* its entries, in order
SameOutside(named, t1, t2) ==
  /\ DOMAIN t1 = DOMAIN t2
  /\ \A i \in DOMAIN t1 :
       [t1[i] EXCEPT !.entries = Others(@, named)] = [t2[i] EXCEPT !.entries = Others(@, named)]
=============================================================================

------------------------------- MODULE MCLoader -------------------------------
(***************************************************************************)
(* Instances of EntryTreeWatcher, and so of Loader, for TLC.               *)
(***************************************************************************)
EXTENDS EntryTreeWatcher

Plain(id, version) == Entry(id, version, FALSE)

Group(name, parent, disabled, entries) ==
  [group |-> name, parent |-> parent, disabled |-> disabled, entries |-> entries]

\* b requires what a provides; c has providers outside the tree.
BNeedsA == [id \in {"a", "b", "c"} |-> IF id = "b" THEN {"a"} ELSE {}]

\* c is disabled, unless a patch changes that.
One == <<Root(<<Plain("a", 1), Entry("c", 1, TRUE)>>)>>

\* The consumer comes first; c is in a disabled group, of a group.
Two == <<Root(<<Plain("b", 1), Plain("a", 2)>>),
         Group(<<"g">>, 1, TRUE, <<>>),
         Group(<<"h">>, 2, FALSE, <<Plain("c", 1)>>)>>

TwoTrees == {One, Two}

Patch(op, id, entry, before) ==
  [op |-> op, id |-> id, entry |-> entry, before |-> before]

\* Insertions that a later patch of the list moves or removes, also of an id
\* that is there, so that the trees between two patches are not valid.
SomePatches ==
  {<<Patch("insert", "b", Plain("b", 2), "a")>>,
   <<Patch("insert", "b", Plain("b", 3), "c")>>,
   <<Patch("insert", "a", Plain("a", 3), ""), Patch("remove", "a", Plain("a", 3), "")>>,
   <<Patch("move", "b", Plain("b", 1), "c"), Patch("update-config", "a", Plain("a", 4), "")>>,
   <<Patch("update", "c", Plain("c", 2), ""), Patch("move", "c", Plain("c", 2), "")>>}

Torn == <<Root(<<Entry("torn", 0, FALSE)>>)>>
SomeSources == {One, Two, Torn}
=============================================================================

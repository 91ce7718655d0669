----------------------------- MODULE TreeRegister -----------------------------
(***************************************************************************)
(* What a loader promises: a register that holds the committed tree.       *)
(*                                                                         *)
(* A request is served as a whole or refused as a whole.  A tree that is   *)
(* committed is the tree that was asked for, and it is served entirely; a  *)
(* refused request leaves the tree, and what is served then is part of it: *)
(* possibly less than all, never an entry of the tree that was refused.    *)
(***************************************************************************)
CONSTANTS
  NoTree, EmptyTree,  \* no tree at all, and the one of the beginning
  Valid(_),           \* the trees that may be committed
  Content(_),         \* the entries that a tree puts in service
  Unknown             \* what is served while a request is under way

VARIABLES
  tree,     \* the committed tree
  wanted,   \* the tree that is asked for, NoTree when nothing is
  served    \* the entries in service

rvars == <<tree, wanted, served>>

RInit == tree = EmptyTree /\ wanted = NoTree /\ served = {}

Ask ==
  /\ wanted = NoTree /\ wanted' # NoTree
  /\ served' = Unknown
  /\ UNCHANGED tree

Grant ==
  /\ wanted # NoTree /\ wanted' = NoTree
  /\ Valid(wanted)
  /\ tree' = wanted
  /\ served' = Content(wanted)

Deny ==
  /\ wanted # NoTree /\ wanted' = NoTree
  /\ served' \in SUBSET Content(tree)
  /\ UNCHANGED tree

RNext == Ask \/ Grant \/ Deny

RSpec == RInit /\ [][RNext]_rvars
=============================================================================

------------------------------- MODULE MCScope -------------------------------
(***************************************************************************)
(* Instances of ScopeLifecycle for TLC.                                    *)
(***************************************************************************)
EXTENDS ScopeLifecycle

CONSTANTS a, b, c, d, e1, e2, none

\* Any forest over the scopes, created in the order a, b, c.
ForestParents ==
  a :> {none} @@ b :> {none, a} @@ c :> {none, a, b}

AnyTarget == [e \in Effects |-> Scopes \cup {none}]

\* One chain a > b > c > d, whose innermost scope has an effect that
\* disposes the outermost one.
ChainParents == a :> {none} @@ b :> {a} @@ c :> {b} @@ d :> {c}
RootTarget == [e \in Effects |-> {a}]
=============================================================================

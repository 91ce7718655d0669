------------------------------- MODULE MCFiber -------------------------------
(***************************************************************************)
(* Instances of FiberLifecycle for TLC: a root scope a and a fiber b under *)
(* it, with an effect that disposes the root.                              *)
(***************************************************************************)
EXTENDS FiberLifecycle

CONSTANTS a, b, e1, none

OneFiber == a :> {none} @@ b :> {a}

\* Every disposer disposes the root.
RootTarget == [e \in Effects |-> {a}]
=============================================================================

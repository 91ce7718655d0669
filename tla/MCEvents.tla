------------------------------- MODULE MCEvents -------------------------------
(***************************************************************************)
(* Instances of EventBus for TLC.                                          *)
(***************************************************************************)
EXTENDS EventBus

CONSTANTS o1, v1, v2

L(o, v, k, once, prepend) ==
  [owner |-> o, view |-> v, kind |-> k, once |-> once, prepend |-> prepend]

\* Every kind, plain and once, global and of one view, at either end.
MixedListeners ==
  {L(o1, "any", "Sync", TRUE, FALSE), L(o1, v1, "Async", TRUE, TRUE),
   L(o1, v2, "Async", FALSE, FALSE), L(o1, "any", "Sync", FALSE, FALSE),
   L(o1, "any", "Waterfall", FALSE, TRUE)}

AnyDispatcher == Permutations(Dispatchers)
=============================================================================

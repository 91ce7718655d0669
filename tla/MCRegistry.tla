----------------------------- MODULE MCRegistry -----------------------------
(***************************************************************************)
(* Instances of ServiceRegistry for TLC: an owner p with the context of    *)
(* the host, and an owner q with the context of a staged registry.         *)
(***************************************************************************)
EXTENDS ServiceRegistry

CONSTANTS x, y, p, q, stage, l1, t1, t2, u1

Views == p :> Host @@ q :> stage
Subscribers == [l \in Listeners |-> p]
AllDeps == [l \in Listeners |-> Services]
\* Threads are interchangeable.
AnyThread == Permutations(Threads)
=============================================================================

-------------------------- MODULE LegacyNodeProofs --------------------------
(***************************************************************************)
(* Proofs about NodeSupervisor and LegacyNode, for any number of callers,  *)
(* generations and cleanups.                                               *)
(*                                                                         *)
(* The inductive invariant says who is responsible for a generation: until *)
(* it is stored the start that has spawned it, then the field `active',    *)
(* then the one thread that has taken it out of there.  The cleanups of a  *)
(* generation that have not run are with whoever is responsible.           *)
(***************************************************************************)
EXTENDS LegacyNode, FiniteSetTheorems, TLAPS

Owning == {"attach", "install", "store", "exit", "close", "terminate", "cleanup"}
Away == {"idle", "spawn", "notify"}

\* Thread t is responsible for generation g.
Owns(t, g) == mine[t] = g /\ pc[t] \in Owning

\* What holds of a thread at each of its places
ThreadInv(t) ==
  /\ IF pc[t] \in Away THEN mine[t] = NoGen ELSE mine[t] \in Gens
  /\ pc[t] \notin Releasing => held[t] = 0
  /\ t \in Gens => pc[t] \in Releasing \cup {"idle", "notify"}
  /\ t \in Gens /\ pc[t] # "idle" => conn[t] = "disconnected"
  /\ pc[t] = "attach" => conn[mine[t]] = "none"
  /\ pc[t] \in {"install", "store"} => conn[mine[t]] # "none"
  /\ pc[t] = "store" => handler[mine[t]]
  /\ pc[t] \in {"attach", "install", "store"} =>
       child[mine[t]] \in {"running", "exited"}
  /\ pc[t] \in Owning => child[mine[t]] # "none"
  /\ pc[t] \in {"terminate", "cleanup"} => conn[mine[t]] = "disconnected"
  /\ pc[t] = "cleanup" => child[mine[t]] = "reaped"

\* A generation that has not been started has left no trace.
FreshInv(g) ==
  g >= nextGen =>
    /\ child[g] = "none" /\ conn[g] = "none" /\ active # g
    /\ cleanups[g] = 0 /\ registered[g] = 0 /\ ran[g] = 0
    /\ \A t \in Threads : mine[t] # g

\* One thread is responsible for a generation, or `active' is.
OwnerInv(g) ==
  /\ \A t, u \in Threads : Owns(t, g) /\ Owns(u, g) => t = u
  /\ active = g => \A t \in Threads : ~Owns(t, g)
  /\ child[g] \in {"running", "exited"} /\ active # g => \E t \in Threads : Owns(t, g)

ActiveInv(g) ==
  active = g =>
    /\ child[g] \in {"running", "exited"} /\ conn[g] # "none" /\ handler[g]
    /\ conn[g] = "disconnected" =>
         \/ pc[g] = "notify"
         \/ \E t \in Callers : mine[t] = g /\ pc[t] = "handshake"

\* Every cleanup that was registered is accounted for.
CountInv(g) ==
  /\ \A t \in Threads :
       Owns(t, g) => registered[g] = ran[g] + cleanups[g] + held[t]
  /\ (\A t \in Threads : ~Owns(t, g)) => registered[g] = ran[g] + cleanups[g]
  /\ ran[g] > 0 => child[g] = "reaped" /\ conn[g] = "disconnected"

SInv ==
  /\ STypeOK
  /\ \A t \in Threads : ThreadInv(t)
  /\ \A g \in Gens :
       FreshInv(g) /\ OwnerInv(g) /\ ActiveInv(g) /\ CountInv(g)

-----------------------------------------------------------------------------
\* Generations are positive numbers, and callers are not numbers.
LEMMA GenFacts ==
  /\ Gens \subseteq Nat \ {NoGen} /\ NoGen \notin Gens
  /\ Callers \cap Gens = {} /\ Gens \subseteq Threads /\ Callers \subseteq Threads
  /\ \A n \in 1..(MaxGen + 1) : n <= MaxGen => n \in Gens
  BY SupervisorAssumption DEF Gens, NoGen, Threads

\* The initial state satisfies the invariant.
LEMMA InitSInv == SInit => SInv
<1> SUFFICES ASSUME SInit PROVE SInv
  OBVIOUS
<1>1. STypeOK
  <2>1. 1 \in 1..(MaxGen + 1) /\ 0 \in 0..MaxCleanups
    BY SupervisorAssumption
  <2>2. nextGen \in 1..(MaxGen + 1)
    BY <2>1 DEF SInit
  <2>3. /\ cleanups \in [Gens -> 0..MaxCleanups] /\ held \in [Threads -> 0..MaxCleanups]
        /\ registered \in [Gens -> 0..MaxCleanups] /\ ran \in [Gens -> 0..MaxCleanups]
    BY <2>1 DEF SInit
  <2>4. handler \in [Gens -> BOOLEAN]
    BY DEF SInit
  <2> QED
    BY <2>2, <2>3, <2>4 DEF SInit, STypeOK
<1>2. ASSUME NEW t \in Threads PROVE ThreadInv(t)
  BY GenFacts DEF SInit, ThreadInv, Away, Releasing, Owning
<1>3. ASSUME NEW g \in Gens
      PROVE  FreshInv(g) /\ OwnerInv(g) /\ ActiveInv(g) /\ CountInv(g)
  BY GenFacts
  DEF SInit, FreshInv, OwnerInv, ActiveInv, CountInv, Owns, Owning
<1> QED
  BY <1>1, <1>2, <1>3 DEF SInv

\* A thread that does not move keeps its part of the invariant, if what it is
\* responsible for does not change.
LEMMA ThreadFrame ==
  ASSUME NEW u \in Threads, ThreadInv(u),
         pc'[u] = pc[u], mine'[u] = mine[u], held'[u] = held[u],
         u \in Gens /\ conn[u] = "disconnected" => conn'[u] = "disconnected",
         pc[u] \in Owning =>
           /\ child'[mine[u]] = child[mine[u]]
           /\ conn'[mine[u]] = conn[mine[u]]
           /\ handler'[mine[u]] = handler[mine[u]]
  PROVE  ThreadInv(u)'
  BY DEF ThreadInv, Owning

\* close() of the client by the one responsible.
LEMMA CloseInv ==
  ASSUME SInv, NEW t \in Threads, Close(t)
  PROVE  SInv'
<1> USE GenFacts DEF Close, Goto
<1>1. STypeOK'
  BY SupervisorAssumption DEF SInv, STypeOK, ThreadInv, Live, Starting, Releasing, Away
<1>2. ASSUME NEW u \in Threads PROVE ThreadInv(u)'
  <2>1. mine[t] \in Gens /\ Owns(t, mine[t])
    BY DEF SInv, ThreadInv, Owns, Owning, Away
  <2>2. u # t /\ mine[u] = mine[t] => pc[u] \notin Owning
    BY <2>1 DEF SInv, OwnerInv, Owns
  <2>3. /\ pc'[t] = "terminate" /\ \A v \in Threads \ {t} : pc'[v] = pc[v]
        /\ conn'[mine[t]] = "disconnected"
        /\ \A g \in Gens \ {mine[t]} : conn'[g] = conn[g]
    BY <2>1 DEF SInv, STypeOK
  <2> QED
    BY <2>1, <2>2, <2>3 DEF SInv, STypeOK, ThreadInv, Owning, Away, Releasing
<1>3. ASSUME NEW h \in Gens PROVE FreshInv(h)'
  BY DEF SInv, STypeOK, ThreadInv, FreshInv, Owning, Away, Releasing
<1>4. ASSUME NEW h \in Gens PROVE OwnerInv(h)'
  BY DEF SInv, STypeOK, ThreadInv, OwnerInv, FreshInv, Owns, Owning, Away, Releasing
<1>5. ASSUME NEW h \in Gens PROVE ActiveInv(h)'
  BY DEF SInv, STypeOK, ThreadInv, OwnerInv, ActiveInv, Owns, Owning, Away, Releasing, Live
<1>6. ASSUME NEW h \in Gens PROVE CountInv(h)'
  BY DEF SInv, STypeOK, ThreadInv, OwnerInv, CountInv, FreshInv, Owns, Owning, Away, Releasing
<1> QED
  BY <1>1, <1>2, <1>3, <1>4, <1>5, <1>6 DEF SInv

\* The child is reaped by the one responsible.
LEMMA TerminateInv ==
  ASSUME SInv, NEW t \in Threads, Terminate(t)
  PROVE  SInv'
<1> USE GenFacts DEF Terminate, Goto
<1>1. STypeOK'
  BY SupervisorAssumption DEF SInv, STypeOK, ThreadInv, Live, Starting, Releasing, Away
<1>2. ASSUME NEW u \in Threads PROVE ThreadInv(u)'
  <2>1. /\ mine[t] \in Gens /\ Owns(t, mine[t]) /\ ThreadInv(t)
        /\ conn[mine[t]] = "disconnected"
    BY DEF SInv, ThreadInv, Owns, Owning, Away
  <2>2. u # t /\ mine[u] = mine[t] => pc[u] \notin Owning
    BY <2>1 DEF SInv, OwnerInv, Owns
  <2>3. /\ pc'[t] = "cleanup" /\ \A v \in Threads \ {t} : pc'[v] = pc[v]
        /\ child'[mine[t]] = "reaped"
        /\ \A g \in Gens \ {mine[t]} : child'[g] = child[g]
    BY <2>1 DEF SInv, STypeOK
  <2>4. CASE u = t
    BY <2>1, <2>3, <2>4 DEF ThreadInv, Owning, Away, Releasing
  <2>5. CASE u # t
    <3>1. ThreadInv(u) /\ (pc[u] \in Owning => mine[u] \in Gens)
      BY DEF SInv, ThreadInv, Owning, Away
    <3> QED
      BY <2>2, <2>3, <2>5, <3>1, ThreadFrame
  <2> QED
    BY <2>4, <2>5
<1>3. ASSUME NEW h \in Gens PROVE FreshInv(h)'
  BY DEF SInv, STypeOK, ThreadInv, FreshInv, Owning, Away, Releasing
<1>4. ASSUME NEW h \in Gens PROVE OwnerInv(h)'
  BY DEF SInv, STypeOK, ThreadInv, OwnerInv, FreshInv, Owns, Owning, Away, Releasing
<1>5. ASSUME NEW h \in Gens PROVE ActiveInv(h)'
  BY DEF SInv, STypeOK, ThreadInv, OwnerInv, ActiveInv, Owns, Owning, Away, Releasing, Live
<1>6. ASSUME NEW h \in Gens PROVE CountInv(h)'
  BY DEF SInv, STypeOK, ThreadInv, OwnerInv, CountInv, FreshInv, Owns, Owning, Away, Releasing
<1> QED
  BY <1>1, <1>2, <1>3, <1>4, <1>5, <1>6 DEF SInv

\* A cleanup that runs leaves the hands of the one responsible.
LEMMA RunCleanupInv ==
  ASSUME SInv, NEW t \in Threads, RunCleanup(t)
  PROVE  SInv'
<1> USE GenFacts DEF RunCleanup, RunOne, Goto
<1>1. STypeOK'
  <2>1. mine[t] \in Gens /\ Owns(t, mine[t])
    BY DEF SInv, ThreadInv, Owns, Owning, Away
  <2>2. registered[mine[t]] = ran[mine[t]] + cleanups[mine[t]] + held[t]
    BY <2>1 DEF SInv, CountInv
  <2>3. /\ registered[mine[t]] \in 0..MaxCleanups /\ ran[mine[t]] \in 0..MaxCleanups
        /\ cleanups[mine[t]] \in 0..MaxCleanups /\ held[t] \in 0..MaxCleanups /\ held[t] > 0
    BY <2>1 DEF SInv, STypeOK
  <2>4. ran[mine[t]] + 1 \in 0..MaxCleanups /\ held[t] - 1 \in 0..MaxCleanups
    BY <2>2, <2>3, SupervisorAssumption
  <2> QED
    BY <2>1, <2>4 DEF SInv, STypeOK
<1>2. ASSUME NEW u \in Threads PROVE ThreadInv(u)'
  BY DEF SInv, STypeOK, ThreadInv, OwnerInv, ActiveInv, FreshInv, Owns, Owning, Away, Releasing, Live
<1>3. ASSUME NEW h \in Gens PROVE FreshInv(h)'
  BY DEF SInv, STypeOK, ThreadInv, FreshInv, Owning, Away, Releasing
<1>4. ASSUME NEW h \in Gens PROVE OwnerInv(h)'
  BY DEF SInv, STypeOK, ThreadInv, OwnerInv, FreshInv, Owns, Owning, Away, Releasing
<1>5. ASSUME NEW h \in Gens PROVE ActiveInv(h)'
  BY DEF SInv, STypeOK, ThreadInv, OwnerInv, ActiveInv, Owns, Owning, Away, Releasing, Live
<1>6. ASSUME NEW h \in Gens PROVE CountInv(h)'
  BY DEF SInv, STypeOK, ThreadInv, OwnerInv, CountInv, FreshInv, Owns, Owning, Away, Releasing
<1> QED
  BY <1>1, <1>2, <1>3, <1>4, <1>5, <1>6 DEF SInv

\* Nothing is left of a generation that is released.
LEMMA ReleasedInv ==
  ASSUME SInv, NEW t \in Threads, Released(t)
  PROVE  SInv'
<1> USE GenFacts DEF Released, Return, Goto
<1>1. STypeOK'
  BY SupervisorAssumption DEF SInv, STypeOK, ThreadInv, Live, Starting, Releasing, Away
<1>2. ASSUME NEW u \in Threads PROVE ThreadInv(u)'
  BY DEF SInv, STypeOK, ThreadInv, OwnerInv, ActiveInv, FreshInv, Owns, Owning, Away, Releasing, Live
<1>3. ASSUME NEW h \in Gens PROVE FreshInv(h)'
  BY DEF SInv, STypeOK, ThreadInv, FreshInv, Owning, Away, Releasing
<1>4. ASSUME NEW h \in Gens PROVE OwnerInv(h)'
  BY DEF SInv, STypeOK, ThreadInv, OwnerInv, FreshInv, Owns, Owning, Away, Releasing
<1>5. ASSUME NEW h \in Gens PROVE ActiveInv(h)'
  BY DEF SInv, STypeOK, ThreadInv, OwnerInv, ActiveInv, Owns, Owning, Away, Releasing, Live
<1>6. ASSUME NEW h \in Gens PROVE CountInv(h)'
  BY DEF SInv, STypeOK, ThreadInv, OwnerInv, CountInv, FreshInv, Owns, Owning, Away, Releasing
<1> QED
  BY <1>1, <1>2, <1>3, <1>4, <1>5, <1>6 DEF SInv

\* A start that has looked at `active'.
LEMMA StartCheckInv ==
  ASSUME SInv, NEW t \in Callers, StartCheck(t)
  PROVE  SInv'
<1> USE GenFacts DEF StartCheck, Goto
<1>1. STypeOK'
  BY SupervisorAssumption DEF SInv, STypeOK, ThreadInv, Live, Starting, Releasing, Away
<1>2. ASSUME NEW u \in Threads PROVE ThreadInv(u)'
  BY DEF SInv, STypeOK, ThreadInv, OwnerInv, ActiveInv, FreshInv, Owns, Owning, Away, Releasing, Live
<1>3. ASSUME NEW h \in Gens PROVE FreshInv(h)'
  BY DEF SInv, STypeOK, ThreadInv, FreshInv, Owning, Away, Releasing
<1>4. ASSUME NEW h \in Gens PROVE OwnerInv(h)'
  BY DEF SInv, STypeOK, ThreadInv, OwnerInv, FreshInv, Owns, Owning, Away, Releasing
<1>5. ASSUME NEW h \in Gens PROVE ActiveInv(h)'
  BY DEF SInv, STypeOK, ThreadInv, OwnerInv, ActiveInv, Owns, Owning, Away, Releasing, Live
<1>6. ASSUME NEW h \in Gens PROVE CountInv(h)'
  BY DEF SInv, STypeOK, ThreadInv, OwnerInv, CountInv, FreshInv, Owns, Owning, Away, Releasing
<1> QED
  BY <1>1, <1>2, <1>3, <1>4, <1>5, <1>6 DEF SInv

\* A fresh generation gets its process and the start that is responsible for it.
LEMMA SpawnInv ==
  ASSUME SInv, NEW t \in Callers, Spawn(t)
  PROVE  SInv'
<1> USE GenFacts DEF Spawn, Return, Goto
<1>1. STypeOK'
  BY SupervisorAssumption DEF SInv, STypeOK, ThreadInv, Live, Starting, Releasing, Away
<1>2. ASSUME NEW u \in Threads PROVE ThreadInv(u)'
  <2>1. nextGen \in Gens /\ nextGen >= nextGen
    BY DEF SInv, STypeOK
  <2>2. child[nextGen] = "none" /\ conn[nextGen] = "none" /\ mine[u] # nextGen
    BY <2>1 DEF SInv, FreshInv
  <2>3. /\ \A v \in Threads \ {t} : pc'[v] = pc[v] /\ mine'[v] = mine[v]
        /\ \A g \in Gens \ {nextGen} : child'[g] = child[g]
        /\ \/ pc'[t] = "attach" /\ mine'[t] = nextGen /\ child'[nextGen] = "running"
           \/ pc'[t] = "idle" /\ mine'[t] = NoGen
        /\ UNCHANGED <<conn, handler, held>>
    BY <2>1 DEF SInv, STypeOK
  <2>4. CASE u = t
    <3>1. held[t] = 0 /\ t \notin Gens
      BY DEF SInv, ThreadInv, Releasing
    <3> QED
      BY <2>1, <2>2, <2>3, <2>4, <3>1 DEF ThreadInv, Owning, Away, Releasing
  <2>5. CASE u # t
    <3>1. ThreadInv(u) /\ (pc[u] \in Owning => mine[u] \in Gens)
      BY DEF SInv, ThreadInv, Owning, Away
    <3> QED
      BY <2>2, <2>3, <2>5, <3>1, ThreadFrame
  <2> QED
    BY <2>4, <2>5
<1>3. ASSUME NEW h \in Gens PROVE FreshInv(h)'
  BY DEF SInv, STypeOK, ThreadInv, FreshInv, Owning, Away, Releasing
<1>4. ASSUME NEW h \in Gens PROVE OwnerInv(h)'
  BY DEF SInv, STypeOK, ThreadInv, OwnerInv, FreshInv, Owns, Owning, Away, Releasing
<1>5. ASSUME NEW h \in Gens PROVE ActiveInv(h)'
  BY DEF SInv, STypeOK, ThreadInv, OwnerInv, ActiveInv, Owns, Owning, Away, Releasing, Live
<1>6. ASSUME NEW h \in Gens PROVE CountInv(h)'
  BY DEF SInv, STypeOK, ThreadInv, OwnerInv, CountInv, FreshInv, Owns, Owning, Away, Releasing
<1> QED
  BY <1>1, <1>2, <1>3, <1>4, <1>5, <1>6 DEF SInv

\* The client is connected, or the child is reaped.
LEMMA AttachInv ==
  ASSUME SInv, NEW t \in Callers, Attach(t)
  PROVE  SInv'
<1> USE GenFacts DEF Attach, Return, Goto
<1>1. STypeOK'
  BY SupervisorAssumption DEF SInv, STypeOK, ThreadInv, Live, Starting, Releasing, Away
<1>2. ASSUME NEW u \in Threads PROVE ThreadInv(u)'
  <2>1. /\ mine[t] \in Gens /\ Owns(t, mine[t]) /\ t \notin Gens /\ held[t] = 0
        /\ child[mine[t]] \in {"running", "exited"} /\ conn[mine[t]] = "none"
    BY DEF SInv, ThreadInv, Owns, Owning, Away, Releasing
  <2>2. u # t /\ mine[u] = mine[t] => pc[u] \notin Owning
    BY <2>1 DEF SInv, OwnerInv, Owns
  <2>3. /\ \A v \in Threads \ {t} : pc'[v] = pc[v] /\ mine'[v] = mine[v]
        /\ \A g \in Gens \ {mine[t]} : child'[g] = child[g] /\ conn'[g] = conn[g]
        /\ \/ /\ pc'[t] = "install" /\ mine'[t] = mine[t] /\ child' = child
              /\ conn'[mine[t]] = "handshaking"
           \/ pc'[t] = "idle" /\ mine'[t] = NoGen /\ conn' = conn
        /\ UNCHANGED <<handler, held>>
    BY <2>1 DEF SInv, STypeOK
  <2>4. CASE u = t
    BY <2>1, <2>3, <2>4 DEF ThreadInv, Owning, Away, Releasing
  <2>5. CASE u # t
    <3>1. ThreadInv(u) /\ (pc[u] \in Owning => mine[u] \in Gens)
      BY DEF SInv, ThreadInv, Owning, Away
    <3> QED
      BY <2>1, <2>2, <2>3, <2>5, <3>1, ThreadFrame
  <2> QED
    BY <2>4, <2>5
<1>3. ASSUME NEW h \in Gens PROVE FreshInv(h)'
  BY DEF SInv, STypeOK, ThreadInv, FreshInv, Owning, Away, Releasing
<1>4. ASSUME NEW h \in Gens PROVE OwnerInv(h)'
  BY DEF SInv, STypeOK, ThreadInv, OwnerInv, FreshInv, Owns, Owning, Away, Releasing
<1>5. ASSUME NEW h \in Gens PROVE ActiveInv(h)'
  BY DEF SInv, STypeOK, ThreadInv, OwnerInv, ActiveInv, Owns, Owning, Away, Releasing, Live
<1>6. ASSUME NEW h \in Gens PROVE CountInv(h)'
  BY DEF SInv, STypeOK, ThreadInv, OwnerInv, CountInv, FreshInv, Owns, Owning, Away, Releasing
<1> QED
  BY <1>1, <1>2, <1>3, <1>4, <1>5, <1>6 DEF SInv

\* The disconnect handler is installed.
LEMMA InstallInv ==
  ASSUME SInv, NEW t \in Callers, Install(t)
  PROVE  SInv'
<1> USE GenFacts DEF Install, Goto
<1>1. STypeOK'
  BY SupervisorAssumption DEF SInv, STypeOK, ThreadInv, Live, Starting, Releasing, Away
<1>2. ASSUME NEW u \in Threads PROVE ThreadInv(u)'
  BY DEF SInv, STypeOK, ThreadInv, OwnerInv, ActiveInv, FreshInv, Owns, Owning, Away, Releasing, Live
<1>3. ASSUME NEW h \in Gens PROVE FreshInv(h)'
  BY DEF SInv, STypeOK, ThreadInv, FreshInv, Owning, Away, Releasing
<1>4. ASSUME NEW h \in Gens PROVE OwnerInv(h)'
  BY DEF SInv, STypeOK, ThreadInv, OwnerInv, FreshInv, Owns, Owning, Away, Releasing
<1>5. ASSUME NEW h \in Gens PROVE ActiveInv(h)'
  BY DEF SInv, STypeOK, ThreadInv, OwnerInv, ActiveInv, Owns, Owning, Away, Releasing, Live
<1>6. ASSUME NEW h \in Gens PROVE CountInv(h)'
  BY DEF SInv, STypeOK, ThreadInv, OwnerInv, CountInv, FreshInv, Owns, Owning, Away, Releasing
<1> QED
  BY <1>1, <1>2, <1>3, <1>4, <1>5, <1>6 DEF SInv

\* The first start hands its generation to `active'.
LEMMA StoreInv ==
  ASSUME SInv, NEW t \in Callers, Store(t)
  PROVE  SInv'
<1> USE GenFacts DEF Store, StoreFirst, Goto
<1>1. STypeOK'
  BY SupervisorAssumption DEF SInv, STypeOK, ThreadInv, Live, Starting, Releasing, Away
<1>2. ASSUME NEW u \in Threads PROVE ThreadInv(u)'
  BY DEF SInv, STypeOK, ThreadInv, OwnerInv, ActiveInv, FreshInv, Owns, Owning, Away, Releasing, Live
<1>3. ASSUME NEW h \in Gens PROVE FreshInv(h)'
  BY DEF SInv, STypeOK, ThreadInv, FreshInv, Owning, Away, Releasing
<1>4. ASSUME NEW h \in Gens PROVE OwnerInv(h)'
  BY DEF SInv, STypeOK, ThreadInv, OwnerInv, FreshInv, Owns, Owning, Away, Releasing
<1>5. ASSUME NEW h \in Gens PROVE ActiveInv(h)'
  <2>1. /\ mine[t] \in Gens /\ handler[mine[t]] /\ conn[mine[t]] # "none"
        /\ child[mine[t]] \in {"running", "exited"}
    BY DEF SInv, ThreadInv, Away
  <2>2. CASE active = NoGen /\ active' = mine[t] /\ pc' = [pc EXCEPT ![t] = "handshake"]
    <3>1. pc'[t] = "handshake" /\ UNCHANGED <<mine, child, conn, handler>>
      BY <2>2 DEF SInv, STypeOK
    <3> QED
      BY <2>1, <2>2, <3>1 DEF ActiveInv
  <2>3. CASE UNCHANGED active /\ pc' = [pc EXCEPT ![t] = "close"]
    BY <2>1, <2>3 DEF SInv, STypeOK, ActiveInv
  <2> QED
    BY <2>2, <2>3
<1>6. ASSUME NEW h \in Gens PROVE CountInv(h)'
  BY DEF SInv, STypeOK, ThreadInv, OwnerInv, CountInv, FreshInv, Owns, Owning, Away, Releasing
<1> QED
  BY <1>1, <1>2, <1>3, <1>4, <1>5, <1>6 DEF SInv

\* Taking the active generation makes its taker responsible for it.
LEMMA TakeInv ==
  ASSUME SInv, NEW t \in Threads, NEW where \in {"exit", "close"},
         active \in Gens, pc[t] \notin Releasing, pc[t] \notin Owning,
         t \in Gens => conn[t] = "disconnected",
         Take(t, active), Goto(t, where),
         UNCHANGED <<nextGen, child, conn, handler, registered, ran>>,
         dropped' \in BOOLEAN
  PROVE  SInv'
<1> USE GenFacts
<1>1. /\ active' = NoGen
      /\ mine' = [mine EXCEPT ![t] = active]
      /\ held' = [held EXCEPT ![t] = cleanups[active]]
      /\ cleanups' = [cleanups EXCEPT ![active] = 0]
      /\ pc' = [pc EXCEPT ![t] = where]
  BY DEF Take, Goto
<1>2. cleanups[active] \in 0..MaxCleanups /\ 0 \in 0..MaxCleanups
  BY SupervisorAssumption DEF SInv, STypeOK
<1>3. STypeOK'
  BY <1>1, <1>2 DEF SInv, STypeOK, Releasing
<1>4. /\ pc'[t] = where /\ mine'[t] = active /\ held'[t] = cleanups[active]
      /\ \A u \in Threads \ {t} :
           pc'[u] = pc[u] /\ mine'[u] = mine[u] /\ held'[u] = held[u]
      /\ cleanups'[active] = 0 /\ \A g \in Gens \ {active} : cleanups'[g] = cleanups[g]
  BY <1>1 DEF SInv, STypeOK
<1>5. /\ child[active] \in {"running", "exited"} /\ conn[active] # "none"
      /\ \A u \in Threads : ~Owns(u, active)
  BY DEF SInv, ActiveInv, OwnerInv
<1>6. ASSUME NEW u \in Threads PROVE ThreadInv(u)'
  <2>1. CASE u = t
    BY <1>4, <1>5, <2>1 DEF ThreadInv, Owning, Away, Releasing
  <2>2. CASE u # t
    BY <1>4, <2>2, ThreadFrame DEF SInv
  <2> QED
    BY <2>1, <2>2
<1>7. ASSUME NEW g \in Gens PROVE FreshInv(g)'
  BY <1>1, <1>4 DEF SInv, FreshInv
<1>8. ASSUME NEW g \in Gens PROVE OwnerInv(g)'
  <2>1. \A u \in Threads : Owns(u, g)' <=> IF u = t THEN g = active ELSE Owns(u, g)
    BY <1>4 DEF Owns, Owning
  <2> QED
    BY <1>1, <1>5, <2>1 DEF SInv, OwnerInv, Owns
<1>9. ASSUME NEW g \in Gens PROVE ActiveInv(g)'
  BY <1>1 DEF ActiveInv
<1>10. ASSUME NEW g \in Gens PROVE CountInv(g)'
  <2>1. \A u \in Threads : Owns(u, g)' <=> IF u = t THEN g = active ELSE Owns(u, g)
    BY <1>4 DEF Owns, Owning
  <2>2. CASE g = active
    BY <1>4, <1>5, <2>1, <2>2 DEF SInv, STypeOK, CountInv
  <2>3. CASE g # active
    <3>1. ~Owns(t, g)
      BY DEF Owns
    <3> QED
      BY <1>4, <2>1, <2>3, <3>1 DEF SInv, CountInv
  <2> QED
    BY <2>2, <2>3
<1> QED
  BY <1>3, <1>6, <1>7, <1>8, <1>9, <1>10 DEF SInv

\* A thread that finds nothing to release, or a host that is ready, returns.
LEMMA ReturnInv ==
  ASSUME SInv, NEW t \in Threads, pc[t] \in {"handshake", "notify"}, Return(t),
         t # active, mine[t] = active /\ active \in Gens => conn[active] # "disconnected",
         UNCHANGED <<nextGen, active, cleanups, child, conn, handler, held, dropped,
                     registered, ran>>
  PROVE  SInv'
<1> USE GenFacts
<1>1. /\ pc' = [pc EXCEPT ![t] = "idle"] /\ mine' = [mine EXCEPT ![t] = NoGen]
      /\ STypeOK'
  BY DEF Return, Goto, SInv, STypeOK
<1>2. /\ pc'[t] = "idle" /\ mine'[t] = NoGen
      /\ \A u \in Threads \ {t} : pc'[u] = pc[u] /\ mine'[u] = mine[u]
  BY <1>1 DEF SInv, STypeOK
<1>3. ASSUME NEW u \in Threads PROVE ThreadInv(u)'
  <2>1. CASE u = t
    <3>1. held[t] = 0
      BY DEF SInv, ThreadInv, Releasing
    <3> QED
      BY <1>2, <2>1, <3>1 DEF ThreadInv, Owning, Away, Releasing
  <2>2. CASE u # t
    BY <1>2, <2>2, ThreadFrame DEF SInv
  <2> QED
    BY <2>1, <2>2
<1>4. ASSUME NEW g \in Gens, NEW u \in Threads PROVE Owns(u, g)' <=> Owns(u, g)
  BY <1>2 DEF Owns, Owning
<1>5. ASSUME NEW g \in Gens PROVE FreshInv(g)' /\ OwnerInv(g)' /\ CountInv(g)'
  BY <1>2, <1>4 DEF SInv, FreshInv, OwnerInv, CountInv
<1>6. ASSUME NEW g \in Gens PROVE ActiveInv(g)'
  BY <1>2 DEF SInv, ActiveInv
<1> QED
  BY <1>1, <1>3, <1>5, <1>6 DEF SInv

\* The handshake ends.
LEMMA HandshakeInv ==
  ASSUME SInv, NEW t \in Callers, Handshake(t)
  PROVE  SInv'
<1>1. t \in Threads /\ t \notin Gens /\ mine[t] \in Gens /\ t # active
  BY GenFacts, SupervisorAssumption DEF Handshake, SInv, STypeOK, ThreadInv, Away, NoGen
<1>2. pc[t] \notin Releasing /\ pc[t] \notin Owning /\ dropped' \in BOOLEAN
  BY DEF Handshake, Releasing, Owning, SInv, STypeOK
<1>3. CASE active = mine[t] /\ Take(t, mine[t]) /\ Goto(t, "close")
  BY <1>1, <1>2, <1>3, TakeInv DEF Handshake
<1>4. CASE /\ active # mine[t] \/ conn[mine[t]] = "ready"
           /\ Return(t) /\ UNCHANGED <<active, held, cleanups>>
  BY <1>1, <1>4, ReturnInv DEF Handshake
<1> QED
  BY <1>3, <1>4 DEF Handshake, HandshakeError, GiveUpStart, Release

\* A cleanup is registered with the active generation.
LEMMA RegisterCleanupInv ==
  ASSUME SInv, NEW g \in Gens, RegisterCleanup(g)
  PROVE  SInv'
<1> USE GenFacts DEF RegisterCleanup, Registrable, threadVars, Goto
<1>1. STypeOK'
  <2>1. registered[g] = ran[g] + cleanups[g]
    BY DEF SInv, OwnerInv, CountInv
  <2>2. /\ registered[g] \in 0..MaxCleanups /\ ran[g] \in 0..MaxCleanups
        /\ cleanups[g] \in 0..MaxCleanups
    BY DEF SInv, STypeOK
  <2>3. registered[g] + 1 \in 0..MaxCleanups /\ cleanups[g] + 1 \in 0..MaxCleanups
    BY <2>1, <2>2, SupervisorAssumption
  <2> QED
    BY <2>3 DEF SInv, STypeOK
<1>2. ASSUME NEW u \in Threads PROVE ThreadInv(u)'
  BY DEF SInv, STypeOK, ThreadInv, OwnerInv, ActiveInv, FreshInv, Owns, Owning, Away, Releasing, Live
<1>3. ASSUME NEW h \in Gens PROVE FreshInv(h)'
  BY DEF SInv, STypeOK, ThreadInv, FreshInv, Owning, Away, Releasing
<1>4. ASSUME NEW h \in Gens PROVE OwnerInv(h)'
  BY DEF SInv, STypeOK, ThreadInv, OwnerInv, FreshInv, Owns, Owning, Away, Releasing
<1>5. ASSUME NEW h \in Gens PROVE ActiveInv(h)'
  BY DEF SInv, STypeOK, ThreadInv, OwnerInv, ActiveInv, Owns, Owning, Away, Releasing, Live
<1>6. ASSUME NEW h \in Gens PROVE CountInv(h)'
  BY DEF SInv, STypeOK, ThreadInv, OwnerInv, CountInv, FreshInv, Owns, Owning, Away, Releasing
<1> QED
  BY <1>1, <1>2, <1>3, <1>4, <1>5, <1>6 DEF SInv

\* shutdown takes the active generation.
LEMMA ShutdownInv ==
  ASSUME SInv, NEW t \in Callers, Shutdown(t)
  PROVE  SInv'
<1>1. active \in Gens /\ t \in Threads /\ t \notin Gens
  BY GenFacts DEF Shutdown, SInv, STypeOK
<1>2. pc[t] \notin Releasing /\ pc[t] \notin Owning
  BY DEF Shutdown, Releasing, Owning
<1>3. dropped' \in BOOLEAN
  BY DEF Shutdown, SInv, STypeOK
<1> QED
  BY <1>1, <1>2, <1>3, TakeInv DEF Shutdown

\* The wait for the exit ends.
LEMMA WaitedForExitInv ==
  ASSUME SInv, NEW t \in Threads, WaitedForExit(t)
  PROVE  SInv'
<1> USE GenFacts DEF WaitedForExit, Goto
<1>1. STypeOK'
  BY SupervisorAssumption DEF SInv, STypeOK, ThreadInv, Live, Starting, Releasing, Away
<1>2. ASSUME NEW u \in Threads PROVE ThreadInv(u)'
  BY DEF SInv, STypeOK, ThreadInv, OwnerInv, ActiveInv, FreshInv, Owns, Owning, Away, Releasing, Live
<1>3. ASSUME NEW h \in Gens PROVE FreshInv(h)'
  BY DEF SInv, STypeOK, ThreadInv, FreshInv, Owning, Away, Releasing
<1>4. ASSUME NEW h \in Gens PROVE OwnerInv(h)'
  BY DEF SInv, STypeOK, ThreadInv, OwnerInv, FreshInv, Owns, Owning, Away, Releasing
<1>5. ASSUME NEW h \in Gens PROVE ActiveInv(h)'
  BY DEF SInv, STypeOK, ThreadInv, OwnerInv, ActiveInv, Owns, Owning, Away, Releasing, Live
<1>6. ASSUME NEW h \in Gens PROVE CountInv(h)'
  BY DEF SInv, STypeOK, ThreadInv, OwnerInv, CountInv, FreshInv, Owns, Owning, Away, Releasing
<1> QED
  BY <1>1, <1>2, <1>3, <1>4, <1>5, <1>6 DEF SInv

\* Drop takes the active generation.
LEMMA DropInv ==
  ASSUME SInv, NEW t \in Callers, Drop(t)
  PROVE  SInv'
<1>1. t \in Threads /\ t \notin Gens /\ dropped' \in BOOLEAN
  BY GenFacts DEF Drop
<1>2. CASE active # NoGen
  <2>1. active \in Gens /\ pc[t] \notin Releasing /\ pc[t] \notin Owning
    BY <1>2 DEF Drop, SInv, STypeOK, Releasing, Owning
  <2> QED
    BY <1>1, <1>2, <2>1, TakeInv DEF Drop
<1>3. CASE active = NoGen
  <2>1. /\ dropped' = TRUE
        /\ UNCHANGED <<nextGen, active, cleanups, child, conn, handler, pc, mine,
                       held, registered, ran>>
    BY <1>3, GenFacts DEF Drop, Take, Goto
  <2> QED
    BY <2>1 DEF SInv, STypeOK, ThreadInv, FreshInv, OwnerInv, ActiveInv, CountInv, Owns
<1> QED
  BY <1>2, <1>3

\* The host answers hello.
LEMMA HostReadyInv ==
  ASSUME SInv, NEW g \in Gens, HostReady(g)
  PROVE  SInv'
<1> USE GenFacts DEF HostReady, threadVars, Goto
<1>1. STypeOK'
  BY SupervisorAssumption DEF SInv, STypeOK, ThreadInv, Live, Starting, Releasing, Away
<1>2. ASSUME NEW u \in Threads PROVE ThreadInv(u)'
  BY DEF SInv, STypeOK, ThreadInv, OwnerInv, ActiveInv, FreshInv, Owns, Owning, Away, Releasing, Live
<1>3. ASSUME NEW h \in Gens PROVE FreshInv(h)'
  BY DEF SInv, STypeOK, ThreadInv, FreshInv, Owning, Away, Releasing
<1>4. ASSUME NEW h \in Gens PROVE OwnerInv(h)'
  BY DEF SInv, STypeOK, ThreadInv, OwnerInv, FreshInv, Owns, Owning, Away, Releasing
<1>5. ASSUME NEW h \in Gens PROVE ActiveInv(h)'
  BY DEF SInv, STypeOK, ThreadInv, OwnerInv, ActiveInv, Owns, Owning, Away, Releasing, Live
<1>6. ASSUME NEW h \in Gens PROVE CountInv(h)'
  BY DEF SInv, STypeOK, ThreadInv, OwnerInv, CountInv, FreshInv, Owns, Owning, Away, Releasing
<1> QED
  BY <1>1, <1>2, <1>3, <1>4, <1>5, <1>6 DEF SInv

\* The host is gone.
LEMMA HostExitsInv ==
  ASSUME SInv, NEW g \in Gens, HostExits(g)
  PROVE  SInv'
<1> USE GenFacts DEF HostExits, threadVars, Goto
<1>1. STypeOK'
  BY SupervisorAssumption DEF SInv, STypeOK, ThreadInv, Live, Starting, Releasing, Away
<1>2. ASSUME NEW u \in Threads PROVE ThreadInv(u)'
  BY DEF SInv, STypeOK, ThreadInv, OwnerInv, ActiveInv, FreshInv, Owns, Owning, Away, Releasing, Live
<1>3. ASSUME NEW h \in Gens PROVE FreshInv(h)'
  BY DEF SInv, STypeOK, ThreadInv, FreshInv, Owning, Away, Releasing
<1>4. ASSUME NEW h \in Gens PROVE OwnerInv(h)'
  BY DEF SInv, STypeOK, ThreadInv, OwnerInv, FreshInv, Owns, Owning, Away, Releasing
<1>5. ASSUME NEW h \in Gens PROVE ActiveInv(h)'
  BY DEF SInv, STypeOK, ThreadInv, OwnerInv, ActiveInv, Owns, Owning, Away, Releasing, Live
<1>6. ASSUME NEW h \in Gens PROVE CountInv(h)'
  BY DEF SInv, STypeOK, ThreadInv, OwnerInv, CountInv, FreshInv, Owns, Owning, Away, Releasing
<1> QED
  BY <1>1, <1>2, <1>3, <1>4, <1>5, <1>6 DEF SInv

\* A connection is lost, before or after its handler is there.
LEMMA DisconnectInv ==
  ASSUME SInv, NEW g \in Gens, Disconnect(g)
  PROVE  SInv'
<1> USE GenFacts
<1>1. /\ conn' = [conn EXCEPT ![g] = "disconnected"] /\ conn[g] \notin {"none", "disconnected"}
      /\ \/ handler[g] /\ pc' = [pc EXCEPT ![g] = "notify"]
         \/ ~handler[g] /\ pc' = pc
      /\ UNCHANGED <<nextGen, active, cleanups, child, handler, mine, held, dropped,
                     registered, ran>>
  BY DEF Disconnect, Goto, Live
<1>2. STypeOK'
  BY <1>1 DEF SInv, STypeOK
<1>3. pc[g] = "idle" /\ ThreadInv(g)
  BY <1>1 DEF SInv, ThreadInv
<1>4. /\ conn'[g] = "disconnected" /\ \A h \in Gens \ {g} : conn'[h] = conn[h]
      /\ \A u \in Threads \ {g} : pc'[u] = pc[u]
      /\ IF handler[g] THEN pc'[g] = "notify" ELSE pc'[g] = "idle"
  BY <1>1, <1>3 DEF SInv, STypeOK
<1>5. ASSUME NEW u \in Threads PROVE ThreadInv(u)'
  <2>1. CASE u = g
    BY <1>1, <1>3, <1>4, <2>1 DEF ThreadInv, Owning, Away, Releasing
  <2>2. CASE u # g
    BY <1>1, <1>4, <2>2 DEF SInv, ThreadInv, Owning, Away, Releasing
  <2> QED
    BY <2>1, <2>2
<1>6. ASSUME NEW h \in Gens, NEW u \in Threads PROVE Owns(u, h)' <=> Owns(u, h)
  BY <1>1, <1>3, <1>4 DEF Owns, Owning
<1>7. ASSUME NEW h \in Gens PROVE FreshInv(h)' /\ OwnerInv(h)' /\ CountInv(h)'
  BY <1>1, <1>4, <1>6 DEF SInv, FreshInv, OwnerInv, CountInv
<1>8. ASSUME NEW h \in Gens PROVE ActiveInv(h)'
  BY <1>1, <1>4 DEF SInv, ActiveInv
<1> QED
  BY <1>2, <1>5, <1>7, <1>8 DEF SInv

\* The disconnect handler runs.
LEMMA NotifyInv ==
  ASSUME SInv, NEW g \in Gens, Notify(g)
  PROVE  SInv'
<1>1. /\ g \in Threads /\ pc[g] = "notify" /\ conn[g] = "disconnected" /\ mine[g] = NoGen
      /\ dropped' \in BOOLEAN
  BY GenFacts DEF Notify, SInv, STypeOK, ThreadInv, Away
<1>2. CASE active = g /\ Take(g, g) /\ Goto(g, "close")
  BY <1>1, <1>2, TakeInv DEF Notify, Releasing, Owning
<1>3. CASE active # g /\ Return(g) /\ UNCHANGED <<active, held, cleanups>>
  <2>1. ~(mine[g] = active /\ active \in Gens)
    BY <1>1, GenFacts
  <2> QED
    BY <1>1, <1>3, <2>1, ReturnInv DEF Notify
<1> QED
  BY <1>2, <1>3 DEF Notify, Release

\* Every step of the supervisor preserves the invariant.
LEMMA StepSInv == SInv /\ [SNext]_svars => SInv'
<1> SUFFICES ASSUME SInv, [SNext]_svars PROVE SInv'
  OBVIOUS
<1>1. ASSUME NEW t \in Callers,
             StartCheck(t) \/ Spawn(t) \/ StartStep(t) \/ Shutdown(t) \/ Drop(t)
      PROVE  SInv'
  BY <1>1, StartCheckInv, SpawnInv, AttachInv, InstallInv, StoreInv, HandshakeInv,
     ShutdownInv, DropInv DEF StartStep
<1>2. ASSUME NEW t \in Threads, ReleaseStep(t) PROVE SInv'
  BY <1>2, WaitedForExitInv, CloseInv, TerminateInv, RunCleanupInv, ReleasedInv,
     NotifyInv DEF ReleaseStep
<1>3. ASSUME NEW g \in Gens,
             RegisterCleanup(g) \/ HostReady(g) \/ HostExits(g) \/ Disconnect(g)
      PROVE  SInv'
  BY <1>3, RegisterCleanupInv, HostReadyInv, HostExitsInv, DisconnectInv
<1>4. CASE UNCHANGED svars
  BY <1>4 DEF svars, threadVars, SInv, STypeOK, ThreadInv, FreshInv, OwnerInv,
     ActiveInv, CountInv, Owns
<1> QED
  BY <1>1, <1>2, <1>3, <1>4 DEF SNext

-----------------------------------------------------------------------------
(***************************************************************************)
(* The plugin handle.                                                      *)
(***************************************************************************)
\* A host that is not ready has no plugin and no handle; the flag of the
\* handle tells what a ready host has.
HandleInv(g) ==
  /\ conn[g] \in {"none", "handshaking"} => loaded[g] = "no" /\ hGen # g
  /\ child[g] = "running" /\ conn[g] = "ready" /\ loaded[g] # "unknown" =>
       (loaded[g] = "yes" <=> hGen = g /\ hActive)

LInv == SInv /\ LTypeOK /\ \A g \in Gens : HandleInv(g)

\* A connection becomes ready once, and only with its process running.
LEMMA ConnStep ==
  ASSUME SInv, SNext, NEW g \in Gens
  PROVE  /\ conn'[g] = "ready" => conn[g] \in {"handshaking", "ready"}
         /\ conn'[g] \in {"none", "handshaking"} => conn[g] \in {"none", "handshaking"}
         /\ child'[g] = "running" /\ conn'[g] = "ready" => child[g] = "running"
<1> USE GenFacts
<1>1. ASSUME NEW t \in Callers, StartCheck(t) \/ Install(t) \/ Store(t) \/ Handshake(t)
                                \/ Shutdown(t) \/ Drop(t)
      PROVE  UNCHANGED <<child, conn>>
  BY <1>1 DEF StartCheck, Install, Store, Handshake, Shutdown, Drop
<1>2. ASSUME NEW t \in Callers, Spawn(t)
      PROVE  /\ UNCHANGED conn
             /\ child'[g] = "running" => child[g] = "running" \/ conn[g] = "none"
  <2>1. nextGen \in Gens /\ nextGen >= nextGen
    BY <1>2 DEF Spawn, SInv, STypeOK
  <2> QED
    BY <1>2, <2>1 DEF Spawn, SInv, STypeOK, FreshInv
<1>3. ASSUME NEW t \in Callers, Attach(t)
      PROVE  /\ child'[g] = "running" => child[g] = "running"
             /\ conn'[g] = conn[g] \/ (conn[g] = "none" /\ conn'[g] = "handshaking")
  BY <1>3 DEF Attach, SInv, STypeOK, ThreadInv, Away
<1>4. ASSUME NEW t \in Threads, ReleaseStep(t)
      PROVE  /\ child'[g] = "running" => child[g] = "running"
             /\ conn'[g] = conn[g] \/ conn'[g] = "disconnected"
  BY <1>4 DEF ReleaseStep, WaitedForExit, Close, Terminate, RunCleanup, Released,
     Notify, SInv, STypeOK, ThreadInv, Away
<1>5. ASSUME NEW h \in Gens,
             RegisterCleanup(h) \/ HostReady(h) \/ HostExits(h) \/ Disconnect(h)
      PROVE  /\ child'[g] = "running" => child[g] = "running"
             /\ \/ conn'[g] = conn[g] \/ conn'[g] = "disconnected"
                \/ conn[g] = "handshaking" /\ conn'[g] = "ready"
  BY <1>5 DEF RegisterCleanup, HostReady, HostExits, Disconnect, SInv, STypeOK
<1> QED
  BY <1>1, <1>2, <1>3, <1>4, <1>5 DEF SNext, StartStep

\* The initial state satisfies the invariant of the handle.
LEMMA InitLInv == LInit => LInv
<1> SUFFICES ASSUME LInit PROVE LInv
  OBVIOUS
<1>1. SInv
  BY InitSInv DEF LInit
<1> QED
  BY <1>1, GenFacts DEF LInit, LInv, LTypeOK, SInv, HandleInv

\* What the supervisor does, seen from the handle
LEMMA SupervisorStepInv ==
  ASSUME LInv, SupervisorStep
  PROVE  LInv'
<1>1. SInv'
  BY StepSInv DEF LInv, SupervisorStep
<1>2. LTypeOK'
  BY <1>1 DEF LInv, LTypeOK, SInv, SupervisorStep
<1>3. ASSUME NEW g \in Gens PROVE HandleInv(g)'
  <2>1. /\ loaded'[g] = IF child'[g] = "running" THEN loaded[g] ELSE "no"
        /\ UNCHANGED <<hGen, hActive>>
    BY DEF SupervisorStep
  <2>2. SInv /\ SNext /\ HandleInv(g)
    BY DEF LInv, SupervisorStep
  <2> QED
    BY <2>1, <2>2, ConnStep DEF HandleInv
<1> QED
  BY <1>1, <1>2, <1>3 DEF LInv

\* The operations of the handle
LEMMA HandleStepInv ==
  ASSUME LInv,
         \/ \E g \in Gens : Instantiate(g)
         \/ \E a \in Answers : Activate(a) \/ Update(a) \/ DisposeHandle(a)
         \/ DropHandle
  PROVE  LInv'
<1> USE GenFacts
<1>1. UNCHANGED svars
  BY DEF Instantiate, Activate, Update, DisposeHandle, DropHandle
<1>2. SInv' /\ STypeOK'
  BY <1>1, StepSInv DEF LInv, SInv
<1>3. UNCHANGED <<conn, child>>
  BY <1>1 DEF svars
<1>4. CASE \E g \in Gens : Instantiate(g)
  BY <1>2, <1>3, <1>4 DEF Instantiate, LInv, LTypeOK, HandleInv
<1>5. ASSUME NEW a \in Answers, Activate(a) PROVE LInv'
  <2>1. /\ hGen \in Gens /\ ~hActive /\ UNCHANGED hGen
        /\ hActive' \in BOOLEAN /\ (hActive' <=> a = "ok")
    BY <1>5 DEF Activate, Connected, LInv, LTypeOK
  <2>2. /\ loaded' \in [Gens -> {"no", "yes", "unknown"}]
        /\ \A g \in Gens \ {hGen} : loaded'[g] = loaded[g]
        /\ loaded'[hGen] = IF a = "timeout" \/ loaded[hGen] = "unknown" THEN "unknown"
                           ELSE IF a = "ok" THEN "yes" ELSE loaded[hGen]
    BY <1>5, <2>1 DEF Activate, Outcome, LInv, LTypeOK, Answers
  <2>3. ASSUME NEW g \in Gens PROVE HandleInv(g)'
    <3>1. HandleInv(g)
      BY DEF LInv
    <3>2. CASE g = hGen
      <4>1. conn[g] = "ready" /\ child[g] = "running"
        BY <1>5, <3>2 DEF Activate, Connected
      <4> QED
        BY <1>3, <2>1, <2>2, <3>1, <3>2, <4>1 DEF HandleInv, Answers
    <3>3. CASE g # hGen
      BY <1>3, <2>1, <2>2, <3>1, <3>3 DEF HandleInv
    <3> QED
      BY <3>2, <3>3
  <2> QED
    BY <1>2, <2>1, <2>2, <2>3 DEF LInv, LTypeOK
<1>6. ASSUME NEW a \in Answers, Update(a) PROVE LInv'
  BY <1>2, <1>3, <1>6 DEF Update, Connected, Outcome, Answers, LInv, LTypeOK, HandleInv
<1>7. ASSUME NEW a \in Answers, DisposeHandle(a) PROVE LInv'
  BY <1>2, <1>3, <1>7 DEF DisposeHandle, ActiveAfterDispose, Connected, Outcome,
     Answers, LInv, LTypeOK, HandleInv
<1>8. CASE DropHandle
  BY <1>2, <1>3, <1>8 DEF DropHandle, LInv, LTypeOK, HandleInv
<1> QED
  BY <1>4, <1>5, <1>6, <1>7, <1>8

\* Every step preserves the invariant.
LEMMA StepLInv == LInv /\ [LNext]_lvars => LInv'
<1> SUFFICES ASSUME LInv, [LNext]_lvars PROVE LInv'
  OBVIOUS
<1>1. CASE SupervisorStep
  BY <1>1, SupervisorStepInv
<1>2. CASE UNCHANGED lvars
  <2>1. SInv'
    BY <1>2, StepSInv DEF lvars, LInv
  <2> QED
    BY <1>2, <2>1 DEF lvars, hvars, svars, SInv, LInv, LTypeOK, HandleInv
<1> QED
  BY <1>1, <1>2, HandleStepInv DEF LNext

-----------------------------------------------------------------------------
\* The invariant of the supervisor and of a plugin handle over it.
THEOREM SupervisorInvariance == LFairSpec => []LInv
  BY InitLInv, StepLInv, PTL DEF LFairSpec

\* No Node process is left behind or reaped by two threads, a lost host is
\* noticed, and the flag of a handle tells what its host has: start, shutdown,
\* drop, release_generation and the disconnect handler, in any interleaving.
THEOREM NothingLeftBehind == LFairSpec => []SupervisorInv
<1>1. ASSUME LInv PROVE SupervisorInv
  <2>1. ASSUME NEW g \in Gens
        PROVE  \A t \in Threads : t \in Keepers(g) <=> Owns(t, g)
    BY DEF Keepers, Owns, Owning, Starting, Releasing
  <2>2. ASSUME NEW g \in Gens
        PROVE  /\ Keepers(g) = {} \/ \E t \in Threads : Keepers(g) = {t}
               /\ active = g => Keepers(g) = {}
               /\ child[g] \in {"running", "exited"} /\ active # g => Keepers(g) # {}
    <3>1. Keepers(g) \subseteq Threads
      BY DEF Keepers
    <3>2. OwnerInv(g)
      BY <1>1 DEF LInv, SInv
    <3> QED
      BY <2>1, <3>1, <3>2 DEF OwnerInv
  <2>3. Cardinality({}) = 0 /\ \A t \in Threads : Cardinality({t}) = 1
    BY FS_EmptySet, FS_Singleton
  <2>4. NoProcessLeft
    BY <2>2, <2>3 DEF NoProcessLeft
  <2>5. LostIsNoticed
    BY <1>1 DEF LInv, SInv, STypeOK, ActiveInv, LostIsNoticed
  <2>6. HandleTracksHost
    BY <1>1 DEF LInv, HandleInv, HandleTracksHost
  <2> QED
    BY <1>1, <2>4, <2>5, <2>6 DEF SupervisorInv, LInv
<1> QED
  BY <1>1, SupervisorInvariance, PTL

\* The cleanups of a generation run once each, when its process is gone, and
\* none is lost between register_cleanup and the one who takes them.
THEOREM CleanupsAccountedFor == LFairSpec => []CleanupsRunOnce
<1>1. ASSUME LInv PROVE CleanupsRunOnce
  <2> SUFFICES ASSUME NEW g \in Gens
      PROVE  /\ ran[g] > 0 => child[g] = "reaped" /\ conn[g] = "disconnected"
             /\ LET k == {t \in Keepers(g) : held[t] > 0} IN
                  registered[g] = ran[g] + cleanups[g] +
                    (IF k = {} THEN 0 ELSE held[CHOOSE t \in k : TRUE])
    BY DEF CleanupsRunOnce
  <2> DEFINE k == {t \in Keepers(g) : held[t] > 0}
  <2>1. CountInv(g) /\ OwnerInv(g) /\ STypeOK
    BY <1>1 DEF LInv, SInv
  <2>2. \A t \in Threads : t \in Keepers(g) <=> Owns(t, g)
    BY DEF Keepers, Owns, Owning, Starting, Releasing
  <2>3. Keepers(g) \subseteq Threads
    BY DEF Keepers
  <2>4. CASE k = {}
    <3>1. \A t \in Threads : Owns(t, g) => held[t] = 0
      BY <2>1, <2>2, <2>4, SupervisorAssumption DEF STypeOK
    <3>2. registered[g] = ran[g] + cleanups[g]
      BY <2>1, <3>1 DEF CountInv, STypeOK
    <3> QED
      BY <2>1, <2>4, <3>2 DEF CountInv, STypeOK
  <2>5. CASE k # {}
    <3> DEFINE c == CHOOSE t \in k : TRUE
    <3>1. c \in k
      BY <2>5
    <3>2. c \in Threads /\ Owns(c, g)
      BY <2>2, <2>3, <3>1
    <3> QED
      BY <2>1, <2>5, <3>2 DEF CountInv
  <2> QED
    BY <2>4, <2>5
<1> QED
  BY <1>1, SupervisorInvariance, PTL
=============================================================================

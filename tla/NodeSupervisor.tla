--------------------------- MODULE NodeSupervisor ---------------------------
(***************************************************************************)
(* NodeSupervisor of crates/tessivum-node-bridge/src/supervisor.rs: the    *)
(* owner of the Node process of a profile.                                 *)
(*                                                                         *)
(* Every start makes a new generation: a child process, a client connected *)
(* to it, and the cleanups registered for it.  A generation is stored in   *)
(* `active' and released by whoever takes it out of there under the lock:  *)
(* the start whose handshake failed, shutdown, drop, or the disconnect     *)
(* handler that the client's own threads run.  The taker closes the        *)
(* client, terminates the child and runs the cleanups, in this order and   *)
(* without the lock.                                                       *)
(*                                                                         *)
(* Of the client only its connection state and its disconnect handler are  *)
(* kept; module BridgeClient has the rest.                                 *)
(***************************************************************************)
EXTENDS Naturals, FiniteSets

CONSTANTS
  Callers,      \* threads that use the supervisor
  MaxGen,       \* bound on the generations started
  MaxCleanups   \* bound on the cleanups registered for one generation

ASSUME SupervisorAssumption ==
  /\ MaxGen \in Nat \ {0} /\ MaxCleanups \in Nat
  /\ Callers \cap Nat = {}

Gens == 1..MaxGen
NoGen == 0
\* Thread g is the thread of client g that disconnects it.
Threads == Callers \cup Gens

VARIABLES
  nextGen,   \* next_generation
  active,    \* SupervisorState::active, by its generation
  cleanups,  \* SupervisorState::cleanups, how many for each generation
  child,     \* the child process of each generation
  conn,      \* the connection state of each client
  handler,   \* whether each client has its disconnect handler
  pc,        \* where each thread is
  mine,      \* the generation a thread works on
  held,      \* the cleanups a thread has taken and not yet run
  dropped,   \* whether the supervisor has been dropped
  registered, ran  \* history: cleanups registered and run

threadVars == <<pc, mine, held>>
svars == <<nextGen, active, cleanups, child, conn, handler, threadVars,
           dropped, registered, ran>>

SInit ==
  /\ nextGen = 1 /\ active = NoGen
  /\ cleanups = [g \in Gens |-> 0]
  /\ child = [g \in Gens |-> "none"]
  /\ conn = [g \in Gens |-> "none"]
  /\ handler = [g \in Gens |-> FALSE]
  /\ pc = [t \in Threads |-> "idle"]
  /\ mine = [t \in Threads |-> NoGen]
  /\ held = [t \in Threads |-> 0]
  /\ dropped = FALSE
  /\ registered = [g \in Gens |-> 0] /\ ran = [g \in Gens |-> 0]

Goto(t, where) == pc' = [pc EXCEPT ![t] = where]

\* A caller returns, with or without an error.
Return(t) ==
  /\ Goto(t, "idle")
  /\ mine' = [mine EXCEPT ![t] = NoGen]

Live == {"handshaking", "ready"}

-----------------------------------------------------------------------------
(***************************************************************************)
(* Taking a generation, and what the taker then does                       *)
(***************************************************************************)
\* Mutant: the cleanups are copied, not removed.
TakeCopy(t, g) ==
  /\ active' = NoGen
  /\ mine' = [mine EXCEPT ![t] = g]
  /\ held' = [held EXCEPT ![t] = cleanups[g]]
  /\ UNCHANGED cleanups

\* The process and its cleanups leave the state together.
Take(t, g) ==
  /\ active' = NoGen
  /\ mine' = [mine EXCEPT ![t] = g]
  /\ held' = [held EXCEPT ![t] = cleanups[g]]
  /\ cleanups' = [cleanups EXCEPT ![g] = 0]

\* release_generation: nothing, unless the generation is the active one
Release(t, g) ==
  \/ active = g /\ Take(t, g) /\ Goto(t, "close")
  \/ active # g /\ Return(t) /\ UNCHANGED <<active, held, cleanups>>

\* disconnect() of client g by thread t.  The handler it may call finds the
\* generation taken (t holds it) and does nothing.
Close(t) ==
  /\ pc[t] = "close"
  /\ conn' = [conn EXCEPT ![mine[t]] = "disconnected"]
  /\ Goto(t, "terminate")
  /\ UNCHANGED <<nextGen, active, cleanups, child, handler, mine, held,
                 dropped, registered, ran>>

\* terminate_process kills the process group and waits for the child.
Terminate(t) ==
  /\ pc[t] = "terminate"
  /\ child' = [child EXCEPT ![mine[t]] = "reaped"]
  /\ Goto(t, "cleanup")
  /\ UNCHANGED <<nextGen, active, cleanups, conn, handler, mine, held,
                 dropped, registered, ran>>

\* A panic is caught, so the next cleanup runs whatever this one does.
RunOne(t) ==
  /\ pc[t] = "cleanup" /\ held[t] > 0
  /\ held' = [held EXCEPT ![t] = @ - 1]
  /\ ran' = [ran EXCEPT ![mine[t]] = @ + 1]

RunCleanup(t) ==
  /\ RunOne(t)
  /\ UNCHANGED <<nextGen, active, cleanups, child, conn, handler, pc, mine,
                 dropped, registered>>

Released(t) ==
  /\ pc[t] = "cleanup" /\ held[t] = 0
  /\ Return(t)
  /\ UNCHANGED <<nextGen, active, cleanups, child, conn, handler, held,
                 dropped, registered, ran>>

-----------------------------------------------------------------------------
(***************************************************************************)
(* start                                                                   *)
(***************************************************************************)
\* The profile has no active host (else start returns an error).
StartCheck(t) ==
  /\ pc[t] = "idle" /\ ~dropped /\ active = NoGen /\ nextGen <= MaxGen
  /\ Goto(t, "spawn")
  /\ UNCHANGED <<nextGen, active, cleanups, child, conn, handler, mine, held, dropped, registered, ran>>

\* A generation is used up, whether or not the program is found and spawned.
Spawn(t) ==
  /\ pc[t] = "spawn" /\ nextGen <= MaxGen
  /\ nextGen' = nextGen + 1
  /\ \/ /\ child' = [child EXCEPT ![nextGen] = "running"]
        /\ mine' = [mine EXCEPT ![t] = nextGen]
        /\ Goto(t, "attach")
     \/ Return(t) /\ UNCHANGED child
  /\ UNCHANGED <<active, cleanups, conn, handler, held, dropped,
                 registered, ran>>

\* ProcessTree::attach, the pipes and from_io: each failure terminates the
\* child before it returns.
Attach(t) ==
  /\ pc[t] = "attach"
  /\ \/ /\ conn' = [conn EXCEPT ![mine[t]] = "handshaking"]
        /\ Goto(t, "install") /\ UNCHANGED <<child, mine>>
     \/ /\ child' = [child EXCEPT ![mine[t]] = "reaped"]
        /\ Return(t) /\ UNCHANGED conn
  /\ UNCHANGED <<nextGen, active, cleanups, handler, held, dropped,
                 registered, ran>>

\* set_disconnect_handler.  A connection that is lost before this step has
\* called no handler.  If set_disconnect_handler has seen the loss it runs the
\* handler itself, which finds that the generation is not stored yet and
\* releases nothing; if it has not (it reads the state, then installs), nobody
\* runs it.
Install(t) ==
  /\ pc[t] = "install"
  /\ handler' = [handler EXCEPT ![mine[t]] = TRUE]
  /\ Goto(t, "store")
  /\ UNCHANGED <<nextGen, active, cleanups, child, conn, mine, held, dropped,
                 registered, ran>>

\* Mutant: the second check is forgotten, the later start overwrites.
StoreOver(t) == active' = mine[t] /\ Goto(t, "handshake")

\* The first of two concurrent starts wins; the other one keeps its child.
StoreFirst(t) ==
  \/ active = NoGen /\ active' = mine[t] /\ Goto(t, "handshake")
  \/ active # NoGen /\ UNCHANGED active /\ Goto(t, "close")

Store(t) ==
  /\ pc[t] = "store"
  /\ StoreFirst(t)
  /\ UNCHANGED <<nextGen, cleanups, child, conn, handler, mine, held,
                 dropped, registered, ran>>

\* Mutant: the handshake only looks at the clock.
GivenUpAtTimeout(t) == conn[mine[t]] = "handshaking"

\* The handshake ends in an error: the connection is lost, or it is not ready
\* in time.
HandshakeError(t) == conn[mine[t]] # "ready"

\* A failed handshake releases the generation, whoever else may.
GiveUpStart(t) == Release(t, mine[t])

Handshake(t) ==
  /\ pc[t] = "handshake"
  /\ \/ HandshakeError(t) /\ GiveUpStart(t)
     \/ conn[mine[t]] = "ready" /\ Return(t) /\ UNCHANGED <<active, held, cleanups>>
  /\ UNCHANGED <<nextGen, child, conn, handler, dropped, registered, ran>>

-----------------------------------------------------------------------------
(***************************************************************************)
(* register_cleanup, shutdown and drop                                     *)
(***************************************************************************)
\* The generation is the active one and its connection stands.
Registrable(g) == active = g /\ conn[g] \in Live

RegisterCleanup(g) ==
  /\ ~dropped /\ registered[g] < MaxCleanups
  /\ Registrable(g)
  /\ cleanups' = [cleanups EXCEPT ![g] = @ + 1]
  /\ registered' = [registered EXCEPT ![g] = @ + 1]
  /\ UNCHANGED <<nextGen, active, child, conn, handler, threadVars, dropped,
                 ran>>

\* The exit request is sent and the child waited for without the lock.
Shutdown(t) ==
  /\ pc[t] = "idle" /\ t \in Callers /\ ~dropped /\ active # NoGen
  /\ Take(t, active)
  /\ Goto(t, "exit")
  /\ UNCHANGED <<nextGen, child, conn, handler, dropped, registered, ran>>

\* The child has exited, the deadline has passed, or it cannot be waited for:
\* the rest is the same.
WaitedForExit(t) ==
  /\ pc[t] = "exit"
  /\ Goto(t, "close")
  /\ UNCHANGED <<nextGen, active, cleanups, child, conn, handler, mine, held, dropped, registered, ran>>

\* Nobody else uses the supervisor when it is dropped.
Drop(t) ==
  /\ ~dropped /\ \A c \in Callers : pc[c] = "idle"
  /\ dropped' = TRUE
  /\ \/ active # NoGen /\ Take(t, active) /\ Goto(t, "close")
     \/ active = NoGen /\ UNCHANGED <<active, mine, held, cleanups, pc>>
  /\ UNCHANGED <<nextGen, child, conn, handler, registered, ran>>

-----------------------------------------------------------------------------
(***************************************************************************)
(* The host and the client's own threads                                   *)
(***************************************************************************)
\* The host is ready.  (Ours says so when it is greeted; the client takes it at
\* any time of the handshake.)
HostReady(g) ==
  /\ conn[g] = "handshaking" /\ child[g] = "running"
  /\ conn' = [conn EXCEPT ![g] = "ready"]
  /\ UNCHANGED <<nextGen, active, cleanups, child, handler, threadVars,
                 dropped, registered, ran>>

\* The host shuts down, gives up after a fault, or crashes.
HostExits(g) ==
  /\ child[g] = "running"
  /\ child' = [child EXCEPT ![g] = "exited"]
  /\ UNCHANGED <<nextGen, active, cleanups, conn, handler, threadVars, dropped,
                 registered, ran>>

\* disconnect() by the reader, the writer or the dispatcher.  The handler is
\* read with the state; it runs later.
Disconnect(g) ==
  /\ conn[g] \in Live
  /\ conn' = [conn EXCEPT ![g] = "disconnected"]
  /\ IF handler[g] THEN Goto(g, "notify") ELSE UNCHANGED pc
  /\ UNCHANGED <<nextGen, active, cleanups, child, handler, mine, held,
                 dropped, registered, ran>>

Notify(g) ==
  /\ pc[g] = "notify"
  /\ Release(g, g)
  /\ UNCHANGED <<nextGen, child, conn, handler, dropped, registered, ran>>

-----------------------------------------------------------------------------
StartStep(t) ==
  Attach(t) \/ Install(t) \/ Store(t) \/ Handshake(t)

ReleaseStep(t) ==
  \/ WaitedForExit(t) \/ Close(t) \/ Terminate(t) \/ RunCleanup(t)
  \/ Released(t) \/ (t \in Gens /\ Notify(t))

SNext ==
  \/ \E t \in Callers :
       StartCheck(t) \/ Spawn(t) \/ StartStep(t) \/ Shutdown(t) \/ Drop(t)
  \/ \E t \in Threads : ReleaseStep(t)
  \/ \E g \in Gens : RegisterCleanup(g) \/ HostReady(g) \/ HostExits(g) \/ Disconnect(g)

SSpec == SInit /\ [][SNext]_svars

\* Threads that can run do (a handshake and the wait for an exit end by their
\* timeout at the latest), and the end of a host's output is seen.
SFairness ==
  /\ \A t \in Callers : WF_svars(StartStep(t))
  /\ \A t \in Threads : WF_svars(ReleaseStep(t))
  /\ \A g \in Gens : WF_svars(child[g] # "running" /\ Disconnect(g))

SFairSpec == SSpec /\ SFairness

-----------------------------------------------------------------------------
Starting == {"attach", "install", "store", "handshake"}
Releasing == {"exit", "close", "terminate", "cleanup"}

\* Every variable has the type of the field it models.
STypeOK ==
  /\ nextGen \in 1..(MaxGen + 1)
  /\ active \in {NoGen} \cup Gens
  /\ cleanups \in [Gens -> 0..MaxCleanups]
  /\ child \in [Gens -> {"none", "running", "exited", "reaped"}]
  /\ conn \in [Gens -> Live \cup {"none", "disconnected"}]
  /\ handler \in [Gens -> BOOLEAN]
  /\ pc \in [Threads -> Starting \cup Releasing \cup {"idle", "spawn", "notify"}]
  /\ mine \in [Threads -> {NoGen} \cup Gens]
  /\ held \in [Threads -> 0..MaxCleanups]
  /\ dropped \in BOOLEAN
  /\ registered \in [Gens -> 0..MaxCleanups]
  /\ ran \in [Gens -> 0..MaxCleanups]

\* Whoever has to reap the child of g: the start that has not stored it, or
\* the thread that has taken it
Keepers(g) ==
  {t \in Threads : mine[t] = g /\ pc[t] \in (Starting \ {"handshake"}) \cup Releasing}

\* Concurrent starts, shutdowns, drops and disconnects never leave a Node
\* process behind: each one that is not reaped is the active one or has
\* exactly one thread that is about to reap it, never both.
NoProcessLeft ==
  \A g \in Gens :
    /\ child[g] \in {"running", "exited"} =>
         IF active = g THEN Keepers(g) = {} ELSE Cardinality(Keepers(g)) = 1
    /\ Cardinality(Keepers(g)) <= 1

\* A cleanup of a generation runs once, after the client is closed and the
\* process is gone; until then it is kept for the one who will run it.
CleanupsRunOnce ==
  \A g \in Gens :
    /\ ran[g] > 0 => child[g] = "reaped" /\ conn[g] = "disconnected"
    /\ LET k == {t \in Keepers(g) : held[t] > 0} IN
         registered[g] = ran[g] + cleanups[g] +
           (IF k = {} THEN 0 ELSE held[CHOOSE t \in k : TRUE])

\* The handler of a client that is lost while it is being installed is called
\* by nobody; still no lost generation stays active unnoticed: somebody is
\* about to release it.
LostIsNoticed ==
  active # NoGen /\ conn[active] = "disconnected" =>
    \/ pc[active] = "notify"
    \/ \E t \in Callers : mine[t] = active /\ pc[t] = "handshake"

\* A generation whose host has gone is released, its process reaped and all
\* its cleanups run, whoever is shutting down or starting meanwhile.
LostIsReleased ==
  \A g \in Gens :
    child[g] = "exited" ~>
      child[g] = "reaped" /\ active # g /\ ran[g] = registered[g]

=============================================================================

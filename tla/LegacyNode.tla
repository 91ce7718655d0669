----------------------------- MODULE LegacyNode -----------------------------
(***************************************************************************)
(* LegacyNodeRuntime and LegacyNodeHandle of                               *)
(* crates/tessivum-node-bridge/src/supervisor.rs: the loader's handle of a *)
(* plugin that runs in a supervised Node host.                             *)
(*                                                                         *)
(* The handle belongs to the client, that is to the generation, it was     *)
(* made with.  It believes its plugin active from the answer to            *)
(* plugin.load to the answer to plugin.dispose.  Its methods have it for   *)
(* themselves (&mut self), so a request is one step here; module           *)
(* BridgeClient has the steps of one.                                      *)
(***************************************************************************)
EXTENDS NodeSupervisor

VARIABLES
  hGen,      \* the generation of the handle's client, NoGen without a handle
  hActive,   \* LegacyNodeHandle::active
  loaded     \* whether each host has the plugin in its table

hvars == <<hGen, hActive, loaded>>
lvars == <<svars, hvars>>

LInit ==
  /\ SInit
  /\ hGen = NoGen /\ hActive = FALSE
  /\ loaded = [g \in Gens |-> "no"]

\* The runtime has a client that a start has returned; a shutdown may have begun.
Instantiate(g) ==
  /\ hGen = NoGen /\ conn[g] = "ready"
  /\ \A t \in Threads : mine[t] = g => pc[t] = "exit"
  /\ hGen' = g /\ hActive' = FALSE
  /\ UNCHANGED <<svars, loaded>>

\* A request without a connection fails at once and changes nothing.
Connected == hGen # NoGen /\ conn[hGen] = "ready" /\ child[hGen] = "running"

ActiveAfterDispose(ok) == ~ok

\* The request succeeds, the host refuses it, or it times out and the host
\* may or may not do it some time: from then on nothing is known.
Outcome(answer, done) ==
  loaded' = [loaded EXCEPT ![hGen] =
    IF answer = "timeout" \/ @ = "unknown" THEN "unknown"
    ELSE IF answer = "ok" THEN done ELSE @]

Answers == {"ok", "error", "timeout"}

\* activate does nothing on an active plugin.
Activate(answer) ==
  /\ Connected /\ ~hActive
  /\ Outcome(answer, "yes")
  /\ hActive' = (answer = "ok")
  /\ UNCHANGED <<svars, hGen>>

\* update refuses an inactive plugin; a failed one leaves it loaded.
Update(answer) ==
  /\ Connected /\ hActive
  /\ Outcome(answer, loaded[hGen])
  /\ UNCHANGED <<svars, hGen, hActive>>

\* dispose does nothing on an inactive plugin.
DisposeHandle(answer) ==
  /\ Connected /\ hActive
  /\ Outcome(answer, "no")
  /\ hActive' = ActiveAfterDispose(answer = "ok")
  /\ UNCHANGED <<svars, hGen>>

\* The loader drops a handle it has disposed of, or whose dispose fails
\* because the connection is gone.
DropHandle ==
  /\ hGen # NoGen
  /\ ~hActive \/ conn[hGen] = "disconnected"
  /\ hGen' = NoGen /\ hActive' = FALSE
  /\ UNCHANGED <<svars, loaded>>

\* What is in a host goes with its process.
SupervisorStep ==
  /\ SNext
  /\ loaded' = [g \in Gens |-> IF child'[g] = "running" THEN loaded[g] ELSE "no"]
  /\ UNCHANGED <<hGen, hActive>>

LNext ==
  \/ SupervisorStep
  \/ \E g \in Gens : Instantiate(g)
  \/ \E a \in Answers : Activate(a) \/ Update(a) \/ DisposeHandle(a)
  \/ DropHandle

LFairSpec == LInit /\ [][LNext]_lvars /\ SFairness

-----------------------------------------------------------------------------
\* Every variable has the type of the field it models.
LTypeOK ==
  /\ STypeOK
  /\ hGen \in {NoGen} \cup Gens /\ hActive \in BOOLEAN
  /\ loaded \in [Gens -> {"no", "yes", "unknown"}]

\* The flag of the handle is the only record Rust keeps of what runs in the
\* host.  As long as no request has timed out it is right: a plugin the handle
\* calls inactive, or has let go of, is not left running in a live host, and
\* one it calls active is there.
HandleTracksHost ==
  \A g \in Gens :
    child[g] = "running" /\ conn[g] = "ready" /\ loaded[g] # "unknown" =>
      (loaded[g] = "yes" <=> hGen = g /\ hActive)

\* Processes, generations and the plugin handle are accounted for.
SupervisorInv == LTypeOK /\ NoProcessLeft /\ LostIsNoticed /\ HandleTracksHost
=============================================================================

---------------------------- MODULE ManagedNative ----------------------------
(***************************************************************************)
(* A native plugin that the loader manages: NativeRuntimeHandle,           *)
(* ManagedControl, run_managed_native, DependencyGate and                  *)
(* NativePluginInstance of crates/tessivum-core/src/native.rs.             *)
(*                                                                         *)
(* A worker thread owns the plugin instance.  It takes dependency snapshots*)
(* from the control block and starts, updates or suspends the instance,    *)
(* each on a fiber of its own.  The registry's notifier writes snapshots   *)
(* into the control block; the owner of the handle polls for activation    *)
(* and, in the end, stops the worker and joins it.                         *)
(*                                                                         *)
(* The plugin requires one service.  Its provider comes, goes and is       *)
(* replaced; `avail' is its generation.  Providers are changed by one      *)
(* thread, which then notifies: module ServiceRegistry has several.        *)
(***************************************************************************)
EXTENDS Naturals, Sequences

CONSTANTS
  MaxChanges,  \* bound: how often the provider changes
  Faults       \* which steps of plugin code may fail

ASSUME ManagedAssumption ==
  /\ MaxChanges \in Nat
  /\ Faults \subseteq {"build", "config", "start", "commit", "stop", "cleanup"}

VARIABLES
  avail,      \* the registry: generation of the provider, 0 if there is none
  changes,    \* the registry: generations given out
  due,        \* the registry: a change was made and not yet announced
  letters,    \* callbacks the notifier has still to call
  activated, initialized, stopping, dirty,  \* fields of ManagedState
  snap,       \* ManagedState::snapshot: the generation in it, 0 if not ready
  phase,      \* ManagedState::phase
  token,      \* ManagedState::cancellation: the fiber it belongs to
  wpc,        \* where the worker is
  local,      \* the snapshot it works on
  active,     \* active_generations, 0 for None
  fibers,     \* the fibers of the plugin, in order of creation
  fib,        \* NativePluginInstance::fiber of the instance
  cand,       \* ... and of the candidate of an update, 0 if there is none
  gate,       \* the DependencyGate of the fiber that waits or will wait
  greeting,   \* the snapshot `subscribe' has read for its first call
  opc,        \* what the owner of the handle does
  tried       \* history: the generations a start or update was tried with

providerVars == <<avail, changes, due, letters>>
flagVars == <<activated, initialized, stopping, dirty>>
controlVars == <<flagVars, snap, phase, token>>
gateVars == <<gate, greeting>>
instVars == <<fibers, fib, cand, gateVars>>
workVars == <<wpc, local, active, tried>>
mvars == <<providerVars, controlVars, instVars, workVars, opc>>

\* A fiber with the start_attempted and stopped flags of its instance; the
\* result of its disposal, once published, stays.
NewFiber == [state |-> "Pending", cancelled |-> FALSE, attempted |-> FALSE,
             stops |-> 0, unclean |-> FALSE]

NoGate == [of |-> 0, ready |-> FALSE]

MInit ==
  /\ avail = 0 /\ changes = 0 /\ due = FALSE /\ letters = <<>>
  /\ activated = FALSE /\ initialized = FALSE
  /\ stopping = FALSE /\ dirty = FALSE
  /\ snap = 0 /\ phase = "Pending" /\ token = 1
  /\ wpc = "build" /\ local = 0 /\ active = 0 /\ tried = {}
  /\ fibers = <<NewFiber>> /\ fib = 1 /\ cand = 0 /\ gate = NoGate
  /\ greeting = 0
  /\ opc = "idle"

-----------------------------------------------------------------------------
\* Mutant: set_phase does not wake the activation future.
NoWake == opc

\* state.waker.take() and wake
WakeOwner == IF opc = "asleep" THEN "polling" ELSE opc

\* ManagedControl::set_phase
SetPhase(p) == phase' = p /\ opc' = WakeOwner

\* A pass of the worker ends.
EndPass(p) ==
  /\ SetPhase(p)
  /\ wpc' = "wait"

-----------------------------------------------------------------------------
(***************************************************************************)
(* The registry and its notifier                                           *)
(***************************************************************************)
Watching == wpc \notin {"build", "done"}

\* The provider appears, disappears or is replaced.
Change ==
  /\ ~due /\ letters = <<>> /\ changes < MaxChanges
  /\ changes' = changes + 1
  /\ avail' \in {0, changes + 1} \ {avail}
  /\ due' = TRUE
  /\ UNCHANGED <<letters, controlVars, instVars, workVars, opc>>

\* Registry::notify, in a critical section of its own: the callbacks of the
\* watcher and of the gate are prepared with the new snapshot.
Announce ==
  /\ due
  /\ due' = FALSE
  /\ letters' =
       (IF Watching THEN <<[to |-> 0, gen |-> avail]>> ELSE <<>>)
       \o (IF gate.of # 0 THEN <<[to |-> gate.of, gen |-> avail]>> ELSE <<>>)
  /\ UNCHANGED <<avail, changes, controlVars, instVars, workVars, opc>>

\* Mutant: a snapshot does not mark the control block dirty.
StaysClean == dirty

Dirtied == TRUE

\* ManagedControl::set_snapshot
SetSnapshot(g) ==
  /\ snap' = g
  /\ dirty' = Dirtied
  /\ opc' = WakeOwner

NotifyWatcher ==
  /\ letters # <<>> /\ Head(letters).to = 0
  /\ SetSnapshot(Head(letters).gen)
  /\ letters' = Tail(letters)
  /\ UNCHANGED <<avail, changes, due, activated, initialized, stopping, phase,
                 token, instVars, workVars>>

NotifyGate ==
  /\ letters # <<>> /\ Head(letters).to # 0
  /\ gate' = IF gate.of = Head(letters).to
             THEN [gate EXCEPT !.ready = Head(letters).gen # 0] ELSE gate
  /\ letters' = Tail(letters)
  /\ UNCHANGED <<avail, changes, due, controlVars, fibers, fib, cand, greeting,
                 workVars, opc>>

-----------------------------------------------------------------------------
(***************************************************************************)
(* The owner of the handle                                                 *)
(***************************************************************************)
\* ManagedControl::request_activation: only the first request is work.
Activate ==
  /\ opc = "idle"
  /\ activated' = TRUE
  /\ dirty' = (dirty \/ ~activated)
  /\ opc' = "polling"
  /\ UNCHANGED <<providerVars, initialized, stopping, snap, phase, token, instVars,
                 workVars>>

\* The cases of the activation future
Settled ==
  \/ stopping
  \/ phase = "Active" /\ ~dirty /\ snap # 0
  \/ phase = "Failed" /\ (~dirty \/ ~initialized)
  \/ phase = "Pending" /\ ~dirty /\ initialized /\ snap = 0

PollActivation ==
  /\ opc = "polling"
  /\ opc' = IF Settled THEN "idle" ELSE "asleep"
  /\ UNCHANGED <<providerVars, controlVars, instVars, workVars>>

DropActivation ==
  /\ opc \in {"polling", "asleep"}
  /\ opc' = "idle"
  /\ UNCHANGED <<providerVars, controlVars, instVars, workVars>>

\* NativeRuntimeHandle::dispose: ManagedControl::stop, ...
Stop ==
  /\ opc = "idle"
  /\ stopping' = TRUE /\ dirty' = TRUE
  /\ opc' = "stopping"
  /\ UNCHANGED <<providerVars, activated, initialized, snap, phase, token, instVars,
                 workVars>>

\* ... the cancellation of the token it returned, ...
CancelToken ==
  /\ opc = "stopping"
  /\ fibers' = [fibers EXCEPT ![token].cancelled = TRUE]
  /\ opc' = "joining"
  /\ UNCHANGED <<providerVars, controlVars, fib, cand, gateVars, workVars>>

\* ... and the join of the worker.
Joined ==
  /\ opc = "joining" /\ wpc = "done"
  /\ opc' = "disposed"
  /\ UNCHANGED <<providerVars, controlVars, instVars, workVars>>

-----------------------------------------------------------------------------
(***************************************************************************)
(* The worker: run_managed_native                                          *)
(***************************************************************************)
\* No runtime, or no watcher: the worker is over.
BuildFails ==
  /\ wpc = "build" /\ "build" \in Faults
  /\ SetPhase("Failed")
  /\ wpc' = "done"
  /\ UNCHANGED <<providerVars, flagVars, snap, token, instVars, local, active, tried>>

\* subscribe registers a listener, reads its first snapshot, and calls it
\* with what it has read: the last two with no lock in between.
ReadSnapshot ==
  /\ wpc \in {"watch", "subscribe"}
  /\ greeting' = avail
  /\ wpc' = IF wpc = "watch" THEN "greet" ELSE "signal"
  /\ UNCHANGED <<providerVars, controlVars, fibers, fib, cand, gate, local, active,
                 tried, opc>>

\* ManagedWatcher::new: the listener is registered, ...
Watch ==
  /\ wpc = "build"
  /\ wpc' = "watch"
  /\ UNCHANGED <<providerVars, controlVars, instVars, local, active, tried, opc>>

\* ... and called for the first time.
GreetWatcher ==
  /\ wpc = "greet"
  /\ SetSnapshot(greeting)
  /\ greeting' = 0
  /\ wpc' = "initialize"
  /\ UNCHANGED <<providerVars, activated, initialized, stopping, phase, token,
                 fibers, fib, cand, gate, local, active, tried>>

SetInitialized ==
  /\ wpc = "initialize"
  /\ initialized' = TRUE
  /\ opc' = WakeOwner
  /\ wpc' = "wait"
  /\ UNCHANGED <<providerVars, activated, stopping, dirty, snap, phase, token,
                 instVars, local, active, tried>>

\* ManagedControl::next_snapshot
NextSnapshot ==
  /\ wpc = "wait" /\ (stopping \/ (activated /\ dirty))
  /\ dirty' = FALSE
  /\ phase' = IF stopping THEN phase ELSE "Starting"
  /\ local' = snap
  /\ wpc' = IF stopping THEN "shutdown" ELSE "decide"
  /\ UNCHANGED <<providerVars, activated, initialized, stopping, snap, token,
                 instVars, active, tried, opc>>

Suspended(s) == s \notin {"Pending", "Active"}

\* Nothing to do: no provider and nothing started, or nothing has changed.
NothingToDo ==
  /\ wpc = "decide" /\ local = 0 /\ fibers[fib].state = "Pending"
  /\ active' = 0
  /\ EndPass("Pending")
  /\ UNCHANGED <<providerVars, flagVars, snap, token, instVars, local, tried>>

\* active_generations are the generations of the snapshot.
Bound == active = local

KeepActive ==
  /\ wpc = "decide" /\ local # 0 /\ fibers[fib].state = "Active" /\ Bound
  /\ EndPass("Active")
  /\ UNCHANGED <<providerVars, flagVars, snap, token, instVars, local, active, tried>>

\* NativePluginInstance::start, or update with a fresh candidate
Try ==
  /\ wpc = "decide" /\ local # 0
  /\ \/ fibers[fib].state = "Pending" /\ UNCHANGED <<fibers, cand>>
     \/ /\ fibers[fib].state = "Active" /\ ~Bound
        /\ fibers' = Append(fibers, NewFiber)
        /\ cand' = Len(fibers) + 1
  /\ tried' = tried \cup {local}
  /\ SetPhase("Starting")
  /\ wpc' = "gate"
  /\ UNCHANGED <<providerVars, flagVars, snap, token, fib, gateVars, local, active>>

\* resolved_config or validate_config of the update fails.
UpdateRefused ==
  /\ wpc = "decide" /\ local # 0 /\ fibers[fib].state = "Active" /\ ~Bound
  /\ "config" \in Faults
  /\ tried' = tried \cup {local}
  /\ EndPass("Failed")
  /\ UNCHANGED <<providerVars, flagVars, snap, token, instVars, local, active>>

-----------------------------------------------------------------------------
(***************************************************************************)
(* stop_current: stop_plugin, once per start attempt, then the disposal of *)
(* the fiber, whose result stays what it was.                              *)
(***************************************************************************)
StopsNow(f) == fibers[f].attempted /\ fibers[f].stops = 0

\* The fiber after it; `unclean': an effect of an active fiber failed
AfterStop(f, unclean) ==
  [fibers[f] EXCEPT
     !.state = "Disposed", !.cancelled = TRUE,
     !.stops = IF StopsNow(f) THEN @ + 1 ELSE @,
     !.unclean = @ \/ unclean]

MayBeUnclean(f) ==
  IF fibers[f].state = "Active" /\ "cleanup" \in Faults THEN BOOLEAN ELSE {FALSE}
MayFailToStop(f) ==
  IF StopsNow(f) /\ "stop" \in Faults THEN BOOLEAN ELSE {FALSE}

\* stop_current of f returns an error, or not.
StopCurrent(f, error) ==
  \E u \in MayBeUnclean(f), s \in MayFailToStop(f) :
    /\ fibers' = [fibers EXCEPT ![f] = AfterStop(f, u)]
    /\ error <=> (s \/ fibers'[f].unclean)

MustSuspend ==
  /\ wpc = "decide"
  /\ IF local = 0 THEN fibers[fib].state # "Pending"
                  ELSE Suspended(fibers[fib].state)

\* suspend fails: no new fiber ...
SuspendFails ==
  /\ MustSuspend
  /\ StopCurrent(fib, TRUE)
  /\ EndPass("Failed")
  /\ UNCHANGED <<providerVars, flagVars, snap, token, fib, cand, gateVars, local,
                 active, tried>>

\* ... or the instance continues on a new fiber.
Suspend ==
  /\ MustSuspend
  /\ \E u \in MayBeUnclean(fib), s \in MayFailToStop(fib) :
       /\ ~s /\ ~AfterStop(fib, u).unclean
       /\ fibers' = Append([fibers EXCEPT ![fib] = AfterStop(fib, u)], NewFiber)
  /\ fib' = Len(fibers) + 1
  /\ gate' = NoGate
  /\ wpc' = "publish"
  /\ UNCHANGED <<providerVars, controlVars, cand, greeting, local, active, tried, opc>>

\* Mutant: a token published after stop() is only stored.
PublishStored(f) == token' = f /\ UNCHANGED fibers

\* ManagedControl::set_cancellation
SetCancellation(f) ==
  IF stopping
  THEN fibers' = [fibers EXCEPT ![f].cancelled = TRUE] /\ UNCHANGED token
  ELSE token' = f /\ UNCHANGED fibers

PublishToken ==
  /\ wpc = "publish"
  /\ SetCancellation(fib)
  /\ IF local = 0
     THEN EndPass("Pending") /\ active' = 0
     ELSE wpc' = "decide" /\ UNCHANGED <<phase, opc, active>>
  /\ UNCHANGED <<providerVars, flagVars, snap, fib, cand, gateVars, local, tried>>

-----------------------------------------------------------------------------
(***************************************************************************)
(* start and start_after_update on the fiber `Starting'                    *)
(***************************************************************************)
Starting == IF cand # 0 THEN cand ELSE fib

\* wait_for_dependencies: the gate subscribes, unless it is there already.
GateSubscribe ==
  /\ wpc = "gate"
  /\ IF gate.of = Starting
     THEN wpc' = "check" /\ UNCHANGED gate
     ELSE wpc' = "subscribe" /\ gate' = [of |-> Starting, ready |-> FALSE]
  /\ UNCHANGED <<providerVars, controlVars, fibers, fib, cand, greeting, local, active,
                 tried, opc>>

\* The first call of its listener
GreetGate ==
  /\ wpc = "signal"
  /\ gate' = [gate EXCEPT !.ready = greeting # 0]
  /\ greeting' = 0
  /\ wpc' = "check"
  /\ UNCHANGED <<providerVars, controlVars, fibers, fib, cand, local, active, tried,
                 opc>>

\* DependencyGate::wait: the token of the instance, then the registry
GateCheck ==
  /\ wpc = "check" /\ ~fibers[fib].cancelled
  /\ wpc' = IF avail # 0 THEN "config" ELSE "blocked"
  /\ UNCHANGED <<providerVars, controlVars, instVars, local, active, tried, opc>>

\* ... then the signal
GateOpens ==
  /\ wpc = "blocked" /\ ~fibers[fib].cancelled /\ gate.ready
  /\ wpc' = "config"
  /\ UNCHANGED <<providerVars, controlVars, instVars, local, active, tried, opc>>

-----------------------------------------------------------------------------
\* The attempt fails: an instance keeps its fiber, a candidate is disposed.
Refuse ==
  IF cand # 0 THEN wpc' = "discard" /\ UNCHANGED <<phase, opc>>
              ELSE EndPass("Failed")

GateCancelled ==
  /\ wpc \in {"check", "blocked"} /\ fibers[fib].cancelled
  /\ Refuse
  /\ UNCHANGED <<providerVars, flagVars, snap, token, instVars, local, active, tried>>

\* The configuration cannot be evaluated or is not valid.
ConfigFails ==
  /\ wpc = "config" /\ "config" \in Faults
  /\ Refuse
  /\ UNCHANGED <<providerVars, flagVars, snap, token, instVars, local, active, tried>>

\* Fiber::start runs the hooks of the plugin.
StartHook ==
  /\ wpc = "config"
  /\ fibers' = [fibers EXCEPT ![Starting].attempted = TRUE]
  /\ wpc' = "hook"
  /\ UNCHANGED <<providerVars, controlVars, fib, cand, gateVars, local, active, tried,
                 opc>>

\* They fail: the fiber is rolled back and the plugin stopped.
HookFails ==
  /\ wpc = "hook" /\ "start" \in Faults
  /\ fibers' = [fibers EXCEPT ![Starting].state = "Failed",
                              ![Starting].cancelled = TRUE,
                              ![Starting].stops = @ + 1]
  /\ Refuse
  /\ UNCHANGED <<providerVars, flagVars, snap, token, fib, cand, gateVars, local,
                 active, tried>>

\* The start of an instance succeeds.
Started ==
  /\ wpc = "hook" /\ cand = 0
  /\ fibers' = [fibers EXCEPT ![fib].state = "Active"]
  /\ active' = local
  /\ EndPass("Active")
  /\ UNCHANGED <<providerVars, flagVars, snap, token, fib, cand, gateVars, local, tried>>

\* The start of a candidate succeeds.
CandidateStarted ==
  /\ wpc = "hook" /\ cand # 0
  /\ fibers' = [fibers EXCEPT ![cand].state = "Active"]
  /\ wpc' = "commit"
  /\ UNCHANGED <<providerVars, controlVars, fib, cand, gateVars, local, active, tried,
                 opc>>

\* commit_staged
CommitFails ==
  /\ wpc = "commit" /\ "commit" \in Faults
  /\ wpc' = "discard"
  /\ UNCHANGED <<providerVars, controlVars, instVars, local, active, tried, opc>>

CommitStaged ==
  /\ wpc = "commit"
  /\ wpc' = "retire"
  /\ UNCHANGED <<providerVars, controlVars, instVars, local, active, tried, opc>>

\* Mutant: a failed candidate is dropped, not disposed.
DropCandidate(unclean) == fibers[cand]

DisposeCandidate(unclean) == AfterStop(cand, unclean)

Discard ==
  /\ wpc = "discard"
  /\ \E u \in MayBeUnclean(cand) :
       fibers' = [fibers EXCEPT ![cand] = DisposeCandidate(u)]
  /\ cand' = 0
  /\ EndPass("Failed")
  /\ UNCHANGED <<providerVars, flagVars, snap, token, fib, gateVars, local, active,
                 tried>>

\* The old instance is stopped and the candidate takes its place, ...
Retire ==
  /\ wpc = "retire"
  /\ StopCurrent(fib, FALSE)
  /\ fib' = cand /\ cand' = 0
  /\ wpc' = "republish"
  /\ UNCHANGED <<providerVars, controlVars, gateVars, local, active, tried, opc>>

\* ... also when that fails, but then update returns the error.
RetireFails ==
  /\ wpc = "retire"
  /\ StopCurrent(fib, TRUE)
  /\ fib' = cand /\ cand' = 0
  /\ EndPass("Failed")
  /\ UNCHANGED <<providerVars, flagVars, snap, token, gateVars, local, active, tried>>

Updated ==
  /\ wpc = "republish"
  /\ SetCancellation(fib)
  /\ active' = local
  /\ EndPass("Active")
  /\ UNCHANGED <<providerVars, flagVars, snap, fib, cand, gateVars, local, tried>>

\* stopping: the instance is disposed, then the watcher.
Shutdown ==
  /\ wpc = "shutdown"
  /\ \E error \in BOOLEAN : StopCurrent(fib, error)
  /\ wpc' = "done"
  /\ UNCHANGED <<providerVars, controlVars, fib, cand, gateVars, local, active, tried,
                 opc>>

-----------------------------------------------------------------------------
Notifier == Announce \/ NotifyWatcher \/ NotifyGate

Owner == PollActivation \/ CancelToken \/ Joined

Worker ==
  \/ BuildFails \/ Watch \/ ReadSnapshot \/ GreetWatcher \/ SetInitialized
  \/ NextSnapshot
  \/ NothingToDo \/ KeepActive \/ Try \/ UpdateRefused
  \/ SuspendFails \/ Suspend \/ PublishToken
  \/ GateSubscribe \/ GreetGate \/ GateCheck \/ GateOpens \/ GateCancelled
  \/ ConfigFails \/ StartHook \/ HookFails \/ Started \/ CandidateStarted
  \/ CommitFails \/ CommitStaged \/ Discard \/ Retire \/ RetireFails \/ Updated
  \/ Shutdown

MNext ==
  \/ Change \/ Notifier \/ Worker
  \/ Owner \/ Activate \/ DropActivation \/ Stop

MSpec == MInit /\ [][MNext]_mvars

\* Threads that can run do, and plugin code returns.  Nothing is assumed of
\* the provider or of what the owner decides.
MFairSpec ==
  MSpec /\ WF_mvars(Notifier) /\ WF_mvars(Owner) /\ WF_mvars(Worker)

-----------------------------------------------------------------------------
WorkerStates ==
  {"build", "watch", "greet", "initialize", "wait", "decide", "publish", "gate",
   "subscribe", "signal", "check", "blocked", "config", "hook", "commit",
   "discard", "retire", "republish", "shutdown", "done"}
FiberRecords ==
  [state : {"Pending", "Active", "Failed", "Disposed"}, cancelled : BOOLEAN,
   attempted : BOOLEAN, stops : 0 .. 1, unclean : BOOLEAN]

\* Every variable has the type of the field it models, and stop is called at
\* most once for every fiber.
MTypeOK ==
  /\ avail \in 0 .. MaxChanges /\ changes \in 0 .. MaxChanges
  /\ due \in BOOLEAN /\ greeting \in 0 .. MaxChanges
  /\ letters \in Seq([to : 0 .. Len(fibers), gen : 0 .. MaxChanges])
  /\ activated \in BOOLEAN /\ initialized \in BOOLEAN
  /\ stopping \in BOOLEAN /\ dirty \in BOOLEAN
  /\ snap \in 0 .. MaxChanges
  /\ phase \in {"Pending", "Starting", "Active", "Failed"}
  /\ fibers \in Seq(FiberRecords)
  /\ fib \in DOMAIN fibers /\ token \in DOMAIN fibers
  /\ cand \in {0} \cup DOMAIN fibers
  /\ gate \in [of : {0} \cup DOMAIN fibers, ready : BOOLEAN]
  /\ wpc \in WorkerStates
  /\ local \in 0 .. MaxChanges /\ active \in 0 .. MaxChanges
  /\ opc \in {"idle", "polling", "asleep", "stopping", "joining", "disposed"}
  /\ tried \subseteq 1 .. MaxChanges

\* What activation() reports as Active is an instance that was started, or
\* updated, for the provider of the last snapshot: phase, dirty and snapshot
\* are written by two threads in any order.
ActiveMeansBound ==
  phase = "Active" /\ ~dirty /\ snap # 0 /\ ~stopping =>
    fibers[fib].state = "Active" /\ active = snap

\* The worker has nothing to do, and the control block shows the provider
\* that is there (a snapshot delivered late can hide it: module
\* ServiceRegistry).
Caught ==
  wpc = "wait" /\ activated /\ ~dirty /\ snap = avail

\* When the worker has caught up with a missing provider, the plugin does
\* not run, whatever failed on the way.
MissingMeansStopped == Caught /\ avail = 0 => fibers[fib].state # "Active"

\* Every fiber the worker has left behind is disposed, and its plugin was
\* stopped if its start was attempted; in the end that is all of them.
NoForgottenFiber ==
  \A f \in DOMAIN fibers :
    \/ f \in {fib, cand} /\ wpc # "done"
    \/ ~initialized
    \/ fibers[f].state = "Disposed" /\ (fibers[f].attempted => fibers[f].stops = 1)

\* A provider that is back reactivates its consumer: when the worker has
\* caught up, it has tried to start or to update the plugin with it.  The
\* exception is a fiber with a failed effect: its disposal reports the error
\* every time, so suspend never gets past it.
RestoreReactivates ==
  Caught /\ avail # 0 /\ ~fibers[fib].unclean => avail \in tried

\* The worker, its control block and its fibers agree, whatever failed.
ManagedInv ==
  /\ MTypeOK
  /\ ActiveMeansBound
  /\ MissingMeansStopped
  /\ NoForgottenFiber

Waiting == opc \in {"polling", "asleep"}

\* activation() settles, if the provider does not stay away: a worker in a
\* gate answers nobody.
ActivationSettles == <>[](avail # 0) => (Waiting ~> ~Waiting)

\* Disposal of the handle ends the worker, wherever the worker is, provided
\* that the control block has the token of the fiber the worker is at.
DisposalJoins == opc = "joining" /\ token = fib ~> opc = "disposed"

\* Disposal of the handle ends the worker.
DisposalAlwaysJoins == opc = "joining" ~> opc = "disposed"

=============================================================================

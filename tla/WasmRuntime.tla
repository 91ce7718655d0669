---------------------------- MODULE WasmRuntime -----------------------------
(***************************************************************************)
(* One Wasm plugin instance: WasmPluginInstance, WasmPluginRuntime,        *)
(* WasmRuntimeHandle, CapabilityRegistry and HostBindings of               *)
(* crates/tessivum-extism/src/lib.rs.                                      *)
(*                                                                         *)
(* The guest lives in a slot under a mutex.  A call takes it out, runs it  *)
(* without the mutex and puts it back; others sleep on a condition         *)
(* variable meanwhile.  `active' names the call that can be cancelled.     *)
(* stop flips `accepting', cancels the active call, waits for the guest,   *)
(* calls its stop export and drops it.                                     *)
(*                                                                         *)
(* An instance is used directly by several threads, or belongs to the      *)
(* loader's handle, which one thread uses; the handle has a lifecycle      *)
(* guard too.  The instance reserves an id that others may want.           *)
(***************************************************************************)
EXTENDS Naturals, FiniteSets

CONSTANTS
  Callers,   \* threads that use the instance
  MaxCalls,  \* bound on the calls of the guest
  Updates,   \* the configurations updates may bring
  FirstConfig,
  Sticky,    \* the engine keeps a cancellation for the next call
  Nobody     \* no thread

ASSUME WasmAssumption ==
  /\ MaxCalls \in Nat
  /\ Sticky \in BOOLEAN /\ Nobody \notin Callers

Calls == 1..MaxCalls
NoCall == 0

VARIABLES
  mode,       \* "direct" use, or through a "handle"
  life,       \* how far the instance is built or dropped
  holder,     \* INSTANCE_IDS: who has reserved the id
  guard,      \* WasmRuntimeHandle::guard
  activated,  \* WasmRuntimeHandle::activated
  accepting,  \* WasmPluginInstance::accepting
  alive,      \* HostBindings::alive
  lockedBy,   \* who holds the mutex of the state between two steps
  slot,       \* PluginState::guest is Some
  stopped,    \* PluginState::stopped
  config,     \* PluginState::config
  active,     \* WasmPluginInstance::active
  nextCall,   \* CallCancellation objects are numbered
  cancelled,  \* CallCancellation::cancelled
  interrupt,  \* external: the engine has been told to interrupt the guest
  gstopped,   \* external: the guest has run its stop export
  pc, op, call, ok   \* of each thread: where it is, what it does, on which call

instVars == <<accepting, alive, stopped, active, nextCall, cancelled>>
lifeVars == <<mode, life, holder, guard, activated>>
guestVars == <<interrupt, gstopped>>
threadVars == <<pc, call, op, ok>>
wvars == <<instVars, lifeVars, guestVars, threadVars, lockedBy, slot,
           config>>

WaInit ==
  /\ mode \in {"direct", "handle"}
  /\ life = "none" /\ holder = "free" /\ guard = "none" /\ activated = FALSE
  /\ accepting = FALSE /\ alive = FALSE
  /\ lockedBy = Nobody /\ slot = FALSE /\ stopped = FALSE
  /\ config = FirstConfig
  /\ active = NoCall /\ nextCall = 1
  /\ cancelled = [k \in Calls |-> FALSE]
  /\ interrupt = FALSE /\ gstopped = FALSE
  /\ pc = [t \in Callers |-> "idle"]
  /\ call = [t \in Callers |-> NoCall]
  /\ op = [t \in Callers |-> "none"]
  /\ ok = [t \in Callers |-> FALSE]

AfterCancel(t) == IF op[t] = "stop" THEN "stopEnter" ELSE "return"

IsUpdate(t) == op[t] \in Updates

Goto(t, where) == pc' = [pc EXCEPT ![t] = where]

\* guest_available.notify_all: a sleeper looks at the state again.
Awake == [t \in Callers |->
  IF pc[t] = "asleep" THEN "enter" ELSE IF pc[t] = "stopAsleep" THEN "stopEnter" ELSE pc[t]]

NotifyAll(t, where) == pc' = [Awake EXCEPT ![t] = where]

Idle == \A t \in Callers : pc[t] = "idle"

\* Through a handle there is only the one who has it.
May(t) == life = "live" /\ (mode = "direct" \/ \A u \in Callers \ {t} : pc[u] = "idle")

\* The thread returns to whoever called it.
Return(t) ==
  /\ pc[t] = "return"
  /\ Goto(t, "idle")
  /\ op' = [op EXCEPT ![t] = "none"]
  /\ call' = [call EXCEPT ![t] = NoCall]
  /\ ok' = [ok EXCEPT ![t] = FALSE]
  /\ UNCHANGED <<instVars, lifeVars, guestVars, lockedBy, slot, config>>

-----------------------------------------------------------------------------
(***************************************************************************)
(* The life of the instance: instantiate, Drop, and the ids                *)
(***************************************************************************)
Rest == <<accepting, alive, stopped, active, nextCall, cancelled, guestVars,
          threadVars, lockedBy, slot, config, mode>>

\* allocate_instance_id
Allocate ==
  /\ life = "none" /\ holder = "free"
  /\ holder' = "mine" /\ life' = "reserved"
  /\ UNCHANGED <<Rest, guard, activated>>

\* WasmLifecycleHook::install, which may fail
Install ==
  /\ life = "reserved" /\ mode = "handle"
  /\ \/ guard' = "installed" /\ life' = "hooked"
     \/ life' = "failed" /\ UNCHANGED guard
  /\ UNCHANGED <<Rest, holder, activated>>

Reserved == life = (IF mode = "handle" THEN "hooked" ELSE "reserved")

\* The manifest, the exports, the limits and the configuration are valid, and
\* the bindings are alive before the engine gets them.
Bind ==
  /\ Reserved
  /\ life' = "building" /\ alive' = TRUE
  /\ UNCHANGED <<accepting, stopped, active, nextCall, cancelled, guestVars,
                 threadVars, lockedBy, slot, config, mode, holder, guard, activated>>

\* The engine has made the guest.
Build ==
  /\ life = "building"
  /\ life' = "live" /\ accepting' = TRUE /\ slot' = TRUE
  /\ UNCHANGED <<alive, stopped, active, nextCall, cancelled, guestVars, threadVars,
                 lockedBy, config, mode, holder, guard, activated>>

\* Mutant: the error path forgets the guard.
GuardForgotten == "failed"

\* The error path revokes the guard first.
AfterBuildError == IF guard = "installed" THEN "dropped" ELSE "failed"

\* Something is not valid, or the engine fails, drops what it has made of the
\* guest, and leaves the bindings alive.
BuildFails ==
  /\ Reserved \/ life = "building"
  /\ life' = AfterBuildError
  /\ UNCHANGED <<Rest, holder, guard, activated>>

\* Mutant: only stop ends the bindings.
BindingsLeft == alive

\* revoke does nothing after a stop.
Revoked == alive /\ ~accepting

\* Drop of the handle, or of the instance: nobody uses it.
Drop ==
  /\ life = "live" /\ Idle
  /\ accepting' = FALSE
  /\ alive' = Revoked
  /\ life' = IF mode = "handle" THEN "dropped" ELSE "failed"
  /\ UNCHANGED <<stopped, active, nextCall, cancelled, guestVars, threadVars,
                 lockedBy, slot, config, mode, holder, guard, activated>>

RevokeGuard ==
  /\ life = "dropped"
  /\ guard' = "revoked" /\ life' = "failed"
  /\ UNCHANGED <<Rest, holder, activated>>

\* release_instance_id, at the end of the error path and of Drop::drop, ...
ReleaseId ==
  /\ life = "failed"
  /\ holder' = "free" /\ life' = "gone"
  /\ UNCHANGED <<Rest, guard, activated>>

\* ... whose fields are dropped only then, the guest among them.
DropGuest ==
  /\ life = "gone" /\ slot
  /\ slot' = FALSE
  /\ UNCHANGED <<instVars, lifeVars, guestVars, threadVars, lockedBy, config>>

\* reserve_instance_id by somebody else, for the same id
RivalReserves ==
  /\ holder = "free" /\ life = "gone"
  /\ holder' = "rival"
  /\ UNCHANGED <<Rest, life, guard, activated>>

-----------------------------------------------------------------------------
(***************************************************************************)
(* invoke: init, call, event and update                                    *)
(***************************************************************************)
\* An instance that does not accept refuses at once.
Invoke(t, what) ==
  /\ pc[t] = "idle" /\ May(t) /\ accepting /\ nextCall <= MaxCalls
  /\ mode = "handle" => what = "init" /\ ~activated
  /\ mode = "direct" => what # "init"
  /\ op' = [op EXCEPT ![t] = what]
  /\ call' = [call EXCEPT ![t] = nextCall] /\ nextCall' = nextCall + 1
  /\ Goto(t, "enter")
  /\ UNCHANGED <<accepting, alive, stopped, active, cancelled, lifeVars,
                 guestVars, ok, lockedBy, slot, config>>

MustSleep == accepting /\ ~stopped /\ ~slot

Sleep(t) ==
  /\ pc[t] = "enter" /\ lockedBy = Nobody /\ MustSleep
  /\ Goto(t, "asleep")
  /\ UNCHANGED <<instVars, lifeVars, guestVars, call, op, ok,
                 lockedBy, slot, config>>

EnterRefused(t) ==
  /\ pc[t] = "enter" /\ lockedBy = Nobody /\ ~MustSleep
  /\ ~accepting \/ stopped
  /\ Goto(t, "return")
  /\ UNCHANGED <<instVars, lifeVars, guestVars, call, op, ok,
                 lockedBy, slot, config>>

\* The guest is taken, ...
TakeGuest(t) ==
  /\ pc[t] = "enter" /\ lockedBy = Nobody
  /\ accepting /\ ~stopped /\ slot
  /\ slot' = FALSE /\ lockedBy' = t
  /\ Goto(t, "took")
  /\ UNCHANGED <<instVars, lifeVars, guestVars, call, op, ok, config>>

\* ... the call becomes the active one, ...
SetActive(t) ==
  /\ pc[t] = "took"
  /\ active' = call[t]
  /\ Goto(t, "recheck")
  /\ UNCHANGED <<accepting, alive, stopped, nextCall, cancelled, lifeVars,
                 guestVars, call, op, ok, lockedBy, slot, config>>

\* Mutant: accepting is not read again.
StillAccepted == TRUE

StillAccepting == accepting

\* ... and `accepting' is read again: a stop that came in between has not
\* seen the call.
Recheck(t) ==
  /\ pc[t] = "recheck"
  /\ lockedBy' = Nobody
  /\ \/ StillAccepting /\ Goto(t, "begin") /\ UNCHANGED <<slot, active>>
     \/ ~StillAccepting /\ slot' = TRUE /\ active' = NoCall /\ Goto(t, "notify")
  /\ UNCHANGED <<accepting, alive, stopped, nextCall, cancelled, lifeVars,
                 guestVars, call, op, ok, config>>

\* external: GuestInstance::call.  An engine that keeps cancellations fails
\* the call before it begins; the other forgets old ones.  A request beyond the
\* limits does not get there.
Begin(t) ==
  /\ pc[t] \in {"begin", "stopBegin"}
  /\ \E fits \in BOOLEAN :
       /\ interrupt' = (interrupt /\ ~fits)
       /\ Goto(t, IF (Sticky /\ interrupt) \/ ~fits
                  THEN (IF pc[t] = "begin" THEN "ended" ELSE "stopEnded")
                  ELSE (IF pc[t] = "begin" THEN "inGuest" ELSE "inStop"))
  /\ UNCHANGED <<instVars, lifeVars, gstopped, call, op, ok, lockedBy, slot, config>>

\* A host function of the guest: the bindings are alive, and the manifest
\* declares the capability, the policy grants it and a handler is there (else
\* the guest gets an error and goes on).  Those of the stop export are left
\* out: they change nothing here.
HostCall(t) ==
  /\ pc[t] = "inGuest" /\ alive
  /\ Goto(t, "inHost")
  /\ UNCHANGED <<instVars, lifeVars, guestVars, call, op, ok,
                 lockedBy, slot, config>>

\* (The bound: one host function in each call.)
HostReturns(t) ==
  /\ pc[t] = "inHost"
  /\ Goto(t, "afterHost")
  /\ UNCHANGED <<instVars, lifeVars, guestVars, call, op, ok,
                 lockedBy, slot, config>>

\* An engine that keeps cancellations also keeps one that came during a call
\* that failed.
Kept(good) == {FALSE, Sticky /\ ~good /\ interrupt}

\* The guest returns, traps, or is interrupted, and call_guest looks at the
\* cancellation of this call.
GuestReturns(t, good) ==
  /\ pc[t] \in {"inGuest", "afterHost"}
  /\ good => ~interrupt
  /\ ok' = [ok EXCEPT ![t] = good /\ ~cancelled[call[t]]]
  /\ interrupt' \in Kept(good)
  /\ Goto(t, "ended")
  /\ UNCHANGED <<instVars, lifeVars, gstopped, call, op, lockedBy, slot, config>>

ClearActive(t) ==
  /\ pc[t] = "ended"
  /\ active' = NoCall
  /\ Goto(t, "put")
  /\ UNCHANGED <<accepting, alive, stopped, nextCall, cancelled, lifeVars,
                 guestVars, call, op, ok, lockedBy, slot,
                 config>>

PutBack(t) ==
  /\ pc[t] = "put" /\ lockedBy = Nobody
  /\ slot' = TRUE
  /\ Goto(t, "notify")
  /\ UNCHANGED <<instVars, lifeVars, guestVars, call, op, ok,
                 lockedBy, config>>

\* Mutant: the guest is put back and nobody is told.
WakeNobody(t, where) == Goto(t, where)

Wake(t, where) == NotifyAll(t, where)

\* init marks the handle activated, update commits the configuration: after a
\* success only, and without the guest.
AfterCall(t) == IF ok[t] /\ IsUpdate(t) THEN "commit" ELSE "return"

Notify(t) ==
  /\ pc[t] = "notify"
  /\ Wake(t, AfterCall(t))
  /\ activated' = (activated \/ (ok[t] /\ op[t] = "init"))
  /\ UNCHANGED <<instVars, mode, life, holder, guard, guestVars, call, op,
                 ok, lockedBy, slot, config>>

CommitConfig(t) ==
  /\ pc[t] = "commit" /\ lockedBy = Nobody
  /\ config' = op[t]
  /\ Goto(t, "return")
  /\ UNCHANGED <<instVars, lifeVars, guestVars, call, op, ok,
                 lockedBy, slot>>

-----------------------------------------------------------------------------
(***************************************************************************)
(* cancel_current                                                          *)
(***************************************************************************)
\* The active call is looked up, ...
LookUp(t) ==
  IF active = NoCall THEN Goto(t, AfterCancel(t)) /\ UNCHANGED call
  ELSE Goto(t, "cas") /\ call' = [call EXCEPT ![t] = active]

CancelCurrent(t) ==
  /\ pc[t] = "idle" /\ May(t) /\ mode = "direct" /\ active # NoCall
  /\ op' = [op EXCEPT ![t] = "cancel"]
  /\ LookUp(t)
  /\ UNCHANGED <<instVars, lifeVars, guestVars, ok, lockedBy, slot, config>>

\* ... the first canceller of a call wins, ...
Cas(t) ==
  /\ pc[t] = "cas"
  /\ Goto(t, IF cancelled[call[t]] THEN AfterCancel(t) ELSE "engine")
  /\ cancelled' = [cancelled EXCEPT ![call[t]] = TRUE]
  /\ UNCHANGED <<accepting, alive, stopped, active, nextCall, lifeVars,
                 guestVars, call, op, ok, lockedBy, slot, config>>

InGuest == {"inGuest", "inHost", "afterHost", "inStop"}

\* ... and interrupts the engine, whatever that runs by now.
InterruptEngine(t) ==
  /\ pc[t] = "engine"
  /\ interrupt' = (interrupt \/ Sticky \/ \E u \in Callers : pc[u] \in InGuest)
  /\ Goto(t, AfterCancel(t))
  /\ UNCHANGED <<instVars, lifeVars, gstopped, call, op, ok, lockedBy, slot, config>>

-----------------------------------------------------------------------------
(***************************************************************************)
(* stop, and dispose of the handle                                         *)
(***************************************************************************)
\* A second stop returns at once.
StopBegins(t) ==
  /\ pc[t] = "idle" /\ May(t) /\ accepting
  /\ accepting' = FALSE
  /\ op' = [op EXCEPT ![t] = "stop"]
  /\ Goto(t, "stopLookUp")
  /\ UNCHANGED <<alive, stopped, active, nextCall, cancelled, lifeVars,
                 guestVars, call, ok, lockedBy, slot,
                 config>>

StopCancels(t) ==
  /\ pc[t] = "stopLookUp"
  /\ LookUp(t)
  /\ UNCHANGED <<instVars, lifeVars, guestVars, op, ok, lockedBy,
                 slot, config>>

\* Mutant: stop goes on without the guest that a call has.
StopAtOnce(t) == slot' = FALSE /\ stopped' = TRUE /\ Goto(t, "stopBegin")

\* stop waits for the guest.
StopTakes(t) ==
  \/ slot /\ slot' = FALSE /\ stopped' = TRUE /\ Goto(t, "stopBegin")
  \/ ~slot /\ UNCHANGED <<slot, stopped>> /\ Goto(t, "stopAsleep")

StopEnter(t) ==
  /\ pc[t] = "stopEnter" /\ lockedBy = Nobody
  /\ StopTakes(t)
  /\ UNCHANGED <<accepting, alive, active, nextCall, cancelled, lifeVars,
                 guestVars, call, op, ok, lockedBy,
                 config>>

\* external: the stop export returns, traps or is interrupted.
StopReturns(t) ==
  /\ pc[t] = "inStop"
  /\ interrupt' \in Kept(FALSE) /\ gstopped' = TRUE
  /\ Goto(t, "stopEnded")
  /\ UNCHANGED <<instVars, lifeVars, call, op, ok,
                 lockedBy, slot, config>>

BindingsAfterStop == FALSE

\* The guest is dropped, the bindings die, and everybody is woken; dispose
\* goes on with the guard.
StopDrops(t) ==
  /\ pc[t] = "stopEnded"
  /\ alive' = BindingsAfterStop
  /\ Wake(t, IF mode = "handle" THEN "drain" ELSE "return")
  /\ UNCHANGED <<accepting, stopped, active, nextCall, cancelled, lifeVars,
                 guestVars, call, op, ok, lockedBy, slot,
                 config>>

\* drain_and_revoke_guard: the guard is drained for a bounded time, then
\* revoked, whatever the drain and the stop have returned.
DrainGuard(t) ==
  /\ pc[t] = "drain"
  /\ guard' = "revoked"
  /\ Goto(t, "return")
  /\ UNCHANGED <<instVars, mode, life, holder, activated, guestVars, call, op,
                 ok, lockedBy, slot, config>>

-----------------------------------------------------------------------------
Lifecycle ==
  \/ Allocate \/ Install \/ Bind \/ Build \/ BuildFails \/ Drop \/ RevokeGuard
  \/ ReleaseId \/ DropGuest \/ RivalReserves

\* What a thread does once it has called
Step(t) ==
  \/ Sleep(t) \/ EnterRefused(t) \/ TakeGuest(t) \/ SetActive(t) \/ Recheck(t)
  \/ Begin(t)
  \/ HostReturns(t) \/ ClearActive(t) \/ PutBack(t) \/ Notify(t)
  \/ CommitConfig(t) \/ Cas(t) \/ InterruptEngine(t) \/ StopCancels(t)
  \/ StopEnter(t) \/ StopReturns(t) \/ StopDrops(t) \/ DrainGuard(t)
  \/ Return(t) \/ \E good \in BOOLEAN : GuestReturns(t, good)

WaNext ==
  \/ \E t \in Callers :
       \/ \E what \in {"init", "call"} \cup Updates : Invoke(t, what)
       \/ CancelCurrent(t) \/ StopBegins(t) \/ HostCall(t)
       \/ Step(t)
  \/ Lifecycle

\* Threads that can run do; handlers return, and the timeout and the fuel of
\* the engine end every call of the guest.
WaFairSpec ==
  /\ WaInit /\ [][WaNext]_wvars
  /\ \A t \in Callers : WF_wvars(Step(t))

-----------------------------------------------------------------------------
Lives == {"none", "reserved", "hooked", "building", "live", "dropped", "failed", "gone"}
Holding == {"took", "recheck", "begin", "inGuest", "inHost", "afterHost", "ended", "put",
            "stopBegin", "inStop", "stopEnded"}

\* Every variable has the type of the field it models.
WaTypeOK ==
  /\ mode \in {"direct", "handle"} /\ life \in Lives
  /\ holder \in {"free", "mine", "rival"}
  /\ guard \in {"none", "installed", "revoked"}
  /\ {activated, accepting, alive, slot, stopped, interrupt, gstopped}
       \subseteq BOOLEAN
  /\ config \in Updates \cup {FirstConfig}
  /\ active \in {NoCall} \cup Calls /\ nextCall \in 1..(MaxCalls + 1)
  /\ cancelled \in [Calls -> BOOLEAN]
  /\ lockedBy \in Callers \cup {Nobody}

Running == {"begin", "inGuest", "inHost", "afterHost"}

Holders == {t \in Callers : pc[t] \in Holding}

\* Calls, cancellations and stop share one guest: it is in its slot, or with
\* exactly one thread, and once it is neither it never comes back; the call
\* that can be cancelled is the one that has it.
GuestIsHeldOnce ==
  /\ Cardinality(Holders) = (IF slot \/ life # "live" \/ (stopped /\ ~alive)
                             THEN 0 ELSE 1)
  /\ active # NoCall => \E t \in Holders : call[t] = active

\* The stop export is the last thing a guest does: no call that was under way
\* or was waiting runs after it, and no call of the guest meets dead bindings.
StopIsLast ==
  /\ gstopped => \A t \in Callers : pc[t] \notin InGuest
  /\ stopped => \A t \in Callers : pc[t] \notin {"took", "recheck"} \cup Running
  /\ ~alive => \A t \in Callers : pc[t] \notin InGuest

\* What holds of the guest at every step
WasmInv == WaTypeOK /\ GuestIsHeldOnce /\ StopIsLast

\* No call slips past a stop: once stop has made its one attempt to cancel and
\* waits for the guest, the call that has the guest is marked as cancelled, so
\* stop never waits for a call that nobody has told to end.  (How soon it ends
\* is up to the engine: one that is interrupted before the call begins may
\* forget it, and the call then runs for as long as its timeout allows.)
StopIsPrompt ==
  (\E s \in Callers : pc[s] \in {"stopEnter", "stopAsleep"}) =>
    \A t \in Callers : pc[t] \in Running => cancelled[call[t]]

\* There is a guest, or one is being made.
GuestExists == slot \/ Holders # {} \/ life = "building"

\* An id is not free for another instance while a guest of this one can call
\* the host under it, nor while the guard that was installed for it stands:
\* the id goes before the fields of the instance do, and where the engine fails
\* the bindings stay alive, so each way out needs the right order of its own.
IdOutlivesUse ==
  holder # "mine" => ~(alive /\ GuestExists) /\ guard # "installed"

\* Every call and every stop returns, whoever is cancelled, refused or stopped
\* meanwhile: nobody sleeps for a guest that is gone.
CallsReturn == \A t \in Callers : pc[t] # "idle" ~> pc[t] = "idle"

=============================================================================

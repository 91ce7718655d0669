------------------------------- MODULE EventBus -------------------------------
(***************************************************************************)
(* The event bus: crates/tessivum-core/src/events.rs.                      *)
(*                                                                         *)
(* One event.  Threads register listeners that a scope owns, scopes are    *)
(* disposed, handles remove listeners, and dispatches in the five modes    *)
(* run side by side.  A callback runs with no lock held: what a listener   *)
(* itself does with the bus is a step of another thread here.              *)
(*                                                                         *)
(* A payload of the wrong type makes the callback return an error, as any  *)
(* other failure.  The record of a dispatch in the diagnostics is its      *)
(* outcome here; reading and taking the diagnostics is left out.           *)
(***************************************************************************)
EXTENDS Naturals, Sequences, SequencesExt

CONSTANTS
  Owners,        \* scopes that own listeners
  Views,         \* the filters (context and realm) of EventBus values
  Offered,       \* the listeners that may be registered
  Registrars,    \* threads that register listeners
  Dispatchers,   \* threads that dispatch; each dispatches once
  MaxListeners   \* bound: registrations

Modes == {"emit", "bail", "parallel", "serial", "waterfall"}
Kinds == {"Sync", "Async", "Waterfall"}

\* `view' of a global listener is "any".  Waterfall listeners are never once.
Listeners ==
  {l \in [owner : Owners, view : Views \cup {"any"}, kind : Kinds,
          once : BOOLEAN, prepend : BOOLEAN] : l.kind = "Waterfall" => ~l.once}

ASSUME EventAssumption ==
  /\ Offered \subseteq Listeners
  /\ MaxListeners \in Nat
  /\ "any" \notin Views

VARIABLES
  scope,      \* the state of each owner
  effects,    \* the listener effects of each owner, oldest first
  listeners,  \* what was registered; a token is an index of this sequence
  entries,    \* EventBusInner::listeners of the event: tokens, in order
  claimed,    \* tokens whose once flag is set
  reg,        \* the registration each registrar is at
  at,         \* where each dispatch is
  mode, view, \* its mode; until the snapshot is made, the filter of its bus
  todo,       \* listeners it has still to look at
  snap,       \* its snapshot
  futures,    \* parallel: the futures not polled yet
  called,     \* the listeners it has called, in order
  running,    \* the ones that have not returned
  fresh,      \* waterfall: the continuations not used yet
  fails,      \* parallel: errors so far
  outcome,    \* the outcome it has recorded
  gone,       \* history: owners that were not active when it began
  refused     \* history: tokens consumed by a mode that cannot call them

busVars == <<scope, effects, listeners, entries, claimed, reg>>
runVars == <<mode, view, snap, gone>>
callVars == <<futures, called, running, fresh, fails, outcome, refused>>
evars == <<busVars, at, todo, runVars, callVars>>

NoReg == [at |-> "idle", token |-> 0]

EInit ==
  /\ scope = [o \in Owners |-> "Active"]
  /\ effects = [o \in Owners |-> <<>>]
  /\ listeners = <<>> /\ entries = <<>> /\ claimed = {}
  /\ reg = [r \in Registrars |-> NoReg]
  /\ at = [d \in Dispatchers |-> "idle"]
  /\ mode = [d \in Dispatchers |-> "emit"]
  /\ view = [d \in Dispatchers |-> "any"]
  /\ todo = [d \in Dispatchers |-> <<>>]
  /\ snap = [d \in Dispatchers |-> <<>>]
  /\ futures = [d \in Dispatchers |-> <<>>]
  /\ called = [d \in Dispatchers |-> <<>>]
  /\ running = [d \in Dispatchers |-> {}]
  /\ fresh = [d \in Dispatchers |-> {}]
  /\ fails = [d \in Dispatchers |-> 0]
  /\ outcome = [d \in Dispatchers |-> "none"]
  /\ gone = [d \in Dispatchers |-> {}]
  /\ refused = {}

-----------------------------------------------------------------------------
\* The lock of the listeners: a snapshot holds it while it asks the owners.
Unlocked == \A d \in Dispatchers : at[d] # "scan"

\* remove_listener: tokens are unique, so retain drops one entry or none.
RemoveListener(t) == Unlocked /\ entries' = RemoveFirst(entries, t)

(***************************************************************************)
(* Registration                                                            *)
(***************************************************************************)
\* register: the owner is active, a token is taken ...
Register(r, l) ==
  /\ reg[r].at = "idle" /\ Len(listeners) < MaxListeners
  /\ scope[l.owner] = "Active"
  /\ listeners' = Append(listeners, l)
  /\ reg' = [reg EXCEPT ![r] = [at |-> "insert", token |-> Len(listeners) + 1]]
  /\ UNCHANGED <<scope, effects, entries, claimed, at, todo, runVars, callVars>>

Inserted(t) ==
  IF listeners[t].prepend THEN <<t>> \o entries ELSE Append(entries, t)

\* ... the listener is inserted ...
Insert(r) ==
  /\ reg[r].at = "insert" /\ Unlocked
  /\ entries' = Inserted(reg[r].token)
  /\ reg' = [reg EXCEPT ![r].at = "own"]
  /\ UNCHANGED <<scope, effects, listeners, claimed, at, todo, runVars, callVars>>

\* ... and becomes an effect of its owner, ...
Own(r) ==
  LET o == listeners[reg[r].token].owner IN
  /\ reg[r].at = "own" /\ scope[o] = "Active"
  /\ effects' = [effects EXCEPT ![o] = Append(@, reg[r].token)]
  /\ reg' = [reg EXCEPT ![r] = NoReg]
  /\ UNCHANGED <<scope, listeners, entries, claimed, at, todo, runVars, callVars>>

RollBack(t) == RemoveListener(t)

\* ... or is removed again, because the owner was closed meanwhile.
Disown(r) ==
  LET t == reg[r].token IN
  /\ reg[r].at = "own" /\ scope[listeners[t].owner] # "Active"
  /\ RollBack(t)
  /\ reg' = [reg EXCEPT ![r] = NoReg]
  /\ UNCHANGED <<scope, effects, listeners, claimed, at, todo, runVars, callVars>>

\* ListenerHandle::remove
RemoveHandle(t) ==
  /\ \A r \in Registrars : reg[r].token # t
  /\ t \in Range(entries)
  /\ RemoveListener(t)
  /\ UNCHANGED <<scope, effects, listeners, claimed, reg, at, todo, runVars,
                 callVars>>

\* Scope::dispose closes the owner, ...
Close(o) ==
  /\ scope[o] = "Active"
  /\ scope' = [scope EXCEPT ![o] = "Disposing"]
  /\ UNCHANGED <<effects, listeners, entries, claimed, reg, at, todo, runVars,
                 callVars>>

\* ... and runs the disposers of its listeners, last one first.
Dispose(o) ==
  /\ scope[o] = "Disposing"
  /\ IF effects[o] = <<>>
     THEN scope' = [scope EXCEPT ![o] = "Disposed"] /\ UNCHANGED <<effects, entries>>
     ELSE /\ RemoveListener(Last(effects[o]))
          /\ effects' = [effects EXCEPT ![o] = Front(@)]
          /\ UNCHANGED scope
  /\ UNCHANGED <<listeners, claimed, reg, at, todo, runVars, callVars>>

-----------------------------------------------------------------------------
(***************************************************************************)
(* Dispatch: the snapshot                                                  *)
(***************************************************************************)
\* Mutant: the snapshot takes what is registered, whoever owns it.
MatchesView(t, v) == listeners[t].view \in {"any", v}

\* Listener::matches
Matches(t, v) ==
  scope[listeners[t].owner] = "Active" /\ listeners[t].view \in {"any", v}

Begin(d, m, v) ==
  /\ at[d] = "idle" /\ Unlocked
  /\ at' = [at EXCEPT ![d] = "scan"]
  /\ mode' = [mode EXCEPT ![d] = m]
  /\ view' = [view EXCEPT ![d] = v]
  /\ todo' = [todo EXCEPT ![d] = entries]
  /\ gone' = [gone EXCEPT ![d] = {o \in Owners : scope[o] # "Active"}]
  /\ UNCHANGED <<busVars, snap, callVars>>

\* snapshot, one listener at a time: the owners' states change under it.
Scan(d) ==
  /\ at[d] = "scan" /\ todo[d] # <<>>
  /\ LET t == Head(todo[d]) IN
       snap' = [snap EXCEPT ![d] = IF Matches(t, view[d]) THEN Append(@, t) ELSE @]
  /\ todo' = [todo EXCEPT ![d] = Tail(@)]
  /\ UNCHANGED <<busVars, at, mode, view, gone, callVars>>

Snapshot(d) ==
  /\ at[d] = "scan" /\ todo[d] = <<>>
  /\ at' = [at EXCEPT ![d] = "claim"]
  /\ todo' = [todo EXCEPT ![d] = snap[d]]
  /\ view' = [view EXCEPT ![d] = "any"]
  /\ UNCHANGED <<busVars, mode, snap, gone, callVars>>

-----------------------------------------------------------------------------
(***************************************************************************)
(* claim_once                                                              *)
(***************************************************************************)
\* Mutant: a once listener is free as long as it is listed.
Listed(t) == t \in Range(entries)

\* once.swap(true) returned false
Free(t) == t \notin claimed

\* parallel collects its futures before it polls one.
ClaimsFirst(d) == mode[d] = "parallel"

\* The listener at the head of todo may be called.
Ready(d) ==
  IF ClaimsFirst(d)
  THEN /\ futures' = [futures EXCEPT ![d] = Append(@, Head(todo[d]))]
       /\ todo' = [todo EXCEPT ![d] = Tail(@)]
       /\ at' = [at EXCEPT ![d] = "claim"]
  ELSE at' = [at EXCEPT ![d] = "call"] /\ UNCHANGED <<futures, todo>>

ClaimPlain(d) ==
  /\ at[d] = "claim" /\ todo[d] # <<>> /\ ~listeners[Head(todo[d])].once
  /\ Ready(d)
  /\ UNCHANGED <<busVars, runVars, called, running, fresh, fails, outcome, refused>>

\* The flag is set ...
ClaimOnce(d) ==
  /\ at[d] = "claim" /\ todo[d] # <<>>
  /\ listeners[Head(todo[d])].once /\ Free(Head(todo[d]))
  /\ claimed' = claimed \cup {Head(todo[d])}
  /\ at' = [at EXCEPT ![d] = "unlist"]
  /\ UNCHANGED <<scope, effects, listeners, entries, reg, todo, runVars, callVars>>

\* ... and the listener is removed.
Unlist(d) ==
  /\ at[d] = "unlist"
  /\ RemoveListener(Head(todo[d]))
  /\ Ready(d)
  /\ UNCHANGED <<scope, effects, listeners, claimed, reg, runVars, called, running,
                 fresh, fails, outcome, refused>>

\* Another dispatch has claimed it: continue.
Skip(d) ==
  /\ at[d] = "claim" /\ todo[d] # <<>>
  /\ listeners[Head(todo[d])].once /\ ~Free(Head(todo[d]))
  /\ todo' = [todo EXCEPT ![d] = Tail(@)]
  /\ UNCHANGED <<busVars, at, runVars, callVars>>

-----------------------------------------------------------------------------
(***************************************************************************)
(* emit, bail, serial: one listener after the other                        *)
(***************************************************************************)
Record(d, o) == outcome' = [outcome EXCEPT ![d] = o]

\* The kinds of listeners a mode cannot call
Refuses(d, t) ==
  CASE mode[d] \in {"emit", "bail"} -> listeners[t].kind # "Sync"
    [] mode[d] \in {"parallel", "serial"} -> listeners[t].kind = "Waterfall"
    [] OTHER -> listeners[t].kind # "Waterfall"

InTurn(d) == mode[d] \in {"emit", "bail", "serial"}

Enter(d, t) ==
  /\ called' = [called EXCEPT ![d] = Append(@, t)]
  /\ running' = [running EXCEPT ![d] = @ \cup {t}]

Call(d) ==
  LET t == Head(todo[d]) IN
  /\ at[d] = "call" /\ ~Refuses(d, t)
  /\ Enter(d, t)
  /\ fresh' = IF mode[d] = "waterfall"
              THEN [fresh EXCEPT ![d] = @ \cup {t}] ELSE fresh
  /\ at' = [at EXCEPT ![d] = "wait"]
  /\ UNCHANGED <<busVars, todo, runVars, futures, fails, outcome, refused>>

\* CoreError::AsyncEventListener.  In a chain the listener that has called
\* next gets the error, and may return what it likes.
Refuse(d) ==
  LET t == Head(todo[d]) IN
  /\ at[d] = "call" /\ Refuses(d, t)
  /\ IF called[d] = <<>> \/ InTurn(d) THEN Record(d, "Failed") ELSE UNCHANGED outcome
  /\ refused' = refused \cup {t}
  /\ at' = [at EXCEPT ![d] = "wait"]
  /\ UNCHANGED <<busVars, todo, runVars, futures, called, running, fresh, fails>>

\* A listener returns null or false, an effective value, or an error.
Results == {"null", "value", "error"}

Stops(d, result) ==
  result = "error" \/ (result = "value" /\ mode[d] \in {"bail", "serial"})

ReturnInTurn(d, t, result) ==
  /\ InTurn(d) /\ t \in running[d]
  /\ running' = [running EXCEPT ![d] = {}]
  /\ IF Stops(d, result)
     THEN /\ Record(d, IF result = "error" THEN "Failed" ELSE "Bailed")
          /\ UNCHANGED <<at, todo>>
     ELSE /\ at' = [at EXCEPT ![d] = "claim"]
          /\ todo' = [todo EXCEPT ![d] = Tail(@)]
          /\ UNCHANGED outcome
  /\ UNCHANGED <<busVars, runVars, futures, called, fresh, fails, refused>>

\* No listener is left: emit, bail and serial complete, a chain without any
\* listener does, and in a longer one the last call of next returns null.
Exhausted(d) ==
  /\ at[d] = "claim" /\ todo[d] = <<>> /\ mode[d] # "parallel"
  /\ at' = [at EXCEPT ![d] = "wait"]
  /\ IF InTurn(d) \/ called[d] = <<>> THEN Record(d, "Completed") ELSE UNCHANGED outcome
  /\ UNCHANGED <<busVars, todo, runVars, futures, called, running, fresh, fails,
                 refused>>

-----------------------------------------------------------------------------
(***************************************************************************)
(* parallel: join_all.  Its first poll polls every future in order, and a  *)
(* synchronous callback runs to its end in it; later polls find futures    *)
(* done in any order.                                                      *)
(***************************************************************************)
Joining(d) ==
  mode[d] = "parallel" /\ at[d] = "claim" /\ todo[d] = <<>> /\ outcome[d] = "none"

InSync(d) == \E t \in running[d] : listeners[t].kind = "Sync"

FirstPoll(d) ==
  /\ Joining(d) /\ futures[d] # <<>> /\ ~InSync(d)
  /\ LET t == Head(futures[d]) IN
       IF Refuses(d, t)
       THEN /\ fails' = [fails EXCEPT ![d] = @ + 1]
            /\ refused' = refused \cup {t}
            /\ UNCHANGED <<called, running>>
       ELSE Enter(d, t) /\ UNCHANGED <<fails, refused>>
  /\ futures' = [futures EXCEPT ![d] = Tail(@)]
  /\ UNCHANGED <<busVars, at, todo, runVars, fresh, outcome>>

FutureReady(d, t, result) ==
  /\ Joining(d) /\ t \in running[d]
  /\ futures[d] = <<>> \/ t = Last(called[d])
  /\ running' = [running EXCEPT ![d] = @ \ {t}]
  /\ fails' = [fails EXCEPT ![d] = IF result = "error" THEN @ + 1 ELSE @]
  /\ UNCHANGED <<busVars, at, todo, runVars, futures, called, fresh, outcome, refused>>

\* Mutant: the join ends with the first error.
FirstErrorEnds(d) == futures[d] = <<>> /\ (fails[d] > 0 \/ running[d] = {})

AllReady(d) == futures[d] = <<>> /\ running[d] = {}

Joined(d) ==
  /\ Joining(d) /\ AllReady(d)
  /\ Record(d, IF fails[d] = 0 THEN "Completed" ELSE "Failed")
  /\ UNCHANGED <<busVars, at, todo, runVars, futures, called, running, fresh, fails,
                 refused>>

-----------------------------------------------------------------------------
(***************************************************************************)
(* waterfall: a listener may call next, wait for it or not, or keep the    *)
(* continuation for later, beyond the end of the dispatch.                 *)
(***************************************************************************)
After(d, t) == SubSeq(snap[d], SelectInSeq(snap[d], LAMBDA u : u = t) + 1, Len(snap[d]))

\* Mutant: the continuation is called, not taken.
Keep(d, t) == fresh

\* ErasedNext::next takes the continuation; without one it only returns
\* WaterfallContinuationUsed.
Take(d, t) == [fresh EXCEPT ![d] = @ \ {t}]

CallNext(d, t) ==
  /\ mode[d] = "waterfall" /\ at[d] = "wait" /\ t \in fresh[d]
  /\ fresh' = Take(d, t)
  /\ todo' = [todo EXCEPT ![d] = After(d, t)]
  /\ at' = [at EXCEPT ![d] = "claim"]
  /\ UNCHANGED <<busVars, runVars, futures, called, running, fails, outcome, refused>>

\* The result of the first listener is the result of the dispatch.
ReturnFromChain(d, t, result) ==
  /\ mode[d] = "waterfall" /\ t \in running[d]
  /\ running' = [running EXCEPT ![d] = @ \ {t}]
  /\ IF t = Head(called[d]) /\ outcome[d] = "none"
     THEN Record(d, IF result = "error" THEN "Failed" ELSE "Completed")
     ELSE UNCHANGED outcome
  /\ UNCHANGED <<busVars, at, todo, runVars, futures, called, fresh, fails, refused>>

\* The caller drops the future of an asynchronous dispatch that is pending.
Abandon(d) ==
  /\ outcome[d] = "none" /\ mode[d] \in {"parallel", "serial", "waterfall"}
  /\ at[d] = "wait" \/ Joining(d)
  /\ futures[d] = <<>> /\ \E t \in running[d] : listeners[t].kind # "Sync"
  /\ Record(d, "Dropped")
  /\ running' = [running EXCEPT ![d] = {}]
  /\ UNCHANGED <<busVars, at, todo, runVars, futures, called, fresh, fails, refused>>

-----------------------------------------------------------------------------
\* Steps of a dispatch that its thread, or the callbacks, always take
DispatchStep(d) ==
  \/ Scan(d) \/ Snapshot(d)
  \/ ClaimPlain(d) \/ ClaimOnce(d) \/ Unlist(d) \/ Skip(d)
  \/ Call(d) \/ Refuse(d) \/ Exhausted(d) \/ FirstPoll(d) \/ Joined(d)
  \/ \E t \in running[d], result \in Results :
       ReturnInTurn(d, t, result) \/ FutureReady(d, t, result)
       \/ ReturnFromChain(d, t, result)

ENext ==
  \/ \E r \in Registrars : (\E l \in Offered : Register(r, l))
                           \/ Insert(r) \/ Own(r) \/ Disown(r)
  \/ \E t \in DOMAIN listeners : RemoveHandle(t)
  \/ \E o \in Owners : Close(o) \/ Dispose(o)
  \/ \E d \in Dispatchers :
       \/ \E m \in Modes, v \in Views : Begin(d, m, v)
       \/ DispatchStep(d)
       \/ \E t \in fresh[d] : CallNext(d, t)
       \/ Abandon(d)

ESpec == EInit /\ [][ENext]_evars

-----------------------------------------------------------------------------
Tokens == DOMAIN listeners

\* Every variable has its type; a listener is listed once, and what runs was
\* called by the dispatch.
ETypeOK ==
  /\ scope \in [Owners -> {"Active", "Disposing", "Disposed"}]
  /\ effects \in [Owners -> Seq(Tokens)]
  /\ listeners \in Seq(Offered) /\ Len(listeners) <= MaxListeners
  /\ entries \in Seq(Tokens) /\ IsInjective(entries)
  /\ claimed \subseteq Tokens /\ refused \subseteq Tokens
  /\ reg \in [Registrars -> [at : {"idle", "insert", "own"}, token : {0} \cup Tokens]]
  /\ at \in [Dispatchers -> {"idle", "scan", "claim", "unlist", "call", "wait"}]
  /\ mode \in [Dispatchers -> Modes]
  /\ view \in [Dispatchers -> Views \cup {"any"}]
  /\ gone \in [Dispatchers -> SUBSET Owners]
  /\ outcome \in [Dispatchers -> {"none", "Completed", "Bailed", "Failed", "Dropped"}]
  /\ fails \in [Dispatchers -> 0 .. MaxListeners]
  /\ todo \in [Dispatchers -> Seq(Tokens)] /\ snap \in [Dispatchers -> Seq(Tokens)]
  /\ futures \in [Dispatchers -> Seq(Tokens)] /\ called \in [Dispatchers -> Seq(Tokens)]
  /\ running \in [Dispatchers -> SUBSET Tokens]
  /\ fresh \in [Dispatchers -> SUBSET Tokens]
  /\ \A d \in Dispatchers : running[d] \cup fresh[d] \subseteq Range(called[d])

\* A once listener is called at most once, whatever dispatches have it in
\* their snapshots: the claim is one swap of its flag, and the removal from
\* the list comes later.
OnceIsOnce ==
  \A t \in Tokens : listeners[t].once =>
    /\ \A d \in Dispatchers : \A i, j \in DOMAIN called[d] :
         called[d][i] = t /\ called[d][j] = t => i = j
    /\ \A d1, d2 \in Dispatchers :
         t \in Range(called[d1]) /\ t \in Range(called[d2]) => d1 = d2

\* The dispatch holds a claim it has yet to use.
AboutToCall(d, t) ==
  \/ at[d] \in {"unlist", "call"} /\ Head(todo[d]) = t
  \/ t \in Range(futures[d]) /\ outcome[d] = "none"

\* No claim is lost: a once listener that is consumed was called, is about to
\* be, or was offered to a mode that cannot call it.  Neither an earlier
\* listener that stops the dispatch nor a dropped future is in the way.
OnceIsSpent ==
  \A t \in claimed :
    \/ t \in refused
    \/ \E d \in Dispatchers : t \in Range(called[d]) \/ AboutToCall(d, t)

\* When the disposal of a scope is over, no listener of it is listed, but for
\* a registration that has yet to fail: register inserts first and owns later.
NoStrayListener ==
  \A t \in Range(entries) :
    \/ scope[listeners[t].owner] # "Disposed"
    \/ \E r \in Registrars : reg[r].token = t

\* A dispatch calls no listener whose owner was being disposed before the
\* dispatch began, although the disposers may still have to run.
ClosedOwnersAreSilent ==
  \A d \in Dispatchers : \A t \in Range(called[d]) :
    listeners[t].owner \notin gone[d]

\* A dispatch calls the listeners of its snapshot in order, and none twice:
\* also a chain whose listeners call next again, or later, or from elsewhere.
CallsFollowSnapshot ==
  \A d \in Dispatchers : \A i, j \in DOMAIN called[d] :
    i < j => \E p, q \in DOMAIN snap[d] :
               p < q /\ snap[d][p] = called[d][i] /\ snap[d][q] = called[d][j]

\* parallel records its outcome when every listener it has claimed has
\* returned; and a dispatch that completes has called its whole snapshot,
\* once listeners that others have claimed aside.
CompletedMeansAll ==
  \A d \in Dispatchers :
    /\ mode[d] = "parallel" /\ outcome[d] \in {"Completed", "Failed"} =>
         running[d] = {} /\ futures[d] = <<>>
    /\ mode[d] # "waterfall" /\ outcome[d] = "Completed" =>
         \A t \in Range(snap[d]) : t \in Range(called[d]) \cup claimed

\* The lists of the bus and the claims on once listeners are consistent.
EventInv == ETypeOK /\ NoStrayListener /\ OnceIsOnce /\ OnceIsSpent
=============================================================================

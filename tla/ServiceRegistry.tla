--------------------------- MODULE ServiceRegistry ---------------------------
(***************************************************************************)
(* The service registry of crates/tessivum-core/src/service.rs and the     *)
(* operations of ContextHandle (context.rs) on it.                         *)
(*                                                                         *)
(* One host registry maps services to generations of providers.  A plugin  *)
(* update works on a staged registry: it reads through to the host, keeps  *)
(* its writes to itself and moves them to the host on commit, after which  *)
(* it forwards everything.  Providers and subscriptions are effects of the *)
(* scope of the context that made them.  Notifications are prepared under  *)
(* the registry's lock and delivered outside of it.                        *)
(*                                                                         *)
(* A service stands for a ResolvedService (key and realm).  One action is  *)
(* one critical section or one callback.                                   *)
(***************************************************************************)
EXTENDS Naturals, SequencesExt

CONSTANTS
  Services,   \* the resolved services
  Host,       \* the host registry
  Staged,     \* staged registries
  Owners,     \* scopes that own providers or subscriptions
  View,       \* View[o]: the registry of the context of o
  Listeners,  \* subscriptions
  SubOwner,   \* SubOwner[l]: the scope that owns subscription l
  Deps,       \* Deps[l]: the services subscription l depends on
  Threads,    \* callers that change the registry
  Users,      \* callers that hold a service handle
  MaxGen      \* bound: how many providers are ever made

ASSUME RegistryAssumption ==
  /\ Host \notin Staged
  /\ View \in [Owners -> Staged \cup {Host}]
  /\ SubOwner \in [Listeners -> Owners]
  /\ Deps \in [Listeners -> SUBSET Services]
  /\ MaxGen \in Nat

Registries == Staged \cup {Host}
Gens == 1 .. MaxGen
NoGen == 0                 \* no provider
Unset == MaxGen + 1        \* no expectation

VARIABLES
  providers,  \* RegistryState::providers, the generation of each service
  expected,   \* RegistryState::expected_parent
  committed,  \* RegistryState::committed
  nextGen,    \* next_generation()
  listeners,  \* RegistryState::listeners of the host
  scope,      \* state of each owner: "open", "closing", "closed"
  effects,    \* the disposers each owner has still to run, in order
  act,        \* what a thread does
  on,         \* the owner or subscription it does it for
  todo,       \* the registry and the services a thread has still to notify
  mail,       \* the callbacks a thread has still to call
  seen,       \* the last snapshot each listener was called with
  told,       \* history: the last snapshot prepared for each listener
  held,       \* the handle of each user
  kind        \* history: "provide" or "replace", for each generation

regVars == <<providers, expected, committed>>
jobVars == <<act, on, todo, mail>>
callVars == <<seen, told>>
rvars == <<regVars, nextGen, listeners, scope, effects, jobVars, callVars, held,
           kind>>

NoHandle == [reg |-> Host, svc |-> Host, gen |-> NoGen]
NoJob == [reg |-> Host, svcs |-> <<>>]

RInit ==
  /\ providers = [r \in Registries |-> [k \in Services |-> NoGen]]
  /\ expected = [r \in Staged |-> [k \in Services |-> Unset]]
  /\ committed = [r \in Staged |-> FALSE]
  /\ nextGen = 1
  /\ listeners = {}
  /\ scope = [o \in Owners |-> "open"]
  /\ effects = [o \in Owners |-> <<>>]
  /\ act = [t \in Threads |-> "idle"]
  /\ on = [t \in Threads |-> Host]
  /\ todo = [t \in Threads |-> NoJob]
  /\ mail = [t \in Threads |-> <<>>]
  /\ seen = [l \in Listeners |-> <<>>]
  /\ told = [l \in Listeners |-> <<>>]
  /\ held = [u \in Users |-> NoHandle]
  /\ kind = [g \in Gens |-> "none"]

-----------------------------------------------------------------------------
\* The registry that answers for r: a committed staging forwards to its host.
Target(r) == IF r \in Staged /\ committed[r] THEN Host ELSE r

\* Registry::entry
Entry(r, k) ==
  IF providers[Target(r)][k] # NoGen THEN providers[Target(r)][k]
                                     ELSE providers[Host][k]

\* Registry::is_current
IsCurrent(h) == h.gen # NoGen /\ Entry(h.reg, h.svc) = h.gen

\* dependency_snapshot_from, under the host's lock
Snapshot(l) == [k \in Deps[l] |-> providers[Host][k]]

Quiet(t) == todo[t].svcs = <<>> /\ mail[t] = <<>>
Idle(t) == act[t] = "idle" /\ Quiet(t)

-----------------------------------------------------------------------------
\* Mutant: next_generation() starts again when nothing is provided.
RecycledGeneration ==
  IF \A k \in Services : providers[Host][k] = NoGen THEN 1 ELSE nextGen

NewGeneration == nextGen

\* Mutant: a provider is accepted by a scope that is being disposed.
AdmitsAnyTime(o) == TRUE

\* The admission check of Scope::add_effect_with
Admits(o) == scope[o] = "open"

\* The disposer of a provider
Disposer(k, g) == [what |-> "provider", svc |-> k, gen |-> g]

\* ContextHandle::publish_service: Registry::provide and the registration of
\* its disposer happen under the admission lock of the scope, then the
\* listeners are notified.  A strict provide needs the service to be absent
\* from the view, a replace needs it to be there.
Publish(t, o, k, how) ==
  LET tr == Target(View[o])
      g  == NewGeneration
      present == Entry(tr, k) # NoGen
  IN
  /\ Idle(t) /\ Admits(o) /\ nextGen <= MaxGen
  /\ present <=> (how = "replace")
  /\ providers' = [providers EXCEPT ![tr][k] = g]
  /\ expected' = IF tr \in Staged /\ expected[tr][k] = Unset
                 THEN [expected EXCEPT ![tr][k] = providers[Host][k]]
                 ELSE expected
  /\ nextGen' = g + 1
  /\ kind' = [kind EXCEPT ![g] = how]
  /\ effects' = [effects EXCEPT ![o] = Append(@, Disposer(k, g))]
  /\ todo' = [todo EXCEPT ![t] = [reg |-> View[o], svcs |-> <<k>>]]
  /\ UNCHANGED <<committed, listeners, scope, act, on, mail, callVars, held>>

\* The host is still as the staging saw it.
HostAsExpected(r) ==
  \A k \in Services :
    expected[r][k] # Unset => providers[Host][k] = expected[r][k]

\* Mutant: commit installs only what the host does not have.
MergeAbsent(r) ==
  [k \in Services |-> IF providers[Host][k] # NoGen THEN providers[Host][k]
                                                    ELSE providers[r][k]]

Merge(r) ==
  [k \in Services |-> IF providers[r][k] # NoGen THEN providers[r][k]
                                                 ELSE providers[Host][k]]

\* Registry::commit, under both locks; a failed check changes nothing.
Commit(t, r) ==
  /\ Idle(t) /\ ~committed[r] /\ HostAsExpected(r)
  /\ providers' = [providers EXCEPT ![Host] = Merge(r),
                                    ![r] = [k \in Services |-> NoGen]]
  /\ expected' = [expected EXCEPT ![r] = [k \in Services |-> Unset]]
  /\ committed' = [committed EXCEPT ![r] = TRUE]
  /\ todo' = [todo EXCEPT ![t] =
       [reg |-> Host,
        svcs |-> SetToSeq({k \in Services : providers[r][k] # NoGen})]]
  /\ UNCHANGED <<nextGen, listeners, scope, effects, act, on, mail, callVars,
                 held, kind>>

-----------------------------------------------------------------------------
(***************************************************************************)
(* Notification                                                            *)
(***************************************************************************)
\* Mutant: a listener that has not been called yet is passed over.
InterestedGreeted(k) == {l \in listeners : k \in Deps[l] /\ seen[l] # <<>>}

Interested(k) == {l \in listeners : k \in Deps[l]}

\* Registry::notify, the critical section.  Only the host has listeners: a
\* notification of a staging that is not committed finds none.
Notify(t) ==
  LET job == todo[t]
      found == IF Target(job.reg) = Host THEN Interested(Head(job.svcs)) ELSE {}
      letter(l) == [to |-> l, snap |-> Snapshot(l)]
  IN
  /\ job.svcs # <<>> /\ mail[t] = <<>>
  /\ mail' = [mail EXCEPT ![t] = SetToSeq({letter(l) : l \in found})]
  /\ told' = [l \in Listeners |-> IF l \in found THEN Snapshot(l) ELSE told[l]]
  /\ todo' = [todo EXCEPT ![t].svcs = Tail(@)]
  /\ UNCHANGED <<regVars, nextGen, listeners, scope, effects, act, on, seen,
                 held, kind>>

\* One callback, outside of the lock
Deliver(t) ==
  /\ mail[t] # <<>>
  /\ seen' = [seen EXCEPT ![Head(mail[t]).to] = Head(mail[t]).snap]
  /\ mail' = [mail EXCEPT ![t] = Tail(@)]
  /\ act' = [act EXCEPT ![t] = IF @ = "greeting" THEN "idle" ELSE @]
  /\ UNCHANGED <<regVars, nextGen, listeners, scope, effects, on, todo, told,
                 held, kind>>

-----------------------------------------------------------------------------
(***************************************************************************)
(* ContextHandle::subscribe: the listener is registered with the host, then*)
(* made an effect of the scope, then called with a first snapshot.         *)
(***************************************************************************)
Subscribing(t, l) == act[t] \in {"enlist", "greet", "greeting"} /\ on[t] = l

\* Every subscription has an id of its own: it is made once.
RegisterListener(t, l) ==
  /\ Idle(t) /\ l \notin listeners /\ seen[l] = <<>>
  /\ \A t2 \in Threads : ~Subscribing(t2, l)
  /\ listeners' = listeners \cup {l}
  /\ act' = [act EXCEPT ![t] = "enlist"]
  /\ on' = [on EXCEPT ![t] = l]
  /\ UNCHANGED <<regVars, nextGen, scope, effects, todo, mail, callVars, held,
                 kind>>

\* Registry::unregister_listener
Unregister(l) == listeners \ {l}

AddSubscription(t) ==
  LET l == on[t]
      o == SubOwner[l]
  IN
  /\ act[t] = "enlist"
  /\ \/ /\ Admits(o)
        /\ effects' = [effects EXCEPT
                         ![o] = Append(@, [what |-> "listener", sub |-> l])]
        /\ act' = [act EXCEPT ![t] = "greet"]
        /\ UNCHANGED listeners
     \/ /\ ~Admits(o)
        /\ listeners' = Unregister(l)
        /\ act' = [act EXCEPT ![t] = "idle"]
        /\ UNCHANGED effects
  /\ UNCHANGED <<regVars, nextGen, scope, on, todo, mail, callVars, held, kind>>

\* The first snapshot; its callback is a Deliver like any other, after which
\* subscribe returns.
Greet(t) ==
  /\ act[t] = "greet"
  /\ mail' = [mail EXCEPT ![t] = <<[to |-> on[t], snap |-> Snapshot(on[t])]>>]
  /\ told' = [told EXCEPT ![on[t]] = Snapshot(on[t])]
  /\ act' = [act EXCEPT ![t] = "greeting"]
  /\ UNCHANGED <<regVars, nextGen, listeners, scope, effects, on, todo, seen,
                 held, kind>>

\* DependencySubscription::unsubscribe; the effect stays in the scope.
Unsubscribe(t, l) ==
  /\ Idle(t) /\ l \in listeners
  /\ \A t2 \in Threads : ~Subscribing(t2, l)
  /\ listeners' = Unregister(l)
  /\ UNCHANGED <<regVars, nextGen, scope, effects, jobVars, callVars, held, kind>>

-----------------------------------------------------------------------------
(***************************************************************************)
(* Disposal of an owner: Scope::dispose, whose cleanup runs the disposers  *)
(* in reverse order.                                                       *)
(***************************************************************************)
CloseScope(t, o) ==
  /\ Idle(t) /\ scope[o] = "open"
  /\ scope' = [scope EXCEPT ![o] = "closing"]
  /\ act' = [act EXCEPT ![t] = "clean"]
  /\ on' = [on EXCEPT ![t] = o]
  /\ UNCHANGED <<regVars, nextGen, listeners, effects, todo, mail, callVars,
                 held, kind>>

\* Registry::remove_if_current by the disposer of a provider of o
RemoveIfCurrent(t, o, e) ==
  LET tr == Target(View[o])
      current == providers[tr][e.svc] = e.gen
  IN
  /\ e.what = "provider"
  /\ providers' = IF current THEN [providers EXCEPT ![tr][e.svc] = NoGen]
                             ELSE providers
  /\ expected' = IF current /\ tr \in Staged
                 THEN [expected EXCEPT ![tr][e.svc] = Unset] ELSE expected
  /\ todo' = IF current
             THEN [todo EXCEPT ![t] = [reg |-> View[o], svcs |-> <<e.svc>>]]
             ELSE todo
  /\ UNCHANGED listeners

RemoveListener(e) ==
  /\ e.what = "listener"
  /\ listeners' = Unregister(e.sub)
  /\ UNCHANGED <<providers, expected, todo>>

\* One disposer; the next one runs when it has returned.
RunDisposer(t) ==
  LET o == on[t]
      e == Last(effects[o])
  IN
  /\ act[t] = "clean" /\ Quiet(t) /\ effects[o] # <<>>
  /\ effects' = [effects EXCEPT ![o] = Front(@)]
  /\ RemoveIfCurrent(t, o, e) \/ RemoveListener(e)
  /\ UNCHANGED <<committed, nextGen, scope, act, on, mail, callVars, held, kind>>

ScopeClosed(t) ==
  /\ act[t] = "clean" /\ Quiet(t) /\ effects[on[t]] = <<>>
  /\ scope' = [scope EXCEPT ![on[t]] = "closed"]
  /\ act' = [act EXCEPT ![t] = "idle"]
  /\ UNCHANGED <<regVars, nextGen, listeners, effects, on, todo, mail, callVars,
                 held, kind>>

-----------------------------------------------------------------------------
(***************************************************************************)
(* Handles                                                                 *)
(***************************************************************************)
\* ContextHandle::get in the view of o; each user keeps the handle it got.
Get(u, o, k) ==
  /\ held[u] = NoHandle
  /\ Entry(View[o], k) # NoGen
  /\ held' = [held EXCEPT
                ![u] = [reg |-> View[o], svc |-> k, gen |-> Entry(View[o], k)]]
  /\ UNCHANGED <<regVars, nextGen, listeners, scope, effects, jobVars, callVars,
                 kind>>

-----------------------------------------------------------------------------
RNext ==
  \/ \E t \in Threads, o \in Owners, k \in Services,
        how \in {"provide", "replace"} : Publish(t, o, k, how)
  \/ \E t \in Threads, r \in Staged : Commit(t, r)
  \/ \E t \in Threads :
       \/ Notify(t) \/ Deliver(t) \/ AddSubscription(t) \/ Greet(t)
       \/ RunDisposer(t) \/ ScopeClosed(t)
  \/ \E t \in Threads, l \in Listeners :
       RegisterListener(t, l) \/ Unsubscribe(t, l)
  \/ \E t \in Threads, o \in Owners : CloseScope(t, o)
  \/ \E u \in Users, o \in Owners, k \in Services : Get(u, o, k)

RSpec == RInit /\ [][RNext]_rvars

-----------------------------------------------------------------------------
Handles == {NoHandle} \cup [reg : Registries, svc : Services, gen : Gens]

\* Every variable has the type of the field it models.
RTypeOK ==
  /\ providers \in [Registries -> [Services -> Gens \cup {NoGen}]]
  /\ expected \in [Staged -> [Services -> Gens \cup {NoGen, Unset}]]
  /\ committed \in [Staged -> BOOLEAN]
  /\ nextGen \in 1 .. MaxGen + 1
  /\ listeners \subseteq Listeners
  /\ scope \in [Owners -> {"open", "closing", "closed"}]
  /\ act \in [Threads -> {"idle", "enlist", "greet", "greeting", "clean"}]
  /\ on \in [Threads -> {Host} \cup Owners \cup Listeners]
  /\ held \in [Users -> Handles]
  /\ kind \in [Gens -> {"none", "provide", "replace"}]

\* Every provider, in the host or in a staging, is owned: the disposer that
\* removes it is waiting in a scope whose cleanup is not over.  This is what
\* publishing under the admission lock and the forwarding of a committed
\* staging are for: no provider outlives its scope.
OwnedProviders ==
  \A r \in Registries, k \in Services : providers[r][k] # NoGen =>
    \E o \in Owners :
      /\ Target(View[o]) = r /\ scope[o] # "closed"
      /\ Disposer(k, providers[r][k]) \in Range(effects[o])

\* A subscription is not left behind by a scope whose cleanup is over, also
\* when the scope was closed between the registration of the listener and of
\* its effect.
NoOrphanListener ==
  \A l \in listeners :
    \/ scope[SubOwner[l]] # "closed"
    \/ \E t \in Threads : act[t] = "enlist" /\ on[t] = l

\* Registration is strict, also across a commit: a provider of the host is
\* superseded only by a replace, never by a provide that did not see it.
StrictRegistration ==
  \A k \in Services :
    LET old == providers[Host][k]
        new == providers'[Host][k]
    IN  old # NoGen /\ new # NoGen /\ new # old => kind'[new] = "replace"

\* A commit does not change what the staged view resolves: the handles and
\* the providers a candidate plugin got before are good after.
CommitPreservesView ==
  \A r \in Staged : ~committed[r] /\ committed'[r] =>
    \A k \in Services : Entry(r, k)' = Entry(r, k)

\* A stale handle of the host registry never becomes valid again.
StaleStaysStale ==
  [][\A u \in Users :
       /\ held[u] # NoHandle /\ held[u].reg = Host
       /\ IsCurrent(held[u])'
       => IsCurrent(held[u])]_rvars

\* Every change of a service, by publish, commit or removal, leads to a
\* notification of every listener that depends on it: once all calls have
\* returned, the last snapshot prepared for a listener is how things are.
ChangesAreAnnounced ==
  (\A t \in Threads : Idle(t)) =>
    \A l \in listeners : told[l] = Snapshot(l)

\* The registry is consistent in every state: no provider and no listener is
\* left without the scope that owns it (publish and subscribe of context.rs).
RegistryInv == RTypeOK /\ OwnedProviders /\ NoOrphanListener

\* A commit is safe for both sides: it supersedes nothing of the host it has
\* not seen, and changes nothing for the candidate it comes from.
CommitIsFaithful == [][StrictRegistration /\ CommitPreservesView]_rvars
=============================================================================

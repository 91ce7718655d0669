--------------------------- MODULE ScopeLifecycle ---------------------------
(***************************************************************************)
(* Ownership scopes of crates/tessivum-core/src/lifecycle.rs.              *)
(*                                                                         *)
(* A scope owns an ordered list of child scopes and an ordered list of     *)
(* effects, each with a one-shot asynchronous disposer.  The first call    *)
(* of Scope::dispose claims the scope and spawns a cleanup task; every     *)
(* other call joins that task.  A disposer may itself dispose scopes, also *)
(* the ones whose cleanup it is part of, so every cleanup task carries a   *)
(* disposal context: the scopes known to be waiting for it (`ancestors').  *)
(* A task that is asked to wait for a scope of its own context does not    *)
(* wait.                                                                   *)
(*                                                                         *)
(* Processes are the cleanup tasks, named by their scope, and the clients, *)
(* the callers outside any disposal context.  One action is one critical   *)
(* section of ScopeInner::resources, one poll of a waiting future, or one  *)
(* step of dispose_resources.                                              *)
(***************************************************************************)
EXTENDS Naturals, SequencesExt

CONSTANTS
  Scopes,     \* the scopes that may be created
  Effects,    \* the effects that may be registered
  Clients,    \* the callers that are not cleanup tasks
  Parents,    \* Parents[s]: where s may be created (None: as a root)
  Targets,    \* Targets[e]: the scopes the disposer of e may dispose
  None        \* no scope, no effect

ASSUME ConstantsAssumption ==
  /\ Scopes \cap Clients = {}
  /\ None \notin Scopes \cup Effects
  /\ Parents \in [Scopes -> SUBSET (Scopes \cup {None})]
  /\ Targets \in [Effects -> SUBSET (Scopes \cup {None})]

Procs == Scopes \cup Clients

VARIABLES
  state,      \* ScopeInner::state; "Absent" before the scope exists
  cancelled,  \* CancellationInner::cancelled
  children,   \* ScopeResources::children
  effects,    \* ScopeResources::effects
  ancestors,  \* DisposalContextState::ancestors of the scope's completion
  result,     \* DisposeCompletionInner::result, "none" until published
  waiters,    \* DisposeCompletionInner::waiters
  pc,         \* what each process does next
  cont,       \* where a process continues when its dispose call returns
  call,       \* the scope a process awaits
  role,       \* whether that call claimed the scope or joined its cleanup
  kids,       \* children a cleanup has still to dispose
  effs,       \* effects a cleanup has still to dispose
  cur,        \* the effect whose disposer runs
  errs,       \* whether a cleanup has collected an error
  parentOf,   \* history: where a scope was created
  target,     \* the scope an effect's disposer disposes
  reg,        \* history: the effects ever registered with a scope, in order
  ran,        \* history: the effects of a scope whose disposer was started
  failed      \* history: the effects whose disposer returned an error

resVars  == <<children, effects>>
doneVars == <<result, waiters>>
callVars == <<cont, call, role>>
workVars == <<kids, effs, cur, errs>>
histVars == <<parentOf, target, reg, ran, failed>>
vars == <<state, cancelled, resVars, ancestors, doneVars, pc, callVars,
          workVars, histVars>>

ScopeStates == {"Absent", "Active", "Failed", "Unloading", "Disposed"}

\* Mutant: a caller outside any cleanup counts as a disposing scope.
DisposingAnyCaller(p) == IF p \in Scopes THEN ancestors[p] \cup {p} ELSE {p}

(***************************************************************************)
(* disposing_scopes(): the scopes whose cleanup the running process is     *)
(* part of.  A client is polled outside of any DisposalContext.            *)
(***************************************************************************)
Disposing(p) == IF p \in Scopes THEN ancestors[p] \cup {p} ELSE {}

\* is_disposing(s) evaluated by p
IsDisposing(p, s) == s \in Disposing(p)

(***************************************************************************)
(* The processes that wake up when the contexts become `newAncestors': a   *)
(* cleanup task registers its waker in its own context on every poll.      *)
(***************************************************************************)
GrownContexts(newAncestors) ==
  {s \in Scopes : newAncestors[s] # ancestors[s]}

Wake(pcs, who) ==
  [p \in Procs |-> IF p \in who /\ pcs[p] = "asleep" THEN "poll" ELSE pcs[p]]

-----------------------------------------------------------------------------
Init ==
  /\ state = [s \in Scopes |-> "Absent"]
  /\ cancelled = [s \in Scopes |-> FALSE]
  /\ children = [s \in Scopes |-> <<>>]
  /\ effects = [s \in Scopes |-> <<>>]
  /\ ancestors = [s \in Scopes |-> {}]
  /\ result = [s \in Scopes |-> "none"]
  /\ waiters = [s \in Scopes |-> {}]
  /\ pc = [p \in Procs |-> "idle"]
  /\ cont = [p \in Procs |-> "idle"]
  /\ call = [p \in Procs |-> None]
  /\ role = [p \in Procs |-> "none"]
  /\ kids = [p \in Procs |-> <<>>]
  /\ effs = [p \in Procs |-> <<>>]
  /\ cur = [p \in Procs |-> None]
  /\ errs = [p \in Procs |-> FALSE]
  /\ parentOf = [s \in Scopes |-> None]
  /\ target = [e \in Effects |-> None]
  /\ reg = [s \in Scopes |-> <<>>]
  /\ ran = [s \in Scopes |-> <<>>]
  /\ failed = {}

-----------------------------------------------------------------------------
(***************************************************************************)
(* Building the tree.  Refused operations (the scope is not Active) return *)
(* InvalidState and change nothing.                                        *)
(***************************************************************************)
\* Scope::root
NewRoot(s) ==
  /\ state[s] = "Absent" /\ None \in Parents[s]
  /\ state' = [state EXCEPT ![s] = "Active"]
  /\ UNCHANGED <<cancelled, resVars, ancestors, doneVars, pc, callVars,
                 workVars, histVars>>

\* Scope::child, under the parent's resources lock
NewChild(p, s) ==
  /\ state[s] = "Absent" /\ p \in Parents[s]
  /\ state[p] = "Active"
  /\ state' = [state EXCEPT ![s] = "Active"]
  /\ children' = [children EXCEPT ![p] = Append(@, s)]
  /\ parentOf' = [parentOf EXCEPT ![s] = p]
  /\ UNCHANGED <<cancelled, effects, ancestors, doneVars, pc, callVars,
                 workVars, target, reg, ran, failed>>

\* Mutant: add_effect_with does not look at the state of the scope.
AddEffectUnchecked(s, e, t) ==
  /\ state[s] # "Absent"
  /\ t \in Targets[e] /\ (t # None => state[t] # "Absent")
  /\ \A r \in Scopes : e \notin Range(reg[r])
  /\ effects' = [effects EXCEPT ![s] = Append(@, e)]
  /\ reg' = [reg EXCEPT ![s] = Append(@, e)]
  /\ target' = [target EXCEPT ![e] = t]
  /\ UNCHANGED <<state, cancelled, children, ancestors, doneVars, pc,
                 callVars, workVars, parentOf, ran, failed>>

\* Scope::add_effect: the effect is new, its disposer will dispose t (or no
\* scope at all).
AddEffect(s, e, t) ==
  /\ state[s] = "Active"
  /\ t \in Targets[e] /\ (t # None => state[t] # "Absent")
  /\ \A r \in Scopes : e \notin Range(reg[r])
  /\ effects' = [effects EXCEPT ![s] = Append(@, e)]
  /\ reg' = [reg EXCEPT ![s] = Append(@, e)]
  /\ target' = [target EXCEPT ![e] = t]
  /\ UNCHANGED <<state, cancelled, children, ancestors, doneVars, pc,
                 callVars, workVars, parentOf, ran, failed>>

\* CancellationToken::cancel through any clone of the token: it does not
\* touch the scope.
CancelToken(s) ==
  /\ state[s] # "Absent" /\ ~cancelled[s]
  /\ cancelled' = [cancelled EXCEPT ![s] = TRUE]
  /\ UNCHANGED <<state, resVars, ancestors, doneVars, pc, callVars, workVars,
                 histVars>>

-----------------------------------------------------------------------------
(***************************************************************************)
(* Scope::dispose called by process p, which goes on at `after'.  `left'   *)
(* is kids without the child that dispose_resources is disposing.          *)
(***************************************************************************)
\* The contexts after p has claimed s: the children that s owned at that
\* moment inherit s and the caller's context, s inherits the caller's.
ContextsAfterClaim(p, s) ==
  [q \in Scopes |->
     ancestors[q] \cup (IF q \in Range(children[s])
                        THEN Disposing(p) \cup {s} ELSE {})
                  \cup (IF q = s THEN Disposing(p) ELSE {})]

\* Mutant: the resources are copied, not taken.
LeaveResources(s) == UNCHANGED resVars

\* mem::take of the resources of s
TakeResources(s) ==
  /\ children' = [children EXCEPT ![s] = <<>>]
  /\ effects' = [effects EXCEPT ![s] = <<>>]

\* claim_disposal, first caller: close the scope, cancel its token, take its
\* resources and spawn the cleanup task, all under the resources lock.
Claim(p, s, after, left) ==
  /\ state[s] \in {"Active", "Failed"}
  /\ state' = [state EXCEPT ![s] = "Unloading"]
  /\ cancelled' = [cancelled EXCEPT ![s] = TRUE]
  /\ kids' = [left EXCEPT ![s] = children[s]]
  /\ effs' = [effs EXCEPT ![s] = effects[s]]
  /\ TakeResources(s)
  /\ ancestors' = ContextsAfterClaim(p, s)
  /\ pc' = Wake([pc EXCEPT ![p] = "poll", ![s] = "clean"],
                GrownContexts(ancestors'))
  /\ cont' = [cont EXCEPT ![p] = after]
  /\ call' = [call EXCEPT ![p] = s]
  /\ role' = [role EXCEPT ![p] = "owner"]
  /\ UNCHANGED <<doneVars, cur, errs, histVars>>

\* A joining caller that is part of the cleanup of s does not wait.
JoinReentrant(p, s, after, left) ==
  /\ state[s] \in {"Unloading", "Disposed"}
  /\ IsDisposing(p, s)
  /\ pc' = [pc EXCEPT ![p] = after]
  /\ kids' = left
  /\ UNCHANGED <<state, cancelled, resVars, ancestors, doneVars, callVars,
                 effs, cur, errs, histVars>>

\* Any other joining caller will wait.
Join(p, s, after, left) ==
  /\ state[s] \in {"Unloading", "Disposed"}
  /\ ~IsDisposing(p, s)
  /\ pc' = [pc EXCEPT ![p] = "inherit"]
  /\ cont' = [cont EXCEPT ![p] = after]
  /\ call' = [call EXCEPT ![p] = s]
  /\ role' = [role EXCEPT ![p] = "join"]
  /\ kids' = left
  /\ UNCHANGED <<state, cancelled, resVars, ancestors, doneVars, effs, cur,
                 errs, histVars>>

Dispose(p, s, after, left) ==
  \/ Claim(p, s, after, left)
  \/ JoinReentrant(p, s, after, left)
  \/ Join(p, s, after, left)

\* A client disposes a scope.
ClientDispose(c, s) ==
  /\ pc[c] = "idle" /\ state[s] # "Absent"
  /\ Dispose(c, s, "idle", kids)

\* The client drops the future of its dispose call.
Abandon(c) ==
  /\ pc[c] \in {"poll", "asleep"} /\ cont[c] = "idle"
  /\ pc' = [pc EXCEPT ![c] = "idle"]
  /\ UNCHANGED <<state, cancelled, resVars, ancestors, doneVars, callVars,
                 workVars, histVars>>

\* Mutant: the caller starts to wait without handing its context over.
InheritNothing(p) ==
  /\ pc[p] = "inherit"
  /\ pc' = [pc EXCEPT ![p] = "poll"]
  /\ UNCHANGED <<state, cancelled, resVars, ancestors, doneVars, callVars,
                 workVars, histVars>>

\* Before it first waits, a joining caller hands its context, as it is by
\* now, to the scope it waits for: once, and to nobody else.
InheritAncestors(p) ==
  /\ pc[p] = "inherit"
  /\ ancestors' = [ancestors EXCEPT ![call[p]] = @ \cup Disposing(p)]
  /\ pc' = Wake([pc EXCEPT ![p] = "poll"], GrownContexts(ancestors'))
  /\ UNCHANGED <<state, cancelled, resVars, doneVars, callVars, workVars,
                 histVars>>

\* A joining future looks at its own context first: it may have grown.
PollReentrant(p) ==
  /\ pc[p] = "poll" /\ role[p] = "join" /\ IsDisposing(p, call[p])
  /\ pc' = [pc EXCEPT ![p] = cont[p]]
  /\ UNCHANGED <<state, cancelled, resVars, ancestors, doneVars, callVars,
                 workVars, histVars>>

MustWait(p) ==
  pc[p] = "poll" /\ (role[p] = "join" => ~IsDisposing(p, call[p]))

\* Mutant: the error of a child is dropped.
ChildErrorLost(p) == FALSE

\* dispose_resources collects the error of the child it waited for.
ChildFailed(p) == cont[p] = "clean" /\ result[call[p]] = "err"

\* DisposeCompletion::wait finds the published result.
PollReady(p) ==
  /\ MustWait(p) /\ result[call[p]] # "none"
  /\ pc' = [pc EXCEPT ![p] = cont[p]]
  /\ errs' = [errs EXCEPT ![p] = @ \/ ChildFailed(p)]
  /\ UNCHANGED <<state, cancelled, resVars, ancestors, doneVars, callVars,
                 kids, effs, cur, histVars>>

\* Mutant: the waker is not stored.
ForgetWaker(p) == waiters

RegisterWaker(p) == [waiters EXCEPT ![call[p]] = @ \cup {p}]

\* DisposeCompletion::wait checks the result again under the waiters lock
\* and registers the waker.
PollPending(p) ==
  /\ MustWait(p) /\ result[call[p]] = "none"
  /\ waiters' = RegisterWaker(p)
  /\ pc' = [pc EXCEPT ![p] = "asleep"]
  /\ UNCHANGED <<state, cancelled, resVars, ancestors, result, callVars,
                 workVars, histVars>>

Poll(p) ==
  \/ InheritAncestors(p) \/ PollReentrant(p) \/ PollReady(p) \/ PollPending(p)

-----------------------------------------------------------------------------
(***************************************************************************)
(* dispose_resources run by process p for scope s: the children in reverse *)
(* order, then the effects in reverse order, whatever each of them returns.*)
(***************************************************************************)
CleanChild(p) ==
  /\ pc[p] = "clean" /\ kids[p] # <<>>
  /\ Dispose(p, Last(kids[p]), "clean", [kids EXCEPT ![p] = Front(@)])

StartDisposer(p, s) ==
  /\ pc[p] = "clean" /\ kids[p] = <<>> /\ effs[p] # <<>>
  /\ effs' = [effs EXCEPT ![p] = Front(@)]
  /\ cur' = [cur EXCEPT ![p] = Last(effs[p])]
  /\ ran' = [ran EXCEPT ![s] = Append(@, Last(effs[p]))]
  /\ pc' = [pc EXCEPT ![p] = IF target[Last(effs[p])] = None
                             THEN "settle" ELSE "disposer"]
  /\ UNCHANGED <<state, cancelled, resVars, ancestors, doneVars, callVars,
                 kids, errs, parentOf, target, reg, failed>>

\* The disposer disposes a scope, inside the disposal context of p.
DisposerDisposes(p) ==
  /\ pc[p] = "disposer"
  /\ Dispose(p, target[cur[p]], "settle", kids)

\* The disposer returns; its error is collected and the cleanup goes on.
FinishDisposer(p) ==
  /\ pc[p] = "settle"
  /\ \E bad \in BOOLEAN :
       /\ errs' = [errs EXCEPT ![p] = @ \/ bad]
       /\ failed' = IF bad THEN failed \cup {cur[p]} ELSE failed
  /\ cur' = [cur EXCEPT ![p] = None]
  /\ pc' = [pc EXCEPT ![p] = "clean"]
  /\ UNCHANGED <<state, cancelled, resVars, ancestors, doneVars, callVars,
                 kids, effs, parentOf, target, reg, ran>>

\* The cleanup future of scope s ends: the scope is Disposed ...
FinishCleanup(s) ==
  /\ pc[s] = "clean" /\ kids[s] = <<>> /\ effs[s] = <<>>
  /\ state' = [state EXCEPT ![s] = "Disposed"]
  /\ pc' = [pc EXCEPT ![s] = "publish"]
  /\ UNCHANGED <<cancelled, resVars, ancestors, doneVars, callVars, workVars,
                 histVars>>

\* ... then DisposeCompletion::complete publishes the aggregate result ...
Publish(s) ==
  /\ pc[s] = "publish"
  /\ result' = [result EXCEPT ![s] = IF errs[s] THEN "err" ELSE "ok"]
  /\ pc' = [pc EXCEPT ![s] = "notify"]
  /\ UNCHANGED <<state, cancelled, resVars, ancestors, waiters, callVars,
                 workVars, histVars>>

\* ... and wakes whoever registered for it.
WakeWaiters(s) ==
  /\ pc[s] = "notify"
  /\ waiters' = [waiters EXCEPT ![s] = {}]
  /\ pc' = Wake([pc EXCEPT ![s] = "done"], waiters[s])
  /\ UNCHANGED <<state, cancelled, resVars, ancestors, result, callVars,
                 workVars, histVars>>

-----------------------------------------------------------------------------
CleanupTask(s) ==
  \/ CleanChild(s) \/ StartDisposer(s, s) \/ DisposerDisposes(s)
  \/ FinishDisposer(s) \/ FinishCleanup(s) \/ Publish(s) \/ WakeWaiters(s)
  \/ Poll(s)

Next ==
  \/ \E s \in Scopes : NewRoot(s) \/ CancelToken(s) \/ CleanupTask(s)
  \/ \E p, s \in Scopes : NewChild(p, s)
  \/ \E s \in Scopes, e \in Effects, t \in Scopes \cup {None} :
       AddEffect(s, e, t)
  \/ \E c \in Clients : Abandon(c) \/ Poll(c)
  \/ \E c \in Clients, s \in Scopes : ClientDispose(c, s)

Spec == Init /\ [][Next]_vars

-----------------------------------------------------------------------------
PCs == {"idle", "clean", "disposer", "settle", "inherit", "poll", "asleep",
        "publish", "notify", "done"}

\* Every variable has the type of the field it models.
TypeOK ==
  /\ state \in [Scopes -> ScopeStates]
  /\ cancelled \in [Scopes -> BOOLEAN]
  /\ children \in [Scopes -> Seq(Scopes)]
  /\ effects \in [Scopes -> Seq(Effects)]
  /\ ancestors \in [Scopes -> SUBSET Scopes]
  /\ result \in [Scopes -> {"none", "ok", "err"}]
  /\ waiters \in [Scopes -> SUBSET Procs]
  /\ pc \in [Procs -> PCs]
  /\ cont \in [Procs -> {"idle", "clean", "settle"}]
  /\ call \in [Procs -> Scopes \cup {None}]
  /\ role \in [Procs -> {"none", "owner", "join"}]
  /\ kids \in [Procs -> Seq(Scopes)]
  /\ effs \in [Procs -> Seq(Effects)]
  /\ cur \in [Procs -> Effects \cup {None}]
  /\ errs \in [Procs -> BOOLEAN]
  /\ parentOf \in [Scopes -> Scopes \cup {None}]
  /\ target \in [Effects -> Scopes \cup {None}]
  /\ reg \in [Scopes -> Seq(Effects)]
  /\ ran \in [Scopes -> Seq(Effects)]
  /\ failed \in SUBSET Effects

(***************************************************************************)
(* Safety                                                                  *)
(***************************************************************************)
\* A Disposed scope has run the disposer of every effect that was ever
\* registered with it, exactly once and in reverse registration order, and
\* none of them is still running: dispose_resources against the admission
\* lock of add_effect_with.
CleanedWhenDisposed ==
  \A s \in Scopes : state[s] = "Disposed" =>
    /\ ran[s] = Reverse(reg[s])
    /\ \A p \in Procs : cur[p] \notin Range(reg[s])

Settled(c, s) == result[c] # "none" \/ c \in ancestors[s]

\* A scope starts no disposer and does not become Disposed before all its
\* children have completed, except a child that waits (itself or through
\* others) for this very scope: the re-entrancy rule of Scope::dispose.
ChildrenQuiesceFirst ==
  \A s, c \in Scopes :
    parentOf[c] = s /\ (ran[s] # <<>> \/ state[s] = "Disposed") =>
      Settled(c, s)

\* A scope that reports success had no failing disposer and no child that
\* reported a failure it could wait for: collect_cleanup_error loses nothing.
FailuresPropagate ==
  \A s \in Scopes : result[s] = "ok" =>
    /\ Range(reg[s]) \cap failed = {}
    /\ \A c \in Scopes : parentOf[c] = s =>
         result[c] = "ok" \/ c \in ancestors[s]

\* A process sleeps only while a wake-up is still to come: the completion it
\* registered with has not woken its waiters, and a join of a scope of its
\* own context has been woken by inherit_ancestors.
NoLostWakeup ==
  \A p \in Procs : pc[p] = "asleep" =>
    /\ result[call[p]] = "none" \/ pc[call[p]] = "notify"
    /\ p \in waiters[call[p]]
    /\ role[p] = "join" => ~IsDisposing(p, call[p])

\* No set of cleanup tasks wait for each other in a circle: the contexts
\* handed over by inherit_ancestors are there to turn every cycle of dispose
\* calls into a re-entrant call. Up to three scopes they do; with four, a
\* context grows after it was handed over and the cycle closes.
NoCircularWait ==
  ~ \E D \in (SUBSET Scopes) \ {{}} :
      \A p \in D : pc[p] = "asleep" /\ call[p] \in D

\* A cleanup is orderly from the outside: children first, and no error of a
\* child or of an effect is lost on the way up through dispose_resources.
DisposalIsOrderly == ChildrenQuiesceFirst /\ FailuresPropagate

\* Nobody waits for ever in Scope::dispose: neither for a wake-up that is not
\* coming nor in a circle of cleanups that await each other.
NobodyIsStranded == NoLostWakeup /\ NoCircularWait
=============================================================================

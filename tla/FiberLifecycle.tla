--------------------------- MODULE FiberLifecycle ---------------------------
(***************************************************************************)
(* Fibers of crates/tessivum-core/src/lifecycle.rs: a named task that owns *)
(* a child scope.  A fiber is named by its scope.  Its own state word is   *)
(* written by Fiber::start and Fiber::dispose without a lock, next to the  *)
(* state of the scope, and a failing setup rolls the scope back inline, in *)
(* the future of Fiber::start and outside of any cleanup task.             *)
(*                                                                         *)
(* A client executes one fiber operation at a time; `fpc' is its place in  *)
(* it.  Setup code may use the tree like any client.                       *)
(***************************************************************************)
EXTENDS ScopeLifecycle

VARIABLES
  raw,      \* FiberInner::state, "none" for a scope that is not a fiber's
  fpc,      \* where a client is in Fiber::start or Fiber::dispose
  fib       \* the fiber it operates on

fiberVars == <<raw, fpc, fib>>
fvars == <<vars, fiberVars>>

FiberStates == {"Pending", "Loading", "Active", "Failed", "Disposed",
                "Unloading"}

\* Fiber::state: a scope that has left Active decides.
FiberState(f) ==
  IF state[f] \in {"Failed", "Unloading", "Disposed"} THEN state[f] ELSE raw[f]

FInit ==
  /\ Init
  /\ raw = [s \in Scopes |-> "none"]
  /\ fpc = [c \in Clients |-> "none"]
  /\ fib = [c \in Clients |-> None]

Goto(c, where) == fpc' = [fpc EXCEPT ![c] = where]

-----------------------------------------------------------------------------
\* Fiber::new
NewFiber(p, f) ==
  /\ NewChild(p, f)
  /\ raw' = [raw EXCEPT ![f] = "Pending"]
  /\ UNCHANGED <<fpc, fib>>

\* Fiber::start, the check of the scope; a closed scope is an error.
StartCheck(c, f) ==
  /\ fpc[c] = "none" /\ pc[c] = "idle" /\ raw[f] # "none"
  /\ state[f] = "Active"
  /\ Goto(c, "cas")
  /\ fib' = [fib EXCEPT ![c] = f]
  /\ UNCHANGED <<vars, raw>>

CanLoad(f) == raw[f] = "Pending"

\* Fiber::start, compare_exchange(Pending, Loading): the loser gets an error.
StartCas(c) ==
  /\ fpc[c] = "cas"
  /\ \/ /\ CanLoad(fib[c])
        /\ raw' = [raw EXCEPT ![fib[c]] = "Loading"]
        /\ Goto(c, "setup")
     \/ /\ ~CanLoad(fib[c])
        /\ Goto(c, "none")
        /\ UNCHANGED raw
  /\ UNCHANGED <<vars, fib>>

\* Setup returned Ok and the scope's state is read.  (It cannot be Failed:
\* only this very start can fail the scope.)
SetupOk(c) ==
  /\ fpc[c] = "setup" /\ pc[c] = "idle"
  /\ Goto(c, IF state[fib[c]] = "Active" THEN "store" ELSE "none")
  /\ UNCHANGED <<vars, raw, fib>>

\* ... and Active is stored, whatever happened since.
StoreActive(c) ==
  /\ fpc[c] = "store"
  /\ raw' = [raw EXCEPT ![fib[c]] = "Active"]
  /\ Goto(c, "none")
  /\ UNCHANGED <<vars, fib>>

\* Setup returned Err: Failed is stored, then the scope is rolled back.
SetupErr(c) ==
  /\ fpc[c] = "setup" /\ pc[c] = "idle"
  /\ raw' = [raw EXCEPT ![fib[c]] = "Failed"]
  /\ Goto(c, "rollback")
  /\ UNCHANGED <<vars, fib>>

\* Scope::rollback_failed_setup: under the lock, unless disposal was first,
\* the scope becomes Failed and gives its resources to this future.
Rollback(c) ==
  LET f == fib[c] IN
  /\ fpc[c] = "rollback" /\ state[f] = "Active"
  /\ state' = [state EXCEPT ![f] = "Failed"]
  /\ cancelled' = [cancelled EXCEPT ![f] = TRUE]
  /\ kids' = [kids EXCEPT ![c] = children[f]]
  /\ effs' = [effs EXCEPT ![c] = effects[f]]
  /\ TakeResources(f)
  /\ pc' = [pc EXCEPT ![c] = "clean"]
  /\ Goto(c, "rolling")
  /\ UNCHANGED <<ancestors, doneVars, callVars, cur, errs, histVars, raw, fib>>

RollbackLost(c) ==
  /\ fpc[c] = "rollback" /\ state[fib[c]] # "Active"
  /\ Goto(c, "none")
  /\ UNCHANGED <<vars, raw, fib>>

\* dispose_resources in the future of Fiber::start
RollbackStep(c) ==
  /\ fpc[c] = "rolling"
  /\ \/ CleanChild(c) \/ StartDisposer(c, fib[c]) \/ DisposerDisposes(c)
     \/ FinishDisposer(c)
  /\ UNCHANGED fiberVars

\* The rollback is over and start returns the collected errors.
RollbackDone(c) ==
  /\ fpc[c] = "rolling"
  /\ pc[c] = "clean" /\ kids[c] = <<>> /\ effs[c] = <<>>
  /\ pc' = [pc EXCEPT ![c] = "idle"]
  /\ errs' = [errs EXCEPT ![c] = FALSE]
  /\ Goto(c, "none")
  /\ UNCHANGED <<state, cancelled, resVars, ancestors, doneVars, callVars,
                 kids, effs, cur, histVars, raw, fib>>

\* Fiber::dispose: the compare_exchange loop, ...
FiberDispose(c, f) ==
  /\ fpc[c] = "none" /\ pc[c] = "idle" /\ raw[f] # "none"
  /\ raw' = [raw EXCEPT ![f] = IF @ \in {"Unloading", "Disposed"} THEN @
                               ELSE "Unloading"]
  /\ Goto(c, "disposing")
  /\ fib' = [fib EXCEPT ![c] = f]
  /\ UNCHANGED vars

\* ... the disposal of the scope, ...
FiberDisposeScope(c) ==
  /\ fpc[c] = "disposing"
  /\ Dispose(c, fib[c], "idle", kids)
  /\ Goto(c, "awaiting")
  /\ UNCHANGED <<raw, fib>>

\* ... and the final store.
FiberDisposed(c) ==
  /\ fpc[c] = "awaiting" /\ pc[c] = "idle"
  /\ raw' = [raw EXCEPT ![fib[c]] =
               IF state[fib[c]] = "Disposed" THEN "Disposed" ELSE @]
  /\ Goto(c, "none")
  /\ UNCHANGED <<vars, fib>>

-----------------------------------------------------------------------------
FiberOperation(c) ==
  \/ StartCas(c) \/ SetupOk(c) \/ StoreActive(c) \/ SetupErr(c)
  \/ Rollback(c) \/ RollbackLost(c) \/ RollbackStep(c) \/ RollbackDone(c)
  \/ FiberDisposeScope(c) \/ FiberDisposed(c)
  \/ Poll(c) /\ UNCHANGED fiberVars

ScopeOperation ==
  \/ \E s \in Scopes : NewRoot(s) \/ CleanupTask(s)
  \/ \E s \in Scopes, e \in Effects, t \in Scopes \cup {None} :
       AddEffect(s, e, t)
  \/ \E c \in Clients, s \in Scopes :
       fpc[c] \in {"none", "setup"} /\ ClientDispose(c, s)

FNext ==
  \/ ScopeOperation /\ UNCHANGED fiberVars
  \/ \E p, f \in Scopes : NewFiber(p, f)
  \/ \E c \in Clients : FiberOperation(c)
  \/ \E c \in Clients, f \in Scopes : StartCheck(c, f) \/ FiberDispose(c, f)

FSpec == FInit /\ [][FNext]_fvars

\* Some woken cleanup task is polled (a task has finitely many steps, so
\* which one does not matter) and so are the pending futures of each caller;
\* a setup future ends however often it calls dispose before.
FFairSpec ==
  /\ FSpec
  /\ WF_fvars((\E s \in Scopes : CleanupTask(s)) /\ UNCHANGED fiberVars)
  /\ \A c \in Clients : /\ WF_fvars(FiberOperation(c))
                        /\ SF_fvars(SetupOk(c) \/ SetupErr(c))

-----------------------------------------------------------------------------
\* The fiber variables have the types of the fields they model.
FTypeOK ==
  /\ TypeOK
  /\ raw \in [Scopes -> FiberStates \cup {"none"}]
  /\ fpc \in [Clients -> {"none", "cas", "setup", "store", "rollback",
                          "rolling", "disposing", "awaiting"}]
  /\ fib \in [Clients -> Scopes \cup {None}]

Rolling(s) == \E c \in Clients : fpc[c] = "rolling" /\ fib[c] = s

\* Rollback and disposal race for the resources of a scope, and exactly one
\* of them gets them: no disposer is started twice, and they are started in
\* reverse registration order.  mem::take under the resources lock.
CleanedOnceInOrder ==
  \A s \in Scopes : state[s] # "Active" => IsPrefix(ran[s], Reverse(reg[s]))

\* A scope that reports Disposed has had all its disposers started, unless
\* the rollback of its failed setup is still at work on them.
OnlyRollbackOutlivesDisposal ==
  \A s \in Scopes :
    state[s] = "Disposed" => ran[s] = Reverse(reg[s]) \/ Rolling(s)

\* The setup of a fiber is run by at most one of several concurrent starts.
SetupRunsOnce ==
  \A c1, c2 \in Clients :
    /\ fpc[c1] \in {"setup", "store", "rollback", "rolling"}
    /\ fpc[c2] \in {"setup", "store", "rollback", "rolling"}
    /\ fib[c1] = fib[c2]
    => c1 = c2

\* Once all operations on a fiber are over, nobody sees it half way: it is
\* not Loading, and not Unloading.
NoFiberStuckHalfway ==
  \A f \in Scopes :
    /\ raw[f] # "none"
    /\ \A c \in Clients : fpc[c] = "none" \/ fib[c] # f
    /\ pc[f] \in {"idle", "publish", "notify", "done"}
    => FiberState(f) \in {"Pending", "Active", "Failed", "Disposed"}

\* A fiber and its scope are consistent whatever its callers interleave: the
\* parts above, of Fiber::start, its rollback and Fiber::dispose.
FiberInv ==
  /\ FTypeOK
  /\ CleanedOnceInOrder
  /\ OnlyRollbackOutlivesDisposal
  /\ SetupRunsOnce
  /\ NoFiberStuckHalfway

\* Everything registered with a scope that has left Active is disposed of in
\* the end, by the cleanup task or by the rollback, and a claimed disposal
\* publishes its result.
NoEffectLeaks ==
  \A s \in Scopes :
    state[s] \in {"Failed", "Unloading"} ~>
      /\ ran[s] = Reverse(reg[s])
      /\ state[s] = "Failed" \/ result[s] # "none"

\* Fiber::start and Fiber::dispose return.
FiberOperationsReturn == \A c \in Clients : fpc[c] # "none" ~> fpc[c] = "none"

=============================================================================

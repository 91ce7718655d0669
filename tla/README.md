# Verification of tessivum-core

TLA+ models of Tessivum (the Rust plugin runtime under `crates/`, with its Node
compat host under `node/`), TLC runs that check them on small instances, and
TLAPS proofs of the safety properties of all of them. Paths below are relative to
the repository.

## 1. The system

| Component | Source | State | Operations |
|---|---|---|---|
| Scopes | `crates/tessivum-core/src/lifecycle.rs` | state word, cancellation token, ordered children and effects behind one lock, completion (result, waiters, disposal context) | `root`, `child`, `add_effect`, `dispose`; cleanup task |
| Fibers | same file | a second state word next to the scope's | `new`, `start` with inline rollback, `dispose` |
| Cancellation | same file | flag, waiters | `cancel`, `cancelled()` |
| Service registry and context | `service.rs`, `context.rs`, `ids.rs` | providers by service, listeners, staged registries over a host registry | `provide`, `replace`, `get`, `with`, `subscribe`, `staged`, `commit_staged`, disposers |
| Event bus | `events.rs` | listeners by event, once flags, diagnostics | `on`, `once`, `remove`; `emit`, `bail`, `parallel`, `serial`, `waterfall` |
| Native plugins | `native.rs` | instance, fiber, dependency gate; control block, worker thread | `start`, `update`, `suspend`, `stop`; `activation`, `dispose` of the handle |
| Loader | `loader.rs` | committed tree, live handles, document file | `load`, `update`, `replace`, `unload`, `persist` |
| Entry-tree watcher | same file | worker thread, stop flag and permit, snapshot | start, poll, refresh, `stop` |
| Wasm runtime | `crates/tessivum-extism/src/lib.rs` | guest slot and condition variable, accepting flag, active call, reserved ids, lifecycle guard | `instantiate`, `invoke`, `update`, `cancel_current`, `stop`, `revoke`, drop |
| Bridge client | `crates/tessivum-node-bridge/src/supervisor.rs` | connection state, pending table, bounded queues, permits; writer, reader, dispatcher and handler threads | `begin_request`, `wait`, `cancel`, `close`; requests of the host and their cancellation |
| Supervisor | same file | active process, cleanups by generation | `start`, `register_cleanup`, `shutdown`, drop, disconnect handler |
| Legacy Node plugins | same file | active flag of a handle | `instantiate`, `activate`, `update`, `dispose` |
| Compat host | `node/compat-host/src/host.ts` | incoming, queued and outgoing requests, plugins, registrations | `receive`, `cancel`, `beginRemote`, plugin operations, `shutdown` |
| Codecs, configuration, ids, errors, PDK, benchmarks, conformance driver, oracle | remaining files | none of their own, or counters | pure conversions and drivers |

How they interact. A context handle couples a scope with a registry and an event
bus: services, subscriptions and listeners are effects of the scope and
disappear with it. A native plugin instance owns a fiber; its worker thread is
driven by registry notifications and by the loader, which owns the handle. The
loader replaces whole trees of handles, native, Wasm and legacy ones, and the
watcher drives a loader from a file. The supervisor owns the Node process and
one bridge client per generation; the bridge's threads and its callers share the
pending table; the client and the compat host ask each other for operations over
one pair of pipes.

What is hard. Disposal is re-entrant and concurrent, and waits across scopes.
Rollback of a failed setup competes with disposal. State words are written
without locks. Registry and event callbacks run outside the locks, on snapshots.
The managed worker acts on snapshots that may be stale. A replacement of a tree
may fail at every handle, and so may its restoration. Replies, timeouts,
cancellations and disconnects race for one request, and each end of the bridge
waits for the other with bounded queues whose frames may be dropped. Processes
exit at any time. One guest is shared by calls, cancellations and a stop.
`PROJECT.json` lists these hazards at their lines with the properties that would
catch them.

What makes each component correct:

- scopes: every effect is disposed once, effects in reverse order, after the
  children; errors reach the caller; every disposal ends;
- fibers: setup runs once; rollback and disposal together dispose everything;
- registry: no provider or listener outlives its scope; registration is strict
  also across commits; handles never come back to life;
- events: once is once over all dispatches, closed owners are silent, calls
  follow the snapshot, a parallel dispatch waits for all;
- managed runtime: the plugin runs exactly when its providers are there, no
  fiber is forgotten, activation and disposal end;
- loader: every call takes effect as a whole or not at all, no handle is dropped
  undisposed, the document is whole at every moment;
- watcher: the newest source is seen, and stop joins;
- Wasm: one thread has the guest, the stop export is its last call, nobody
  sleeps for a guest that is gone, an id is not reused too early;
- bridge: a request is settled once, never forgotten, never left in the table;
  requests of the host are answered once, cancelled once, and run under a bound;
- supervisor: no process is left behind, cleanups of a generation run once.

## 2. Modules

| Module | Models | Built on |
|---|---|---|
| `ScopeLifecycle` | scopes | |
| `FiberLifecycle` | fibers | extends `ScopeLifecycle` |
| `ServiceRegistry` | registry and context handles | |
| `EventBus` | event bus | |
| `ManagedNative` | worker, control block, gate, plugin instance | |
| `EntryTree` | trees, patches, validation as operators | |
| `TreeRegister` | abstract specification of a loader | |
| `Loader` | loader, persisted file | `EntryTree`; implements `TreeRegister` |
| `EntryTreeWatcher` | watcher composed with its loader | extends `Loader` |
| `WasmRuntime` | one Wasm instance, its handle and its id | |
| `BridgeClient` | Rust end of a connection, requests of Rust | |
| `CompatHost` | request correlation of the compat host | |
| `HostRequests` | requests of the host, both ends composed | extends `CompatHost` |
| `NodeSupervisor` | processes, generations, cleanups | |
| `LegacyNode` | plugin handles over the supervisor | extends `NodeSupervisor` |
| `LifecycleProofs` | theorems on scopes and fibers | extends `FiberLifecycle` |
| `ServiceProofs` | theorems on the registry and the managed runtime | extends `ServiceRegistry`, `ManagedNative` |
| `EntryTreeWatcherProofs` | theorems on trees, loader and watcher, refinement of `TreeRegister` | extends `EntryTreeWatcher` |
| `EventBusProofs`, `LegacyNodeProofs`, `WasmRuntimeProofs`, `BridgeClientProofs`, `HostRequestsProofs` | theorems on the rest | each extends the module of its name |
| `MCScope`, `MCFiber`, `MCRegistry`, `MCEvents`, `MCManaged`, `MCLoader`, `MCBridge` | instances for TLC | |

Definitions that begin with a comment "Mutant:" are deliberately wrong variants
of the definition after them; they are used to check that each property can fail.

### ScopeLifecycle

`state`, `cancelled`, `children`, `effects` are the fields of `ScopeInner`;
`result`, `waiters`, `ancestors` those of `DisposeCompletion` and its
`DisposalContextState`. `kids`, `effs`, `cur`, `errs` are the locals of
`dispose_resources`; `call`, `cont`, `role` describe the pending dispose call of
a process. `reg`, `ran`, `failed`, `parentOf` are history. `Claim` is
`claim_disposal`, one critical section. `Join`, `InheritAncestors`, `Poll...`
are the join path, one action per poll. `StartDisposer`, `DisposerDisposes`,
`FinishDisposer` run an effect; a disposer may dispose one scope. `FinishCleanup`,
`Publish`, `WakeWaiters` are the end of the cleanup task, in three steps, because
a joiner may poll between any two of them. `Abandon` drops a client's future.
`claim_disposal` touches the children's contexts while it holds the scope's lock;
those are separate locks, but nothing reads a child's context and the claimed
scope's resources together, so the claim is one action. The task takes its
children from the end of the list, as the code does; that siblings go in reverse
order is part of the action and not of a property, since any of them may have been
disposed by somebody else before its turn.

### FiberLifecycle

`raw` is `FiberInner::state`. `StartCheck`, `StartCas`, `SetupOk`, `StoreActive`
are the unlocked steps of `Fiber::start`; `SetupErr`, `Rollback`, `RollbackStep`,
`RollbackDone` its failure, which disposes resources in the client's own future.
Setup code may register effects and dispose scopes: the scope actions stay
enabled. `FiberDispose`, `FiberDisposeScope`, `FiberDisposed` are `Fiber::dispose`.

### ServiceRegistry

`providers` maps registry and service to a generation. A staged registry reads
through to the host (`Entry`), records what it saw (`expected`), and commits under
both locks (`Commit`). `Publish` is `publish_service` with `Registry::provide`
under the scope's admission lock. `Notify` is the critical section of `notify`,
`Deliver` one callback. `RegisterListener`, `AddSubscription`, `Greet` are
`subscribe`. `CloseScope`, `RunDisposer`, `ScopeClosed` are disposal of an owner.
`Get` and `held` are the handles a user keeps; `IsCurrent` is the check `with` and
`is_current` make. `told` is history: the last snapshot prepared for each listener.

### ManagedNative

The variables are the fields of `ManagedState` and the locals of
`run_managed_native`. A fiber is a record: what its scope and state word amount
to for the worker, how often `stop` was called, and whether its disposal reported
an error (which stays, as `ScopeLifecycle` shows). `Faults` names the steps of
plugin code that may fail. `Change` writes the provider and `Announce` prepares
the callbacks, as the registry does in two critical sections; `Watch`,
`ReadSnapshot` and `GreetWatcher` are the three steps of the watcher's
subscription (`GateSubscribe`, `ReadSnapshot`, `GreetGate` those of the gate), so
a notification may arrive before the first snapshot, after it, or twice. Only one
thread changes providers. A first snapshot that is delivered after a newer
notification hides the provider (section 3, Observations); `Caught` therefore asks
that the control block shows the provider that is there.
Disposal of the context's own scope under a running worker is not modelled: the
loader disposes the handle first.

### EventBus

`entries` is the list of the event, as tokens into `listeners`; `effects` are the
listener effects of each owner. Registration is three steps (`Register`,
`Insert`, then `Own` or `Disown`), because the owner may be closed between them.
A dispatch takes its snapshot one listener at a time (`Scan`): the list is locked,
the owners are not. `ClaimOnce` is the swap of the once flag and `Unlist` the
removal that follows. `Call` and `ReturnInTurn` serve emit, bail and serial;
`FirstPoll`, `FutureReady` and `Joined` are `join_all`; `CallNext` and
`ReturnFromChain` are the waterfall, whose continuation may be kept beyond the
end of the dispatch. `Abandon` drops a pending asynchronous dispatch.

### EntryTree, Loader, TreeRegister

A tree is the sequence of its sections in the order the code walks them.
`ApplyPatch` is one patch, `ApplyAll` a list of them; the result is validated
once, at the end, so trees in between (`AfterPatches`) may be invalid. `Trees` and
`Patches` are all the trees and patches over some ids; an instance chooses from
them (`LoaderAssumption`). A call of the loader goes
through `phase`: import of the candidate, retirement of the live handles,
activation in rounds, commit; or discarding the candidate and restoring the
committed tree, which runs the same phases with `restoring`. Each import, answer
and disposal is a step and may fail. `Notice` is a managed handle that follows
its providers by itself, and starts, suspends or fails to (`CaughtUp`); the loader
neither takes part in that nor hears of it. The providers of an entry are entries
of its tree (`Needs`), and for some entries (`Exposed`) also others, which come and
go at any time. A handle that has failed stays in its list until it is disposed or
has something new to follow. `persist` is the write of the temporary file and its
rename.

`TreeRegister` says what a caller may rely on: `Ask`, then `Grant` (the tree asked
for is committed, and served entirely) or `Deny` (the tree stays, and nothing
else is served). The refinement maps `wanted` to `job` and `served` to the entries
whose handles are not disposed; it is `Unknown` during a call. `Deny` allows less
than the whole tree to be served, because a restoration may fail too;
`CommittedTreeIsLive` says that this is the only case. The register knows nothing of
trees: which of them are valid and what they put in service are its constants.

### EntryTreeWatcher

The worker's loop is `Observe`, `ApplyReplace` or `ApplyRefused`, `Applied`,
`Loop`, `Wait`, `Awake`, `StartUnload`, `Finish`; `Replace` and `Unload` are the
loader's own actions, and its steps interleave with `Stop`, `Notify`, `Join` and
`WriteSource`. `permit` is the stored permit of `Notify`. In the same module a
client that owns a loader without a watcher calls all its operations (`owner`).

### WasmRuntime

The guest is in its `slot` or with one thread; the places of a thread (`pc`) are
the points of `invoke`, `cancel_current` and `stop` between two accesses to
shared state. `lockedBy` holds the mutex from `TakeGuest` to `Recheck`, where
`invoke` sets the active call and reads `accepting` again. A canceller works on
the call it has looked up, which may have ended (`Cas`, `InterruptEngine`).
The engine is external; `Sticky` says whether it keeps a cancellation for the
next call. The one in memory does, and keeps it beyond a call whose handler fails;
the one of Extism forgets what came before the call began. Ids (`holder`), the
guard and the failures of `instantiate` are `Lifecycle`. The bindings are alive
before the engine is asked for a guest, and stay so when it fails; that a failed
engine has dropped what it was given, the bindings among it, is assumed of it.

### BridgeClient

`pending` is the table, `chan` the reply channels, `hand` a reply removed from
the table and not yet sent, `taken` those removed by `disconnect()`. Whoever
removes an entry may send the reply; removal and sending are separate steps
because the lock is released in between. `rpc` is the place of a caller in
`begin_request` and `BridgeRequest::wait`. `TimeOut` may happen at any time. The
peer may be any program: it may be ready before it is greeted, and answer what was
not asked yet, or again and again (`DispatchAnswer`). An answer is "response",
which stands for a response or an error frame, or "cancelled".

### CompatHost, HostRequests

`CompatHost` is the host's side: `remote` and `cancelledRemote` are its requests
to Rust, `operations`, `running` and `settled` the promise chain of operations
that Rust has asked for; `awaits` is the request that the operation in progress
waits for. `HostRequests` adds the dispatcher thread, the handlers on it and on
threads of their own (`permits`), the queue to the writer, cancel frames and the
frames they cross, panics, timeouts and the end of the connection (`GiveUp`). The
compat host sends one cancel frame a request at most; the client must do with more,
so a host may also repeat one until it has the answer (`DispatchRepeated`). A
handler may ask the host for something: then each end waits for the other.

### NodeSupervisor, LegacyNode

A generation has a `child`, a connection and its `cleanups`. `Take` is the
critical section in which somebody takes the active generation with its cleanups;
`Release` is `release_generation`. Start is six steps (`StartCheck` to
`Handshake`) with every failure of the middle ones. The threads of a client are
represented by one thread per generation that runs the disconnect handler.
`LegacyNode` adds a plugin handle; a request of it is one step with the answers
ok, error and timeout, and after a timeout nobody knows what the host has done.

## 3. Runs

| Run | Instance | Question | Result |
|---|---|---|---|
| `scope_forest` | any forest of 3 scopes, 1 effect with any target, 1 client that may abandon | is disposal complete and orderly, do errors reach the caller, is a wake-up lost, is there a circle of waits? | holds |
| `scope_chain` | chain of 4 scopes, the innermost effect disposes the root | can cleanups wait in a circle? | **violated** |
| `fiber_race` | a fiber under a root, 1 effect that disposes the root, 2 clients, fairness | start, rollback and disposal race: one setup, everything disposed once, every call returns | holds |
| `registry_staging` | 2 threads (symmetric), 2 services, host and one staging, 1 listener, 1 user, 3 generations | ownership, strict registration, transparent commits, no announcement lost, stale handles | holds |
| `event_dispatch` | 2 dispatchers (symmetric), 2 registrations out of 5 listeners, 1 owner, 2 views | once listeners, closed owners, order, completeness of parallel | holds |
| `managed_plugin` | 4 provider changes, every fault, fairness | Active exactly with its providers, no fiber forgotten, restored providers are tried again, activation and disposal end | holds |
| `managed_hang` | stop may fail, fairness | does disposal of the handle always join the worker? | **violated**: the worker is not woken |
| `loader_watcher` | 2 trees, 5 patch lists, 3 sources (one torn), 1 of 3 entries with providers from outside, 3 calls, 2 writes, every fault, fairness | is the loader a register of trees; is the newest source seen, does stop join? | holds |
| `wasm_instance` | 3 threads, 2 calls, 1 update, fairness | one holder of the guest, the stop export is last, a call that stop waits for was told, no use of a released id, every call returns | holds |
| `bridge_requests` | 2 requests, table of 1, queue of 1, fairness | every request is settled once, none is stranded or left in the table, a disconnect releases every caller | holds |
| `host_requests` | 3 requests of the host, one on the dispatcher and two on threads, two ask back, cancel frames repeated, queue of 1, fairness | permits, one cancellation for a handler, single and expected answers; who waits for whom | holds |
| `supervisor` | 2 callers, 2 generations, 2 cleanups each, 1 handle, fairness | no process left, cleanups once, a lost host is released | holds |

Some runs check several invariants under one name, because they describe one
state together:

| Name | Parts |
|---|---|
| `DisposalIsOrderly` | `ChildrenQuiesceFirst`, `FailuresPropagate` |
| `NobodyIsStranded` | `NoLostWakeup`, `NoCircularWait` |
| `FiberInv` | `FTypeOK`, `CleanedOnceInOrder`, `OnlyRollbackOutlivesDisposal`, `SetupRunsOnce`, `NoFiberStuckHalfway` |
| `RegistryInv` | `RTypeOK`, `OwnedProviders`, `NoOrphanListener` |
| `CommitIsFaithful` | `StrictRegistration`, `CommitPreservesView` |
| `EventInv` | `ETypeOK`, `NoStrayListener`, `OnceIsOnce`, `OnceIsSpent` |
| `ManagedInv` | `MTypeOK`, `ActiveMeansBound`, `MissingMeansStopped`, `NoForgottenFiber` |
| `WatcherInv` | `WTypeOK`, `LoaderInv`, `SnapshotIsTrue`, `StoppedMeansUnloaded` |
| `LoaderInv` | `CommittedTreeIsValid`, `PatchesAreLocal`, `NoHandleDropped`, `OldStopsFirst`, `ActivationIsComplete` |
| `WasmInv` | `WaTypeOK`, `GuestIsHeldOnce`, `StopIsLast` |
| `BridgeInv` | `BTypeOK`, `AnswersAreTheWinners` |
| `HostInv` | `HTypeOK`, `ThreadsAreBounded`, `CancelledOnce`, `OneAnswer`, `AnswersAreExpected` |
| `SupervisorInv` | `LTypeOK`, `NoProcessLeft`, `LostIsNoticed`, `HandleTracksHost` |

The violated runs state what a test or an assertion of the repository says;
`PROJECT.json` quotes it under "findings".

### Bounds

Three scopes are needed for a cleanup that is joined by a second and disposed by
a third, and four for the circular wait (three with one effect do not show it, as
`scope_forest` establishes). One effect with a free target produces every
re-entrancy pattern of one disposer; the order of several is the subject of the
theorem `CleanupIsComplete`. Two clients are enough for every race of two
state-word writers; a third would repeat one of their roles. Three generations
let a provider be published, replaced and superseded by a commit. Registry
threads, and dispatchers, are interchangeable, so their permutations are a sound
symmetry (those runs state no liveness). Two listeners and two dispatchers give
every pair of kinds, the claim of one once listener by two dispatches, and a chain
with a continuation. Four provider changes allow a start, an update, a suspension
and a restart, or as many changes during one of them; longer histories repeat
these. Three loader calls are a load, a call that fails in any way and one more on
what that left; the second tree reverses the order of provider and consumer, and
has a group in a disabled group. The entry in
that group depends on the outside once a patch has moved it, so live handles change
on their own next to handles that may not. Two writes of the source make a change during a
transaction and another after it. Three Wasm threads are a caller, a canceller and
a stop, or two callers that wait for one guest. Queues of one make "full" a
frequent case, and a table of one makes the second request meet `MaxPending`.
Three requests of the host are one that blocks the dispatcher, one that asks back
from a thread, and one that competes for its permit. Two generations are a host
that is being released while the next one is started.

Deadlock checking is off because every system may stop: all calls are made, all
bounds are used up, or everything is disposed. That nobody waits forever is stated
by the liveness properties instead.

### Fairness

Spawned tasks and woken futures are polled (weak fairness of cleanup tasks and
polls), threads that can run do (writers, dispatcher, callers, workers, notifier,
the threads of the supervisor), and plugin code, handlers and calls of the guest
return; the engine's timeout and fuel justify the last. Strong fairness is used
once, for the end of a setup future that may call `dispose` any number of times
first. The clock is trusted where a call would otherwise block for good by
design: the handshake and the wait for an exit of the supervisor, and requests
made by a handler on the dispatcher thread; `EveryRequestEnds` states its need for
the timeouts of the other handlers in the formula. The end of a host's output is
seen. Nothing is assumed of clients, peers, sources, hosts or providers: they may
do nothing at all. The watcher's fairness contains that the disposal of a handle
returns, without which its stop could not (`StopJoins`); of a managed native plugin
this is `DisposalJoins`, and `managed_hang` shows the case in which it fails.
`ActivationSettles` and `NewestSourceIsSeen` have their
assumption about the environment in the formula.

### Observations

Made while modelling, where the code is as designed or no run records them on
their own:

- Fibers: `Fiber::start` may store Active after the scope has gone to Unloading
  (`lifecycle.rs:459`), which `FiberState` hides by looking at the scope first.
  Disposal completes while the rollback of a failed setup still runs disposers
  (`lifecycle.rs:336`; by `docs/CONFORMANCE.md:161` completion waits for cleanup):
  `OnlyRollbackOutlivesDisposal` says that nothing else does.
- Registry: a provider may be replaced while a `with` closure runs on it
  (`service.rs:87`). Snapshots for a listener are prepared in order and delivered
  outside the lock, possibly out of order (`service.rs:427`), so the last one a
  listener sees may be old; `ChangesAreAnnounced` is about what was prepared.
- Managed runtime: a cleanup that reported an error keeps the worker from
  activating again (`native.rs:860`), which is the exception in
  `RestoreReactivates`; while the worker is blocked in the gate `activation()`
  does not answer Pending (`native.rs:495`), which is why `ActivationSettles`
  assumes that the provider is back for good at some time.
- Loader: if the restoration fails too, the committed tree is not live
  (`loader.rs:776`) and stays so until a later call commits. `replace` disposes the
  committed tree before it activates the candidate (`loader.rs:773`, `784`), where
  its comment (`loader.rs:758`), `docs/API.md:178`, `docs/NATIVE_API.md:111` and
  `docs/SECURITY.md:47` say that the candidate is started first. The part
  `OldStopsFirst` of `LoaderInv` states what the code does, that two instances of an
  entry are never at work together; the order of the documentation would violate it.
  The price is that a candidate that does not start interrupts the service of a tree
  that was fine. A managed handle that fails while it follows its providers (`native.rs:1465`, `1480`) stays live and committed:
  `CommittedTreeIsLive` says which handles there are, and not that they all run.
- Bridge client: a timeout may win over a response that has removed the entry and
  not sent its reply (`supervisor.rs:763`). The Close message is dropped when the
  queue is full (`supervisor.rs:728`).
- Requests of the host: an answer that does not fit into the queue is dropped
  (`supervisor.rs:478`) and the host has no timeout. If the operation in progress
  waits for that answer, the operations behind it wait too. The circle of a host
  operation that waits for a Rust handler that asks for another host operation is
  ended by the timeout of the Rust side only; `HostIsStuck` names both cases, and
  `NoSelfDeadlock` says that there are no others.
- Compat host: an operation that waits for Rust keeps `stop()` at the end of the
  input waiting as well (`host.ts:1750`); the supervisor then kills the process.
- Supervisor: two concurrent starts may have two hosts alive for a moment; the
  second one is terminated. A legacy handle whose `plugin.load` timed out calls
  itself inactive although the host may have the plugin; one whose host has gone
  cannot be disposed successfully any more.
- Wasm: a canceller that has looked up one call may interrupt the next one, and an
  engine that keeps cancellations may then skip the stop export. Two concurrent
  updates may commit their configurations in another order than the guest saw
  them. An engine that forgets an interruption which comes before the call has
  begun (`lib.rs:1218`) leaves the call running: `StopIsPrompt` says that stop waits
  for no call that was not told, and how long it waits is up to the engine's timeout.
  Where the engine fails to make a guest (`lib.rs:1016`), the bindings it was given
  stay alive while the id is released (`lib.rs:1007`, `990`): that nobody is left who
  holds them is all that keeps the id from being used. Drop releases the id before
  the guest is dropped (`lib.rs:1170`). A second concurrent stop returns before the first has ended. A host
  handler that calls its own instance waits for itself.

## 4. Proofs

The theorems hold for every value of the constants that satisfies the stated
assumptions, that is for any number of scopes, clients, threads, requests,
generations and listeners, and for any trees, patches and requirements between
entries. The assumptions are the named ones of the modules
(`ConstantsAssumption`, `BridgeAssumption`, `SupervisorAssumption`,
`WasmAssumption`, `RegistryAssumption`, `EventAssumption`,
`CompatHostAssumption`, `HostRequestsAssumption`, `ManagedAssumption`,
`LoaderAssumption`, `WatcherAssumption`): bounds are naturals, sentinels are not
members of the sets they stand beside, and trees and patches have the shape of
trees and patches. TLC evaluates each of them in a run. Each inductive invariant
was an invariant of the run of its module first.

| Module | Theorem | States | From |
|---|---|---|---|
| `LifecycleProofs` | `TypeCorrect`, `CleanupIsComplete` | `TypeOK`, `CleanedWhenDisposed` | `IInv` |
| | `DisposalKeepsOrder` | `DisposalIsOrderly` | `OInv` |
| | `NoWakeupIsLost` | `NoLostWakeup`, half of `NobodyIsStranded` | `OInv` |
| | `CirclesAreReentrant`, `PlainDisposersStrandNobody` | `NobodyIsStranded`, under a condition | `OInv`, `AwaitInv` |
| | `FibersAreConsistent` | `FiberInv` | `FIInv` |
| `ServiceProofs` | `NothingIsOrphaned`, `ListenersAreCurrent` | `RegistryInv`, `ChangesAreAnnounced` | `RInv` |
| | `CommitsAreFaithful`, `StaleForGood` | the action properties `CommitIsFaithful`, `StaleStaysStale` | `RInv` |
| | `ManagedSafety`, `ProviderIsTried` | `ManagedInv`, `RestoreReactivates` | `MInv` |
| `EntryTreeWatcherProofs` | `WatcherSafety` | `WatcherInv`, with `LoaderInv` | `WInv` |
| | `LiveTreeIsCommitted`, `PersistedFileIsWhole` | `CommittedTreeIsLive`, `FileIsWhole` | `WInv` |
| | `LoaderImplementsRegister` | `ImplementsRegister`, the refinement of `TreeRegister` | `WInv` |
| `EventBusProofs` | `BusIsConsistent`, `TheClosedAreSilent` | `EventInv`, `ClosedOwnersAreSilent` | `EIInv` |
| | `CallsAreInOrder`, `CompletionIsComplete` | `CallsFollowSnapshot`, `CompletedMeansAll` | `EIInv` |
| `LegacyNodeProofs` | `NothingLeftBehind`, `CleanupsAccountedFor` | `SupervisorInv`, `CleanupsRunOnce` | `LInv` |
| `WasmRuntimeProofs` | `OneGuest`, `NoCallSlipsPast`, `IdIsReleasedLast` | `WasmInv`, `StopIsPrompt`, `IdOutlivesUse` | `WaInv` |
| `BridgeClientProofs` | `NothingStranded`, `NothingLeaked`, `SettledOnce` | `NoStrandedRequest`, `NoLeakedPending`, `OneReply` | `BInv` |
| | `TheWinnerIsTold` | `BridgeInv` | `WInv` of that module |
| `HostRequestsProofs` | `HostInvariance`, `EndsAnswerOnce` | `HIInv`, `HostInv` | `HIInv` |

None of the stated properties is inductive: each speaks of the end of an
operation, and its truth rests on what holds in the middle. What the inductive
invariants add:

**Scopes.** `IInv` says where the effects of a scope are at any moment: before
the claim they are all in the scope and none has run; during cleanup the ones
left are a prefix of the registration order and the ones that ran are the rest,
reversed, so the two lengths add up; the running effect is the last that was
started; no effect is registered twice (otherwise a later scope could be running
an effect of a disposed one); and the phases of a scope and its task agree. The
claim establishes the second clause from the first, `StartDisposer` moves one
element across, and `FinishCleanup` happens when nothing is left, which makes the
reversal complete. `OInv` adds `Orderly`: the children a task has taken are those
it has still to dispose, and a result that is published has reached, or is on its
way to, every waiter that registered before it.

**Who waits for whom.** `NobodyIsStranded` is not true of every instance
(`scope_chain` refutes it), so its theorems have a condition. `AwaitInv` says that
a cleanup only ever waits for a child of its scope or for the scope that one of its
own effects disposes (`MayAwait`), and that ownership by itself has no circle, since
a scope has a parent before it has a child. `CirclesAreReentrant` follows: as long
as ownership and the targets of disposers together have no circle (`NoCircle`, a
condition on the state that says nothing of anybody waiting), no cleanup waits in
one and no wake-up is lost. If no disposer disposes a scope at all, nothing is left
of the condition (`PlainDisposersStrandNobody`). The disposer that closes the circle
is thus the only cause of the deadlock that the run finds.

**Fibers.** `FIInv` cannot be built on `IInv` as it is: a setup that fails rolls
its scope back in the client's own future, so the effects of a scope that has left
Active may be with a client instead of a cleanup task. `ScopesInv` says that they
are with exactly one of the two (`Split` for the effects that are left and those
that ran, whoever holds them), `WordsInv` that the fiber's state word agrees with
the operations under way: Loading means that exactly one client is between its
compare-and-swap and its last store, and nobody starts a fiber whose scope closed.

**Registry.** `RInv` says that a generation is given out once (`FreshInv`,
`UniqueInv`); that what is in a registry is owned by a scope that will still run
its disposer, or by a publication or disposal on the way (`OwnInv`, `JobInv`);
that what a staged registry expects was the host's entry when it was read
(`StageInv`); that a handle that was current is so until its generation goes
(`HeldInv`); and that a listener is behind only by notifications in somebody's
hands (`TellInv`). `StaleForGood` follows since a generation that has left a
registry is below the next one to be given out, and only that one can enter.

**Managed runtime.** `MInv` says what a fiber has been through: plugin code that has
been started is stopped once and for good before the worker lets go of the fiber
(`FibersOK`); which of the fiber and the candidate is being started, and for which
snapshot (`AttemptOK`); what holds before the first pass of the loop and after the
last (`EndsOK`); and what a pass has done when it is over (`PassOK`): if the worker
is not marked dirty it has worked on the latest snapshot, and then the fiber is
active for that snapshot, or not active because the provider is missing, because
the snapshot has been tried in vain, or because an earlier cleanup reported an error.
The properties speak of a worker that has caught up; they hold because every attempt
on the way there keeps track of the snapshot it is for.

**Trees.** What patches compute is proved for any trees and lists of patches.
The folds and recursive functions are followed by minimal counterexamples: of the
indices or lengths at which the claim fails there would be a least one
(`InductiveSet`, `InductiveSeqs`), so no induction theorem with an operator
parameter is needed. The results are that a list of patches leaves every entry it
does not name in its section and in its order (`PatchesAreLocal`), and that the
result is a tree.

**Loader and watcher.** `WInv` says, for each phase of a transaction, what the live
handles and those of the candidate are: between calls they are exactly the active
entries of the committed tree, unless a restoration has failed (`LiveOK`); while a
candidate is discarded, those that the loop has passed are disposed
(`CandOK`); and in a round of `activate_all` whatever is not active is still to be
asked, now or in the next round, and a round without progress has either left
nobody behind whose providers are active or has one such handle still to ask
(`RoundOK`). Handles that depend on the outside may change at any moment and are
left out of that; the others (`Sheltered`) depend on each other only, so what one of
them does in its own time makes no other one inactive that has answered. `RoundOK` gives
`ActivationIsComplete`: the loop ends only when no
pending handle could be activated. For the watcher, `ShownOK` ties the snapshot to
the loader it drives, and `SeenOK` counts the sources that were applied or refused
against those that were written. The refinement is proved step by step
(`RegisterStep`): a call is an `Ask`; the steps of its transaction stutter, because
`served` is `Unknown` from the first of them; the commit is a `Grant`, since
by `CandOK` the candidate then has a handle, not disposed, for every active entry of
the tree asked for; and every way out of a failure is a `Deny`.

**Events.** `EIInv` says that a token is with one registration, which inserts it
once (`RegInv`); that a listed listener has an effect of its owner, or a
registration on the way, that will remove it (`OwnInv`); and that a claimed once
listener is held by exactly one dispatch or was refused by its mode (`HoldInv`).
Of each dispatch it says how far it is (`StageInv`), that its snapshot has no
duplicates (`SnapInv`), that what is called precedes what is claimed and that
precedes what is left, in the order of the snapshot, and the unused continuation
of a chain is that of the last listener called (`OrderInv`), that nothing of the
snapshot is forgotten (`CoverInv`), that the errors are no more than the listeners
that left the queue (`CountInv`), and that owners closed before it are closed and
not in the snapshot (`SilentInv`). `OnceIsOnce` needs `HoldInv` for two dispatches
and `OrderInv` for one; `CompletedMeansAll` is `CoverInv` with empty queues.

**Supervisor.** `LInv` says who is responsible for a generation: the start that
spawned it, then `active`, then the one thread that took it from there, which
keeps it until its process is reaped. Cleanups of a generation that have not run
are with whoever is responsible. Two threads never answer for the same
generation, which is why none is left behind and none is cleaned up twice. Each
of the two facts needs the other, and both need that generations are fresh.

**Wasm.** `WaInv` says what each place in the code of a thread means for the
guest lock, the cancellation handle, the lifecycle word and the id (`ThreadInv`),
and for two threads that nobody else has the guest and that the canceller of a
stop has looked at the call under way (`PairInv`). `StopIsPrompt` needs the pair:
the word is Stopping before the canceller looks, so a call that was admitted
before is the one it sees, and one that comes later is refused. `LifeInv` ties the
id to the rest: whenever it is released there are no live bindings or no guest, by
revocation before a drop, and for want of a guest where making one has failed.

**Bridge.** `BInv` says that the single reply of a request is in exactly one
place: not made yet, in the table, in the hand of one resolver, taken by the
disconnect, or in the channel; and that an entry exists only while its caller is
on the way, and after the table has been emptied only until that caller looks at
the connection again. `WInv` adds what the reply says of the one that sent it.
`HIInv` follows a request of the host through both queues: each of its frames is
there once, and only at the stage that sends it, and the tables of the two ends
hold the request only between the right frames.

### What is only model-checked

- Liveness, which is out of the prover's reach, as ENABLED is: `NoEffectLeaks`,
  `FiberOperationsReturn`, `ActivationSettles`, `DisposalJoins`,
  `NewestSourceIsSeen`, `StopJoins`, `CallsReturn`, `DisconnectReleasesCallers`,
  `EveryRequestEnds`, `LostIsReleased` and `NoSelfDeadlock` all say that something
  happens in the end.
- `NobodyIsStranded` when disposers and ownership form a circle: it is false from
  four scopes on (run `scope_chain`); that it still holds for every forest of three
  scopes with one effect is a result of TLC (run `scope_forest`).

Every other property of a passing run is a theorem.

## 5. Plan

All modules of the plan are written, each before the modules that use it: scopes
and fibers, registry, bridge client, managed runtime, events, loader and watcher,
supervisor, requests of the host with the compat host, Wasm runtime. No module
declares a recursive operator, so all of them can be proved about. All theorems of
the plan are proved; proofs of components that belong together share a module.
What a continuation would add is in section 6: dropped futures of `Fiber::start`,
and disposal of the context's own scope under a running managed worker.

## 6. Not modelled

Byte-level framing, JSON, schemas and expression evaluation, realm resolution,
traces and diagnostics, operating-system process handling, Wasm manifests,
policies and limits, the guest kit, the benchmark, the conformance driver and the
oracle: they convert data or drive the runtime and hold no shared state.

Parts of modelled components that are left out: the waker list of the
`CancellationWait` future; futures of `Fiber::start` that are dropped; disposal of
the context's own scope under a running managed worker (the loader disposes the
handle first); heartbeat, notification and log frames, which change no state of
the client; host calls made from a stop export; and the routes, agents, sessions,
tools and service and event registrations of the compat host, which are
bookkeeping of plugin objects inside one JavaScript thread.

--------------------------- MODULE EntryTreeWatcher ---------------------------
(***************************************************************************)
(* EntryTreeWatcher of crates/tessivum-core/src/loader.rs: a worker thread *)
(* owns a loader, polls a file and calls replace with what it reads.       *)
(*                                                                         *)
(* The loader of module Loader either belongs to a client that calls it    *)
(* itself, or to a watcher.  The source of the watcher is written by       *)
(* others; a file that cannot be read is a tree that is not valid here.    *)
(***************************************************************************)
EXTENDS Loader

CONSTANTS
  Sources,     \* what a read of the file may give
  MaxWrites    \* bound: how often the source is written

ASSUME WatcherAssumption ==
  /\ MaxWrites \in Nat /\ NoTree \notin Sources
  /\ \A s \in Sources : Valid(s) => s \in Trees(DOMAIN Needs)

VARIABLES
  owner,      \* who calls the loader: "client" or "watcher"
  source,     \* the watched file
  writes,     \* how often it was written
  observed,   \* run_entry_tree_watcher: the source it has applied or refused
  fresh,      \* ... and the source it is about to apply
  wpc,        \* where the worker is
  stopping,   \* EntryTreeWatcherControl::stopping
  permit,     \* the permit of its Notify
  shown,      \* the snapshot: tree, what was applied and refused, running
  opc         \* what the owner of the watcher does

fileSide == <<source, writes>>
watchVars == <<observed, fresh, wpc, stopping, permit, shown, opc>>
wvars == <<lvars, owner, fileSide, watchVars>>

WInit ==
  /\ LInit
  /\ owner \in {"client", "watcher"}
  /\ source \in Sources /\ writes = 0
  /\ observed = NoTree /\ fresh = NoTree
  /\ wpc = "observe" /\ stopping = FALSE /\ permit = FALSE
  /\ shown = [tree |-> EmptyTree, committed |-> 0, rejected |-> 0, running |-> TRUE]
  /\ opc = "starting"

-----------------------------------------------------------------------------
WriteSource ==
  /\ owner = "watcher" /\ writes < MaxWrites
  /\ source' \in Sources \ {source}
  /\ writes' = writes + 1
  /\ UNCHANGED <<lvars, owner, watchVars>>

\* Mutant: a file that is gone is not a change.
PresentChange(s) == s # observed /\ Valid(s)

Changed(s) == s # observed

\* observe_source, and the comparison with the last source
Observe ==
  /\ owner = "watcher" /\ wpc = "observe"
  /\ IF Changed(source) THEN fresh' = source /\ wpc' = "apply"
                        ELSE wpc' = "loop" /\ UNCHANGED fresh
  /\ UNCHANGED <<lvars, owner, fileSide, observed, stopping, permit, shown, opc>>

\* apply_watched_source: a source that cannot be read, or does not parse, is
\* one that is not valid; the others are for replace, ...
Refused(s) == ~Valid(s)

ApplyReplace ==
  /\ wpc = "apply" /\ ~Refused(fresh)
  /\ Replace(fresh)
  /\ wpc' = "replacing"
  /\ UNCHANGED <<owner, fileSide, observed, fresh, stopping, permit, shown, opc>>

Shown(result) ==
  IF result THEN [shown EXCEPT !.tree = tree, !.committed = @ + 1]
        ELSE [shown EXCEPT !.rejected = @ + 1]

\* ... and the result in the snapshot.  ready.send comes after the first one:
\* start has a receiver for it.
Publish(result) ==
  /\ shown' = Shown(result)
  /\ observed' = fresh /\ fresh' = NoTree
  /\ wpc' = "loop"
  /\ opc' = IF opc = "starting" THEN "running" ELSE opc
  /\ UNCHANGED <<lvars, owner, fileSide, stopping, permit>>

ApplyRefused == wpc = "apply" /\ Refused(fresh) /\ Publish(FALSE)

\* replace has returned.
Applied == wpc = "replacing" /\ phase = "idle" /\ Publish(ok)

\* Mutant: only a permit ends the loop, and the wait has taken it.
PermitLeft == stopping /\ permit

MustStop == stopping

\* while !stopping
Loop ==
  /\ owner = "watcher" /\ wpc = "loop"
  /\ wpc' = IF MustStop THEN "unload" ELSE "wait"
  /\ UNCHANGED <<lvars, owner, fileSide, observed, fresh, stopping, permit, shown, opc>>

\* notified() or the timeout, and the second look at stopping
Wait ==
  /\ wpc = "wait"
  /\ permit' = FALSE
  /\ wpc' = "awake"
  /\ UNCHANGED <<lvars, owner, fileSide, observed, fresh, stopping, shown, opc>>

Awake ==
  /\ wpc = "awake"
  /\ wpc' = IF MustStop THEN "unload" ELSE "observe"
  /\ UNCHANGED <<lvars, owner, fileSide, observed, fresh, stopping, permit, shown, opc>>

StartUnload ==
  /\ wpc = "unload"
  /\ Unload
  /\ wpc' = "unloading"
  /\ UNCHANGED <<owner, fileSide, observed, fresh, stopping, permit, shown, opc>>

Finish ==
  /\ wpc = "unloading" /\ phase = "idle"
  /\ shown' = [shown EXCEPT !.tree = tree, !.running = FALSE]
  /\ wpc' = "done"
  /\ UNCHANGED <<lvars, owner, fileSide, observed, fresh, stopping, permit, opc>>

\* EntryTreeWatcher::stop, also by Drop: the flag, ...
Stop ==
  /\ owner = "watcher" /\ opc = "running"
  /\ stopping' = TRUE
  /\ opc' = "notifying"
  /\ UNCHANGED <<lvars, owner, fileSide, observed, fresh, wpc, permit, shown>>

\* ... the permit, ...
Notify ==
  /\ opc = "notifying"
  /\ permit' = TRUE
  /\ opc' = "joining"
  /\ UNCHANGED <<lvars, owner, fileSide, observed, fresh, wpc, stopping, shown>>

\* ... and the join.
Join ==
  /\ opc = "joining" /\ wpc = "done"
  /\ opc' = "stopped"
  /\ UNCHANGED <<lvars, owner, fileSide, observed, fresh, wpc, stopping, permit, shown>>

-----------------------------------------------------------------------------
Client ==
  /\ owner = "client" /\ LoaderCall
  /\ UNCHANGED <<owner, fileSide, watchVars>>

Work ==
  /\ LoaderStep
  /\ UNCHANGED <<owner, fileSide, watchVars>>

WorkerStep ==
  Observe \/ ApplyReplace \/ ApplyRefused \/ Applied \/ Loop \/ Wait \/ Awake
  \/ StartUnload \/ Finish

WNext ==
  \/ Client \/ Work \/ (Notice /\ UNCHANGED <<owner, fileSide, watchVars>>)
  \/ WriteSource \/ WorkerStep \/ Stop \/ Notify \/ Join

WSpec == WInit /\ [][WNext]_wvars

\* Plugin code returns, so calls of the loader do; the worker and the thread
\* in stop go on.  Nothing is assumed of the client or of the source.
WFairSpec ==
  WSpec /\ WF_wvars(Work) /\ WF_wvars(WorkerStep) /\ WF_wvars(Notify) /\ WF_wvars(Join)

-----------------------------------------------------------------------------
\* Every variable has its type, those of the loader included.
WTypeOK ==
  /\ LTypeOK
  /\ owner \in {"client", "watcher"}
  /\ source \in Sources /\ writes \in 0 .. MaxWrites
  /\ observed \in Sources \cup {NoTree} /\ fresh \in Sources \cup {NoTree}
  /\ wpc \in {"observe", "apply", "replacing", "loop", "wait", "awake", "unload",
              "unloading", "done"}
  /\ stopping \in BOOLEAN /\ permit \in BOOLEAN
  /\ shown.committed + shown.rejected <= MaxWrites + 1
  /\ opc \in {"starting", "running", "notifying", "joining", "stopped"}

\* Between two transactions the snapshot shows the tree the loader has, and
\* the owner gets the watcher with its first source applied or refused.
SnapshotIsTrue ==
  owner = "watcher" =>
    /\ wpc \in {"loop", "wait", "awake", "observe", "done"} => shown.tree = tree
    /\ opc # "starting" => shown.committed + shown.rejected > 0

\* The source that stays is applied, or refused, in the end, and no older one
\* after it: polls that find nothing new and refused sources do not hide it,
\* and it does not matter whether it has been seen before.
NewestSourceIsSeen ==
  \A s \in Sources :
    <>[](owner = "watcher" /\ source = s /\ ~stopping) => <>[](observed = s)

\* stop joins its worker, in whatever transaction the worker is, provided each
\* handle that the worker disposes lets it go on (see ManagedNative for one that
\* does not).
StopJoins == opc = "notifying" ~> opc = "stopped"

\* When the worker is done, nothing of the committed tree is in service.
StoppedMeansUnloaded ==
  wpc = "done" => \A h \in Range(live) : h.st \in {"Disposed", "Broken"}

\* The watcher and the loader it drives are in order.
WatcherInv == WTypeOK /\ LoaderInv /\ SnapshotIsTrue /\ StoppedMeansUnloaded
=============================================================================

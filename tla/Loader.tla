-------------------------------- MODULE Loader --------------------------------
(***************************************************************************)
(* Loader of crates/tessivum-core/src/loader.rs: load, update, replace,    *)
(* unload and persist.                                                     *)
(*                                                                         *)
(* The loader is owned: one call at a time.  What happens at the same time *)
(* is inside a call: imports and activations are polled together and end   *)
(* in any order, each may fail, and managed handles become active, pending *)
(* or failed as their providers come and go, in and between the calls.     *)
(*                                                                         *)
(* A call that is refused before it does anything (load over a live tree,  *)
(* patches that do not apply, an invalid tree) changes nothing here.  The  *)
(* trace of the loader is left out.                                        *)
(***************************************************************************)
EXTENDS EntryTree

CONSTANTS
  Requests,    \* trees that load and replace are called with
  PatchLists,  \* lists of patches that update is called with
  Needs,       \* Needs[id]: the entries that provide what entry id requires
  Exposed,     \* the entries that also depend, themselves or through others,
               \* on providers from outside the tree
  Faults,      \* what may fail: "import", "activate" (a start or a suspension,
               \* whoever asks for it), "dispose", "write"
  Unknown,     \* what is served while a call is under way
  MaxCalls     \* bound: calls that get past their first checks

ASSUME LoaderAssumption ==
  /\ MaxCalls \in Nat
  /\ Faults \subseteq {"import", "activate", "dispose", "write"}
  /\ \A id \in DOMAIN Needs : Needs[id] \cap Exposed # {} => id \in Exposed
  /\ Requests \subseteq Trees(DOMAIN Needs)
  /\ PatchLists \subseteq Seq(Patches(DOMAIN Needs))

VARIABLES
  tree,        \* Loader::tree
  live,        \* Loader::live: entries with the states of their handles
  cand,        \* the candidate, or the committed tree that is restored
  job,         \* the tree asked for, NoTree between two calls
  phase,       \* where the call is
  restoring,   \* cand is the committed tree
  failed,      \* a step of this stage of the call has returned an error
  todo,        \* activate_all: handles of this round that have not answered
  later,       \* activate_all: the ones that have answered Pending
  progressed,  \* activate_all: one has become active in this round
  pos,         \* dispose_all: how many handles are left
  ok,          \* the last call has returned Ok
  calls,       \* calls so far
  outage,      \* history: a restoration or an unload has failed, and nothing
               \* was committed or restored since
  dropped,     \* history: states in which handles were dropped
  named,       \* history: the ids the last patches were about; {} for none
  file, temp   \* the persisted document and the temporary file

treeVars == <<tree, live>>
callVars == <<cand, job, phase, restoring, failed, todo, later, progressed, pos>>
histVars == <<ok, calls, outage, dropped, named>>
fileVars == <<file, temp>>
lvars == <<treeVars, callVars, histVars, fileVars>>

LInit ==
  /\ tree = EmptyTree /\ live = <<>>
  /\ cand = <<>> /\ job = NoTree /\ phase = "idle" /\ restoring = FALSE
  /\ failed = FALSE /\ todo = {} /\ later = {} /\ progressed = FALSE /\ pos = 0
  /\ ok = TRUE /\ calls = 0 /\ outage = FALSE /\ dropped = {} /\ named = {}
  /\ file = NoTree /\ temp = NoTree

-----------------------------------------------------------------------------
(***************************************************************************)
(* Handles.  A handle is "new" while its import is under way.  A managed    *)
(* one that has failed, with or without its providers, stays where it is.  *)
(***************************************************************************)
Following == {"Active", "Pending", "StartFailed", "StopFailed"}
WithProviders == {"Active", "StartFailed"}
HasFailed == {"StartFailed", "StopFailed"}
States == {"new", "refused", "imported", "Disposed", "Broken"} \cup Following

Handles(t) ==
  [i \in DOMAIN ActiveEntries(t) |-> [entry |-> ActiveEntries(t)[i], st |-> "new"]]

\* The providers of handle h are active among the handles of its context.
Satisfied(handles, h) ==
  \A id \in Needs[h.entry.id] : \E g \in Range(handles) :
    g.entry.id = id /\ g.st = "Active"

Fails(what) == IF what \in Faults THEN BOOLEAN ELSE {FALSE}

IsExposed(h) == h.entry.id \in Exposed

\* What becomes of handle h when it has caught up with its providers
CaughtUp(handles, h) ==
  {st \in Following :
     /\ IF st \in WithProviders THEN Satisfied(handles, h)
        ELSE ~Satisfied(handles, h) \/ IsExposed(h)
     /\ st \in HasFailed => TRUE \in Fails("activate")}

\* The providers of h have come or gone since; those from outside may have
\* changed at any time.
Stale(handles, h) ==
  IsExposed(h) \/ ~(h.st \in WithProviders <=> Satisfied(handles, h))

\* The registry tells a managed handle that a provider has come or gone, and
\* the handle follows, or fails to.
Noticed(handles, i, st) ==
  /\ handles[i].st \in Following /\ Stale(handles, handles[i])
  /\ st \in CaughtUp(handles, handles[i]) \ {handles[i].st}

Notice ==
  /\ \/ \E i \in DOMAIN live, st \in Following :
          /\ Noticed(live, i, st)
          /\ live' = [live EXCEPT ![i].st = st]
          /\ UNCHANGED cand
     \/ \E i \in DOMAIN cand, st \in Following :
          /\ Noticed(cand, i, st)
          /\ cand' = [cand EXCEPT ![i].st = st]
          /\ UNCHANGED live
  /\ UNCHANGED <<tree, job, phase, restoring, failed, todo, later, progressed, pos,
                 histVars, fileVars>>

-----------------------------------------------------------------------------
(***************************************************************************)
(* The beginning of a call                                                 *)
(***************************************************************************)
\* import_candidates
StartImport(t) ==
  /\ cand' = Handles(t)
  /\ phase' = "import"
  /\ failed' = FALSE /\ todo' = {} /\ later' = {}
  /\ progressed' = FALSE /\ pos' = 0

\* Loader::replace, and load, which is for a loader with nothing live
Replace(t) ==
  /\ phase = "idle" /\ calls < MaxCalls
  /\ Valid(t)
  /\ job' = t
  /\ StartImport(t)
  /\ calls' = calls + 1
  /\ named' = {}
  /\ UNCHANGED <<treeVars, restoring, ok, outage, dropped, fileVars>>

\* Loader::update
Update(patches) ==
  /\ phase = "idle" /\ calls < MaxCalls
  /\ ApplyAll(tree, patches) # NoTree
  /\ job' = ApplyAll(tree, patches)
  /\ StartImport(job')
  /\ calls' = calls + 1
  /\ named' = Named(patches)
  /\ UNCHANGED <<treeVars, restoring, ok, outage, dropped, fileVars>>

\* dispose_all starts with the last handle.
StartDispose(handles) == pos' = Len(handles) /\ failed' = FALSE

\* Loader::unload
Unload ==
  /\ phase = "idle"
  /\ job' = EmptyTree
  /\ phase' = "unload"
  /\ StartDispose(live)
  /\ named' = {}
  /\ UNCHANGED <<treeVars, cand, restoring, todo, later, progressed, ok, calls,
                 outage, dropped, fileVars>>

\* The call returns.
EndCall(result) ==
  /\ ok' = result
  /\ phase' = "idle" /\ job' = NoTree /\ restoring' = FALSE
  /\ cand' = <<>> /\ failed' = FALSE /\ todo' = {} /\ later' = {}
  /\ progressed' = FALSE /\ pos' = 0

-----------------------------------------------------------------------------
(***************************************************************************)
(* Import: all_settle over import_entry                                    *)
(***************************************************************************)
Import(i, error) ==
  /\ phase = "import" /\ cand[i].st = "new"
  /\ error \in Fails("import")
  /\ cand' = [cand EXCEPT ![i].st = IF error THEN "refused" ELSE "imported"]
  /\ failed' = (failed \/ error)
  /\ UNCHANGED <<treeVars, job, phase, restoring, todo, later, progressed, pos, histVars,
                 fileVars>>

Settled == phase = "import" /\ \A i \in DOMAIN cand : cand[i].st # "new"

\* Mutant: what was imported is dropped when another import fails.
DropImported == EndCall(FALSE) /\ dropped' = dropped \cup {h.st : h \in Range(cand)}

DiscardImported ==
  /\ cand' = Keep(cand, {h \in Range(cand) : h.st = "imported"})
  /\ phase' = "discard-import"
  /\ StartDispose(cand')
  /\ UNCHANGED <<job, restoring, todo, later, progressed, ok, dropped>>

ImportFails ==
  /\ Settled /\ failed
  /\ DiscardImported
  /\ UNCHANGED <<treeVars, calls, outage, named, fileVars>>

\* activate_all: the first round
StartActivate ==
  /\ phase' = "activate"
  /\ todo' = DOMAIN cand /\ later' = {} /\ progressed' = FALSE /\ failed' = FALSE /\ pos' = 0

\* Mutant: the candidate is started while the old tree is live.
ActivateFirst == StartActivate

AfterImport ==
  IF restoring THEN StartActivate
  ELSE /\ phase' = "retire"
       /\ StartDispose(live)
       /\ UNCHANGED <<todo, later, progressed>>

Imported ==
  /\ Settled /\ ~failed
  /\ AfterImport
  /\ UNCHANGED <<treeVars, cand, job, restoring, histVars, fileVars>>

-----------------------------------------------------------------------------
(***************************************************************************)
(* dispose_all: in reverse, to the end whatever fails.  Of the live tree   *)
(* (retire, unload) and of candidates (discard-...).                       *)
(***************************************************************************)
Discarding == phase \in {"discard-import", "discard-retire", "discard-activate"}

\* dispose of a handle: once it has succeeded it goes on doing so.
Disposed(st, error) == IF error /\ st # "Disposed" THEN "Broken" ELSE "Disposed"

HandlesLeft(error) == pos - 1

DisposeLive(error) ==
  /\ phase \in {"retire", "unload"} /\ pos > 0 /\ error \in Fails("dispose")
  /\ live' = [live EXCEPT ![pos].st = Disposed(@, error)]
  /\ failed' = (failed \/ live'[pos].st = "Broken")
  /\ pos' = HandlesLeft(error)
  /\ UNCHANGED <<tree, cand, job, phase, restoring, todo, later, progressed, histVars,
                 fileVars>>

DisposeCandidate(error) ==
  /\ Discarding /\ pos > 0 /\ error \in Fails("dispose")
  /\ cand' = [cand EXCEPT ![pos].st = Disposed(@, error)]
  /\ pos' = HandlesLeft(error)
  /\ UNCHANGED <<treeVars, job, phase, restoring, failed, todo, later, progressed, histVars,
                 fileVars>>

\* live.clear()
ClearLive ==
  /\ live' = <<>>
  /\ dropped' = dropped \cup {h.st : h \in Range(live)}

Retired ==
  /\ phase = "retire" /\ pos = 0 /\ ~failed
  /\ ClearLive
  /\ StartActivate
  /\ UNCHANGED <<tree, cand, job, restoring, ok, calls, outage, named, fileVars>>

RetireFails ==
  /\ phase = "retire" /\ pos = 0 /\ failed
  /\ phase' = "discard-retire"
  /\ StartDispose(cand)
  /\ UNCHANGED <<treeVars, cand, job, restoring, todo, later, progressed, histVars, fileVars>>

\* Mutant: the error of the transaction is returned without a restoration.
GiveUp == EndCall(FALSE) /\ ClearLive

\* restore_committed_tree
Restore ==
  /\ ClearLive
  /\ StartImport(tree)
  /\ restoring' = TRUE
  /\ UNCHANGED <<ok, job>>

\* The candidates are gone: after a failed import, or a failed restoration,
\* the call returns its error; otherwise the committed tree comes back.
Discarded ==
  /\ Discarding /\ pos = 0
  /\ IF restoring \/ phase = "discard-import"
     THEN /\ EndCall(FALSE)
          /\ dropped' = dropped \cup {h.st : h \in Range(cand)}
          /\ outage' = (outage \/ restoring)
          /\ UNCHANGED live
     ELSE Restore /\ UNCHANGED outage
  /\ UNCHANGED <<tree, calls, named, fileVars>>

Unloaded ==
  /\ phase = "unload" /\ pos = 0
  /\ IF failed THEN UNCHANGED <<tree, live, dropped>>
     ELSE ClearLive /\ tree' = EmptyTree
  /\ EndCall(~failed)
  /\ outage' = failed
  /\ UNCHANGED <<calls, named, fileVars>>

-----------------------------------------------------------------------------
(***************************************************************************)
(* activate_all: rounds of all_settle over activation()                    *)
(***************************************************************************)
\* A handle that has failed says so until it has something new to follow.
Answers(h) ==
  IF h.st \in HasFailed /\ ~Stale(cand, h) THEN {h.st} ELSE CaughtUp(cand, h)

Answer(i, st) ==
  /\ phase = "activate" /\ i \in todo
  /\ st \in Answers(cand[i])
  /\ cand' = [cand EXCEPT ![i].st = st]
  /\ progressed' = (progressed \/ st = "Active")
  /\ later' = IF st = "Pending" THEN later \cup {i} ELSE later
  /\ failed' = (failed \/ st \in HasFailed)
  /\ todo' = todo \ {i}
  /\ UNCHANGED <<treeVars, job, phase, restoring, pos, histVars, fileVars>>

MoreRounds == ~failed /\ progressed /\ later # {}

NextRound ==
  /\ phase = "activate" /\ todo = {} /\ MoreRounds
  /\ todo' = later /\ later' = {}
  /\ progressed' = FALSE
  /\ UNCHANGED <<treeVars, cand, job, phase, restoring, failed, pos, histVars, fileVars>>

ActivateFails ==
  /\ phase = "activate" /\ todo = {} /\ failed
  /\ phase' = "discard-activate"
  /\ StartDispose(cand)
  /\ UNCHANGED <<treeVars, cand, job, restoring, todo, later, progressed, histVars, fileVars>>

\* Mutant: the tree of the request is kept, also after a restoration.
KeepRequest == tree' = job

KeepTree == tree' = IF restoring THEN tree ELSE job

\* The candidate is committed, or the committed tree is live again.
Commit ==
  /\ phase = "activate" /\ todo = {} /\ ~failed /\ ~MoreRounds
  /\ live' = cand
  /\ KeepTree
  /\ EndCall(~restoring)
  /\ outage' = FALSE
  /\ UNCHANGED <<calls, dropped, named, fileVars>>

-----------------------------------------------------------------------------
(***************************************************************************)
(* persist_entry_tree: write a temporary file, then rename it.  The write  *)
(* is seen half done by whoever reads the file, and may stop there.        *)
(***************************************************************************)
\* A document that is cut short does not parse, or is not valid.
Half == <<Root(<<Entry("half", 0, FALSE)>>)>>

\* Mutant: the document is written in place.
WriteInPlace == file' = Half /\ temp' = Half

WriteTemp == temp' = Half /\ UNCHANGED file

PersistBegin ==
  /\ phase = "idle" /\ Valid(tree) /\ temp = NoTree
  /\ WriteTemp
  /\ phase' = "persist"
  /\ UNCHANGED <<treeVars, cand, job, restoring, failed, todo, later, progressed, pos, histVars>>

PersistEnd(error) ==
  /\ phase = "persist" /\ error \in Fails("write")
  /\ file' = IF error THEN file ELSE tree
  /\ temp' = NoTree
  /\ phase' = "idle"
  /\ UNCHANGED <<treeVars, cand, job, restoring, failed, todo, later, progressed, pos, histVars>>

-----------------------------------------------------------------------------
\* What the caller of the loader decides
LoaderCall ==
  \/ \E t \in Requests : Replace(t)
  \/ \E p \in PatchLists : Update(p)
  \/ Unload
  \/ PersistBegin

\* What a call does once it has begun
LoaderStep ==
  \/ \E i \in DOMAIN cand : \/ \E error \in BOOLEAN : Import(i, error)
                            \/ \E st \in Following : Answer(i, st)
  \/ ImportFails \/ Imported
  \/ \E error \in BOOLEAN : DisposeLive(error) \/ DisposeCandidate(error)
                            \/ PersistEnd(error)
  \/ Retired \/ RetireFails \/ Discarded \/ Unloaded
  \/ NextRound \/ ActivateFails \/ Commit

LNext == LoaderCall \/ LoaderStep \/ Notice

LSpec == LInit /\ [][LNext]_lvars

-----------------------------------------------------------------------------
HandleRecords == [entry : [id : DOMAIN Needs, version : Nat, disabled : {FALSE}],
                  st : States]

\* Every variable has its type; what is live was imported.
LTypeOK ==
  /\ live \in Seq(HandleRecords) /\ cand \in Seq(HandleRecords)
  /\ \A h \in Range(live) : h.st \notin {"new", "refused", "imported"}
  /\ phase \in {"idle", "import", "retire", "activate", "discard-import",
                "discard-retire", "discard-activate", "unload", "persist"}
  /\ restoring \in BOOLEAN /\ failed \in BOOLEAN /\ progressed \in BOOLEAN
  /\ todo \subseteq DOMAIN cand /\ later \subseteq DOMAIN cand
  /\ pos \in 0 .. (IF Discarding THEN Len(cand) ELSE Len(live))
  /\ ok \in BOOLEAN /\ outage \in BOOLEAN
  /\ calls \in 0 .. MaxCalls /\ dropped \subseteq States

\* The committed tree is valid, whatever patches made it out of which trees.
CommittedTreeIsValid ==
  \A j, k \in DOMAIN AllEntries(tree) :
    AllEntries(tree)[j].id = AllEntries(tree)[k].id => j = k

\* An update leaves the entries alone that its patches do not name: where
\* they are, and in which order.
PatchesAreLocal ==
  named # {} /\ job # NoTree => SameOutside(named, tree, job)

\* No handle is dropped while it may be running: dispose was called on every
\* one, on each of the paths a transaction fails along.
NoHandleDropped == dropped \subseteq {"Disposed", "Broken"}

\* Two instances of an entry are never at work together, be it in the middle
\* of a failed start or suspension: the old tree is retired before a handle of
\* the candidate, or of the restored tree, is activated.  (The comment of
\* Loader::replace and docs/API.md say that the candidate is activated first,
\* which would violate this.)
OldStopsFirst ==
  \A g \in Range(live), h \in Range(cand) :
    g.st \notin {"Disposed", "Broken"} /\ h.st \in Following => g.entry.id # h.entry.id

\* A tree that is committed, or restored, has nothing left to activate: a
\* handle is pending only because a provider is missing, and none has failed
\* without failing the call.  For the exposed ones this is not up to the loader:
\* their providers may come, go and make them fail after they have answered.
ActivationIsComplete ==
  phase = "activate" /\ todo = {} /\ ~failed /\ ~MoreRounds =>
    \A h \in Range(cand) :
      IsExposed(h) \/ h.st = "Active" \/ (h.st = "Pending" /\ ~Satisfied(cand, h))

\* The entries that a tree puts in service
Content(t) == Range(ActiveEntries(t))

\* The entries in service: those whose handles the loader has not disposed
Served ==
  IF job # NoTree THEN Unknown
  ELSE {h.entry : h \in {g \in Range(live) : g.st \notin {"Disposed", "Broken"}}}

Register == INSTANCE TreeRegister WITH wanted <- job, served <- Served

\* The loader is a register of trees: every call takes effect as a whole or
\* not at all.
ImplementsRegister == Register!RSpec

\* The file is a whole document at every moment of persist.
FileIsWhole == file # Half

\* Between two calls the committed tree is live, entry by entry: also after a
\* request that was refused halfway.  The exceptions are a restoration that
\* failed as well and an unload that failed, until the next commit.  (A managed
\* handle that has failed to follow a provider stays among the live ones.)
CommittedTreeIsLive ==
  phase = "idle" /\ ~outage =>
    /\ [i \in DOMAIN live |-> live[i].entry] = ActiveEntries(tree)
    /\ \A h \in Range(live) : h.st \in Following

\* Every step of a transaction keeps the trees and the handles in order.
LoaderInv ==
  /\ CommittedTreeIsValid
  /\ PatchesAreLocal
  /\ NoHandleDropped
  /\ OldStopsFirst
  /\ ActivationIsComplete
=============================================================================

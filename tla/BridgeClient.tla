---------------------------- MODULE BridgeClient ----------------------------
(***************************************************************************)
(* The Rust end of one connection to a Node compat host:                   *)
(* ClientInner, BridgeClient and BridgeRequest of                          *)
(* crates/tessivum-node-bridge/src/supervisor.rs.                          *)
(*                                                                         *)
(* A request is entered into the pending table, then written.  Whoever     *)
(* removes its entry settles it: the dispatcher with an answer of the      *)
(* host, a cancellation, the caller's own timeout, or the disconnect.  The *)
(* entry is removed under the table's lock; the result goes into the       *)
(* caller's channel after that lock is released.                           *)
(*                                                                         *)
(* The host is any peer: it may be ready before it is greeted, and settle a *)
(* request before it has been sent, more than once or never.  Requests that *)
(* the host makes of Rust are not part of this module.                     *)
(***************************************************************************)
EXTENDS Naturals, Sequences, FiniteSets

CONSTANTS
  Requests,       \* the requests, each with its own caller
  QueueCapacity,  \* ClientConfig::queue_capacity
  MaxPending,     \* the bound of begin_request on the pending table
  None            \* no request

ASSUME BridgeAssumption ==
  /\ None \notin Requests
  /\ QueueCapacity \in Nat \ {0}
  /\ MaxPending \in Nat \ {0}

VARIABLES
  conn,      \* ClientInner::state
  outgoing,  \* the bounded queue to the writer thread
  writer,    \* the writer thread: "running", "failing" or "stopped"
  pending,   \* ClientInner::pending
  chan,      \* the reply channel of each request
  rpc,       \* where the caller of each request is
  outcome,   \* what the caller was told
  work,      \* the terminal frame the dispatcher is about to apply
  hand,      \* the reply a resolver has taken out of the table
  dpc,       \* where disconnect() is
  taken,     \* the replies disconnect() has taken out of the table
  cpc,       \* where close() is
  winner     \* history: the event that removed the entry of each request

callVars == <<rpc, outcome>>
bvars == <<conn, outgoing, writer, pending, chan, callVars, work, hand, dpc,
           taken, cpc, winner>>

Resolvers == {"dispatcher", "canceller"}
\* A response or an error, which settle a request alike, or its cancellation
Answers == {"response", "cancelled"}
NoWork == [id |-> None, with |-> "none"]

BInit ==
  /\ conn = "Handshaking"
  /\ outgoing = <<[kind |-> "hello", id |-> None]>>
  /\ writer = "running"
  /\ pending = {}
  /\ chan = [r \in Requests |-> "none"]
  /\ rpc = [r \in Requests |-> "new"]
  /\ outcome = [r \in Requests |-> "none"]
  /\ work = NoWork
  /\ hand = [p \in Resolvers |-> NoWork]
  /\ dpc = "none"
  /\ taken = {}
  /\ cpc = "none"
  /\ winner = [r \in Requests |-> "none"]

Goto(r, where) == rpc' = [rpc EXCEPT ![r] = where]

Return(r, what) ==
  /\ Goto(r, "done")
  /\ outcome' = [outcome EXCEPT ![r] = what]

-----------------------------------------------------------------------------
(***************************************************************************)
(* ClientInner::send: the queue has a place, or the frame is refused.      *)
(***************************************************************************)
CanEnqueue == writer # "stopped" /\ Len(outgoing) < QueueCapacity

Enqueue(kind, r) == outgoing' = Append(outgoing, [kind |-> kind, id |-> r])

\* A frame that may be refused without consequences
TrySend(kind, r) ==
  IF conn # "Disconnected" /\ CanEnqueue
  THEN Enqueue(kind, r) ELSE UNCHANGED outgoing

-----------------------------------------------------------------------------
(***************************************************************************)
(* resolve_pending, the part under the lock                                *)
(***************************************************************************)
\* Mutant: the entry is read, not removed.
Peek(r) == pending

Without(r) == pending \ {r}

Remove(r, why) ==
  /\ r \in pending
  /\ pending' = Without(r)
  /\ winner' = [winner EXCEPT ![r] = why]

\* A resolver removes an entry, ...
Take(p, r, why) ==
  /\ hand[p] = NoWork
  /\ Remove(r, why)
  /\ hand' = [hand EXCEPT ![p] = [id |-> r, with |-> why]]

\* ... and sends the reply after the lock is released.  BridgeClient::cancel
\* then tells the host.
Reply(p) ==
  /\ hand[p] # NoWork
  /\ chan' = [chan EXCEPT ![hand[p].id] = hand[p].with]
  /\ hand' = [hand EXCEPT ![p] = NoWork]
  /\ IF p = "canceller" THEN TrySend("cancel", hand[p].id)
                        ELSE UNCHANGED outgoing
  /\ UNCHANGED <<conn, writer, pending, callVars, work, dpc, taken,
                 cpc, winner>>

-----------------------------------------------------------------------------
(***************************************************************************)
(* A caller: begin_request, then BridgeRequest::wait                       *)
(***************************************************************************)
\* require_ready
Admit(r) ==
  /\ rpc[r] = "new" /\ conn = "Ready"
  /\ Goto(r, "admitted")
  /\ UNCHANGED <<conn, outgoing, writer, pending, chan, outcome, work, hand,
                 dpc, taken, cpc, winner>>

Register(r) ==
  /\ rpc[r] = "admitted"
  /\ \/ /\ Cardinality(pending) < MaxPending
        /\ pending' = pending \cup {r}
        /\ Goto(r, "registered")
        /\ UNCHANGED outcome
     \/ /\ Cardinality(pending) >= MaxPending
        /\ Return(r, "QueueFull")
        /\ UNCHANGED pending
  /\ UNCHANGED <<conn, outgoing, writer, chan, work, hand, dpc, taken, cpc, winner>>

\* Mutant: the connection is not looked at again after registration.
IsOpenAnyway == TRUE

\* state_error is None
IsOpen == conn # "Disconnected"

SendCheck(r) ==
  /\ rpc[r] = "registered"
  /\ Goto(r, IF IsOpen THEN "sending" ELSE "failed")
  /\ UNCHANGED <<conn, outgoing, writer, pending, chan, outcome, work, hand,
                 dpc, taken, cpc, winner>>

\* try_send.  (A writer stops after a disconnect only, so the disconnect() of
\* send has nothing to do.)
SendRequest(r) ==
  /\ rpc[r] = "sending"
  /\ \/ CanEnqueue /\ Enqueue("request", r) /\ Goto(r, "waiting")
     \/ ~CanEnqueue /\ UNCHANGED outgoing /\ Goto(r, "failed")
  /\ UNCHANGED <<conn, writer, pending, chan, outcome, work, hand, dpc, taken,
                 cpc, winner>>

\* Mutant: a request that could not be sent stays in the table.
KeepFailed(r) == UNCHANGED <<pending, winner>>

\* The request is taken back, unless somebody has settled it already.
Withdraw(r) ==
  IF r \in pending THEN Remove(r, "refused") ELSE UNCHANGED <<pending, winner>>

SendFailed(r) ==
  /\ rpc[r] = "failed"
  /\ Withdraw(r)
  /\ Return(r, "refused")
  /\ UNCHANGED <<conn, outgoing, writer, chan, work, hand, dpc, taken, cpc>>

\* recv_timeout returns the reply ...
Receive(r) ==
  /\ rpc[r] = "waiting" /\ chan[r] # "none"
  /\ Return(r, chan[r])
  /\ UNCHANGED <<conn, outgoing, writer, pending, chan, work, hand, dpc, taken,
                 cpc, winner>>

\* ... or nothing in time.
TimeOut(r) ==
  /\ rpc[r] = "waiting" /\ chan[r] = "none"
  /\ Goto(r, "timedout")
  /\ UNCHANGED <<conn, outgoing, writer, pending, chan, outcome, work, hand,
                 dpc, taken, cpc, winner>>

\* The caller cancels its own request and, if that settled it, tells the
\* host.  (The reply that cancel() sends to itself is never read.)
TimeOutCancels(r) ==
  /\ rpc[r] = "timedout"
  /\ \/ Remove(r, "timeout") /\ Goto(r, "telling")
     \/ r \notin pending /\ Goto(r, "recheck") /\ UNCHANGED <<pending, winner>>
  /\ UNCHANGED <<conn, outgoing, writer, chan, outcome, work, hand, dpc, taken,
                 cpc>>

TellHost(r) ==
  /\ rpc[r] = "telling"
  /\ TrySend("cancel", r)
  /\ Return(r, winner[r])
  /\ UNCHANGED <<conn, writer, pending, chan, work, hand, dpc, taken, cpc, winner>>

\* Somebody else has settled the request: try_recv.
Recheck(r) ==
  /\ rpc[r] = "recheck"
  /\ Return(r, IF chan[r] # "none" THEN chan[r] ELSE "timeout")
  /\ UNCHANGED <<conn, outgoing, writer, pending, chan, work, hand, dpc, taken,
                 cpc, winner>>

\* BridgeRequest::cancel, or the request is dropped: nobody reads the reply.
GiveUp(r) ==
  /\ rpc[r] = "waiting"
  /\ \/ Remove(r, "cancelled") /\ Goto(r, "telling") /\ UNCHANGED outcome
     \/ r \notin pending /\ Return(r, "dropped") /\ UNCHANGED <<pending, winner>>
  /\ UNCHANGED <<conn, outgoing, writer, chan, work, hand, dpc, taken, cpc>>

\* BridgeClient::cancel by another thread
Cancel(r) ==
  /\ rpc[r] \in {"waiting", "timedout"}
  /\ Take("canceller", r, "cancelled")
  /\ UNCHANGED <<conn, outgoing, writer, chan, callVars, work, dpc, taken, cpc>>

-----------------------------------------------------------------------------
(***************************************************************************)
(* The dispatcher: one frame of the host at a time.                        *)
(***************************************************************************)
DispatcherFree == work = NoWork /\ hand["dispatcher"] = NoWork

DispatchReady ==
  /\ DispatcherFree /\ conn = "Handshaking"
  /\ conn' = "Ready"
  /\ UNCHANGED <<outgoing, writer, pending, chan, callVars, work, hand, dpc,
                 taken, cpc, winner>>

\* The state is looked at, and the lock on it released ...
DispatchAnswer(r, with) ==
  /\ DispatcherFree /\ conn = "Ready"
  /\ work' = [id |-> r, with |-> with]
  /\ UNCHANGED <<conn, outgoing, writer, pending, chan, callVars, hand, dpc,
                 taken, cpc, winner>>

\* ... before the answer is applied; an answer nobody waits for is dropped.
ApplyAnswer ==
  /\ work # NoWork
  /\ \/ Take("dispatcher", work.id, work.with)
     \/ work.id \notin pending /\ UNCHANGED <<pending, winner, hand>>
  /\ work' = NoWork
  /\ UNCHANGED <<conn, outgoing, writer, chan, callVars, dpc, taken, cpc>>

-----------------------------------------------------------------------------
(***************************************************************************)
(* The writer                                                              *)
(***************************************************************************)
Write ==
  /\ writer = "running" /\ outgoing # <<>>
  /\ outgoing' = Tail(outgoing)
  /\ writer' = IF Head(outgoing).kind = "close" THEN "stopped" ELSE writer
  /\ UNCHANGED <<conn, pending, chan, callVars, work, hand, dpc, taken, cpc,
                 winner>>

-----------------------------------------------------------------------------
(***************************************************************************)
(* disconnect(): the first caller does it, any other returns at once.      *)
(***************************************************************************)
StartDisconnect ==
  /\ conn # "Disconnected"
  /\ conn' = "Disconnected"
  /\ dpc' = "take"

\* The reader fails (end of input, a malformed frame, another generation), or
\* the dispatcher meets a frame that the handshake does not allow.  The reader
\* reads the next frame when the dispatcher has handled the last one.
ReaderFails ==
  /\ DispatcherFree
  /\ StartDisconnect
  /\ UNCHANGED <<outgoing, writer, pending, chan, callVars, work, hand, taken,
                 cpc, winner>>

\* The writer fails; it stops when its disconnect() has returned.
WriterFails ==
  /\ writer = "running" /\ outgoing # <<>>
  /\ \/ StartDisconnect /\ writer' = "failing"
     \/ conn = "Disconnected" /\ writer' = "stopped" /\ UNCHANGED <<conn, dpc>>
  /\ UNCHANGED <<outgoing, pending, chan, callVars, work, hand, taken, cpc, winner>>

WriterStops ==
  /\ writer = "failing" /\ dpc = "done"
  /\ writer' = "stopped"
  /\ UNCHANGED <<conn, outgoing, pending, chan, callVars, work, hand, dpc,
                 taken, cpc, winner>>

DisconnectTakes ==
  /\ dpc = "take"
  /\ taken' = pending
  /\ pending' = {}
  /\ winner' = [r \in Requests |->
                  IF r \in pending THEN "disconnected" ELSE winner[r]]
  /\ dpc' = "reply"
  /\ UNCHANGED <<conn, outgoing, writer, chan, callVars, work, hand, cpc>>

DisconnectReplies(r) ==
  /\ dpc = "reply" /\ r \in taken
  /\ chan' = [chan EXCEPT ![r] = "disconnected"]
  /\ taken' = taken \ {r}
  /\ UNCHANGED <<conn, outgoing, writer, pending, callVars, work, hand, dpc,
                 cpc, winner>>

DisconnectDone ==
  /\ dpc = "reply" /\ taken = {}
  /\ dpc' = "done"
  /\ UNCHANGED <<conn, outgoing, writer, pending, chan, callVars, work, hand,
                 taken, cpc, winner>>

Disconnecting ==
  DisconnectTakes \/ DisconnectDone \/ \E r \in Requests : DisconnectReplies(r)

\* BridgeClient::close disconnects, unless that has begun already, ...
Close ==
  /\ cpc = "none"
  /\ \/ StartDisconnect /\ cpc' = "disconnecting"
     \/ conn = "Disconnected" /\ cpc' = "closing" /\ UNCHANGED <<conn, dpc>>
  /\ UNCHANGED <<outgoing, writer, pending, chan, callVars, work, hand, taken, winner>>

\* ... and tells the writer to stop, if the queue has a place.
CloseWriter ==
  /\ cpc = "closing" \/ (cpc = "disconnecting" /\ dpc = "done")
  /\ cpc' = "closed"
  /\ IF CanEnqueue THEN Enqueue("close", None) ELSE UNCHANGED outgoing
  /\ UNCHANGED <<conn, writer, pending, chan, callVars, work, hand, dpc, taken, winner>>

-----------------------------------------------------------------------------
\* What a caller does without help of the clock
CallerStep(r) ==
  \/ Register(r) \/ SendCheck(r) \/ SendRequest(r) \/ SendFailed(r)
  \/ Receive(r) \/ TimeOutCancels(r) \/ TellHost(r) \/ Recheck(r)

BNext ==
  \/ \E r \in Requests : Admit(r) \/ CallerStep(r) \/ TimeOut(r)
                              \/ GiveUp(r) \/ Cancel(r)
  \/ \E r \in Requests, with \in Answers : DispatchAnswer(r, with)
  \/ \E p \in Resolvers : Reply(p)
  \/ DispatchReady \/ ApplyAnswer \/ Write
  \/ ReaderFails \/ WriterFails \/ WriterStops
  \/ Disconnecting \/ Close \/ CloseWriter

BSpec == BInit /\ [][BNext]_bvars

\* Threads that can run do.  Nothing is assumed of the clock, of the host or
\* of anyone's decision to call, cancel or close.
BFairSpec ==
  /\ BSpec
  /\ \A r \in Requests : WF_bvars(CallerStep(r))
  /\ \A p \in Resolvers : WF_bvars(Reply(p))
  /\ WF_bvars(ApplyAnswer) /\ WF_bvars(Write) /\ WF_bvars(Disconnecting)
  /\ WF_bvars(WriterStops) /\ WF_bvars(CloseWriter)

-----------------------------------------------------------------------------
RpcStates == {"new", "admitted", "registered", "sending", "failed", "waiting",
              "timedout", "telling", "recheck", "done"}
Results == Answers \cup {"disconnected"}
Works == {NoWork} \cup [id : Requests, with : Answers]
Frames ==
  [kind : {"request", "cancel"}, id : Requests]
    \cup [kind : {"hello", "close"}, id : {None}]

\* Every variable has the type of the field it models, and the queue is
\* bounded.
BTypeOK ==
  /\ conn \in {"Handshaking", "Ready", "Disconnected"}
  /\ outgoing \in Seq(Frames) /\ Len(outgoing) <= QueueCapacity
  /\ writer \in {"running", "failing", "stopped"}
  /\ pending \subseteq Requests
  /\ chan \in [Requests -> Results \cup {"none"}]
  /\ rpc \in [Requests -> RpcStates]
  /\ outcome \in [Requests -> Results \cup
                    {"none", "timeout", "refused", "dropped", "QueueFull"}]
  /\ work \in Works
  /\ hand \in [Resolvers -> Works]
  /\ dpc \in {"none", "take", "reply", "done"}
  /\ taken \subseteq Requests
  /\ cpc \in {"none", "disconnecting", "closing", "closed"}
  /\ winner \in [Requests -> Results \cup {"none", "timeout", "refused"}]

\* A request entered into the table while disconnect() empties it is not
\* forgotten there: its own caller is about to take it back.
NoStrandedRequest ==
  \A r \in pending : dpc \in {"reply", "done"} =>
    rpc[r] \in {"registered", "failed"}

\* A request whose caller has returned is not in the table any more.
NoLeakedPending == \A r \in Requests : rpc[r] = "done" => r \notin pending

\* A request is settled once: answers, cancellation, timeout and disconnect
\* race for it, and no channel ever gets a second reply.
OneReply ==
  [][\A r \in Requests : chan[r] # "none" => chan'[r] = chan[r]]_bvars

\* A disconnect releases every caller that waits, without its timeout.
DisconnectReleasesCallers ==
  \A r \in Requests :
    conn = "Disconnected" /\ rpc[r] = "waiting" ~> rpc[r] = "done"

\* An answer that is handed to a caller is the one that took the request out
\* of the table: a late answer to a request settled otherwise is never
\* delivered.  (The converse fails: a caller that times out between the
\* removal of its entry and the reply reports the timeout.)
AnswersAreTheWinners ==
  \A r \in Requests : outcome[r] \in Results => outcome[r] = winner[r]

\* The client is consistent: its types and bounds, and its answers.
BridgeInv == BTypeOK /\ AnswersAreTheWinners
=============================================================================

---------------------------- MODULE HostRequests ----------------------------
(***************************************************************************)
(* The requests that a Node host makes of Rust: dispatch,                  *)
(* dispatch_request, cancel_request and respond_request of ClientInner in  *)
(* crates/tessivum-node-bridge/src/supervisor.rs, composed with the host's *)
(* end of module CompatHost.                                               *)
(*                                                                         *)
(* One dispatcher thread handles the frames of the host in order.  It runs *)
(* most handlers itself; pnpm.run, service.call and service.provide get a  *)
(* thread of their own, under a permit, so that they can be cancelled and  *)
(* can themselves ask the host for something.  A frame that does not fit   *)
(* into the queue to the writer is dropped.                                *)
(*                                                                         *)
(* The connection is ready at first.  What Rust asks of the host is here   *)
(* only what a handler asks; module BridgeClient has that side.  The host  *)
(* numbers its requests with even numbers, Rust with odd ones, so a cancel *)
(* frame never names a request of the side it is sent to.                  *)
(***************************************************************************)
EXTENDS CompatHost

CONSTANTS
  Threaded,   \* the requests whose handler gets a thread
  Askers,     \* those whose handler may ask the host for something
  Capacity    \* ClientConfig::queue_capacity

ASSUME HostRequestsAssumption ==
  /\ Threaded \subseteq HostReqs /\ Askers \subseteq HostReqs
  /\ Capacity \in Nat \ {0}

VARIABLES
  conn,        \* ClientInner::state
  dispatcher,  \* the request whose handler the dispatcher thread runs
  permits,     \* cancellable_requests: request -> has it been cancelled
  hpc,         \* where the handling of each request is
  cancelling,  \* requests whose cancel frame a thread hands to the handler
  outgoing,    \* the queue to the writer
  asked,       \* requests whose handler waits for the host
  told,        \* history: how each request ended
  cancelled    \* history: how often the handler was told of a cancellation

\* What the steps of the Rust end leave alone of the host.
hostVars == <<remote, cancelledRemote, operations, running, settled, awaits,
              answers>>
rustVars == <<conn, dispatcher, permits, cancelling, outgoing, asked, told,
              cancelled>>
qvars == <<chVars, rustVars, hpc>>

HInit ==
  /\ CInit
  /\ conn = "Ready" /\ dispatcher = Nobody
  /\ permits = [r \in {} |-> FALSE]
  /\ hpc = [r \in HostReqs |-> "new"]
  /\ cancelling = {} /\ outgoing = <<>> /\ asked = {}
  /\ told = [r \in HostReqs |-> "nothing"]
  /\ cancelled = [r \in HostReqs |-> 0]

Goto(r, where) == hpc' = [hpc EXCEPT ![r] = where]

-----------------------------------------------------------------------------
(***************************************************************************)
(* The host's end                                                          *)
(***************************************************************************)
HostAsks(r) ==
  /\ conn = "Ready" /\ hpc[r] = "new"
  /\ BeginRemote(r)
  /\ Goto(r, "sent")
  /\ UNCHANGED rustVars

\* Calls of services and pnpm runs are given up with the signal of the caller.
\* The cancel frame may cross the answer.
HostCancels(r) ==
  /\ conn = "Ready" /\ r \in Threaded
  /\ CancelRemote(r)
  /\ UNCHANGED <<rustVars, hpc>>

HostWorks ==
  /\ conn = "Ready"
  /\ StartOperation \/ EndOperation
  /\ UNCHANGED <<rustVars, hpc>>

\* The writer thread writes the next frame, and the host handles it: a frame
\* on its way is as good as one in the queue.
Write ==
  /\ outgoing # <<>>
  /\ outgoing' = Tail(outgoing)
  /\ LET f == Head(outgoing) IN
       \/ conn = "Ready" /\ f.kind = "answer" /\ ResolveOutgoing(f.id)
       \/ conn = "Ready" /\ f.kind = "ask" /\ Receive(f.id)
       \/ conn = "Ready" /\ f.kind = "cancel" /\ Cancel(f.id)
       \/ conn = "Disconnected" /\ UNCHANGED chVars
  /\ UNCHANGED <<conn, dispatcher, permits, hpc, cancelling, asked, told,
                 cancelled>>

-----------------------------------------------------------------------------
(***************************************************************************)
(* The dispatcher                                                          *)
(***************************************************************************)
Next1(k) ==
  /\ dispatcher = Nobody /\ inbox # <<>> /\ Head(inbox).kind = k
  /\ conn = "Ready"
  /\ inbox' = Tail(inbox)

\* respond_request: the answer is dropped if the queue is full or the
\* connection lost.
Respond(r, what) ==
  IF conn = "Ready" /\ Len(outgoing) < Capacity
  THEN /\ outgoing' = Append(outgoing, Frame("answer", r))
       /\ told' = [told EXCEPT ![r] = what]
  ELSE /\ told' = [told EXCEPT ![r] = "dropped"]
       /\ UNCHANGED outgoing

\* Mutant: every handler runs on the dispatcher thread.
NeverThreaded(r) == FALSE

OnThread(r) == r \in Threaded

DispatchSerial ==
  /\ Next1("request")
  /\ LET r == Head(inbox).id IN
       /\ ~OnThread(r)
       /\ dispatcher' = r
       /\ Goto(r, "handling")
  /\ UNCHANGED <<conn, permits, cancelling, outgoing, asked, hostVars, told,
                 cancelled>>

HasRoom == Cardinality(DOMAIN permits) < Capacity

\* acquire_cancellable_request
DispatchThreaded ==
  /\ Next1("request")
  /\ LET r == Head(inbox).id IN
       /\ OnThread(r)
       /\ HasRoom
       /\ permits' = [s \in DOMAIN permits \cup {r} |->
                        IF s = r THEN FALSE ELSE permits[s]]
       /\ Goto(r, "handling")
  /\ UNCHANGED <<conn, dispatcher, cancelling, outgoing, asked, hostVars, told,
                 cancelled>>

\* Mutant: a request that finds no permit is not answered.
RefuseSilently(r) == UNCHANGED <<outgoing, told>>

Refuse(r) == Respond(r, "QueueFull")

DispatchRefuses ==
  /\ Next1("request")
  /\ LET r == Head(inbox).id IN
       /\ OnThread(r)
       /\ ~HasRoom
       /\ Refuse(r)
       /\ Goto(r, "done")
  /\ UNCHANGED <<conn, dispatcher, permits, cancelling, asked, hostVars,
                 cancelled>>

\* Mutant: the permit does not remember the cancellation.
ForgetMark(r) == permits

Mark(r) == [permits EXCEPT ![r] = TRUE]

\* cancel_request: a thread hands the first cancel frame of a request in
\* progress to the handler.
CancelRequest(r) ==
  IF r \in DOMAIN permits /\ ~permits[r]
  THEN permits' = Mark(r) /\ cancelling' = cancelling \cup {r}
  ELSE UNCHANGED <<permits, cancelling>>

DispatchCancel ==
  /\ Next1("cancel")
  /\ CancelRequest(Head(inbox).id)
  /\ UNCHANGED <<conn, dispatcher, hpc, outgoing, asked, hostVars, told,
                 cancelled>>

\* The same when the host has sent the frame before and repeats it (ours does
\* not)
DispatchRepeated(r) ==
  /\ dispatcher = Nobody /\ conn = "Ready" /\ r \in cancelledRemote
  /\ \A i \in DOMAIN inbox : inbox[i] \notin {Frame("request", r), Frame("cancel", r)}
  /\ CancelRequest(r)
  /\ UNCHANGED <<conn, inbox, dispatcher, hpc, outgoing, asked, hostVars, told,
                 cancelled>>

\* The answer to a question of a handler; nobody may wait for it any more.
DispatchResponse ==
  /\ Next1("response")
  /\ asked' = asked \ {Head(inbox).id}
  /\ UNCHANGED <<conn, dispatcher, permits, hpc, cancelling, outgoing, hostVars,
                 told, cancelled>>

\* After a disconnect frames are read and dropped.
DispatchDropped ==
  /\ conn = "Disconnected" /\ dispatcher = Nobody /\ inbox # <<>>
  /\ inbox' = <<>>
  /\ UNCHANGED <<conn, dispatcher, permits, hpc, cancelling, outgoing, asked,
                 hostVars, told, cancelled>>

-----------------------------------------------------------------------------
(***************************************************************************)
(* Handlers (external) and the threads that run them                       *)
(***************************************************************************)
\* A handler asks the host and waits; a full queue is an error it goes on with.
HandlerAsks(r) ==
  /\ r \in Askers /\ hpc[r] = "handling"
  /\ conn = "Ready" /\ Len(outgoing) < Capacity
  /\ outgoing' = Append(outgoing, Frame("ask", r))
  /\ asked' = asked \cup {r}
  /\ Goto(r, "waiting")
  /\ UNCHANGED <<conn, inbox, dispatcher, permits, cancelling, hostVars, told,
                 cancelled>>

HandlerHears(r) ==
  /\ hpc[r] = "waiting" /\ r \notin asked
  /\ Goto(r, "heard")
  /\ UNCHANGED <<conn, inbox, dispatcher, permits, cancelling, outgoing, asked,
                 hostVars, told, cancelled>>

\* The handler gives up its question; the cancel frame is dropped if it does
\* not fit.
HandlerTimesOut(r) ==
  /\ hpc[r] = "waiting" /\ r \in asked
  /\ asked' = asked \ {r}
  /\ Goto(r, "heard")
  /\ outgoing' = IF Len(outgoing) < Capacity
                 THEN Append(outgoing, Frame("cancel", r))
                 ELSE outgoing
  /\ UNCHANGED <<conn, inbox, dispatcher, permits, cancelling, hostVars, told,
                 cancelled>>

\* The handler returns and its result is sent.  A thread then gives its permit
\* back.
HandlerReturns(r) ==
  /\ hpc[r] \in {"handling", "heard"}
  /\ Respond(r, "answer")
  /\ IF r = dispatcher
     THEN dispatcher' = Nobody /\ Goto(r, "done")
     ELSE UNCHANGED dispatcher /\ Goto(r, "answered")
  /\ UNCHANGED <<conn, inbox, permits, cancelling, asked, hostVars, cancelled>>

\* disconnect() settles what handlers wait for.  The host ends with its
\* connection, and what it has in hand with it.
GiveUp ==
  /\ conn' = "Disconnected"
  /\ asked' = {}
  /\ remote' = {} /\ cancelledRemote' = {} /\ operations' = <<>>
  /\ running' = Nobody /\ settled' = {} /\ awaits' = Nobody
  /\ UNCHANGED answers

\* The handler panics.  Its thread unwinds without an answer; without the
\* dispatcher thread the reader gives up the connection.
HandlerPanics(r) ==
  /\ hpc[r] \in {"handling", "heard"}
  /\ told' = [told EXCEPT ![r] = "panic"]
  /\ IF r = dispatcher
     THEN /\ Goto(r, "done")
          /\ IF conn = "Ready" THEN GiveUp ELSE UNCHANGED <<conn, asked, hostVars>>
     ELSE /\ Goto(r, "answered")
          /\ UNCHANGED <<conn, asked, hostVars>>
  /\ UNCHANGED <<inbox, dispatcher, permits, cancelling, outgoing, cancelled>>

\* Mutant: the permit is not dropped.
KeepPermit(r) == permits

\* CancellableRequestPermit::drop
WithoutPermit(r) == [s \in DOMAIN permits \ {r} |-> permits[s]]

ThreadEnds(r) ==
  /\ hpc[r] = "answered"
  /\ permits' = WithoutPermit(r)
  /\ Goto(r, "done")
  /\ UNCHANGED <<conn, inbox, dispatcher, cancelling, outgoing, asked, hostVars,
                 told, cancelled>>

\* The thread of a cancel frame may be late: the request can be over.
HandlerIsTold(r) ==
  /\ r \in cancelling
  /\ cancelling' = cancelling \ {r}
  /\ cancelled' = [cancelled EXCEPT ![r] = @ + 1]
  /\ UNCHANGED <<conn, inbox, dispatcher, permits, hpc, outgoing, asked,
                 hostVars, told>>

Disconnect ==
  /\ conn = "Ready"
  /\ GiveUp
  /\ UNCHANGED <<inbox, dispatcher, permits, hpc, cancelling, outgoing, told,
                 cancelled>>

-----------------------------------------------------------------------------
Dispatch ==
  \/ DispatchSerial \/ DispatchThreaded \/ DispatchRefuses
  \/ DispatchCancel \/ DispatchResponse \/ DispatchDropped

HandlerStep(r) ==
  HandlerHears(r) \/ HandlerReturns(r) \/ HandlerPanics(r) \/ ThreadEnds(r)

HNext ==
  \/ \E r \in HostReqs :
       \/ HostAsks(r) \/ HostCancels(r)
       \/ HandlerAsks(r) \/ HandlerTimesOut(r) \/ HandlerStep(r)
       \/ HandlerIsTold(r) \/ DispatchRepeated(r)
  \/ HostWorks \/ Write \/ Dispatch \/ Disconnect

\* Threads that can run do, and a handler returns once what it waits for is
\* there.  The clock is trusted with the handlers that block the dispatcher,
\* and with no other.
HFairness ==
  /\ WF_qvars(HostWorks) /\ WF_qvars(Write) /\ WF_qvars(Dispatch)
  /\ \A r \in HostReqs : WF_qvars(HandlerStep(r)) /\ WF_qvars(HandlerIsTold(r))
  /\ \A r \in Askers \ Threaded : WF_qvars(HandlerTimesOut(r))

HFairSpec == HInit /\ [][HNext]_qvars /\ HFairness

-----------------------------------------------------------------------------
\* Every variable has the type of the field it models, and the queue to the
\* writer is bounded.
HTypeOK ==
  /\ CTypeOK
  /\ conn \in {"Ready", "Disconnected"}
  /\ dispatcher \in {Nobody} \cup (HostReqs \ Threaded)
  /\ DOMAIN permits \subseteq Threaded
  /\ \A r \in DOMAIN permits : permits[r] \in BOOLEAN
  /\ hpc \in [HostReqs -> {"new", "sent", "handling", "waiting", "heard",
                           "answered", "done"}]
  /\ cancelling \subseteq Threaded /\ asked \subseteq HostReqs
  /\ outgoing \in Seq([kind : {"answer", "ask", "cancel"}, id : HostReqs])
  /\ Len(outgoing) <= Capacity
  /\ told \in [HostReqs -> {"nothing", "answer", "QueueFull", "dropped", "panic"}]

Working == {"handling", "waiting", "heard", "answered"}

\* The host can start no more threads than the queue has places, and every
\* permit belongs to a thread that will give it back.
ThreadsAreBounded ==
  LET alive == {r \in Threaded : hpc[r] \in Working} IN
    alive = DOMAIN permits /\ Cardinality(alive) <= Capacity

\* However late it comes, a cancellation reaches the handler at most once, and
\* never for a request that was not given to a handler.
CancelledOnce ==
  \A r \in HostReqs :
    /\ cancelled[r] + (IF r \in cancelling THEN 1 ELSE 0) <= 1
    /\ r \in cancelling \/ cancelled[r] > 0 =>
         r \in Threaded /\ hpc[r] \in Working \cup {"done"} /\ told[r] # "QueueFull"

\* An answer of Rust always finds its request at the host, outgoing or
\* cancelled, whatever cancel frames it has crossed: the host does not die of
\* an answer it has forgotten to expect.
AnswersAreExpected ==
  conn = "Ready" =>
    \A i \in DOMAIN outgoing :
      outgoing[i].kind = "answer" => outgoing[i].id \in remote \cup cancelledRemote

\* The operation in progress at the host waits for an answer that was dropped,
\* or for a handler that waits for the host: the operations behind it do not
\* get their turn.
HostIsStuck ==
  /\ awaits # Nobody
  /\ hpc[awaits] = "waiting" \/ told[awaits] \in {"dropped", "panic"}

\* A handler with a thread can ask the host and hear the answer while it is
\* itself being waited for, and no clock is needed to get it going again,
\* unless the operation in progress at the host is stuck: that is the only
\* circle of waits between the two ends.
NoSelfDeadlock ==
  \A r \in Threaded \cap Askers :
    hpc[r] = "waiting" ~> hpc[r] # "waiting" \/ HostIsStuck

\* As long as the timeouts of handlers fire, every request of the host ends,
\* and a host that still waits for one was not answered because the queue was
\* full, the handler panicked or the connection was lost.
EveryRequestEnds ==
  (\A r \in Threaded \cap Askers : WF_qvars(HandlerTimesOut(r))) =>
    \A r \in HostReqs :
      hpc[r] = "sent" ~>
        \/ conn = "Disconnected"
        \/ hpc[r] = "done" /\ (r \in remote => told[r] \in {"dropped", "panic"})

\* Permits, threads and cancellations of the host's requests are accounted
\* for, and each end answers the other once.
HostInv ==
  HTypeOK /\ ThreadsAreBounded /\ CancelledOnce /\ OneAnswer /\ AnswersAreExpected
=============================================================================

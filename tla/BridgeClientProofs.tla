------------------------- MODULE BridgeClientProofs -------------------------
(***************************************************************************)
(* Proofs about BridgeClient.  The inductive invariant says where the one  *)
(* reply of a request is: not made yet, in the pending table, in the hand  *)
(* of exactly one resolver, taken by the disconnect, or in the channel.    *)
(***************************************************************************)
EXTENDS BridgeClient, SequenceTheorems, TLAPS

\* No resolver holds the reply of r.
InNoHand(r) == \A p \in Resolvers : hand[p].id # r

\* The reply of r is in one place.
ReplyInv(r) ==
  /\ rpc[r] \in {"new", "admitted"} =>
       r \notin pending /\ r \notin taken /\ InNoHand(r) /\ chan[r] = "none"
  /\ r \in pending => r \notin taken /\ InNoHand(r) /\ chan[r] = "none"
  /\ r \in taken => InNoHand(r) /\ chan[r] = "none"
  /\ ~InNoHand(r) => chan[r] = "none"
  /\ hand["dispatcher"].id = r => hand["canceller"].id # r

\* A request is in the table only while its caller is on the way, and once
\* the table has been emptied for good only until its caller finds out.
TableInv(r) ==
  r \in pending =>
    /\ rpc[r] \in {"registered", "sending", "failed", "waiting", "timedout"}
    /\ dpc \in {"reply", "done"} => rpc[r] \in {"registered", "failed"}

ConnInv == dpc = "none" <=> conn # "Disconnected"

BInv ==
  /\ BTypeOK
  /\ ConnInv
  /\ \A r \in Requests : ReplyInv(r) /\ TableInv(r)

-----------------------------------------------------------------------------
\* A frame enqueued where there is a place keeps the queue in its bound.
LEMMA EnqueueType ==
  ASSUME BTypeOK, NEW k, NEW r, [kind |-> k, id |-> r] \in Frames,
         Enqueue(k, r), CanEnqueue
  PROVE  outgoing' \in Seq(Frames) /\ Len(outgoing') <= QueueCapacity
<1>2. /\ outgoing' \in Seq(Frames)
      /\ Len(outgoing') = Len(outgoing) + 1
  BY AppendProperties DEF Enqueue, BTypeOK
<1>3. Len(outgoing) \in Nat /\ Len(outgoing) < QueueCapacity
  BY LenProperties DEF BTypeOK, CanEnqueue
<1> QED
  BY <1>2, <1>3, BridgeAssumption

\* So does a cancel frame that may be refused.
LEMMA TrySendType ==
  ASSUME BTypeOK, NEW r \in Requests, TrySend("cancel", r)
  PROVE  outgoing' \in Seq(Frames) /\ Len(outgoing') <= QueueCapacity
<1>1. CASE conn # "Disconnected" /\ CanEnqueue
  BY <1>1, EnqueueType DEF TrySend, Frames
<1>2. CASE ~(conn # "Disconnected" /\ CanEnqueue)
  BY <1>2 DEF TrySend, BTypeOK
<1> QED
  BY <1>1, <1>2

\* The initial state satisfies the invariant.
LEMMA InitBInv == BInit => BInv
<1> SUFFICES ASSUME BInit PROVE BInv
  OBVIOUS
<1>1. [kind |-> "hello", id |-> None] \in Frames
  BY DEF Frames
<1>2. outgoing \in Seq(Frames) /\ Len(outgoing) = 1
  BY <1>1 DEF BInit
<1>3. Len(outgoing) <= QueueCapacity
  BY <1>2, BridgeAssumption
<1>4. BTypeOK
  BY <1>2, <1>3
  DEF BInit, BTypeOK, RpcStates, Results, Answers, Works, Resolvers
<1> QED
  BY <1>4, BridgeAssumption
  DEF BInit, BInv, ConnInv, ReplyInv, TableInv, InNoHand, NoWork, Resolvers

-----------------------------------------------------------------------------
(***************************************************************************)
(* One lemma per group of actions.                                         *)
(***************************************************************************)
\* A resolver that takes a reply out of the table.
LEMMA TakeInv ==
  ASSUME BInv, NEW p \in Resolvers, NEW r \in Requests, NEW why \in Answers,
         Take(p, r, why), UNCHANGED <<chan, rpc, dpc, taken>>
  PROVE  /\ pending' \subseteq Requests
         /\ hand' \in [Resolvers -> Works]
         /\ winner' \in [Requests -> Results \cup {"none", "timeout", "refused"}]
         /\ \A q \in Requests : ReplyInv(q)' /\ TableInv(q)'
<1>1. /\ r \in pending /\ pending' = pending \ {r}
      /\ hand[p] = NoWork /\ hand' = [hand EXCEPT ![p] = [id |-> r, with |-> why]]
      /\ winner' = [winner EXCEPT ![r] = why]
  BY DEF Take, Remove, Without
<1>2. [id |-> r, with |-> why] \in Works
  BY DEF Works
<1>3. \A q \in Requests : TableInv(q)'
  BY <1>1 DEF BInv, TableInv
<1>4. ASSUME NEW q \in Requests PROVE ReplyInv(q)'
  <2>1. /\ hand'[p].id = r
        /\ \A o \in Resolvers \ {p} : hand'[o] = hand[o]
    BY <1>1 DEF BInv, BTypeOK
  <2>2. CASE q = r
    BY <1>1, <2>1, <2>2 DEF BInv, ReplyInv, TableInv, InNoHand, Resolvers
  <2>3. CASE q # r
    <3>1. \A o \in Resolvers : hand'[o].id = q => hand[o].id = q
      BY <2>1, <2>3
    <3>2. InNoHand(q) => InNoHand(q)'
      BY <3>1 DEF InNoHand
    <3> QED
      BY <1>1, <2>3, <3>1, <3>2 DEF BInv, ReplyInv, Resolvers
  <2> QED
    BY <2>2, <2>3
<1> QED
  BY <1>1, <1>2, <1>3, <1>4 DEF BInv, BTypeOK, Results

\* A reply that goes into the channel was in the hand of one resolver.
LEMMA ReplyStepInv ==
  ASSUME BInv, NEW p \in Resolvers, Reply(p)
  PROVE  BInv'
<1> DEFINE r == hand[p].id
<1>1. r \in Requests /\ hand[p].with \in Answers
  BY DEF Reply, BInv, BTypeOK, Works
<1>2. /\ chan' = [chan EXCEPT ![r] = hand[p].with]
      /\ hand' = [hand EXCEPT ![p] = NoWork]
      /\ UNCHANGED <<conn, writer, pending, rpc, outcome, work, dpc, taken, cpc,
                     winner>>
  BY DEF Reply, callVars
<1>3. outgoing' \in Seq(Frames) /\ Len(outgoing') <= QueueCapacity
  BY <1>1, TrySendType DEF Reply, BInv, BTypeOK
<1>4. BTypeOK'
  BY <1>1, <1>2, <1>3 DEF BInv, BTypeOK, Results, Works
<1>5. ~InNoHand(r)
  BY DEF InNoHand
<1>6. /\ \A o \in Resolvers : hand'[o].id # r
      /\ \A q \in Requests : InNoHand(q) => InNoHand(q)'
  BY <1>1, <1>2, BridgeAssumption
  DEF BInv, BTypeOK, ReplyInv, InNoHand, NoWork, Resolvers
<1>7. ASSUME NEW q \in Requests PROVE ReplyInv(q)'
  <2>1. CASE q = r
    BY <1>1, <1>2, <1>5, <1>6, <2>1, BridgeAssumption
    DEF BInv, BTypeOK, ReplyInv, InNoHand
  <2>2. CASE q # r
    <3>1. chan'[q] = chan[q]
      BY <1>1, <1>2, <2>2 DEF BInv, BTypeOK
    <3>2. ~InNoHand(q)' => ~InNoHand(q)
      BY <1>6
    <3>3. \A o \in Resolvers : hand'[o].id = q => hand[o].id = q
      BY <1>2, BridgeAssumption DEF BInv, BTypeOK, NoWork
    <3> QED
      BY <1>2, <1>6, <3>1, <3>2, <3>3 DEF BInv, ReplyInv, Resolvers
  <2> QED
    BY <2>1, <2>2
<1> QED
  BY <1>2, <1>4, <1>7 DEF BInv, ConnInv, TableInv

\* A request that enters the table has no reply anywhere.
LEMMA RegisterInv ==
  ASSUME BInv, NEW r \in Requests, Register(r)
  PROVE  BInv'
<1>1. BTypeOK'
  <2>1. /\ UNCHANGED <<conn, outgoing, writer, chan, work, hand, dpc, taken, cpc,
                       winner>>
        /\ pending' \subseteq Requests
    BY DEF Register, BInv, BTypeOK
  <2>2. /\ rpc' \in [Requests -> RpcStates]
        /\ outcome' \in [Requests -> Results \cup
                           {"none", "timeout", "refused", "dropped", "QueueFull"}]
    BY DEF Register, Goto, Return, BInv, BTypeOK, RpcStates
  <2> QED
    BY <2>1, <2>2 DEF BInv, BTypeOK
<1>2. /\ rpc[r] = "admitted"
      /\ \/ pending' = pending \cup {r} /\ rpc' = [rpc EXCEPT ![r] = "registered"]
         \/ pending' = pending /\ rpc' = [rpc EXCEPT ![r] = "done"]
      /\ UNCHANGED <<conn, chan, hand, dpc, taken>>
  BY DEF Register, Goto, Return
<1>3. ASSUME NEW q \in Requests PROVE ReplyInv(q)' /\ TableInv(q)'
  <2>1. rpc'[q] \in {rpc[q], "registered", "done"} /\ (q # r => rpc'[q] = rpc[q])
    BY <1>2 DEF BInv, BTypeOK
  <2>2. q = r => \/ rpc'[q] = "registered"
                 \/ rpc'[q] = "done" /\ pending' = pending
    BY <1>2 DEF BInv, BTypeOK
  <2>3. dpc \in {"reply", "done"} /\ q = r /\ r \in pending' => rpc'[q] = "registered"
    BY <1>2, <2>2 DEF BInv, ReplyInv
  <2> QED
    BY <1>2, <2>1, <2>2, <2>3 DEF BInv, ReplyInv, TableInv, InNoHand
<1> QED
  BY <1>1, <1>2, <1>3 DEF BInv, ConnInv

\* The caller's steps that leave the table alone, or take its own request
\* out of it.
LEMMA CallerInv ==
  ASSUME BInv, NEW r \in Requests,
         \/ Admit(r) \/ SendCheck(r) \/ SendRequest(r) \/ SendFailed(r)
         \/ Receive(r) \/ TimeOut(r) \/ TimeOutCancels(r) \/ TellHost(r)
         \/ Recheck(r) \/ GiveUp(r)
  PROVE  BInv'
<1>1. /\ UNCHANGED <<conn, writer, chan, work, hand, dpc, taken, cpc>>
      /\ \A q \in Requests \ {r} : rpc'[q] = rpc[q]
      /\ rpc'[r] \notin {"new"}
      /\ rpc'[r] = "admitted" => rpc[r] = "new"
  BY DEF Admit, SendCheck, SendRequest, SendFailed, Receive, TimeOut,
     TimeOutCancels, TellHost, Recheck, GiveUp, Goto, Return, callVars,
     BInv, BTypeOK
<1>2. pending' = pending \/ pending' = pending \ {r}
  BY DEF Admit, SendCheck, SendRequest, SendFailed, Receive, TimeOut,
     TimeOutCancels, TellHost, Recheck, GiveUp, Withdraw, Remove, Without
<1>3. winner' \in [Requests -> Results \cup {"none", "timeout", "refused"}]
  BY DEF Admit, SendCheck, SendRequest, SendFailed, Receive, TimeOut,
     TimeOutCancels, TellHost, Recheck, GiveUp, Withdraw, Remove, BInv, BTypeOK,
     Results, Answers
<1>4. /\ rpc' \in [Requests -> RpcStates]
      /\ outcome' \in [Requests -> Results \cup
                         {"none", "timeout", "refused", "dropped", "QueueFull"}]
  BY DEF Admit, SendCheck, SendRequest, SendFailed, Receive, TimeOut,
     TimeOutCancels, TellHost, Recheck, GiveUp, Goto, Return, BInv, BTypeOK,
     RpcStates
<1>5. outgoing' \in Seq(Frames) /\ Len(outgoing') <= QueueCapacity
  <2>1. CASE SendRequest(r)
    BY <2>1, EnqueueType DEF SendRequest, Frames, BInv, BTypeOK
  <2>2. CASE TellHost(r)
    BY <2>2, TrySendType DEF TellHost, BInv
  <2>3. CASE ~SendRequest(r) /\ ~TellHost(r)
    BY <2>3 DEF Admit, SendCheck, SendFailed, Receive, TimeOut,
       TimeOutCancels, Recheck, GiveUp, BInv, BTypeOK
  <2> QED
    BY <2>1, <2>2, <2>3
<1>6. BTypeOK'
  BY <1>1, <1>2, <1>3, <1>4, <1>5 DEF BInv, BTypeOK
<1>7. ASSUME NEW q \in Requests PROVE ReplyInv(q)'
  BY <1>1, <1>2 DEF BInv, ReplyInv, InNoHand
<1>8. ASSUME NEW q \in Requests PROVE TableInv(q)'
  <2>1. CASE q = r
    <3>1. CASE SendCheck(r)
      BY <1>1, <2>1, <3>1
      DEF SendCheck, IsOpen, Goto, BInv, BTypeOK, ConnInv, TableInv
    <3>2. CASE ~SendCheck(r)
      BY <1>1, <2>1, <3>2
      DEF Admit, SendRequest, SendFailed, Receive, TimeOut, TimeOutCancels,
          TellHost, Recheck, GiveUp, Goto, Return, Withdraw, Remove, Without,
          BInv, BTypeOK, ReplyInv, TableInv
    <3> QED
      BY <3>1, <3>2
  <2>2. CASE q # r
    BY <1>1, <1>2, <2>2 DEF BInv, TableInv
  <2> QED
    BY <2>1, <2>2
<1> QED
  BY <1>1, <1>6, <1>7, <1>8 DEF BInv, ConnInv

\* BridgeClient::cancel moves the reply from the table to its own hand.
LEMMA CancelInv ==
  ASSUME BInv, NEW r \in Requests, Cancel(r)
  PROVE  BInv'
<1>1. /\ Take("canceller", r, "cancelled")
      /\ UNCHANGED <<conn, outgoing, writer, chan, rpc, outcome, work, dpc, taken,
                     cpc>>
  BY DEF Cancel, callVars
<1>2. "canceller" \in Resolvers /\ "cancelled" \in Answers
  BY DEF Resolvers, Answers
<1>3. /\ pending' \subseteq Requests
      /\ hand' \in [Resolvers -> Works]
      /\ winner' \in [Requests -> Results \cup {"none", "timeout", "refused"}]
      /\ \A q \in Requests : ReplyInv(q)' /\ TableInv(q)'
  BY <1>1, <1>2, TakeInv
<1> QED
  BY <1>1, <1>3 DEF BInv, BTypeOK, ConnInv

\* The dispatcher preserves the invariant.
LEMMA DispatcherInv ==
  ASSUME BInv,
         \/ DispatchReady \/ ApplyAnswer
         \/ \E r \in Requests, with \in Answers : DispatchAnswer(r, with)
  PROVE  BInv'
<1>1. CASE DispatchReady
  BY <1>1
  DEF DispatchReady, BInv, BTypeOK, ConnInv, ReplyInv, TableInv, InNoHand,
      callVars
<1>2. CASE \E r \in Requests, with \in Answers : DispatchAnswer(r, with)
  <2>1. PICK r \in Requests, with \in Answers : DispatchAnswer(r, with)
    BY <1>2
  <2>2. [id |-> r, with |-> with] \in Works
    BY DEF Works
  <2>3. BTypeOK'
    BY <2>1, <2>2 DEF DispatchAnswer, BInv, BTypeOK, callVars
  <2> QED
    BY <2>1, <2>3
    DEF DispatchAnswer, BInv, ConnInv, ReplyInv, TableInv, InNoHand, callVars
<1>3. CASE ApplyAnswer
  <2>1. /\ work.id \in Requests /\ work.with \in Answers
        /\ work' = NoWork
        /\ UNCHANGED <<conn, outgoing, writer, chan, rpc, outcome, dpc, taken,
                       cpc>>
    BY <1>3 DEF ApplyAnswer, BInv, BTypeOK, Works, callVars
  <2>2. CASE Take("dispatcher", work.id, work.with)
    <3>1. "dispatcher" \in Resolvers
      BY DEF Resolvers
    <3>2. /\ pending' \subseteq Requests
          /\ hand' \in [Resolvers -> Works]
          /\ winner' \in [Requests -> Results \cup {"none", "timeout", "refused"}]
          /\ \A q \in Requests : ReplyInv(q)' /\ TableInv(q)'
      BY <2>1, <2>2, <3>1, TakeInv
    <3> QED
      BY <2>1, <3>2 DEF BInv, BTypeOK, ConnInv, Works
  <2>3. CASE UNCHANGED <<pending, winner, hand>>
    BY <2>1, <2>3
    DEF BInv, BTypeOK, ConnInv, ReplyInv, TableInv, InNoHand, Works
  <2> QED
    BY <1>3, <2>2, <2>3 DEF ApplyAnswer
<1> QED
  BY <1>1, <1>2, <1>3

\* The writer preserves the invariant.
LEMMA WriteInv ==
  ASSUME BInv, Write
  PROVE  BInv'
<1>1. /\ outgoing \in Seq(Frames) /\ outgoing # <<>>
      /\ Len(outgoing) <= QueueCapacity
  BY DEF Write, BInv, BTypeOK
<1>2. /\ Head(outgoing) \in Frames /\ Tail(outgoing) \in Seq(Frames)
      /\ Len(Tail(outgoing)) = Len(outgoing) - 1 /\ Len(outgoing) \in Nat
  BY <1>1, HeadTailProperties, LenProperties
<1>3. outgoing' \in Seq(Frames) /\ Len(outgoing') <= QueueCapacity
  BY <1>1, <1>2, BridgeAssumption DEF Write
<1>4. /\ writer' \in {"running", "failing", "stopped"}
      /\ UNCHANGED <<conn, pending, chan, rpc, outcome, work, hand, dpc, taken,
                     cpc, winner>>
  BY DEF Write, BInv, BTypeOK, callVars
<1> QED
  BY <1>3, <1>4
  DEF BInv, BTypeOK, ConnInv, ReplyInv, TableInv, InNoHand

\* disconnect() empties the table, then replies to what it has taken.
LEMMA DisconnectInv ==
  ASSUME BInv,
         ReaderFails \/ WriterFails \/ WriterStops \/ Disconnecting \/ Close
  PROVE  BInv'
<1>1. CASE ReaderFails \/ WriterFails \/ Close
  <2>1. /\ UNCHANGED <<outgoing, pending, chan, rpc, outcome, work, hand, taken,
                       winner>>
        /\ conn' = "Disconnected" /\ dpc' # "none"
        /\ dpc' \in {dpc, "take"} /\ (conn # "Disconnected" => dpc' = "take")
        /\ (conn = "Disconnected" => dpc' = dpc)
        /\ BTypeOK'
    BY <1>1 DEF ReaderFails, WriterFails, Close, StartDisconnect, callVars, BInv, BTypeOK, ConnInv
  <2> QED
    BY <2>1 DEF BInv, ConnInv, ReplyInv, TableInv, InNoHand
<1>2. CASE DisconnectTakes
  <2>1. BTypeOK'
    BY <1>2 DEF DisconnectTakes, BInv, BTypeOK, Results, callVars
  <2> QED
    BY <1>2, <2>1 DEF DisconnectTakes, BInv, ConnInv, ReplyInv, TableInv,
       InNoHand, callVars
<1>3. CASE DisconnectDone
  BY <1>3 DEF DisconnectDone, BInv, BTypeOK, ConnInv, ReplyInv, TableInv,
     InNoHand, callVars
<1>5. CASE WriterStops
  BY <1>5 DEF WriterStops, BInv, BTypeOK, ConnInv, ReplyInv, TableInv,
     InNoHand, callVars
<1>4. ASSUME NEW r \in Requests, DisconnectReplies(r) PROVE BInv'
  <2>1. BTypeOK'
    BY <1>4 DEF DisconnectReplies, BInv, BTypeOK, Results, callVars
  <2>2. ASSUME NEW q \in Requests PROVE ReplyInv(q)'
    BY <1>4 DEF DisconnectReplies, BInv, BTypeOK, ReplyInv, InNoHand, callVars
  <2> QED
    BY <1>4, <2>1, <2>2
    DEF DisconnectReplies, BInv, ConnInv, TableInv, callVars
<1> QED
  BY <1>1, <1>2, <1>3, <1>4, <1>5 DEF Disconnecting

\* close() preserves the invariant.
LEMMA CloseWriterInv ==
  ASSUME BInv, CloseWriter
  PROVE  BInv'
<1>1. outgoing' \in Seq(Frames) /\ Len(outgoing') <= QueueCapacity
  BY EnqueueType DEF CloseWriter, Frames, BInv, BTypeOK
<1> QED
  BY <1>1 DEF CloseWriter, BInv, BTypeOK, ConnInv, ReplyInv, TableInv, InNoHand,
     callVars

\* Every step preserves the invariant.
LEMMA StepBInv == BInv /\ [BNext]_bvars => BInv'
<1> SUFFICES ASSUME BInv, [BNext]_bvars PROVE BInv'
  OBVIOUS
<1>1. ASSUME NEW r \in Requests,
             Admit(r) \/ CallerStep(r) \/ TimeOut(r) \/ GiveUp(r) \/ Cancel(r)
      PROVE  BInv'
  BY <1>1, RegisterInv, CallerInv, CancelInv DEF CallerStep
<1>2. ASSUME NEW p \in Resolvers, Reply(p) PROVE BInv'
  BY <1>2, ReplyStepInv
<1>3. CASE \/ DispatchReady \/ ApplyAnswer
           \/ \E r \in Requests, with \in Answers : DispatchAnswer(r, with)
  BY <1>3, DispatcherInv
<1>4. CASE Write
  BY <1>4, WriteInv
<1>5. CASE ReaderFails \/ WriterFails \/ WriterStops \/ Disconnecting \/ Close
  BY <1>5, DisconnectInv
<1>6. CASE CloseWriter
  BY <1>6, CloseWriterInv
<1>7. CASE UNCHANGED bvars
  BY <1>7 DEF bvars, callVars, BInv, BTypeOK, ConnInv, ReplyInv,
     TableInv, InNoHand
<1> QED
  BY <1>1, <1>2, <1>3, <1>4, <1>5, <1>6, <1>7 DEF BNext

-----------------------------------------------------------------------------
\* The invariant of the bridge client: for any number of requests and any
\* queue, the one reply of a request is in one place.
THEOREM BridgeInvariance == BSpec => []BInv
  BY InitBInv, StepBInv, PTL DEF BSpec

\* No request is stranded in the table of a disconnected client:
\* begin_request against disconnect.
THEOREM NothingStranded == BSpec => []NoStrandedRequest
<1>1. BInv => NoStrandedRequest
  BY DEF BInv, BTypeOK, TableInv, NoStrandedRequest
<1> QED
  BY <1>1, BridgeInvariance, PTL

\* No request outlives its caller in the pending table: every way out of
\* BridgeRequest::wait and begin_request.
THEOREM NothingLeaked == BSpec => []NoLeakedPending
<1>1. BInv => NoLeakedPending
  BY DEF BInv, TableInv, NoLeakedPending
<1> QED
  BY <1>1, BridgeInvariance, PTL

\* A request is settled at most once, whoever races for it: resolve_pending
\* and disconnect.
THEOREM SettledOnce == BSpec => OneReply
<1>1. ASSUME BInv, [BNext]_bvars
      PROVE  [\A r \in Requests : chan[r] # "none" => chan'[r] = chan[r]]_bvars
  <2> SUFFICES ASSUME BNext, NEW r \in Requests, chan[r] # "none"
               PROVE  chan'[r] = chan[r]
    BY <1>1
  <2>1. ASSUME NEW p \in Resolvers, Reply(p) PROVE chan'[r] = chan[r]
    <3>1. hand[p].id # r
      BY <1>1 DEF BInv, ReplyInv, InNoHand
    <3> QED
      BY <1>1, <2>1, <3>1 DEF Reply, BInv, BTypeOK
  <2>2. ASSUME NEW q \in Requests, DisconnectReplies(q) PROVE chan'[r] = chan[r]
    BY <1>1, <2>2 DEF DisconnectReplies, BInv, BTypeOK, ReplyInv
  <2>3. CASE UNCHANGED chan
    BY <2>3
  <2> QED
    BY <2>1, <2>2, <2>3
    DEF BNext, CallerStep, Admit, Register, SendCheck, SendRequest, SendFailed,
        Receive, TimeOut, TimeOutCancels, TellHost, Recheck, GiveUp, Cancel,
        DispatchReady, DispatchAnswer, ApplyAnswer, Write, ReaderFails,
        WriterFails, WriterStops, Disconnecting, DisconnectTakes,
        DisconnectDone, Close, CloseWriter
<1> QED
  BY <1>1, BridgeInvariance, PTL DEF BSpec, OneReply
-----------------------------------------------------------------------------
(***************************************************************************)
(* The answer a caller gets                                                *)
(***************************************************************************)
\* Wherever the reply of r is, and whatever the caller was told, it is of the
\* event that took r out of the table.
WinnerInv(r) ==
  /\ \A p \in Resolvers : hand[p].id = r => winner[r] = hand[p].with
  /\ r \in taken => winner[r] = "disconnected"
  /\ chan[r] # "none" => winner[r] = chan[r]
  /\ outcome[r] # "none" => rpc[r] = "done"
  /\ outcome[r] \in Results => outcome[r] = winner[r]

WInv == BInv /\ \A r \in Requests : WinnerInv(r)

\* A step that removes nothing from the table, or a request that nobody has
\* replied to, disturbs no winner; the caller of a request may return meanwhile
\* with what its channel or the table says.
LEMMA CallerWinner ==
  ASSUME WInv, NEW r \in Requests,
         \/ Admit(r) \/ Register(r) \/ SendCheck(r) \/ SendRequest(r) \/ SendFailed(r)
         \/ Receive(r) \/ TimeOut(r) \/ TimeOutCancels(r) \/ TellHost(r)
         \/ Recheck(r) \/ GiveUp(r),
         NEW q \in Requests
  PROVE  WinnerInv(q)'
<1> USE DEF WInv
<1>1. hand' = hand /\ taken' = taken /\ chan' = chan
  BY DEF Admit, Register, SendCheck, SendRequest, SendFailed, Receive, TimeOut,
     TimeOutCancels, TellHost, Recheck, GiveUp
<1>2. CASE q # r
  <2>1. winner'[q] = winner[q]
    BY <1>2 DEF Admit, Register, SendCheck, SendRequest, SendFailed, Receive, TimeOut,
       TimeOutCancels, TellHost, Recheck, GiveUp, Withdraw, Remove, BInv, BTypeOK
  <2>2. rpc'[q] = rpc[q] /\ outcome'[q] = outcome[q]
    BY <1>2 DEF Admit, Register, SendCheck, SendRequest, SendFailed, Receive, TimeOut,
       TimeOutCancels, TellHost, Recheck, GiveUp, Goto, Return, BInv, BTypeOK
  <2> QED
    BY <1>1, <2>1, <2>2 DEF WinnerInv
<1>3. CASE q = r
  <2>1. rpc[r] # "done" /\ outcome[r] = "none" /\ winner[r] \in Results \cup {"none", "timeout", "refused"}
    BY DEF Admit, Register, SendCheck, SendRequest, SendFailed, Receive, TimeOut,
       TimeOutCancels, TellHost, Recheck, GiveUp, WinnerInv, BInv, BTypeOK
  <2>2. winner'[r] = winner[r] \/ r \in pending
    BY DEF Admit, Register, SendCheck, SendRequest, SendFailed, Receive, TimeOut,
       TimeOutCancels, TellHost, Recheck, GiveUp, Withdraw, Remove
  <2>3. r \in pending => InNoHand(r) /\ r \notin taken /\ chan[r] = "none"
    BY DEF BInv, ReplyInv
  <2>4. \/ outcome'[r] = "none"
        \/ rpc'[r] = "done" /\ outcome'[r] \in {"QueueFull", "refused", "dropped", "timeout"}
        \/ rpc'[r] = "done" /\ winner' = winner /\ outcome'[r] = winner[r]
        \/ rpc'[r] = "done" /\ winner' = winner /\ chan[r] # "none" /\ outcome'[r] = chan[r]
    BY <2>1 DEF Admit, Register, SendCheck, SendRequest, SendFailed, Receive, TimeOut,
       TimeOutCancels, TellHost, Recheck, GiveUp, Goto, Return, BInv, BTypeOK
  <2>5. outcome'[r] # "none" => rpc'[r] = "done"
    BY <2>4
  <2>6. outcome'[r] \in Results => outcome'[r] = winner'[r]
    BY <2>4 DEF WinnerInv, Results, Answers
  <2> QED
    BY <1>1, <1>3, <2>2, <2>3, <2>5, <2>6 DEF WinnerInv, InNoHand
<1> QED
  BY <1>2, <1>3

\* A resolver holds the reply that won.
LEMMA TakeWinner ==
  ASSUME WInv, NEW p \in Resolvers, NEW r \in Requests, NEW why \in Answers,
         Take(p, r, why), UNCHANGED <<chan, rpc, outcome, taken>>,
         NEW q \in Requests
  PROVE  WinnerInv(q)'
<1> USE DEF WInv
<1>1. /\ r \in pending /\ hand' = [hand EXCEPT ![p] = [id |-> r, with |-> why]]
      /\ winner' = [winner EXCEPT ![r] = why]
  BY DEF Take, Remove
<1>2. /\ hand'[p].id = r /\ hand'[p].with = why
      /\ \A o \in Resolvers \ {p} : hand'[o] = hand[o]
      /\ winner'[r] = why /\ (q # r => winner'[q] = winner[q])
  BY <1>1 DEF BInv, BTypeOK
<1>3. CASE q = r
  <2>1. InNoHand(r) /\ r \notin taken /\ chan[r] = "none" /\ rpc[r] # "done"
    BY <1>1 DEF BInv, ReplyInv, TableInv
  <2>2. \A o \in Resolvers : hand'[o].id = r => hand'[o].with = why
    BY <1>2, <2>1 DEF InNoHand
  <2>3. outcome[r] = "none"
    BY <2>1 DEF WinnerInv
  <2>4. outcome'[r] \notin Results
    BY <2>3 DEF Results, Answers
  <2> QED
    BY <1>2, <1>3, <2>1, <2>2, <2>3, <2>4 DEF WinnerInv
<1>4. CASE q # r
  <2>1. \A o \in Resolvers : hand'[o].id = q => hand'[o] = hand[o]
    BY <1>2, <1>4
  <2> QED
    BY <1>2, <1>4, <2>1 DEF WinnerInv
<1> QED
  BY <1>3, <1>4

\* The reply that goes into a channel is the one that won, whether a resolver
\* or disconnect() sends it.
LEMMA ReplyWinner ==
  ASSUME WInv, NEW q \in Requests,
         \/ \E p \in Resolvers : Reply(p)
         \/ \E r \in Requests : DisconnectReplies(r)
  PROVE  WinnerInv(q)'
<1> USE DEF WInv
<1>1. ASSUME NEW p \in Resolvers, Reply(p) PROVE WinnerInv(q)'
  <2>1. /\ UNCHANGED <<rpc, outcome, taken, winner>>
        /\ hand' = [hand EXCEPT ![p] = NoWork]
        /\ chan' = [chan EXCEPT ![hand[p].id] = hand[p].with]
    BY <1>1 DEF Reply, callVars
  <2>2. /\ hand'[p].id = None /\ \A o \in Resolvers \ {p} : hand'[o] = hand[o]
    BY <2>1 DEF BInv, BTypeOK, NoWork
  <2>3. chan'[q] = chan[q] \/ (hand[p].id = q /\ chan'[q] = hand[p].with)
    BY <2>1 DEF BInv, BTypeOK
  <2>4. \A o \in Resolvers : hand'[o].id = q => hand'[o] = hand[o]
    BY <2>2, BridgeAssumption
  <2> QED
    BY <2>1, <2>3, <2>4 DEF WinnerInv
<1>2. ASSUME NEW r \in Requests, DisconnectReplies(r) PROVE WinnerInv(q)'
  <2>1. /\ UNCHANGED <<rpc, outcome, hand, winner>>
        /\ r \in taken /\ taken' = taken \ {r}
        /\ chan'[q] = chan[q] \/ (q = r /\ chan'[q] = "disconnected")
    BY <1>2 DEF DisconnectReplies, callVars, BInv, BTypeOK
  <2> QED
    BY <2>1 DEF WinnerInv
<1> QED
  BY <1>1, <1>2

\* disconnect() wins what is still in the table.
LEMMA DisconnectWinner ==
  ASSUME WInv, NEW q \in Requests, DisconnectTakes
  PROVE  WinnerInv(q)'
<1> USE DEF WInv
<1>1. /\ UNCHANGED <<rpc, outcome, hand, chan>> /\ taken' = pending
      /\ winner'[q] = IF q \in pending THEN "disconnected" ELSE winner[q]
  BY DEF DisconnectTakes, callVars
<1>2. q \in pending => InNoHand(q) /\ chan[q] = "none" /\ rpc[q] # "done"
  BY DEF BInv, ReplyInv, TableInv
<1>3. q \in pending => outcome[q] = "none" /\ outcome[q] \notin Results
  BY <1>2 DEF WinnerInv, Results, Answers
<1> QED
  BY <1>1, <1>2, <1>3 DEF WinnerInv, InNoHand

\* The winners survive every step.
LEMMA StepWInv == WInv /\ [BNext]_bvars => WInv'
<1> SUFFICES ASSUME WInv, [BNext]_bvars PROVE WInv'
  OBVIOUS
<1>1. BInv'
  BY StepBInv DEF WInv
<1>2. ASSUME NEW q \in Requests PROVE WinnerInv(q)'
  <2>1. ASSUME NEW r \in Requests,
               Admit(r) \/ CallerStep(r) \/ TimeOut(r) \/ GiveUp(r)
        PROVE  WinnerInv(q)'
    BY <2>1, CallerWinner DEF CallerStep
  <2>2. ASSUME NEW r \in Requests, Cancel(r) PROVE WinnerInv(q)'
    BY <2>2, TakeWinner DEF Cancel, callVars, Resolvers, Answers
  <2>3. CASE ApplyAnswer
    <3>1. /\ work.id \in Requests /\ work.with \in Answers
          /\ UNCHANGED <<chan, rpc, outcome, taken>>
      BY <2>3 DEF ApplyAnswer, WInv, BInv, BTypeOK, Works, callVars
    <3>2. CASE Take("dispatcher", work.id, work.with)
      BY <3>1, <3>2, TakeWinner DEF Resolvers
    <3>3. CASE UNCHANGED <<winner, hand>>
      BY <3>1, <3>3 DEF WInv, WinnerInv
    <3> QED
      BY <2>3, <3>2, <3>3 DEF ApplyAnswer
  <2>4. CASE UNCHANGED <<chan, rpc, outcome, taken, hand, winner>>
    BY <2>4 DEF WInv, WinnerInv
  <2>5. CASE \/ \E r \in Requests, with \in Answers : DispatchAnswer(r, with)
             \/ DispatchReady \/ Write \/ ReaderFails \/ WriterFails \/ WriterStops
             \/ DisconnectDone \/ Close \/ CloseWriter \/ UNCHANGED bvars
    BY <2>4, <2>5 DEF DispatchAnswer, DispatchReady, Write, ReaderFails, WriterFails,
       WriterStops, DisconnectDone, Close, CloseWriter, bvars, callVars
  <2> QED
    BY <2>1, <2>2, <2>3, <2>5, ReplyWinner, DisconnectWinner DEF BNext, Disconnecting
<1> QED
  BY <1>1, <1>2 DEF WInv

\* The answer that a caller gets is the one that settled the request, whatever
\* races for it, and the tables and queues of the client keep their bounds:
\* resolve_pending, disconnect and BridgeRequest::wait.
THEOREM TheWinnerIsTold == BSpec => []BridgeInv
<1>1. BInit => WInv
  BY InitBInv, BridgeAssumption
  DEF BInit, WInv, WinnerInv, NoWork, Results, Answers, Resolvers
<1>2. WInv => BridgeInv
  BY DEF WInv, BInv, WinnerInv, AnswersAreTheWinners, BridgeInv
<1> QED
  BY <1>1, <1>2, StepWInv, PTL DEF BSpec
=============================================================================

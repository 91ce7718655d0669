------------------------- MODULE HostRequestsProofs -------------------------
(***************************************************************************)
(* Proofs about HostRequests and CompatHost, for any requests of the host, *)
(* any of which may have threads or ask back, and any capacity of the      *)
(* queue to the writer.                                                    *)
(*                                                                         *)
(* The inductive invariant follows one request through both queues: a      *)
(* frame of it is there once, and only at the stage of its handling that   *)
(* sends it.                                                               *)
(***************************************************************************)
EXTENDS HostRequests, SequenceTheorems, FiniteSetTheorems, TLAPS

\* e is in sequence s once at most.
Single(s, e) == \A i, j \in DOMAIN s : s[i] = e /\ s[j] = e => i = j

\* Operation o waits for its turn or is in progress.
InHand(o) == o = running \/ o \in Range(operations)

HostFrames == [kind : {"request", "cancel", "response"}, id : HostReqs]
RustFrames == [kind : {"answer", "ask", "cancel"}, id : HostReqs]
Stages == {"new", "sent", "handling", "waiting", "heard", "answered", "done"}

HTypes ==
  /\ inbox \in Seq(HostFrames) /\ outgoing \in Seq(RustFrames)
  /\ Len(outgoing) <= Capacity
  /\ remote \subseteq HostReqs /\ cancelledRemote \subseteq HostReqs
  /\ operations \in Seq(HostReqs) /\ running \in HostReqs \cup {Nobody}
  /\ settled \subseteq HostReqs
  /\ awaits \in remote \cup {Nobody} /\ (running = Nobody => awaits = Nobody)
  /\ answers \in [HostReqs -> Nat]
  /\ conn \in {"Ready", "Disconnected"}
  /\ dispatcher \in {Nobody} \cup (HostReqs \ Threaded)
  /\ \A r \in DOMAIN permits : permits[r] \in BOOLEAN
  /\ hpc \in [HostReqs -> Stages]
  /\ cancelling \subseteq Threaded /\ asked \subseteq HostReqs
  /\ told \in [HostReqs -> {"nothing", "answer", "QueueFull", "dropped", "panic"}]
  /\ cancelled \in [HostReqs -> Nat]

\* A permit for each thread, and no more of them than the capacity
PermitInv ==
  /\ DOMAIN permits = {r \in Threaded : hpc[r] \in Working}
  /\ IsFiniteSet(DOMAIN permits) /\ Cardinality(DOMAIN permits) <= Capacity

\* The frames of request r, and what the host knows of it
FramesInv(r) ==
  /\ Single(inbox, Frame("request", r)) /\ Single(outgoing, Frame("answer", r))
  /\ Frame("request", r) \in Range(inbox) => hpc[r] = "sent"
  /\ Frame("answer", r) \in Range(outgoing) =>
       /\ hpc[r] \in {"answered", "done"}
       /\ conn = "Ready" => r \in remote \cup cancelledRemote
  /\ conn = "Ready" /\ hpc[r] \in {"sent", "handling", "waiting", "heard"} =>
       r \in remote \cup cancelledRemote

\* What the handler of r asks the host is an operation once, answered once.
OperationInv(r) ==
  /\ Single(outgoing, Frame("ask", r)) /\ Single(operations, r)
  /\ ~(running = r /\ r \in Range(operations))
  /\ Frame("ask", r) \in Range(outgoing) \/ hpc[r] \in {"new", "sent", "handling"} =>
       answers[r] = 0 /\ ~InHand(r)
  /\ Frame("ask", r) \in Range(outgoing) => hpc[r] \notin {"new", "sent", "handling"}
  /\ answers[r] <= 1
  /\ InHand(r) /\ r \notin settled => answers[r] = 0
  /\ r \in settled => answers[r] = 1

\* The handler of r hears of a cancellation once, and only while or after it
\* handles the request.
CancelInv(r) ==
  /\ hpc[r] \in {"new", "sent"} => told[r] = "nothing"
  /\ hpc[r] \in Working => told[r] # "QueueFull"
  /\ cancelled[r] = 0 \/ (cancelled[r] = 1 /\ r \notin cancelling)
  /\ r \in cancelling \/ cancelled[r] > 0 =>
       /\ r \in Threaded /\ hpc[r] \in Working \cup {"done"} /\ told[r] # "QueueFull"
       /\ r \in DOMAIN permits => permits[r]

HIInv ==
  /\ HTypes /\ PermitInv
  /\ \A r \in HostReqs : FramesInv(r) /\ OperationInv(r) /\ CancelInv(r)

-----------------------------------------------------------------------------
(***************************************************************************)
(* Sequences and frames                                                    *)
(***************************************************************************)
\* A frame that is written joins the others, and is alone if it was not there.
LEMMA AppendFacts ==
  ASSUME NEW S, NEW s \in Seq(S), NEW e \in S
  PROVE  /\ Append(s, e) \in Seq(S) /\ Len(Append(s, e)) = Len(s) + 1 /\ Len(s) \in Nat
         /\ Range(Append(s, e)) = Range(s) \cup {e}
         /\ \A f : Single(s, f) /\ (f # e \/ f \notin Range(s)) => Single(Append(s, e), f)
<1>1. /\ Append(s, e) \in Seq(S) /\ Len(Append(s, e)) = Len(s) + 1 /\ Len(s) \in Nat
      /\ DOMAIN s = 1 .. Len(s) /\ DOMAIN Append(s, e) = 1 .. Len(s) + 1
      /\ \A i \in 1 .. Len(s) : Append(s, e)[i] = s[i]
      /\ Append(s, e)[Len(s) + 1] = e
  BY AppendProperties, LenProperties
<1>2. Range(Append(s, e)) = Range(s) \cup {e}
  BY <1>1 DEF Range
<1>3. ASSUME NEW f, Single(s, f), f # e \/ f \notin Range(s) PROVE Single(Append(s, e), f)
  BY <1>1, <1>3 DEF Single, Range
<1> QED
  BY <1>1, <1>2, <1>3

\* Of an operation that is answered
LEMMA AnswerIsCounted ==
  ASSUME NEW S, NEW f \in [S -> Nat], NEW s \in S, NEW g, g = [f EXCEPT ![s] = @ + 1]
  PROVE  g \in [S -> Nat] /\ g[s] = f[s] + 1 /\ \A u \in S : u # s => g[u] = f[u]
OBVIOUS

\* Of a frame that is written, or dropped for want of room, and of the others
LEMMA GrowFacts ==
  ASSUME NEW S, NEW s \in Seq(S), NEW e \in S, NEW s2, s2 = s \/ s2 = Append(s, e)
  PROVE  /\ s2 \in Seq(S)
         /\ \A f : f # e => /\ Single(s, f) => Single(s2, f)
                            /\ f \in Range(s2) <=> f \in Range(s)
         /\ Single(s, e) /\ e \notin Range(s) => Single(s2, e)
<1>1. CASE s2 = s
  BY <1>1
<1>2. CASE s2 = Append(s, e)
  BY <1>2, AppendFacts
<1> QED
  BY <1>1, <1>2

\* A frame that is read leaves the others behind; it was the only one of its kind.
LEMMA TailFacts ==
  ASSUME NEW S, NEW s \in Seq(S), s # <<>>
  PROVE  /\ Tail(s) \in Seq(S) /\ Head(s) \in S
         /\ Len(Tail(s)) = Len(s) - 1 /\ Len(s) \in Nat
         /\ Range(s) = Range(Tail(s)) \cup {Head(s)}
         /\ \A f : Single(s, f) => Single(Tail(s), f)
         /\ Single(s, Head(s)) => Head(s) \notin Range(Tail(s))
<1>1. /\ Tail(s) \in Seq(S) /\ Head(s) \in S /\ Head(s) = s[1]
      /\ Len(s) \in Nat /\ Len(s) # 0 /\ Len(Tail(s)) = Len(s) - 1
      /\ DOMAIN s = 1 .. Len(s) /\ DOMAIN Tail(s) = 1 .. Len(s) - 1
      /\ \A i \in 1 .. Len(s) - 1 : Tail(s)[i] = s[i + 1]
  BY HeadTailProperties, LenProperties, EmptySeq
<1>2. ASSUME NEW i \in 1 .. Len(s), i # 1 PROVE s[i] \in Range(Tail(s))
  <2>1. i - 1 \in 1 .. Len(s) - 1 /\ Tail(s)[i - 1] = s[i]
    BY <1>1, <1>2
  <2> QED
    BY <1>1, <2>1 DEF Range
<1>3. ASSUME NEW i \in 1 .. Len(s) - 1 PROVE i + 1 \in 1 .. Len(s) /\ Tail(s)[i] = s[i + 1]
  BY <1>1
<1>4. Range(s) = Range(Tail(s)) \cup {Head(s)}
  BY <1>1, <1>2, <1>3, SMTT(30) DEF Range
<1>5. ASSUME NEW f, Single(s, f) PROVE Single(Tail(s), f)
  <2> SUFFICES ASSUME NEW i \in 1 .. Len(s) - 1, NEW j \in 1 .. Len(s) - 1,
                      Tail(s)[i] = f, Tail(s)[j] = f
               PROVE  i = j
    BY <1>1 DEF Single
  <2>1. i + 1 = j + 1
    BY <1>1, <1>3, <1>5 DEF Single
  <2> QED
    BY <2>1
<1>6. ASSUME Single(s, Head(s)), Head(s) \in Range(Tail(s)) PROVE FALSE
  <2>1. PICK i \in 1 .. Len(s) - 1 : Tail(s)[i] = Head(s)
    BY <1>1, <1>6 DEF Range
  <2>2. i + 1 = 1
    BY <1>1, <1>3, <1>6, <2>1 DEF Single
  <2> QED
    BY <2>2
<1> QED
  BY <1>1, <1>4, <1>5, <1>6

\* Nothing is in the empty sequence.
LEMMA EmptyFacts ==
  /\ \A S : <<>> \in Seq(S)
  /\ Range(<<>>) = {} /\ Len(<<>>) = 0 /\ \A e : Single(<<>>, e)
BY EmptySeq DEF Range, Single

\* A frame is what it is and whose it is.
LEMMA FrameFacts ==
  /\ \A k1, k2, r1, r2 : Frame(k1, r1) = Frame(k2, r2) <=> k1 = k2 /\ r1 = r2
  /\ \A k, r : Frame(k, r).kind = k /\ Frame(k, r).id = r
  /\ \A r \in HostReqs : /\ Frame("request", r) \in HostFrames
                         /\ Frame("cancel", r) \in HostFrames
                         /\ Frame("response", r) \in HostFrames
                         /\ Frame("answer", r) \in RustFrames
                         /\ Frame("ask", r) \in RustFrames
                         /\ Frame("cancel", r) \in RustFrames
  /\ \A f \in HostFrames : f = Frame(f.kind, f.id) /\ f.id \in HostReqs
  /\ \A f \in RustFrames : f = Frame(f.kind, f.id) /\ f.id \in HostReqs
                           /\ f.kind \in {"answer", "ask", "cancel"}
BY DEF Frame, HostFrames, RustFrames

-----------------------------------------------------------------------------
(***************************************************************************)
(* One lemma for each action                                               *)
(***************************************************************************)
\* Every run starts in the invariant: nothing has been asked.
LEMMA InitHIInv == HInit => HIInv
<1> SUFFICES ASSUME HInit PROVE HIInv
  OBVIOUS
<1> USE EmptyFacts, CompatHostAssumption, HostRequestsAssumption DEF HInit, CInit
<1>1. HTypes
  BY DEF HTypes, Stages
<1>2. PermitInv
  <2>1. DOMAIN permits = {}
    OBVIOUS
  <2> QED
    BY <2>1, FS_EmptySet DEF PermitInv, Working
<1>3. ASSUME NEW r \in HostReqs PROVE FramesInv(r) /\ OperationInv(r) /\ CancelInv(r)
  BY DEF FramesInv, OperationInv, CancelInv, InHand, Working
<1> QED
  BY <1>1, <1>2, <1>3 DEF HIInv

\* The host writes a request and remembers that it waits for the answer.
LEMMA HostAsksKeeps ==
  ASSUME HIInv, NEW r \in HostReqs, HostAsks(r)
  PROVE  HIInv'
<1> USE CompatHostAssumption, HostRequestsAssumption DEF HIInv
<1>0. /\ cancelledRemote' = cancelledRemote /\ operations' = operations /\ running' = running /\ settled' = settled
      /\ answers' = answers /\ conn' = conn /\ dispatcher' = dispatcher /\ permits' = permits
      /\ cancelling' = cancelling /\ outgoing' = outgoing /\ asked' = asked /\ told' = told
      /\ cancelled' = cancelled
  BY DEF HostAsks, BeginRemote, Goto, chVars, rustVars, hostVars
<1>1. /\ hpc[r] = "new" /\ hpc'[r] = "sent"
      /\ hpc' \in [HostReqs -> Stages] /\ \A u \in HostReqs : u # r => hpc'[u] = hpc[u]
  BY DEF HostAsks, BeginRemote, Goto, HTypes, Stages
<1>2. /\ inbox' = Append(inbox, Frame("request", r)) /\ inbox' \in Seq(HostFrames)
      /\ Range(inbox') = Range(inbox) \cup {Frame("request", r)} /\ Len(inbox') = Len(inbox) + 1 /\ Len(inbox) \in Nat
      /\ \A f : Single(inbox, f) /\ (f # Frame("request", r) \/ f \notin Range(inbox)) => Single(inbox', f)
  BY <1>0, <1>1, AppendFacts, FrameFacts DEF HostAsks, BeginRemote, Goto, HTypes
<1>3. remote' = remote \cup {r} /\ (awaits' = awaits \/ (awaits' = r /\ running # Nobody))
  BY <1>0, <1>1, <1>2, FrameFacts DEF HostAsks, BeginRemote, Goto, HTypes
<1>4. HTypes'
  BY <1>0, <1>1, <1>2, <1>3, FrameFacts DEF HTypes
<1>5. PermitInv'
  BY <1>0, <1>1, <1>2, <1>3 DEF HTypes, PermitInv, Working
<1>6. ASSUME NEW u \in HostReqs PROVE FramesInv(u)'
  BY <1>0, <1>1, <1>2, <1>3, FrameFacts, EmptyFacts, SMTT(30) DEF HTypes, FramesInv
<1>7. ASSUME NEW u \in HostReqs PROVE OperationInv(u)'
  BY <1>0, <1>1, <1>2, <1>3, FrameFacts, EmptyFacts, SMTT(30) DEF HTypes, OperationInv, InHand
<1>8. ASSUME NEW u \in HostReqs PROVE CancelInv(u)'
  BY <1>0, <1>1, <1>2, <1>3, SMTT(40) DEF HTypes, CancelInv, PermitInv, Working
<1> QED
  BY <1>4, <1>5, <1>6, <1>7, <1>8

\* The host gives a request up, and remembers that the answer may still come.
LEMMA HostCancelsKeeps ==
  ASSUME HIInv, NEW r \in HostReqs, HostCancels(r)
  PROVE  HIInv'
<1> USE CompatHostAssumption, HostRequestsAssumption DEF HIInv
<1>0. /\ operations' = operations /\ running' = running /\ settled' = settled /\ answers' = answers
      /\ conn' = conn /\ dispatcher' = dispatcher /\ permits' = permits /\ hpc' = hpc
      /\ cancelling' = cancelling /\ outgoing' = outgoing /\ asked' = asked /\ told' = told
      /\ cancelled' = cancelled
  BY DEF HostCancels, CancelRemote, Released, chVars, rustVars, hostVars
<1>1. /\ inbox' = Append(inbox, Frame("cancel", r)) /\ inbox' \in Seq(HostFrames)
      /\ Range(inbox') = Range(inbox) \cup {Frame("cancel", r)} /\ Len(inbox') = Len(inbox) + 1 /\ Len(inbox) \in Nat
      /\ \A f : Single(inbox, f) /\ (f # Frame("cancel", r) \/ f \notin Range(inbox)) => Single(inbox', f)
  BY <1>0, AppendFacts, FrameFacts DEF HostCancels, CancelRemote, Released, HTypes
<1>2. /\ remote' = remote \ {r} /\ cancelledRemote' = cancelledRemote \cup {r}
      /\ awaits' = IF awaits = r THEN Nobody ELSE awaits
  BY <1>0, <1>1, FrameFacts DEF HostCancels, CancelRemote, Released, HTypes
<1>3. HTypes'
  BY <1>0, <1>1, <1>2, FrameFacts, SMTT(30) DEF HTypes
<1>4. PermitInv'
  BY <1>0 DEF PermitInv
<1>5. ASSUME NEW u \in HostReqs PROVE FramesInv(u)'
  BY <1>0, <1>1, <1>2, FrameFacts, EmptyFacts, SMTT(30) DEF HTypes, FramesInv
<1>6. ASSUME NEW u \in HostReqs PROVE OperationInv(u)'
  BY <1>0, <1>1, <1>2, FrameFacts, EmptyFacts, SMTT(30) DEF HTypes, OperationInv, InHand
<1>7. ASSUME NEW u \in HostReqs PROVE CancelInv(u)'
  BY <1>0, <1>1, <1>2, SMTT(40) DEF HTypes, CancelInv, PermitInv, Working
<1> QED
  BY <1>3, <1>4, <1>5, <1>6, <1>7

\* The next operation starts, or is passed over because it was cancelled.
LEMMA StartOperationKeeps ==
  ASSUME HIInv, NEW r \in HostReqs, r = Head(operations), HostWorks, StartOperation
  PROVE  HIInv'
<1> USE CompatHostAssumption, HostRequestsAssumption DEF HIInv
<1>0. /\ inbox' = inbox /\ remote' = remote /\ cancelledRemote' = cancelledRemote /\ awaits' = awaits
      /\ answers' = answers /\ conn' = conn /\ dispatcher' = dispatcher /\ permits' = permits
      /\ hpc' = hpc /\ cancelling' = cancelling /\ outgoing' = outgoing /\ asked' = asked
      /\ told' = told /\ cancelled' = cancelled
  BY DEF HostWorks, StartOperation, chVars, rustVars, hostVars
<1>1. operations \in Seq(HostReqs) /\ operations # <<>> /\ running = Nobody
  BY <1>0, FrameFacts DEF HostWorks, StartOperation, HTypes
<1>2. /\ operations' \in Seq(HostReqs) /\ Len(operations') <= Len(operations) /\ Len(operations') \in Nat /\ Len(operations) \in Nat
      /\ Range(operations) = Range(operations') \cup {r}
      /\ \A f : Single(operations, f) => Single(operations', f)
      /\ Single(operations, r) => r \notin Range(operations')
  BY <1>0, <1>1, TailFacts, LenProperties DEF HostWorks, StartOperation, HTypes
<1>3. \/ r \in settled /\ settled' = settled \ {r} /\ running' = running
      \/ r \notin settled /\ settled' = settled /\ running' = r
  BY <1>0, <1>1, <1>2, FrameFacts DEF HostWorks, StartOperation, HTypes
<1>4. HTypes'
  BY <1>0, <1>1, <1>2, <1>3, FrameFacts, SMTT(30) DEF HTypes
<1>5. PermitInv'
  BY <1>0 DEF PermitInv
<1>6. ASSUME NEW u \in HostReqs PROVE FramesInv(u)'
  BY <1>0, <1>1, <1>2, <1>3, FrameFacts, EmptyFacts, SMTT(30) DEF HTypes, FramesInv
<1>7. ASSUME NEW u \in HostReqs PROVE OperationInv(u)'
  BY <1>0, <1>1, <1>2, <1>3, FrameFacts, EmptyFacts, SMTT(30) DEF HTypes, OperationInv, InHand
<1>8. ASSUME NEW u \in HostReqs PROVE CancelInv(u)'
  BY <1>0, <1>1, <1>2, <1>3, SMTT(40) DEF HTypes, CancelInv, PermitInv, Working
<1> QED
  BY <1>4, <1>5, <1>6, <1>7, <1>8

\* The operation in progress ends; it is answered unless it was cancelled.
LEMMA EndOperationKeeps ==
  ASSUME HIInv, NEW r \in HostReqs, r = running, HostWorks, EndOperation
  PROVE  HIInv'
<1> USE CompatHostAssumption, HostRequestsAssumption DEF HIInv
<1>0. /\ remote' = remote /\ cancelledRemote' = cancelledRemote /\ operations' = operations /\ awaits' = awaits
      /\ conn' = conn /\ dispatcher' = dispatcher /\ permits' = permits /\ hpc' = hpc
      /\ cancelling' = cancelling /\ outgoing' = outgoing /\ asked' = asked /\ told' = told
      /\ cancelled' = cancelled
  BY DEF HostWorks, EndOperation, Answered, chVars, rustVars, hostVars
<1>1. /\ running' = Nobody /\ awaits = Nobody /\ r # Nobody /\ InHand(r)
      /\ \/ r \in settled /\ settled' = settled \ {r} /\ inbox' = inbox /\ answers' = answers
         \/ r \notin settled /\ settled' = settled /\ inbox' = Append(inbox, Frame("response", r))
            /\ answers' = [answers EXCEPT ![r] = @ + 1]
  BY <1>0, FrameFacts DEF HostWorks, EndOperation, Answered, HTypes, InHand
<1>2. /\ inbox' \in Seq(HostFrames)
      /\ \A u \in HostReqs : /\ Single(inbox, Frame("request", u)) => Single(inbox', Frame("request", u))
                             /\ Frame("request", u) \in Range(inbox') <=> Frame("request", u) \in Range(inbox)
  <2>1. inbox \in Seq(HostFrames) /\ Frame("response", r) \in HostFrames
    BY FrameFacts DEF HTypes
  <2>2. inbox' = inbox \/ inbox' = Append(inbox, Frame("response", r))
    BY <1>1
  <2>3. /\ inbox' \in Seq(HostFrames)
        /\ \A f : f # Frame("response", r) => /\ Single(inbox, f) => Single(inbox', f)
                                              /\ f \in Range(inbox') <=> f \in Range(inbox)
    BY <2>1, <2>2, GrowFacts
  <2> QED
    BY <2>3, FrameFacts
<1>3. /\ answers' \in [HostReqs -> Nat]
      /\ \A u \in HostReqs : u # r => answers'[u] = answers[u]
      /\ r \in settled => answers'[r] = answers[r]
      /\ r \notin settled => answers[r] = 0 /\ answers'[r] = 1
  BY <1>0, <1>1, <1>2, FrameFacts DEF HostWorks, EndOperation, Answered, HTypes, OperationInv
<1>4. HTypes'
  BY <1>0, <1>1, <1>2, <1>3, FrameFacts DEF HTypes
<1>5. PermitInv'
  BY <1>0 DEF PermitInv
<1>6. ASSUME NEW u \in HostReqs PROVE FramesInv(u)'
  <2>1. FramesInv(u)
    OBVIOUS
  <2>2. /\ Single(inbox, Frame("request", u)) => Single(inbox', Frame("request", u))
        /\ Frame("request", u) \in Range(inbox') <=> Frame("request", u) \in Range(inbox)
    BY <1>2
  <2>3. /\ Single(outgoing, Frame("answer", u)) => Single(outgoing', Frame("answer", u))
        /\ Frame("answer", u) \in Range(outgoing') => Frame("answer", u) \in Range(outgoing)
    BY <1>0
  <2> QED
    BY <1>0, <2>1, <2>2, <2>3 DEF FramesInv
<1>7. ASSUME NEW u \in HostReqs PROVE OperationInv(u)'
  <2>1. CASE u = r
    BY <1>0, <1>1, <1>3, <2>1 DEF OperationInv, InHand
  <2>2. CASE u # r
    BY <1>0, <1>1, <1>3, <2>2 DEF OperationInv, InHand
  <2> QED
    BY <2>1, <2>2
<1>8. ASSUME NEW u \in HostReqs PROVE CancelInv(u)'
  BY <1>0, <1>1, <1>2, <1>3, SMTT(40) DEF HTypes, CancelInv, PermitInv, Working
<1> QED
  BY <1>4, <1>5, <1>6, <1>7, <1>8

\* The host gets the answer to a request it waits for or has cancelled.
LEMMA WriteAnswerKeeps ==
  ASSUME HIInv, NEW r \in HostReqs, outgoing # <<>>, Head(outgoing) = Frame("answer", r), Write, ResolveOutgoing(r)
  PROVE  HIInv'
<1> USE CompatHostAssumption, HostRequestsAssumption DEF HIInv
<1>0. /\ inbox' = inbox /\ operations' = operations /\ running' = running /\ settled' = settled
      /\ answers' = answers /\ conn' = conn /\ dispatcher' = dispatcher /\ permits' = permits
      /\ hpc' = hpc /\ cancelling' = cancelling /\ asked' = asked /\ told' = told
      /\ cancelled' = cancelled
  BY DEF Write, ResolveOutgoing, Released, chVars, rustVars, hostVars
<1>1. outgoing \in Seq(RustFrames)
  BY <1>0, FrameFacts DEF Write, ResolveOutgoing, Released, HTypes
<1>2. /\ outgoing' \in Seq(RustFrames) /\ Len(outgoing') <= Len(outgoing) /\ Len(outgoing') \in Nat /\ Len(outgoing) \in Nat
      /\ Range(outgoing) = Range(outgoing') \cup {Frame("answer", r)}
      /\ \A f : Single(outgoing, f) => Single(outgoing', f)
      /\ Single(outgoing, Frame("answer", r)) => Frame("answer", r) \notin Range(outgoing')
  BY <1>0, <1>1, TailFacts, LenProperties DEF Write, ResolveOutgoing, Released, HTypes
<1>3. /\ remote' = remote \ {r} /\ cancelledRemote' = IF r \in remote THEN cancelledRemote
                                                       ELSE cancelledRemote \ {r}
      /\ awaits' = IF awaits = r THEN Nobody ELSE awaits
  BY <1>0, <1>1, <1>2, FrameFacts DEF Write, ResolveOutgoing, Released, HTypes
<1>4. HTypes'
  BY <1>0, <1>1, <1>2, <1>3, FrameFacts DEF HTypes
<1>5. PermitInv'
  BY <1>0 DEF PermitInv
<1>6. ASSUME NEW u \in HostReqs PROVE FramesInv(u)'
  BY <1>0, <1>1, <1>2, <1>3, FrameFacts, EmptyFacts, SMTT(30) DEF HTypes, FramesInv
<1>7. ASSUME NEW u \in HostReqs PROVE OperationInv(u)'
  BY <1>0, <1>1, <1>2, <1>3, FrameFacts, EmptyFacts, SMTT(30) DEF HTypes, OperationInv, InHand
<1>8. ASSUME NEW u \in HostReqs PROVE CancelInv(u)'
  BY <1>0, <1>1, <1>2, <1>3, SMTT(40) DEF HTypes, CancelInv, PermitInv, Working
<1> QED
  BY <1>4, <1>5, <1>6, <1>7, <1>8

\* The host gets an operation: it waits for its turn, or is refused.
LEMMA WriteAskKeeps ==
  ASSUME HIInv, NEW r \in HostReqs, outgoing # <<>>, Head(outgoing) = Frame("ask", r), Write, Receive(r)
  PROVE  HIInv'
<1> USE CompatHostAssumption, HostRequestsAssumption DEF HIInv
<1>0. /\ remote' = remote /\ cancelledRemote' = cancelledRemote /\ running' = running /\ settled' = settled
      /\ awaits' = awaits /\ conn' = conn /\ dispatcher' = dispatcher /\ permits' = permits
      /\ hpc' = hpc /\ cancelling' = cancelling /\ asked' = asked /\ told' = told
      /\ cancelled' = cancelled
  BY DEF Write, Receive, Answered, chVars, rustVars, hostVars
<1>1. outgoing \in Seq(RustFrames)
  BY <1>0, FrameFacts DEF Write, Receive, Answered, HTypes
<1>2. /\ outgoing' \in Seq(RustFrames) /\ Len(outgoing') <= Len(outgoing) /\ Len(outgoing') \in Nat /\ Len(outgoing) \in Nat
      /\ Range(outgoing) = Range(outgoing') \cup {Frame("ask", r)}
      /\ \A f : Single(outgoing, f) => Single(outgoing', f)
      /\ Single(outgoing, Frame("ask", r)) => Frame("ask", r) \notin Range(outgoing')
  BY <1>0, <1>1, TailFacts, LenProperties DEF Write, Receive, Answered, HTypes
<1>3. \/ operations' = Append(operations, r) /\ inbox' = inbox /\ answers' = answers
      \/ operations' = operations /\ inbox' = Append(inbox, Frame("response", r))
         /\ answers' = [answers EXCEPT ![r] = @ + 1]
  BY <1>0, <1>1, <1>2, FrameFacts DEF Write, Receive, Answered, HTypes
<1>4. /\ inbox' \in Seq(HostFrames)
      /\ \A u \in HostReqs : /\ Single(inbox, Frame("request", u)) => Single(inbox', Frame("request", u))
                             /\ Frame("request", u) \in Range(inbox') <=> Frame("request", u) \in Range(inbox)
  <2>1. inbox \in Seq(HostFrames) /\ Frame("response", r) \in HostFrames
    BY FrameFacts DEF HTypes
  <2>2. inbox' = inbox \/ inbox' = Append(inbox, Frame("response", r))
    BY <1>3
  <2>3. /\ inbox' \in Seq(HostFrames)
        /\ \A f : f # Frame("response", r) => /\ Single(inbox, f) => Single(inbox', f)
                                              /\ f \in Range(inbox') <=> f \in Range(inbox)
    BY <2>1, <2>2, GrowFacts
  <2> QED
    BY <2>3, FrameFacts
<1>5. answers[r] = 0 /\ ~InHand(r) /\ hpc[r] \notin {"new", "sent", "handling"}
  BY <1>0, <1>1, <1>2, <1>3, <1>4, FrameFacts DEF Write, Receive, Answered, HTypes, OperationInv
<1>6. /\ answers' \in [HostReqs -> Nat] /\ operations' \in Seq(HostReqs)
      /\ \A u \in HostReqs : Single(operations, u) => Single(operations', u)
      /\ \A u \in HostReqs : u # r => /\ answers'[u] = answers[u]
                                      /\ u \in Range(operations') <=> u \in Range(operations)
      /\ answers'[r] = 0 \/ (answers'[r] = 1 /\ operations' = operations)
  <2> USE DEF HTypes
  <2>1. CASE operations' = Append(operations, r) /\ answers' = answers
    <3>1. /\ operations' \in Seq(HostReqs) /\ Range(operations') = Range(operations) \cup {r}
          /\ \A u : Single(operations, u) /\ (u # r \/ u \notin Range(operations)) => Single(operations', u)
      BY <2>1, AppendFacts
    <3>2. r \notin Range(operations)
      BY <1>5 DEF InHand
    <3> QED
      BY <1>5, <2>1, <3>1, <3>2
  <2>2. CASE operations' = operations /\ answers' = [answers EXCEPT ![r] = @ + 1]
    <3>1. answers \in [HostReqs -> Nat]
      OBVIOUS
    <3>2. /\ answers' \in [HostReqs -> Nat] /\ answers'[r] = answers[r] + 1
          /\ \A u \in HostReqs : u # r => answers'[u] = answers[u]
      <4> HIDE DEF HTypes, HIInv
      <4> QED
        BY <2>2, <3>1, AnswerIsCounted, SMTT(40)
    <3>3. answers[r] = 0 /\ operations' = operations /\ operations \in Seq(HostReqs)
      BY <1>5, <2>2
    <3> HIDE DEF HTypes, HIInv
    <3> QED
      BY <3>2, <3>3
  <2> QED
    BY <1>3, <2>1, <2>2
<1>7. HTypes'
  BY <1>0, <1>1, <1>2, <1>4, <1>6, SMTT(40) DEF HTypes
<1>8. PermitInv'
  BY <1>0 DEF PermitInv
<1>9. ASSUME NEW u \in HostReqs PROVE FramesInv(u)'
  <2>1. FramesInv(u)
    OBVIOUS
  <2>2. /\ Single(inbox, Frame("request", u)) => Single(inbox', Frame("request", u))
        /\ Frame("request", u) \in Range(inbox') <=> Frame("request", u) \in Range(inbox)
    BY <1>4
  <2>3. /\ Single(outgoing, Frame("answer", u)) => Single(outgoing', Frame("answer", u))
        /\ Frame("answer", u) \in Range(outgoing') => Frame("answer", u) \in Range(outgoing)
    BY <1>2
  <2> QED
    BY <1>0, <2>1, <2>2, <2>3 DEF FramesInv
<1>10. ASSUME NEW u \in HostReqs PROVE OperationInv(u)'
  BY <1>0, <1>1, <1>2, <1>3, <1>4, <1>5, <1>6, FrameFacts, EmptyFacts, SMTT(30) DEF HTypes, OperationInv, InHand
<1>11. ASSUME NEW u \in HostReqs PROVE CancelInv(u)'
  BY <1>0, <1>1, <1>2, <1>3, <1>4, <1>5, <1>6, SMTT(40) DEF HTypes, CancelInv, PermitInv, Working
<1> QED
  BY <1>7, <1>8, <1>9, <1>10, <1>11

\* The host gets the cancellation of an operation, and answers it in its place.
LEMMA WriteCancelKeeps ==
  ASSUME HIInv, NEW r \in HostReqs, outgoing # <<>>, Head(outgoing) = Frame("cancel", r), Write, Cancel(r)
  PROVE  HIInv'
<1> USE CompatHostAssumption, HostRequestsAssumption DEF HIInv
<1>0. /\ remote' = remote /\ cancelledRemote' = cancelledRemote /\ operations' = operations /\ running' = running
      /\ awaits' = awaits /\ conn' = conn /\ dispatcher' = dispatcher /\ permits' = permits
      /\ hpc' = hpc /\ cancelling' = cancelling /\ asked' = asked /\ told' = told
      /\ cancelled' = cancelled
  BY DEF Write, Cancel, Answered, chVars, rustVars, hostVars
<1>1. outgoing \in Seq(RustFrames)
  BY <1>0, FrameFacts DEF Write, Cancel, Answered, HTypes
<1>2. /\ outgoing' \in Seq(RustFrames) /\ Len(outgoing') <= Len(outgoing) /\ Len(outgoing') \in Nat /\ Len(outgoing) \in Nat
      /\ Range(outgoing) = Range(outgoing') \cup {Frame("cancel", r)}
      /\ \A f : Single(outgoing, f) => Single(outgoing', f)
      /\ Single(outgoing, Frame("cancel", r)) => Frame("cancel", r) \notin Range(outgoing')
  BY <1>0, <1>1, TailFacts, LenProperties DEF Write, Cancel, Answered, HTypes
<1>3. Unsettled(r) <=> InHand(r) /\ r \notin settled
  BY <1>0, <1>1, <1>2, FrameFacts DEF Write, Cancel, Answered, HTypes, Unsettled, InHand, Range
<1>4. \/ Unsettled(r) /\ settled' = settled \cup {r} /\ inbox' = Append(inbox, Frame("response", r))
         /\ answers' = [answers EXCEPT ![r] = @ + 1]
      \/ ~Unsettled(r) /\ settled' = settled /\ inbox' = inbox /\ answers' = answers
  BY <1>0, <1>1, <1>2, <1>3, FrameFacts DEF Write, Cancel, Answered, HTypes
<1>5. /\ inbox' \in Seq(HostFrames)
      /\ \A u \in HostReqs : /\ Single(inbox, Frame("request", u)) => Single(inbox', Frame("request", u))
                             /\ Frame("request", u) \in Range(inbox') <=> Frame("request", u) \in Range(inbox)
  <2>1. inbox \in Seq(HostFrames) /\ Frame("response", r) \in HostFrames
    BY FrameFacts DEF HTypes
  <2>2. inbox' = inbox \/ inbox' = Append(inbox, Frame("response", r))
    BY <1>4
  <2>3. /\ inbox' \in Seq(HostFrames)
        /\ \A f : f # Frame("response", r) => /\ Single(inbox, f) => Single(inbox', f)
                                              /\ f \in Range(inbox') <=> f \in Range(inbox)
    BY <2>1, <2>2, GrowFacts
  <2> QED
    BY <2>3, FrameFacts
<1>6. /\ answers' \in [HostReqs -> Nat]
      /\ \A u \in HostReqs : u # r => answers'[u] = answers[u]
      /\ Unsettled(r) => answers[r] = 0 /\ answers'[r] = 1
      /\ ~Unsettled(r) => answers'[r] = answers[r]
  <2>1. CASE Unsettled(r)
    <3>1. answers[r] = 0 /\ answers \in [HostReqs -> Nat]
      BY <1>3, <2>1 DEF OperationInv, HTypes
    <3>2. answers' = [answers EXCEPT ![r] = @ + 1]
      BY <1>4, <2>1
    <3> QED
      BY <2>1, <3>1, <3>2
  <2>2. CASE ~Unsettled(r)
    BY <1>4, <2>2 DEF HTypes
  <2> QED
    BY <2>1, <2>2
<1>7. HTypes'
  BY <1>0, <1>1, <1>2, <1>3, <1>4, <1>5, <1>6, FrameFacts DEF HTypes
<1>8. PermitInv'
  BY <1>0 DEF PermitInv
<1>9. ASSUME NEW u \in HostReqs PROVE FramesInv(u)'
  <2>1. FramesInv(u)
    OBVIOUS
  <2>2. /\ Single(inbox, Frame("request", u)) => Single(inbox', Frame("request", u))
        /\ Frame("request", u) \in Range(inbox') <=> Frame("request", u) \in Range(inbox)
    BY <1>5
  <2>3. /\ Single(outgoing, Frame("answer", u)) => Single(outgoing', Frame("answer", u))
        /\ Frame("answer", u) \in Range(outgoing') => Frame("answer", u) \in Range(outgoing)
    BY <1>2
  <2> QED
    BY <1>0, <2>1, <2>2, <2>3 DEF FramesInv
<1>10. ASSUME NEW u \in HostReqs PROVE OperationInv(u)'
  BY <1>0, <1>1, <1>2, <1>3, <1>4, <1>5, <1>6, FrameFacts, EmptyFacts, SMTT(30) DEF HTypes, OperationInv, InHand
<1>11. ASSUME NEW u \in HostReqs PROVE CancelInv(u)'
  BY <1>0, <1>1, <1>2, <1>3, <1>4, <1>5, <1>6, SMTT(40) DEF HTypes, CancelInv, PermitInv, Working
<1> QED
  BY <1>7, <1>8, <1>9, <1>10, <1>11

\* After a disconnect what is in the queue is lost.
LEMMA WriteLostKeeps ==
  ASSUME HIInv, outgoing # <<>>, conn = "Disconnected", Write
  PROVE  HIInv'
<1> USE CompatHostAssumption, HostRequestsAssumption DEF HIInv
<1>0. /\ inbox' = inbox /\ remote' = remote /\ cancelledRemote' = cancelledRemote /\ operations' = operations
      /\ running' = running /\ settled' = settled /\ awaits' = awaits /\ answers' = answers
      /\ conn' = conn /\ dispatcher' = dispatcher /\ permits' = permits /\ hpc' = hpc
      /\ cancelling' = cancelling /\ asked' = asked /\ told' = told /\ cancelled' = cancelled
  BY DEF Write, ResolveOutgoing, Receive, Cancel, chVars, rustVars, hostVars
<1>1. outgoing \in Seq(RustFrames)
  BY <1>0, FrameFacts DEF Write, ResolveOutgoing, Receive, Cancel, HTypes
<1>2. /\ outgoing' \in Seq(RustFrames) /\ Len(outgoing') <= Len(outgoing) /\ Len(outgoing') \in Nat /\ Len(outgoing) \in Nat
      /\ Range(outgoing) = Range(outgoing') \cup {Head(outgoing)}
      /\ \A f : Single(outgoing, f) => Single(outgoing', f)
      /\ Single(outgoing, Head(outgoing)) => Head(outgoing) \notin Range(outgoing')
  BY <1>0, <1>1, TailFacts, LenProperties DEF Write, ResolveOutgoing, Receive, Cancel, HTypes
<1>3. HTypes'
  BY <1>0, <1>1, <1>2, FrameFacts DEF HTypes
<1>4. PermitInv'
  BY <1>0 DEF PermitInv
<1>5. ASSUME NEW u \in HostReqs PROVE FramesInv(u)'
  BY <1>0, <1>1, <1>2, FrameFacts, EmptyFacts, SMTT(30) DEF HTypes, FramesInv
<1>6. ASSUME NEW u \in HostReqs PROVE OperationInv(u)'
  BY <1>0, <1>1, <1>2, FrameFacts, EmptyFacts, SMTT(30) DEF HTypes, OperationInv, InHand
<1>7. ASSUME NEW u \in HostReqs PROVE CancelInv(u)'
  BY <1>0, <1>1, <1>2, SMTT(40) DEF HTypes, CancelInv, PermitInv, Working
<1> QED
  BY <1>3, <1>4, <1>5, <1>6, <1>7

\* The dispatcher takes a request and runs its handler.
LEMMA DispatchSerialKeeps ==
  ASSUME HIInv, NEW r \in HostReqs, r = Head(inbox).id, DispatchSerial
  PROVE  HIInv'
<1> USE CompatHostAssumption, HostRequestsAssumption DEF HIInv
<1>0. /\ remote' = remote /\ cancelledRemote' = cancelledRemote /\ operations' = operations /\ running' = running
      /\ settled' = settled /\ awaits' = awaits /\ answers' = answers /\ conn' = conn
      /\ permits' = permits /\ cancelling' = cancelling /\ outgoing' = outgoing /\ asked' = asked
      /\ told' = told /\ cancelled' = cancelled
  BY DEF DispatchSerial, Next1, OnThread, Goto, chVars, rustVars, hostVars
<1>1. /\ inbox \in Seq(HostFrames) /\ inbox # <<>> /\ Head(inbox) \in HostFrames
      /\ Head(inbox) = Frame("request", r)
  BY <1>0, FrameFacts, TailFacts DEF DispatchSerial, Next1, OnThread, Goto, HTypes
<1>2. /\ inbox' \in Seq(HostFrames) /\ Len(inbox') <= Len(inbox) /\ Len(inbox') \in Nat /\ Len(inbox) \in Nat
      /\ Range(inbox) = Range(inbox') \cup {Frame("request", r)}
      /\ \A f : Single(inbox, f) => Single(inbox', f)
      /\ Single(inbox, Frame("request", r)) => Frame("request", r) \notin Range(inbox')
  BY <1>0, <1>1, TailFacts, LenProperties DEF DispatchSerial, Next1, OnThread, Goto, HTypes
<1>3. /\ hpc[r] = "sent" /\ hpc'[r] = "handling"
      /\ hpc' \in [HostReqs -> Stages] /\ \A u \in HostReqs : u # r => hpc'[u] = hpc[u]
  BY <1>0, <1>1, <1>2, FrameFacts DEF DispatchSerial, Next1, OnThread, Goto, HTypes, FramesInv, Stages
<1>4. dispatcher' = r /\ r \notin Threaded
  BY <1>0, <1>1, <1>2, <1>3, FrameFacts DEF DispatchSerial, Next1, OnThread, Goto, HTypes
<1>5. HTypes'
  BY <1>0, <1>1, <1>2, <1>3, <1>4, FrameFacts DEF HTypes
<1>6. PermitInv'
  BY <1>0, <1>1, <1>2, <1>3, <1>4 DEF HTypes, PermitInv, Working
<1>7. ASSUME NEW u \in HostReqs PROVE FramesInv(u)'
  BY <1>0, <1>1, <1>2, <1>3, <1>4, FrameFacts, EmptyFacts, SMTT(30) DEF HTypes, FramesInv
<1>8. ASSUME NEW u \in HostReqs PROVE OperationInv(u)'
  BY <1>0, <1>1, <1>2, <1>3, <1>4, FrameFacts, EmptyFacts, SMTT(30) DEF HTypes, OperationInv, InHand
<1>9. ASSUME NEW u \in HostReqs PROVE CancelInv(u)'
  BY <1>0, <1>1, <1>2, <1>3, <1>4, SMTT(40) DEF HTypes, CancelInv, PermitInv, Working
<1> QED
  BY <1>5, <1>6, <1>7, <1>8, <1>9

\* The dispatcher starts a thread under a permit.
LEMMA DispatchThreadedKeeps ==
  ASSUME HIInv, NEW r \in HostReqs, r = Head(inbox).id, DispatchThreaded
  PROVE  HIInv'
<1> USE CompatHostAssumption, HostRequestsAssumption DEF HIInv
<1>0. /\ remote' = remote /\ cancelledRemote' = cancelledRemote /\ operations' = operations /\ running' = running
      /\ settled' = settled /\ awaits' = awaits /\ answers' = answers /\ conn' = conn
      /\ dispatcher' = dispatcher /\ cancelling' = cancelling /\ outgoing' = outgoing /\ asked' = asked
      /\ told' = told /\ cancelled' = cancelled
  BY DEF DispatchThreaded, Next1, OnThread, HasRoom, Goto, chVars, rustVars, hostVars
<1>1. /\ inbox \in Seq(HostFrames) /\ inbox # <<>> /\ Head(inbox) \in HostFrames
      /\ Head(inbox) = Frame("request", r)
  BY <1>0, FrameFacts, TailFacts DEF DispatchThreaded, Next1, OnThread, HasRoom, Goto, HTypes
<1>2. /\ inbox' \in Seq(HostFrames) /\ Len(inbox') <= Len(inbox) /\ Len(inbox') \in Nat /\ Len(inbox) \in Nat
      /\ Range(inbox) = Range(inbox') \cup {Frame("request", r)}
      /\ \A f : Single(inbox, f) => Single(inbox', f)
      /\ Single(inbox, Frame("request", r)) => Frame("request", r) \notin Range(inbox')
  BY <1>0, <1>1, TailFacts, LenProperties DEF DispatchThreaded, Next1, OnThread, HasRoom, Goto, HTypes
<1>3. /\ hpc[r] = "sent" /\ hpc'[r] = "handling"
      /\ hpc' \in [HostReqs -> Stages] /\ \A u \in HostReqs : u # r => hpc'[u] = hpc[u]
  BY <1>0, <1>1, <1>2, FrameFacts DEF DispatchThreaded, Next1, OnThread, HasRoom, Goto, HTypes, FramesInv, Stages
<1>4. /\ r \in Threaded /\ DOMAIN permits' = DOMAIN permits \cup {r} /\ permits'[r] = FALSE
      /\ \A u \in DOMAIN permits : u # r => permits'[u] = permits[u]
  BY <1>0, <1>1, <1>2, <1>3, FrameFacts DEF DispatchThreaded, Next1, OnThread, HasRoom, Goto, HTypes
<1>5. r \notin DOMAIN permits /\ Cardinality(DOMAIN permits) < Capacity
  BY <1>0, <1>1, <1>2, <1>3, <1>4, FrameFacts DEF DispatchThreaded, Next1, OnThread, HasRoom, Goto, HTypes, PermitInv, Working
<1>6. HTypes'
  BY <1>0, <1>1, <1>2, <1>3, <1>4, <1>5, FrameFacts DEF HTypes
<1>7. PermitInv'
  <2>1. /\ IsFiniteSet(DOMAIN permits') /\ Cardinality(DOMAIN permits') = Cardinality(DOMAIN permits) + 1
        /\ Cardinality(DOMAIN permits) \in Nat
    <3>1. /\ IsFiniteSet(DOMAIN permits \cup {r}) /\ Cardinality(DOMAIN permits) \in Nat
          /\ Cardinality(DOMAIN permits \cup {r}) = Cardinality(DOMAIN permits) + 1
      BY <1>5, FS_AddElement, FS_CardinalityType DEF PermitInv
    <3> QED
      BY <1>4, <3>1
  <2>2. Cardinality(DOMAIN permits') <= Capacity
    BY <1>5, <2>1
  <2>3. DOMAIN permits' = {u \in Threaded : hpc'[u] \in Working}
    BY <1>3, <1>4 DEF PermitInv, Working
  <2> QED
    BY <2>1, <2>2, <2>3 DEF PermitInv
<1>8. ASSUME NEW u \in HostReqs PROVE FramesInv(u)'
  BY <1>0, <1>1, <1>2, <1>3, <1>4, <1>5, FrameFacts, EmptyFacts, SMTT(30) DEF HTypes, FramesInv
<1>9. ASSUME NEW u \in HostReqs PROVE OperationInv(u)'
  BY <1>0, <1>1, <1>2, <1>3, <1>4, <1>5, FrameFacts, EmptyFacts, SMTT(30) DEF HTypes, OperationInv, InHand
<1>10. ASSUME NEW u \in HostReqs PROVE CancelInv(u)'
  BY <1>0, <1>1, <1>2, <1>3, <1>4, <1>5, SMTT(40) DEF HTypes, CancelInv, PermitInv, Working
<1> QED
  BY <1>6, <1>7, <1>8, <1>9, <1>10

\* A request that finds no permit is refused.
LEMMA DispatchRefusesKeeps ==
  ASSUME HIInv, NEW r \in HostReqs, r = Head(inbox).id, DispatchRefuses
  PROVE  HIInv'
<1> USE CompatHostAssumption, HostRequestsAssumption DEF HIInv
<1>0. /\ remote' = remote /\ cancelledRemote' = cancelledRemote /\ operations' = operations /\ running' = running
      /\ settled' = settled /\ awaits' = awaits /\ answers' = answers /\ conn' = conn
      /\ dispatcher' = dispatcher /\ permits' = permits /\ cancelling' = cancelling /\ asked' = asked
      /\ cancelled' = cancelled
  BY DEF DispatchRefuses, Next1, OnThread, Refuse, Respond, Goto, chVars, rustVars, hostVars
<1>1. /\ inbox \in Seq(HostFrames) /\ inbox # <<>> /\ Head(inbox) \in HostFrames
      /\ Head(inbox) = Frame("request", r)
  BY <1>0, FrameFacts, TailFacts DEF DispatchRefuses, Next1, OnThread, Refuse, Respond, Goto, HTypes
<1>2. /\ inbox' \in Seq(HostFrames) /\ Len(inbox') <= Len(inbox) /\ Len(inbox') \in Nat /\ Len(inbox) \in Nat
      /\ Range(inbox) = Range(inbox') \cup {Frame("request", r)}
      /\ \A f : Single(inbox, f) => Single(inbox', f)
      /\ Single(inbox, Frame("request", r)) => Frame("request", r) \notin Range(inbox')
  BY <1>0, <1>1, TailFacts, LenProperties DEF DispatchRefuses, Next1, OnThread, Refuse, Respond, Goto, HTypes
<1>3. /\ hpc[r] = "sent" /\ hpc'[r] = "done"
      /\ hpc' \in [HostReqs -> Stages] /\ \A u \in HostReqs : u # r => hpc'[u] = hpc[u]
  BY <1>0, <1>1, <1>2, FrameFacts DEF DispatchRefuses, Next1, OnThread, Refuse, Respond, Goto, HTypes, FramesInv, Stages
<1>4. \/ /\ conn = "Ready" /\ Len(outgoing) < Capacity
         /\ outgoing' = Append(outgoing, Frame("answer", r)) /\ told' = [told EXCEPT ![r] = "QueueFull"]
      \/ outgoing' = outgoing /\ told' = [told EXCEPT ![r] = "dropped"]
  BY <1>0, <1>1, <1>2, <1>3, FrameFacts DEF DispatchRefuses, Next1, OnThread, Refuse, Respond, Goto, HTypes
<1>5. /\ outgoing' \in Seq(RustFrames) /\ Len(outgoing') <= Capacity
      /\ \A u \in HostReqs : /\ Single(outgoing, Frame("ask", u)) => Single(outgoing', Frame("ask", u))
                             /\ Frame("ask", u) \in Range(outgoing') <=> Frame("ask", u) \in Range(outgoing)
      /\ \A u \in HostReqs : u # r =>
           /\ Single(outgoing, Frame("answer", u)) => Single(outgoing', Frame("answer", u))
           /\ Frame("answer", u) \in Range(outgoing') <=> Frame("answer", u) \in Range(outgoing)
      /\ Single(outgoing', Frame("answer", r))
  <2>1. outgoing \in Seq(RustFrames) /\ Frame("answer", r) \in RustFrames
    BY FrameFacts DEF HTypes
  <2>2. Single(outgoing, Frame("answer", r)) /\ Frame("answer", r) \notin Range(outgoing)
    BY <1>3 DEF FramesInv
  <2>3. outgoing' = outgoing \/ outgoing' = Append(outgoing, Frame("answer", r))
    BY <1>4
  <2>4. /\ outgoing' \in Seq(RustFrames)
        /\ \A f : f # Frame("answer", r) => /\ Single(outgoing, f) => Single(outgoing', f)
                                            /\ f \in Range(outgoing') <=> f \in Range(outgoing)
        /\ Single(outgoing', Frame("answer", r))
    BY <2>1, <2>2, <2>3, GrowFacts
  <2>5. Len(outgoing') <= Capacity
    <3>1. /\ Len(Append(outgoing, Frame("answer", r))) = Len(outgoing) + 1 /\ Len(outgoing) \in Nat
      BY <2>1, AppendFacts
    <3> QED
      BY <1>4, <3>1 DEF HTypes
  <2> QED
    BY <2>4, <2>5, FrameFacts
<1>6. PICK w \in {"QueueFull", "dropped"} : told' = [told EXCEPT ![r] = w]
  BY <1>0, <1>1, <1>2, <1>3, <1>4, <1>5, FrameFacts DEF DispatchRefuses, Next1, OnThread, Refuse, Respond, Goto, HTypes
<1>7. /\ told'[r] = w
      /\ told' \in [HostReqs -> {"nothing", "answer", "QueueFull", "dropped", "panic"}]
      /\ \A u \in HostReqs : u # r => told'[u] = told[u]
  BY <1>6 DEF HTypes
<1>8. r \in Threaded
  BY <1>0, <1>1, <1>2, <1>3, <1>4, <1>5, <1>6, <1>7, FrameFacts DEF DispatchRefuses, Next1, OnThread, Refuse, Respond, Goto, HTypes
<1>9. HTypes'
  BY <1>0, <1>1, <1>2, <1>3, <1>4, <1>5, <1>6, <1>7, <1>8, FrameFacts DEF HTypes
<1>10. PermitInv'
  BY <1>0, <1>1, <1>2, <1>3, <1>4, <1>5, <1>6, <1>7, <1>8 DEF HTypes, PermitInv, Working
<1>11. ASSUME NEW u \in HostReqs PROVE FramesInv(u)'
  BY <1>0, <1>1, <1>2, <1>3, <1>4, <1>5, <1>6, <1>7, <1>8, FrameFacts, EmptyFacts, SMTT(30) DEF HTypes, FramesInv
<1>12. ASSUME NEW u \in HostReqs PROVE OperationInv(u)'
  BY <1>0, <1>1, <1>2, <1>3, <1>4, <1>5, <1>6, <1>7, <1>8, FrameFacts, EmptyFacts, SMTT(30) DEF HTypes, OperationInv, InHand
<1>13. ASSUME NEW u \in HostReqs PROVE CancelInv(u)'
  BY <1>0, <1>1, <1>2, <1>3, <1>4, <1>5, <1>6, <1>7, <1>8, SMTT(40) DEF HTypes, CancelInv, PermitInv, Working
<1> QED
  BY <1>9, <1>10, <1>11, <1>12, <1>13

\* The first cancel frame of a request in progress is handed on, and the others
\* change nothing.
LEMMA CancelRequestKeeps ==
  ASSUME HIInv, NEW r \in HostReqs, CancelRequest(r),
         inbox' = inbox \/ (Next1("cancel") /\ r = Head(inbox).id),
         UNCHANGED <<conn, dispatcher, hpc, outgoing, asked, hostVars, told, cancelled>>
  PROVE  HIInv'
<1> USE CompatHostAssumption, HostRequestsAssumption DEF HIInv
<1>0. /\ remote' = remote /\ cancelledRemote' = cancelledRemote /\ operations' = operations /\ running' = running
      /\ settled' = settled /\ awaits' = awaits /\ answers' = answers /\ conn' = conn
      /\ dispatcher' = dispatcher /\ hpc' = hpc /\ outgoing' = outgoing /\ asked' = asked
      /\ told' = told /\ cancelled' = cancelled
  BY DEF chVars, rustVars, hostVars
<1>1. inbox \in Seq(HostFrames)
  BY DEF HTypes
<1>2. /\ inbox' \in Seq(HostFrames) /\ Range(inbox') \subseteq Range(inbox)
      /\ \A f : Single(inbox, f) => Single(inbox', f)
  <2>1. CASE Next1("cancel")
    BY <1>1, <2>1, TailFacts DEF Next1
  <2>2. CASE inbox' = inbox
    BY <1>1, <2>2
  <2> QED
    BY <2>1, <2>2
<1>3. \/ /\ r \in DOMAIN permits /\ ~permits[r] /\ permits' = [permits EXCEPT ![r] = TRUE]
         /\ cancelling' = cancelling \cup {r}
      \/ permits' = permits /\ cancelling' = cancelling
  BY <1>0, <1>1, <1>2, FrameFacts DEF CancelRequest, Mark, HTypes
<1>4. /\ DOMAIN permits' = DOMAIN permits /\ \A u \in DOMAIN permits : permits'[u] \in BOOLEAN
      /\ \A u \in DOMAIN permits : permits[u] => permits'[u]
      /\ r \in cancelling' => r \in cancelling \/ (r \in DOMAIN permits /\ ~permits[r] /\ permits'[r])
      /\ \A u \in HostReqs : u # r => (u \in cancelling' <=> u \in cancelling)
  <2>1. CASE /\ r \in DOMAIN permits /\ ~permits[r] /\ permits' = [permits EXCEPT ![r] = TRUE]
             /\ cancelling' = cancelling \cup {r}
    <3>1. /\ DOMAIN permits' = DOMAIN permits /\ permits'[r] = TRUE
          /\ \A u \in DOMAIN permits : u # r => permits'[u] = permits[u]
      BY <2>1
    <3>2. ASSUME NEW u \in DOMAIN permits
          PROVE  permits'[u] \in BOOLEAN /\ (permits[u] => permits'[u])
      <4>1. CASE u = r
        BY <3>1, <4>1
      <4>2. CASE u # r
        BY <3>1, <4>2 DEF HTypes
      <4> QED
        BY <4>1, <4>2
    <3>3. \A u \in HostReqs : u # r => (u \in cancelling' <=> u \in cancelling)
      BY <2>1
    <3> QED
      BY <2>1, <3>1, <3>2, <3>3, Zenon
  <2>2. CASE permits' = permits /\ cancelling' = cancelling
    BY <2>2 DEF HTypes
  <2> QED
    BY <1>3, <2>1, <2>2
<1>5. HTypes'
  <2>1. cancelling' \subseteq Threaded
    BY <1>0, <1>3 DEF HTypes, PermitInv
  <2>2. \A u \in DOMAIN permits' : permits'[u] \in BOOLEAN
    BY <1>4, Zenon
  <2> QED
    BY <1>0, <1>2, <2>1, <2>2 DEF HTypes
<1>6. PermitInv'
  BY <1>0, <1>1, <1>2, <1>3, <1>4 DEF HTypes, PermitInv, Working
<1>7. ASSUME NEW u \in HostReqs PROVE FramesInv(u)'
  BY <1>0, <1>1, <1>2, <1>3, <1>4, FrameFacts, EmptyFacts, SMTT(30) DEF HTypes, FramesInv
<1>8. ASSUME NEW u \in HostReqs PROVE OperationInv(u)'
  BY <1>0, <1>1, <1>2, <1>3, <1>4, FrameFacts, EmptyFacts, SMTT(30) DEF HTypes, OperationInv, InHand
<1>9. ASSUME NEW u \in HostReqs PROVE CancelInv(u)'
  BY <1>0, <1>1, <1>2, <1>3, <1>4, SMTT(40) DEF HTypes, CancelInv, PermitInv, Working
<1> QED
  BY <1>5, <1>6, <1>7, <1>8, <1>9

\* A cancel frame is read.
LEMMA DispatchCancelKeeps ==
  ASSUME HIInv, NEW r \in HostReqs, r = Head(inbox).id, DispatchCancel
  PROVE  HIInv'
BY CancelRequestKeeps DEF DispatchCancel, Next1

\* A cancel frame is repeated.
LEMMA DispatchRepeatedKeeps ==
  ASSUME HIInv, NEW r \in HostReqs, DispatchRepeated(r)
  PROVE  HIInv'
BY CancelRequestKeeps DEF DispatchRepeated

\* The host has answered a handler.
LEMMA DispatchResponseKeeps ==
  ASSUME HIInv, NEW r \in HostReqs, r = Head(inbox).id, DispatchResponse
  PROVE  HIInv'
<1> USE CompatHostAssumption, HostRequestsAssumption DEF HIInv
<1>0. /\ remote' = remote /\ cancelledRemote' = cancelledRemote /\ operations' = operations /\ running' = running
      /\ settled' = settled /\ awaits' = awaits /\ answers' = answers /\ conn' = conn
      /\ dispatcher' = dispatcher /\ permits' = permits /\ hpc' = hpc /\ cancelling' = cancelling
      /\ outgoing' = outgoing /\ told' = told /\ cancelled' = cancelled
  BY DEF DispatchResponse, Next1, chVars, rustVars, hostVars
<1>1. /\ inbox \in Seq(HostFrames) /\ inbox # <<>> /\ Head(inbox) \in HostFrames
      /\ Head(inbox) = Frame("response", r)
  BY <1>0, FrameFacts, TailFacts DEF DispatchResponse, Next1, HTypes
<1>2. /\ inbox' \in Seq(HostFrames) /\ Len(inbox') <= Len(inbox) /\ Len(inbox') \in Nat /\ Len(inbox) \in Nat
      /\ Range(inbox) = Range(inbox') \cup {Frame("response", r)}
      /\ \A f : Single(inbox, f) => Single(inbox', f)
      /\ Single(inbox, Frame("response", r)) => Frame("response", r) \notin Range(inbox')
  BY <1>0, <1>1, TailFacts, LenProperties DEF DispatchResponse, Next1, HTypes
<1>3. asked' \subseteq asked
  BY <1>0, <1>1, <1>2, FrameFacts DEF DispatchResponse, Next1, HTypes
<1>4. HTypes'
  BY <1>0, <1>1, <1>2, <1>3, FrameFacts DEF HTypes
<1>5. PermitInv'
  BY <1>0 DEF PermitInv
<1>6. ASSUME NEW u \in HostReqs PROVE FramesInv(u)'
  BY <1>0, <1>1, <1>2, <1>3, FrameFacts, EmptyFacts, SMTT(30) DEF HTypes, FramesInv
<1>7. ASSUME NEW u \in HostReqs PROVE OperationInv(u)'
  BY <1>0, <1>1, <1>2, <1>3, FrameFacts, EmptyFacts, SMTT(30) DEF HTypes, OperationInv, InHand
<1>8. ASSUME NEW u \in HostReqs PROVE CancelInv(u)'
  BY <1>0, <1>1, <1>2, <1>3, SMTT(40) DEF HTypes, CancelInv, PermitInv, Working
<1> QED
  BY <1>4, <1>5, <1>6, <1>7, <1>8

\* Frames that are read after a disconnect are dropped.
LEMMA DispatchDroppedKeeps ==
  ASSUME HIInv, DispatchDropped
  PROVE  HIInv'
<1> USE CompatHostAssumption, HostRequestsAssumption DEF HIInv
<1>0. /\ remote' = remote /\ cancelledRemote' = cancelledRemote /\ operations' = operations /\ running' = running
      /\ settled' = settled /\ awaits' = awaits /\ answers' = answers /\ conn' = conn
      /\ dispatcher' = dispatcher /\ permits' = permits /\ hpc' = hpc /\ cancelling' = cancelling
      /\ outgoing' = outgoing /\ asked' = asked /\ told' = told /\ cancelled' = cancelled
  BY DEF DispatchDropped, chVars, rustVars, hostVars
<1>1. inbox' = <<>>
  BY <1>0, FrameFacts DEF DispatchDropped, HTypes
<1>2. HTypes'
  BY <1>0, <1>1, EmptyFacts DEF HTypes
<1>3. PermitInv'
  BY <1>0 DEF PermitInv
<1>4. ASSUME NEW u \in HostReqs PROVE FramesInv(u)'
  BY <1>0, <1>1, FrameFacts, EmptyFacts, SMTT(30) DEF HTypes, FramesInv
<1>5. ASSUME NEW u \in HostReqs PROVE OperationInv(u)'
  BY <1>0, <1>1, FrameFacts, EmptyFacts, SMTT(30) DEF HTypes, OperationInv, InHand
<1>6. ASSUME NEW u \in HostReqs PROVE CancelInv(u)'
  BY <1>0, <1>1, SMTT(40) DEF HTypes, CancelInv, PermitInv, Working
<1> QED
  BY <1>2, <1>3, <1>4, <1>5, <1>6

\* A handler asks the host, once.
LEMMA HandlerAsksKeeps ==
  ASSUME HIInv, NEW r \in HostReqs, HandlerAsks(r)
  PROVE  HIInv'
<1> USE CompatHostAssumption, HostRequestsAssumption DEF HIInv
<1>0. /\ inbox' = inbox /\ remote' = remote /\ cancelledRemote' = cancelledRemote /\ operations' = operations
      /\ running' = running /\ settled' = settled /\ awaits' = awaits /\ answers' = answers
      /\ conn' = conn /\ dispatcher' = dispatcher /\ permits' = permits /\ cancelling' = cancelling
      /\ told' = told /\ cancelled' = cancelled
  BY DEF HandlerAsks, Goto, chVars, rustVars, hostVars
<1>1. /\ hpc[r] = "handling" /\ hpc'[r] = "waiting"
      /\ hpc' \in [HostReqs -> Stages] /\ \A u \in HostReqs : u # r => hpc'[u] = hpc[u]
  BY DEF HandlerAsks, Goto, HTypes, Stages
<1>2. /\ outgoing' = Append(outgoing, Frame("ask", r)) /\ outgoing' \in Seq(RustFrames)
      /\ Range(outgoing') = Range(outgoing) \cup {Frame("ask", r)} /\ Len(outgoing') = Len(outgoing) + 1 /\ Len(outgoing) \in Nat
      /\ \A f : Single(outgoing, f) /\ (f # Frame("ask", r) \/ f \notin Range(outgoing)) => Single(outgoing', f)
  BY <1>0, <1>1, AppendFacts, FrameFacts DEF HandlerAsks, Goto, HTypes
<1>3. asked' = asked \cup {r} /\ Len(outgoing) < Capacity
  BY <1>0, <1>1, <1>2, FrameFacts DEF HandlerAsks, Goto, HTypes
<1>4. Frame("ask", r) \notin Range(outgoing)
  BY <1>0, <1>1, <1>2, <1>3, FrameFacts DEF HandlerAsks, Goto, HTypes, OperationInv
<1>5. HTypes'
  BY <1>0, <1>1, <1>2, <1>3, <1>4, FrameFacts DEF HTypes
<1>6. PermitInv'
  BY <1>0, <1>1, <1>2, <1>3, <1>4 DEF HTypes, PermitInv, Working
<1>7. ASSUME NEW u \in HostReqs PROVE FramesInv(u)'
  BY <1>0, <1>1, <1>2, <1>3, <1>4, FrameFacts, EmptyFacts, SMTT(30) DEF HTypes, FramesInv
<1>8. ASSUME NEW u \in HostReqs PROVE OperationInv(u)'
  BY <1>0, <1>1, <1>2, <1>3, <1>4, FrameFacts, EmptyFacts, SMTT(30) DEF HTypes, OperationInv, InHand
<1>9. ASSUME NEW u \in HostReqs PROVE CancelInv(u)'
  BY <1>0, <1>1, <1>2, <1>3, <1>4, SMTT(40) DEF HTypes, CancelInv, PermitInv, Working
<1> QED
  BY <1>5, <1>6, <1>7, <1>8, <1>9

\* A handler hears the answer of the host.
LEMMA HandlerHearsKeeps ==
  ASSUME HIInv, NEW r \in HostReqs, HandlerHears(r)
  PROVE  HIInv'
<1> USE CompatHostAssumption, HostRequestsAssumption DEF HIInv
<1>0. /\ inbox' = inbox /\ remote' = remote /\ cancelledRemote' = cancelledRemote /\ operations' = operations
      /\ running' = running /\ settled' = settled /\ awaits' = awaits /\ answers' = answers
      /\ conn' = conn /\ dispatcher' = dispatcher /\ permits' = permits /\ cancelling' = cancelling
      /\ outgoing' = outgoing /\ asked' = asked /\ told' = told /\ cancelled' = cancelled
  BY DEF HandlerHears, Goto, chVars, rustVars, hostVars
<1>1. /\ hpc[r] = "waiting" /\ hpc'[r] = "heard"
      /\ hpc' \in [HostReqs -> Stages] /\ \A u \in HostReqs : u # r => hpc'[u] = hpc[u]
  BY DEF HandlerHears, Goto, HTypes, Stages
<1>2. HTypes'
  BY <1>0, <1>1, FrameFacts DEF HTypes
<1>3. PermitInv'
  BY <1>0, <1>1 DEF HTypes, PermitInv, Working
<1>4. ASSUME NEW u \in HostReqs PROVE FramesInv(u)'
  BY <1>0, <1>1, FrameFacts, EmptyFacts, SMTT(30) DEF HTypes, FramesInv
<1>5. ASSUME NEW u \in HostReqs PROVE OperationInv(u)'
  BY <1>0, <1>1, FrameFacts, EmptyFacts, SMTT(30) DEF HTypes, OperationInv, InHand
<1>6. ASSUME NEW u \in HostReqs PROVE CancelInv(u)'
  BY <1>0, <1>1, SMTT(40) DEF HTypes, CancelInv, PermitInv, Working
<1> QED
  BY <1>2, <1>3, <1>4, <1>5, <1>6

\* A handler gives its question up.
LEMMA HandlerTimesOutKeeps ==
  ASSUME HIInv, NEW r \in HostReqs, HandlerTimesOut(r)
  PROVE  HIInv'
<1> USE CompatHostAssumption, HostRequestsAssumption DEF HIInv
<1>0. /\ inbox' = inbox /\ remote' = remote /\ cancelledRemote' = cancelledRemote /\ operations' = operations
      /\ running' = running /\ settled' = settled /\ awaits' = awaits /\ answers' = answers
      /\ conn' = conn /\ dispatcher' = dispatcher /\ permits' = permits /\ cancelling' = cancelling
      /\ told' = told /\ cancelled' = cancelled
  BY DEF HandlerTimesOut, Goto, chVars, rustVars, hostVars
<1>1. /\ hpc[r] = "waiting" /\ hpc'[r] = "heard"
      /\ hpc' \in [HostReqs -> Stages] /\ \A u \in HostReqs : u # r => hpc'[u] = hpc[u]
  BY DEF HandlerTimesOut, Goto, HTypes, Stages
<1>2. /\ asked' = asked \ {r}
      /\ outgoing' = outgoing \/ (Len(outgoing) < Capacity /\ outgoing' = Append(outgoing, Frame("cancel", r)))
  BY <1>0, <1>1, FrameFacts DEF HandlerTimesOut, Goto, HTypes
<1>3. /\ outgoing' \in Seq(RustFrames) /\ Len(outgoing') <= Capacity
      /\ \A u \in HostReqs, k \in {"answer", "ask"} :
           /\ Single(outgoing, Frame(k, u)) => Single(outgoing', Frame(k, u))
           /\ Frame(k, u) \in Range(outgoing') <=> Frame(k, u) \in Range(outgoing)
  BY <1>0, <1>1, <1>2, AppendFacts, FrameFacts DEF HandlerTimesOut, Goto, HTypes
<1>4. HTypes'
  BY <1>0, <1>1, <1>2, <1>3, FrameFacts DEF HTypes
<1>5. PermitInv'
  BY <1>0, <1>1, <1>2, <1>3 DEF HTypes, PermitInv, Working
<1>6. ASSUME NEW u \in HostReqs PROVE FramesInv(u)'
  BY <1>0, <1>1, <1>2, <1>3, FrameFacts, EmptyFacts, SMTT(30) DEF HTypes, FramesInv
<1>7. ASSUME NEW u \in HostReqs PROVE OperationInv(u)'
  BY <1>0, <1>1, <1>2, <1>3, FrameFacts, EmptyFacts, SMTT(30) DEF HTypes, OperationInv, InHand
<1>8. ASSUME NEW u \in HostReqs PROVE CancelInv(u)'
  BY <1>0, <1>1, <1>2, <1>3, SMTT(40) DEF HTypes, CancelInv, PermitInv, Working
<1> QED
  BY <1>4, <1>5, <1>6, <1>7, <1>8

\* The result of a handler is sent, if there is room.
LEMMA HandlerReturnsKeeps ==
  ASSUME HIInv, NEW r \in HostReqs, HandlerReturns(r)
  PROVE  HIInv'
<1> USE CompatHostAssumption, HostRequestsAssumption DEF HIInv
<1>0. /\ inbox' = inbox /\ remote' = remote /\ cancelledRemote' = cancelledRemote /\ operations' = operations
      /\ running' = running /\ settled' = settled /\ awaits' = awaits /\ answers' = answers
      /\ conn' = conn /\ permits' = permits /\ cancelling' = cancelling /\ asked' = asked
      /\ cancelled' = cancelled
  BY DEF HandlerReturns, Respond, Goto, chVars, rustVars, hostVars
<1>1. PICK p \in {"done", "answered"} : /\ hpc' = [hpc EXCEPT ![r] = p]
                                        /\ p = "done" <=> r = dispatcher
                                        /\ dispatcher' \in {dispatcher, Nobody}
  BY <1>0, FrameFacts DEF HandlerReturns, Respond, Goto, HTypes
<1>2. /\ hpc[r] \in {"handling", "heard"} /\ hpc' \in [HostReqs -> Stages] /\ hpc'[r] = p
      /\ \A u \in HostReqs : u # r => hpc'[u] = hpc[u]
  BY <1>0, <1>1, FrameFacts DEF HandlerReturns, Respond, Goto, HTypes, Stages
<1>3. \/ /\ conn = "Ready" /\ Len(outgoing) < Capacity
         /\ outgoing' = Append(outgoing, Frame("answer", r)) /\ told' = [told EXCEPT ![r] = "answer"]
      \/ outgoing' = outgoing /\ told' = [told EXCEPT ![r] = "dropped"]
  BY <1>0, <1>1, <1>2, FrameFacts DEF HandlerReturns, Respond, Goto, HTypes
<1>4. /\ outgoing' \in Seq(RustFrames) /\ Len(outgoing') <= Capacity
      /\ \A u \in HostReqs : /\ Single(outgoing, Frame("ask", u)) => Single(outgoing', Frame("ask", u))
                             /\ Frame("ask", u) \in Range(outgoing') <=> Frame("ask", u) \in Range(outgoing)
      /\ \A u \in HostReqs : u # r =>
           /\ Single(outgoing, Frame("answer", u)) => Single(outgoing', Frame("answer", u))
           /\ Frame("answer", u) \in Range(outgoing') <=> Frame("answer", u) \in Range(outgoing)
      /\ Single(outgoing', Frame("answer", r))
  <2>1. outgoing \in Seq(RustFrames) /\ Frame("answer", r) \in RustFrames
    BY FrameFacts DEF HTypes
  <2>2. Single(outgoing, Frame("answer", r)) /\ Frame("answer", r) \notin Range(outgoing)
    BY <1>2 DEF FramesInv
  <2>3. outgoing' = outgoing \/ outgoing' = Append(outgoing, Frame("answer", r))
    BY <1>3
  <2>4. /\ outgoing' \in Seq(RustFrames)
        /\ \A f : f # Frame("answer", r) => /\ Single(outgoing, f) => Single(outgoing', f)
                                            /\ f \in Range(outgoing') <=> f \in Range(outgoing)
        /\ Single(outgoing', Frame("answer", r))
    BY <2>1, <2>2, <2>3, GrowFacts
  <2>5. Len(outgoing') <= Capacity
    <3>1. /\ Len(Append(outgoing, Frame("answer", r))) = Len(outgoing) + 1 /\ Len(outgoing) \in Nat
      BY <2>1, AppendFacts
    <3> QED
      BY <1>3, <3>1 DEF HTypes
  <2> QED
    BY <2>4, <2>5, FrameFacts
<1>5. PICK w \in {"answer", "dropped"} : told' = [told EXCEPT ![r] = w]
  BY <1>0, <1>1, <1>2, <1>3, <1>4, FrameFacts DEF HandlerReturns, Respond, Goto, HTypes
<1>6. /\ told'[r] = w
      /\ told' \in [HostReqs -> {"nothing", "answer", "QueueFull", "dropped", "panic"}]
      /\ \A u \in HostReqs : u # r => told'[u] = told[u]
  BY <1>5 DEF HTypes
<1>7. HTypes'
  BY <1>0, <1>1, <1>2, <1>3, <1>4, <1>5, <1>6, FrameFacts DEF HTypes
<1>8. PermitInv'
  BY <1>0, <1>1, <1>2, <1>3, <1>4, <1>5, <1>6 DEF HTypes, PermitInv, Working
<1>9. ASSUME NEW u \in HostReqs PROVE FramesInv(u)'
  BY <1>0, <1>1, <1>2, <1>3, <1>4, <1>5, <1>6, FrameFacts, EmptyFacts, SMTT(30) DEF HTypes, FramesInv
<1>10. ASSUME NEW u \in HostReqs PROVE OperationInv(u)'
  BY <1>0, <1>1, <1>2, <1>3, <1>4, <1>5, <1>6, FrameFacts, EmptyFacts, SMTT(30) DEF HTypes, OperationInv, InHand
<1>11. ASSUME NEW u \in HostReqs PROVE CancelInv(u)'
  BY <1>0, <1>1, <1>2, <1>3, <1>4, <1>5, <1>6, SMTT(40) DEF HTypes, CancelInv, PermitInv, Working
<1> QED
  BY <1>7, <1>8, <1>9, <1>10, <1>11

\* A thread gives its permit back.
LEMMA ThreadEndsKeeps ==
  ASSUME HIInv, NEW r \in HostReqs, ThreadEnds(r)
  PROVE  HIInv'
<1> USE CompatHostAssumption, HostRequestsAssumption DEF HIInv
<1>0. /\ inbox' = inbox /\ remote' = remote /\ cancelledRemote' = cancelledRemote /\ operations' = operations
      /\ running' = running /\ settled' = settled /\ awaits' = awaits /\ answers' = answers
      /\ conn' = conn /\ dispatcher' = dispatcher /\ cancelling' = cancelling /\ outgoing' = outgoing
      /\ asked' = asked /\ told' = told /\ cancelled' = cancelled
  BY DEF ThreadEnds, WithoutPermit, Goto, chVars, rustVars, hostVars
<1>1. /\ hpc[r] = "answered" /\ hpc'[r] = "done"
      /\ hpc' \in [HostReqs -> Stages] /\ \A u \in HostReqs : u # r => hpc'[u] = hpc[u]
  BY DEF ThreadEnds, WithoutPermit, Goto, HTypes, Stages
<1>2. DOMAIN permits' = DOMAIN permits \ {r} /\ \A u \in DOMAIN permits : u # r => permits'[u] = permits[u]
  BY <1>0, <1>1, FrameFacts DEF ThreadEnds, WithoutPermit, Goto, HTypes
<1>3. HTypes'
  BY <1>0, <1>1, <1>2, FrameFacts DEF HTypes
<1>4. PermitInv'
  <2>1. IsFiniteSet(DOMAIN permits') /\ Cardinality(DOMAIN permits') <= Cardinality(DOMAIN permits)
        /\ Cardinality(DOMAIN permits) \in Nat /\ Cardinality(DOMAIN permits') \in Nat
    BY <1>2, FS_Subset, FS_CardinalityType DEF PermitInv
  <2>2. DOMAIN permits' = {u \in Threaded : hpc'[u] \in Working}
    BY <1>1, <1>2 DEF PermitInv, Working
  <2> QED
    BY <2>1, <2>2 DEF PermitInv
<1>5. ASSUME NEW u \in HostReqs PROVE FramesInv(u)'
  BY <1>0, <1>1, <1>2, FrameFacts, EmptyFacts, SMTT(30) DEF HTypes, FramesInv
<1>6. ASSUME NEW u \in HostReqs PROVE OperationInv(u)'
  BY <1>0, <1>1, <1>2, FrameFacts, EmptyFacts, SMTT(30) DEF HTypes, OperationInv, InHand
<1>7. ASSUME NEW u \in HostReqs PROVE CancelInv(u)'
  BY <1>0, <1>1, <1>2, SMTT(40) DEF HTypes, CancelInv, PermitInv, Working
<1> QED
  BY <1>3, <1>4, <1>5, <1>6, <1>7

\* The handler is told of a cancellation, however late.
LEMMA HandlerIsToldKeeps ==
  ASSUME HIInv, NEW r \in HostReqs, HandlerIsTold(r)
  PROVE  HIInv'
<1> USE CompatHostAssumption, HostRequestsAssumption DEF HIInv
<1>0. /\ inbox' = inbox /\ remote' = remote /\ cancelledRemote' = cancelledRemote /\ operations' = operations
      /\ running' = running /\ settled' = settled /\ awaits' = awaits /\ answers' = answers
      /\ conn' = conn /\ dispatcher' = dispatcher /\ permits' = permits /\ hpc' = hpc
      /\ outgoing' = outgoing /\ asked' = asked /\ told' = told
  BY DEF HandlerIsTold, chVars, rustVars, hostVars
<1>1. /\ r \in cancelling /\ cancelling' = cancelling \ {r}
      /\ cancelled' \in [HostReqs -> Nat] /\ cancelled'[r] = cancelled[r] + 1
      /\ \A u \in HostReqs : u # r => cancelled'[u] = cancelled[u]
  BY <1>0, FrameFacts DEF HandlerIsTold, HTypes
<1>2. HTypes'
  BY <1>0, <1>1, FrameFacts DEF HTypes
<1>3. PermitInv'
  BY <1>0 DEF PermitInv
<1>4. ASSUME NEW u \in HostReqs PROVE FramesInv(u)'
  BY <1>0, <1>1, FrameFacts, EmptyFacts, SMTT(30) DEF HTypes, FramesInv
<1>5. ASSUME NEW u \in HostReqs PROVE OperationInv(u)'
  BY <1>0, <1>1, FrameFacts, EmptyFacts, SMTT(30) DEF HTypes, OperationInv, InHand
<1>6. ASSUME NEW u \in HostReqs PROVE CancelInv(u)'
  BY <1>0, <1>1, SMTT(40) DEF HTypes, CancelInv, PermitInv, Working
<1> QED
  BY <1>2, <1>3, <1>4, <1>5, <1>6

\* The connection is lost, and the host with it.
LEMMA DisconnectKeeps ==
  ASSUME HIInv, Disconnect
  PROVE  HIInv'
<1> USE CompatHostAssumption, HostRequestsAssumption DEF HIInv
<1>0. /\ inbox' = inbox /\ answers' = answers /\ dispatcher' = dispatcher /\ permits' = permits
      /\ hpc' = hpc /\ cancelling' = cancelling /\ outgoing' = outgoing /\ told' = told
      /\ cancelled' = cancelled
  BY DEF Disconnect, GiveUp, chVars, rustVars, hostVars
<1>1. /\ conn' = "Disconnected" /\ asked' = {} /\ remote' = {} /\ cancelledRemote' = {}
      /\ operations' = <<>> /\ running' = Nobody /\ settled' = {} /\ awaits' = Nobody
  BY <1>0, FrameFacts DEF Disconnect, GiveUp, HTypes
<1>2. HTypes'
  BY <1>0, <1>1, EmptyFacts DEF HTypes
<1>3. PermitInv'
  BY <1>0 DEF PermitInv
<1>4. ASSUME NEW u \in HostReqs PROVE FramesInv(u)'
  BY <1>0, <1>1, FrameFacts, EmptyFacts, SMTT(30) DEF HTypes, FramesInv
<1>5. ASSUME NEW u \in HostReqs PROVE OperationInv(u)'
  BY <1>0, <1>1, FrameFacts, EmptyFacts, SMTT(30) DEF HTypes, OperationInv, InHand
<1>6. ASSUME NEW u \in HostReqs PROVE CancelInv(u)'
  BY <1>0, <1>1, SMTT(40) DEF HTypes, CancelInv, PermitInv, Working
<1> QED
  BY <1>2, <1>3, <1>4, <1>5, <1>6

\* A handler panics: its thread ends without an answer, and with the dispatcher the connection.
LEMMA HandlerPanicsKeeps ==
  ASSUME HIInv, NEW r \in HostReqs, HandlerPanics(r)
  PROVE  HIInv'
<1> USE CompatHostAssumption, HostRequestsAssumption DEF HIInv
<1>0. /\ inbox' = inbox /\ answers' = answers /\ dispatcher' = dispatcher /\ permits' = permits
      /\ cancelling' = cancelling /\ outgoing' = outgoing /\ cancelled' = cancelled
  BY DEF HandlerPanics, GiveUp, Goto, chVars, rustVars, hostVars
<1>1. PICK p \in {"done", "answered"} : hpc' = [hpc EXCEPT ![r] = p] /\ (p = "done" <=> r = dispatcher)
  BY <1>0, FrameFacts DEF HandlerPanics, GiveUp, Goto, HTypes
<1>2. /\ hpc[r] \in {"handling", "heard"} /\ hpc' \in [HostReqs -> Stages] /\ hpc'[r] = p
      /\ \A u \in HostReqs : u # r => hpc'[u] = hpc[u]
  BY <1>0, <1>1, FrameFacts DEF HandlerPanics, GiveUp, Goto, HTypes, Stages
<1>3. /\ told'[r] = "panic"
      /\ told' \in [HostReqs -> {"nothing", "answer", "QueueFull", "dropped", "panic"}]
      /\ \A u \in HostReqs : u # r => told'[u] = told[u]
  BY <1>0, <1>1, <1>2, FrameFacts DEF HandlerPanics, GiveUp, Goto, HTypes
<1>4. \/ /\ conn' = "Disconnected" /\ asked' = {} /\ remote' = {} /\ cancelledRemote' = {}
         /\ operations' = <<>> /\ running' = Nobody /\ settled' = {} /\ awaits' = Nobody
      \/ /\ conn' = conn /\ asked' = asked /\ remote' = remote /\ cancelledRemote' = cancelledRemote
         /\ operations' = operations /\ running' = running /\ settled' = settled /\ awaits' = awaits
  BY <1>0, <1>1, <1>2, <1>3, FrameFacts DEF HandlerPanics, GiveUp, Goto, HTypes, hostVars
<1>5. HTypes'
  <2>1. /\ remote' \subseteq HostReqs /\ cancelledRemote' \subseteq HostReqs
        /\ operations' \in Seq(HostReqs) /\ running' \in HostReqs \cup {Nobody}
        /\ settled' \subseteq HostReqs /\ asked' \subseteq HostReqs
        /\ conn' \in {"Ready", "Disconnected"}
    <3>1. CASE /\ conn' = "Disconnected" /\ asked' = {} /\ remote' = {} /\ cancelledRemote' = {}
               /\ operations' = <<>> /\ running' = Nobody /\ settled' = {} /\ awaits' = Nobody
      BY <3>1, EmptyFacts
    <3>2. CASE /\ conn' = conn /\ asked' = asked /\ remote' = remote
               /\ cancelledRemote' = cancelledRemote /\ operations' = operations
               /\ running' = running /\ settled' = settled /\ awaits' = awaits
      BY <3>2 DEF HTypes
    <3> QED
      BY <1>4, <3>1, <3>2, Zenon
  <2>2. awaits' \in remote' \cup {Nobody} /\ (running' = Nobody => awaits' = Nobody)
    BY <1>4 DEF HTypes
  <2> QED
    BY <1>0, <1>2, <1>3, <2>1, <2>2 DEF HTypes
<1>6. PermitInv'
  BY <1>0, <1>1, <1>2, <1>3, <1>4 DEF HTypes, PermitInv, Working
<1>7. ASSUME NEW u \in HostReqs PROVE FramesInv(u)'
  BY <1>0, <1>1, <1>2, <1>3, <1>4, FrameFacts, EmptyFacts, SMTT(40) DEF HTypes, FramesInv
<1>8. ASSUME NEW u \in HostReqs PROVE OperationInv(u)'
  BY <1>0, <1>1, <1>2, <1>3, <1>4, FrameFacts, EmptyFacts, SMTT(30) DEF HTypes, OperationInv, InHand
<1>9. ASSUME NEW u \in HostReqs PROVE CancelInv(u)'
  BY <1>0, <1>1, <1>2, <1>3, <1>4, SMTT(40) DEF HTypes, CancelInv, PermitInv, Working
<1> QED
  BY <1>5, <1>6, <1>7, <1>8, <1>9

-----------------------------------------------------------------------------
(***************************************************************************)
(* The theorems                                                            *)
(***************************************************************************)
\* The host handles the frame that the writer has written, whatever it is.
LEMMA WriteKeeps ==
  ASSUME HIInv, Write
  PROVE  HIInv'
<1>1. outgoing \in Seq(RustFrames) /\ outgoing # <<>>
  BY DEF HIInv, HTypes, Write
<1>2. PICK r \in HostReqs, k \in {"answer", "ask", "cancel"} : Head(outgoing) = Frame(k, r)
  BY <1>1, TailFacts, FrameFacts
<1>3. Head(outgoing).kind = k /\ Head(outgoing).id = r
  BY <1>2, FrameFacts
<1>4. CASE conn = "Ready" /\ k = "answer" /\ ResolveOutgoing(r)
  BY <1>1, <1>2, <1>4, WriteAnswerKeeps
<1>5. CASE conn = "Ready" /\ k = "ask" /\ Receive(r)
  BY <1>1, <1>2, <1>5, WriteAskKeeps
<1>6. CASE conn = "Ready" /\ k = "cancel" /\ Cancel(r)
  BY <1>1, <1>2, <1>6, WriteCancelKeeps
<1>7. CASE conn = "Disconnected"
  BY <1>1, <1>7, WriteLostKeeps
<1> QED
  BY <1>3, <1>4, <1>5, <1>6, <1>7 DEF Write

\* The dispatcher handles the frame that it has read, whatever it is.
LEMMA DispatchKeeps ==
  ASSUME HIInv, Dispatch
  PROVE  HIInv'
<1>1. inbox \in Seq(HostFrames) /\ inbox # <<>>
  BY DEF HIInv, HTypes, Dispatch, DispatchSerial, DispatchThreaded, DispatchRefuses,
         DispatchCancel, DispatchResponse, DispatchDropped, Next1
<1>2. PICK r \in HostReqs : r = Head(inbox).id
  BY <1>1, TailFacts, FrameFacts
<1> QED
  BY <1>2, DispatchSerialKeeps, DispatchThreadedKeeps, DispatchRefusesKeeps,
     DispatchCancelKeeps, DispatchResponseKeeps, DispatchDroppedKeeps DEF Dispatch

\* The host goes on with its operations.
LEMMA HostWorksKeeps ==
  ASSUME HIInv, HostWorks
  PROVE  HIInv'
<1>1. CASE StartOperation
  <2>1. operations \in Seq(HostReqs) /\ operations # <<>>
    BY <1>1 DEF HIInv, HTypes, StartOperation
  <2>2. PICK r \in HostReqs : r = Head(operations)
    BY <2>1, TailFacts
  <2> QED
    BY <1>1, <2>2, StartOperationKeeps
<1>2. CASE EndOperation
  <2>1. PICK r \in HostReqs : r = running
    BY <1>2 DEF HIInv, HTypes, EndOperation
  <2> QED
    BY <1>2, <2>1, EndOperationKeeps
<1> QED
  BY <1>1, <1>2 DEF HostWorks

\* No step of either end breaks the invariant.
LEMMA StepHIInv == HIInv /\ [HNext]_qvars => HIInv'
<1> SUFFICES ASSUME HIInv, [HNext]_qvars PROVE HIInv'
  OBVIOUS
<1>1. ASSUME NEW r \in HostReqs,
             \/ HostAsks(r) \/ HostCancels(r)
             \/ HandlerAsks(r) \/ HandlerTimesOut(r) \/ HandlerStep(r)
             \/ HandlerIsTold(r) \/ DispatchRepeated(r)
      PROVE  HIInv'
  BY <1>1, HostAsksKeeps, HostCancelsKeeps, HandlerAsksKeeps, HandlerTimesOutKeeps,
     HandlerHearsKeeps, HandlerReturnsKeeps, HandlerPanicsKeeps, ThreadEndsKeeps,
     HandlerIsToldKeeps, DispatchRepeatedKeeps DEF HandlerStep
<1>2. CASE HostWorks \/ Write \/ Dispatch \/ Disconnect
  BY <1>2, HostWorksKeeps, WriteKeeps, DispatchKeeps, DisconnectKeeps
<1>3. CASE UNCHANGED qvars
  <2>1. /\ inbox' = inbox /\ remote' = remote /\ cancelledRemote' = cancelledRemote
        /\ operations' = operations /\ running' = running /\ settled' = settled
        /\ awaits' = awaits /\ answers' = answers
    BY <1>3 DEF qvars, chVars
  <2>2. /\ conn' = conn /\ dispatcher' = dispatcher /\ permits' = permits
        /\ cancelling' = cancelling /\ outgoing' = outgoing /\ asked' = asked
        /\ told' = told /\ cancelled' = cancelled /\ hpc' = hpc
    BY <1>3 DEF qvars, rustVars
  <2>3. HTypes' /\ PermitInv'
    BY <2>1, <2>2 DEF HIInv, HTypes, PermitInv
  <2>4. ASSUME NEW r \in HostReqs PROVE FramesInv(r)' /\ OperationInv(r)' /\ CancelInv(r)'
    BY <2>1, <2>2 DEF HIInv, FramesInv, OperationInv, InHand, CancelInv
  <2> QED
    BY <2>3, <2>4 DEF HIInv
<1> QED
  BY <1>1, <1>2, <1>3 DEF HNext

\* The invariant that follows a request through both queues is inductive,
\* whatever races at the two ends of the bridge.
THEOREM HostInvariance == HFairSpec => []HIInv
<1>1. HInit => HIInv
  BY InitHIInv
<1>2. HIInv /\ [HNext]_qvars => HIInv'
  BY StepHIInv
<1> QED
  BY <1>1, <1>2, PTL DEF HFairSpec

\* An operation is in one place of the host, and everything has its type.
LEMMA TypesFollow == HIInv => HTypeOK
<1> SUFFICES ASSUME HIInv PROVE HTypeOK
  OBVIOUS
<1>1. ASSUME NEW i \in DOMAIN operations, NEW j \in DOMAIN operations
      PROVE  operations[i] # running /\ (i # j => operations[i] # operations[j])
  <2>1. operations[i] \in HostReqs /\ operations[i] \in Range(operations)
    BY ElementOfSeq, LenProperties DEF HIInv, HTypes, Range
  <2>2. OperationInv(operations[i])
    BY <2>1 DEF HIInv
  <2> QED
    BY <2>1, <2>2 DEF OperationInv, Single
<1>2. CTypeOK
  BY <1>1 DEF HIInv, HTypes, HostFrames, CTypeOK
<1>3. DOMAIN permits \subseteq Threaded
  BY DEF HIInv, PermitInv
<1> QED
  BY <1>2, <1>3 DEF HIInv, HTypes, HTypeOK, RustFrames, Stages

\* The invariant implies that a handler hears of a cancellation once, that an
\* operation has one answer, and that the host expects what is on its way.
LEMMA EndsAgree == HIInv => ThreadsAreBounded /\ CancelledOnce /\ OneAnswer /\ AnswersAreExpected
<1> SUFFICES ASSUME HIInv
             PROVE  ThreadsAreBounded /\ CancelledOnce /\ OneAnswer /\ AnswersAreExpected
  OBVIOUS
<1>1. ThreadsAreBounded
  BY DEF HIInv, PermitInv, ThreadsAreBounded
<1>2. CancelledOnce
  <2> SUFFICES ASSUME NEW r \in HostReqs
               PROVE  /\ cancelled[r] + (IF r \in cancelling THEN 1 ELSE 0) <= 1
                      /\ r \in cancelling \/ cancelled[r] > 0 =>
                           r \in Threaded /\ hpc[r] \in Working \cup {"done"} /\ told[r] # "QueueFull"
    BY DEF CancelledOnce
  <2>1. CancelInv(r) /\ cancelled[r] \in Nat
    BY DEF HIInv, HTypes
  <2> QED
    BY <2>1 DEF CancelInv
<1>3. OneAnswer
  <2> SUFFICES ASSUME NEW o \in HostReqs
               PROVE  /\ answers[o] <= 1
                      /\ Unsettled(o) => answers[o] = 0
                      /\ o \in settled => answers[o] = 1
    BY DEF OneAnswer
  <2>1. OperationInv(o)
    BY DEF HIInv
  <2>2. Unsettled(o) => InHand(o) /\ o \notin settled
    BY DEF Unsettled, InHand, Range
  <2> QED
    BY <2>1, <2>2 DEF OperationInv
<1>4. AnswersAreExpected
  <2> SUFFICES ASSUME conn = "Ready", NEW i \in DOMAIN outgoing, outgoing[i].kind = "answer"
               PROVE  outgoing[i].id \in remote \cup cancelledRemote
    BY DEF AnswersAreExpected
  <2>1. outgoing[i] \in RustFrames /\ outgoing[i] \in Range(outgoing)
    BY ElementOfSeq, LenProperties DEF HIInv, HTypes, Range
  <2>2. outgoing[i] = Frame("answer", outgoing[i].id) /\ outgoing[i].id \in HostReqs
    BY <2>1, FrameFacts
  <2>3. FramesInv(outgoing[i].id)
    BY <2>2 DEF HIInv
  <2>4. Frame("answer", outgoing[i].id) \in Range(outgoing)
    BY <2>1, <2>2
  <2> QED
    BY <2>3, <2>4 DEF FramesInv
<1> QED
  BY <1>1, <1>2, <1>3, <1>4

\* Permits, threads and cancellations of the host's requests are accounted
\* for, and each end answers the other once, for any number of requests and
\* any capacity of the queue.
THEOREM EndsAnswerOnce == HFairSpec => []HostInv
<1>1. HIInv => HostInv
  BY TypesFollow, EndsAgree DEF HostInv
<1> QED
  BY <1>1, HostInvariance, PTL
=============================================================================

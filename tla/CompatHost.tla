----------------------------- MODULE CompatHost -----------------------------
(***************************************************************************)
(* The correlation of requests in the Node compat host: receive, dispatch, *)
(* cancel, resolveOutgoing, beginRemote and cancelRemote of CompatHost in  *)
(* node/compat-host/src/host.ts.                                           *)
(*                                                                         *)
(* Operations that Rust asks for run one after another, in the promise     *)
(* chain `sequence'; answers and cancel frames are handled as they come.   *)
(* Plugin code, in an operation or by itself, asks Rust for something and  *)
(* has no timeout.  The host is ready and stays up; how it starts and ends *)
(* is part of module NodeSupervisor.                                       *)
(*                                                                         *)
(* The steps of this module are composed with those of the Rust end in     *)
(* module HostRequests.                                                    *)
(***************************************************************************)
EXTENDS Naturals, Sequences, FiniteSets

CONSTANTS
  HostReqs,  \* the requests of the host; what the handler of one asks of
             \* the host is an operation with the same name
  MaxInbox,  \* bound on the frames the host writes ahead
  Nobody     \* no request

ASSUME CompatHostAssumption ==
  Nobody \notin HostReqs /\ MaxInbox \in Nat \ {0}

VARIABLES
  inbox,           \* the frames the host has written and Rust has not handled
  remote,          \* CompatHost.outgoing
  cancelledRemote, \* CompatHost.cancelledOutgoing
  operations,      \* the operations in `sequence' that have not been started
  running,         \* the operation in progress
  settled,         \* operations answered before they have ended
  awaits,          \* the request the operation in progress waits for
  answers          \* history: how often each operation was answered

chVars == <<inbox, remote, cancelledRemote, operations, running, settled,
            awaits, answers>>

CInit ==
  /\ inbox = <<>> /\ remote = {} /\ cancelledRemote = {}
  /\ operations = <<>> /\ running = Nobody /\ settled = {} /\ awaits = Nobody
  /\ answers = [o \in HostReqs |-> 0]

Frame(k, r) == [kind |-> k, id |-> r]

-----------------------------------------------------------------------------
(***************************************************************************)
(* Requests of the host                                                    *)
(***************************************************************************)
\* The operation in progress may wait for the request; other code of plugins
\* does not keep `sequence' waiting.
BeginRemote(r) ==
  /\ Len(inbox) < MaxInbox
  /\ inbox' = Append(inbox, Frame("request", r))
  /\ remote' = remote \cup {r}
  /\ \/ UNCHANGED awaits
     \/ running # Nobody /\ awaits = Nobody /\ awaits' = r
  /\ UNCHANGED <<cancelledRemote, operations, running, settled, answers>>

Released(r) == IF awaits = r THEN Nobody ELSE awaits

\* The answer is remembered as one that may still come.
CancelRemote(r) ==
  /\ r \in remote /\ Len(inbox) < MaxInbox
  /\ inbox' = Append(inbox, Frame("cancel", r))
  /\ remote' = remote \ {r}
  /\ cancelledRemote' = cancelledRemote \cup {r}
  /\ awaits' = Released(r)
  /\ UNCHANGED <<operations, running, settled, answers>>

\* An answer to a request that is neither outgoing nor cancelled would be
\* fatal; AnswersAreExpected of module HostRequests excludes it.
ResolveOutgoing(r) ==
  /\ r \in remote \cup cancelledRemote
  /\ remote' = remote \ {r}
  /\ cancelledRemote' = IF r \in remote THEN cancelledRemote
                                        ELSE cancelledRemote \ {r}
  /\ awaits' = Released(r)
  /\ UNCHANGED <<inbox, operations, running, settled, answers>>

-----------------------------------------------------------------------------
(***************************************************************************)
(* Operations                                                              *)
(***************************************************************************)
Answered(o) ==
  /\ inbox' = Append(inbox, Frame("response", o))
  /\ answers' = [answers EXCEPT ![o] = @ + 1]

\* An operation is refused if there are 64 already; those of other callers of
\* Rust are not counted here.
Receive(o) ==
  /\ \/ operations' = Append(operations, o) /\ UNCHANGED <<inbox, answers>>
     \/ Answered(o) /\ UNCHANGED operations
  /\ UNCHANGED <<remote, cancelledRemote, running, settled, awaits>>

Unsettled(o) ==
  /\ o = running \/ \E i \in DOMAIN operations : operations[i] = o
  /\ o \notin settled

\* An operation is cancelled in its place: it is answered now, and if it is in
\* progress it goes on.
Cancel(o) ==
  /\ IF Unsettled(o)
     THEN Answered(o) /\ settled' = settled \cup {o}
     ELSE UNCHANGED <<inbox, answers, settled>>
  /\ UNCHANGED <<remote, cancelledRemote, operations, running, awaits>>

\* The next operation of `sequence'; one that was cancelled in the queue is
\* passed over.
StartOperation ==
  /\ running = Nobody /\ operations # <<>>
  /\ operations' = Tail(operations)
  /\ IF Head(operations) \in settled
     THEN settled' = settled \ {Head(operations)} /\ UNCHANGED running
     ELSE running' = Head(operations) /\ UNCHANGED settled
  /\ UNCHANGED <<inbox, remote, cancelledRemote, awaits, answers>>

\* The operation returns or throws.
EndOperation ==
  /\ running # Nobody /\ awaits = Nobody
  /\ running' = Nobody
  /\ IF running \in settled
     THEN settled' = settled \ {running} /\ UNCHANGED <<inbox, answers>>
     ELSE Answered(running) /\ UNCHANGED settled
  /\ UNCHANGED <<remote, cancelledRemote, operations, awaits>>

-----------------------------------------------------------------------------
\* Every variable has the type of the field it models, and an operation is in
\* one place.
CTypeOK ==
  /\ inbox \in Seq([kind : {"request", "cancel", "response"}, id : HostReqs])
  /\ remote \subseteq HostReqs /\ cancelledRemote \subseteq HostReqs
  /\ operations \in Seq(HostReqs) /\ running \in HostReqs \cup {Nobody}
  /\ settled \subseteq HostReqs
  /\ awaits \in remote \cup {Nobody} /\ (running = Nobody => awaits = Nobody)
  /\ \A i, j \in DOMAIN operations :
       operations[i] # running /\ (i # j => operations[i] # operations[j])

\* However a cancellation, the end of an operation and a full queue race, Rust
\* gets one answer to an operation, and none to one it has not asked for.
OneAnswer ==
  \A o \in HostReqs :
    /\ answers[o] <= 1
    /\ Unsettled(o) => answers[o] = 0
    /\ o \in settled => answers[o] = 1
=============================================================================

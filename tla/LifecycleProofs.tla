-------------------------- MODULE LifecycleProofs --------------------------
(***************************************************************************)
(* Proofs about ScopeLifecycle and about FiberLifecycle, which extends it, *)
(* for every forest of scopes and fibers, every set of effects and any     *)
(* number of clients.                                                      *)
(***************************************************************************)
EXTENDS FiberLifecycle, SequenceTheorems, TLAPS

(***************************************************************************)
(* Theorems about ScopeLifecycle, for every forest of scopes, every set of *)
(* effects and every number of clients.                                    *)
(*                                                                         *)
(* CleanedWhenDisposed is not inductive: it speaks of a scope only once it *)
(* is Disposed.  IInv says what holds of a scope's effects while its       *)
(* cleanup is under way: the effects still to run are the first ones that  *)
(* were registered, the ones that have run are the last ones, in reverse,  *)
(* and the effect whose disposer runs is the last of those.                *)
(***************************************************************************)
InCall(p) == pc[p] \in {"inherit", "poll", "asleep"}

InDisposer(p) ==
  pc[p] \in {"disposer", "settle"} \/ (InCall(p) /\ cont[p] = "settle")

\* The phases of a scope and of its cleanup task agree.
PhaseInv(s) ==
  /\ state[s] # "Failed"
  /\ state[s] \in {"Absent", "Active"} => pc[s] = "idle"
  /\ state[s] = "Unloading" =>
       pc[s] \in {"clean", "disposer", "settle", "inherit", "poll", "asleep"}
  /\ state[s] = "Disposed" =>
       pc[s] \in {"publish", "notify", "done"} /\ effs[s] = <<>>

\* Where the registered effects of a scope are.
EffectInv(s) ==
  /\ state[s] \in {"Absent", "Active"} => effects[s] = reg[s] /\ ran[s] = <<>>
  /\ state[s] \in {"Unloading", "Disposed"} =>
       /\ Len(effs[s]) + Len(ran[s]) = Len(reg[s])
       /\ \A i \in 1 .. Len(effs[s]) : effs[s][i] = reg[s][i]
       /\ \A i \in 1 .. Len(ran[s]) : ran[s][i] = reg[s][Len(reg[s]) + 1 - i]

\* The effect whose disposer runs.
CurInv(s) ==
  /\ InDisposer(s) => ran[s] # <<>> /\ cur[s] = Last(ran[s])
  /\ ~InDisposer(s) => cur[s] = None
  /\ pc[s] = "disposer" => target[cur[s]] \in Scopes

\* A client only waits, and a process that waits waits for a scope.
ClientInv(c) ==
  /\ pc[c] \in {"idle", "inherit", "poll", "asleep"}
  /\ cont[c] = "idle" /\ cur[c] = None

CallInv(p) ==
  InCall(p) => /\ call[p] \in Scopes
               /\ p \in Scopes => cont[p] \in {"clean", "settle"}

\* No effect is registered twice.
RegisteredOnce ==
  \A s, r \in Scopes :
    \A i \in 1 .. Len(reg[s]), j \in 1 .. Len(reg[r]) :
      reg[s][i] = reg[r][j] => s = r /\ i = j

IInv ==
  /\ TypeOK
  /\ \A s \in Scopes : PhaseInv(s) /\ EffectInv(s) /\ CurInv(s)
  /\ \A c \in Clients : ClientInv(c)
  /\ \A p \in Procs : CallInv(p)
  /\ RegisteredOnce

-----------------------------------------------------------------------------
\* Taking the last element off a nonempty sequence keeps its type and the
\* rest of its elements: how a cleanup walks its resources in reverse.
LEMMA FrontType ==
  ASSUME NEW S, NEW seq \in Seq(S), seq # <<>>
  PROVE  /\ Front(seq) \in Seq(S)
         /\ Last(seq) \in S
         /\ Len(seq) \in Nat \ {0}
         /\ Len(Front(seq)) = Len(seq) - 1
         /\ \A i \in 1 .. Len(Front(seq)) : Front(seq)[i] = seq[i]
<1>1. Len(seq) \in Nat \ {0} /\ seq \in [1 .. Len(seq) -> S]
  BY EmptySeq, LenProperties
<1>2. \A i \in 1 .. Len(seq) - 1 : seq[i] \in S
  BY <1>1
<1>3. /\ SubSeq(seq, 1, Len(seq) - 1) \in Seq(S)
      /\ Len(SubSeq(seq, 1, Len(seq) - 1)) =
           IF 1 <= Len(seq) - 1 THEN Len(seq) - 1 - 1 + 1 ELSE 0
      /\ \A i \in 1 .. Len(seq) - 1 - 1 + 1 :
           SubSeq(seq, 1, Len(seq) - 1)[i] = seq[1 + i - 1]
  <2>1. 1 \in Int /\ Len(seq) - 1 \in Int
    BY <1>1
  <2> QED
    BY <1>2, <2>1, SubSeqProperties
<1> QED
  BY <1>1, <1>3 DEF Front, Last

\* The position, in registration order, of the effect that ran m-th.
LEMMA CountBound ==
  ASSUME NEW k \in Nat, NEW m \in Nat \ {0}, NEW n \in Nat, k + m = n
  PROVE  m \in 1 .. m /\ n + 1 - m \in 1 .. n
  OBVIOUS

\* The next effect to run is the last of the k that are left.
LEMMA CountShift ==
  ASSUME NEW k \in Nat \ {0}, NEW m \in Nat, NEW n \in Nat, k + m = n
  PROVE  n + 1 - (m + 1) = k
  OBVIOUS

\* Running one effect keeps the count of effects left and effects run.
LEMMA CountMove ==
  ASSUME NEW k \in Nat \ {0}, NEW m \in Nat, NEW n \in Nat, k + m = n
  PROVE  (k - 1) + (m + 1) = n
  OBVIOUS

\* Waking processes only makes sleeping ones poll again.
LEMMA WakeType ==
  ASSUME NEW pcs \in [Procs -> PCs], NEW who
  PROVE  /\ Wake(pcs, who) \in [Procs -> PCs]
         /\ \A p \in Procs :
              \/ Wake(pcs, who)[p] = pcs[p]
              \/ pcs[p] = "asleep" /\ Wake(pcs, who)[p] = "poll"
  BY DEF Wake, PCs

\* Disposal contexts are sets of scopes, also after a claim.
LEMMA ContextsType ==
  ASSUME TypeOK, NEW p \in Procs, NEW s \in Scopes
  PROVE  /\ Disposing(p) \in SUBSET Scopes
         /\ ContextsAfterClaim(p, s) \in [Scopes -> SUBSET Scopes]
  BY DEF TypeOK, Disposing, ContextsAfterClaim

\* What a process must be doing to call Scope::dispose.
Caller(p, after, left) ==
  \/ p \in Clients /\ pc[p] = "idle" /\ after = "idle" /\ left = kids
  \/ p \in Scopes /\ pc[p] = "clean" /\ after = "clean"
  \/ p \in Scopes /\ pc[p] = "disposer" /\ after = "settle" /\ left = kids

\* claim_disposal keeps the types.
LEMMA ClaimType ==
  ASSUME TypeOK, NEW p \in Procs, NEW s \in Scopes,
         NEW after \in {"idle", "clean", "settle"}, NEW left \in [Procs -> Seq(Scopes)],
         Claim(p, s, after, left)
  PROVE  TypeOK'
<1> DEFINE pcs == [pc EXCEPT ![p] = "poll", ![s] = "clean"]
<1>1. pcs \in [Procs -> PCs] /\ s \in Procs
  BY DEF TypeOK, Procs, PCs
<1>2. pc' \in [Procs -> PCs]
  BY <1>1, WakeType, ZenonT(60) DEF Claim
<1>3. ancestors' \in [Scopes -> SUBSET Scopes]
  BY ContextsType DEF Claim
<1>4. /\ state' \in [Scopes -> ScopeStates]
      /\ cancelled' \in [Scopes -> BOOLEAN]
      /\ cont' \in [Procs -> {"idle", "clean", "settle"}]
      /\ call' \in [Procs -> Scopes \cup {None}]
      /\ role' \in [Procs -> {"none", "owner", "join"}]
  BY DEF Claim, TypeOK, ScopeStates
<1>5. /\ children' \in [Scopes -> Seq(Scopes)]
      /\ effects' \in [Scopes -> Seq(Effects)]
      /\ kids' \in [Procs -> Seq(Scopes)]
      /\ effs' \in [Procs -> Seq(Effects)]
  BY <1>1, EmptySeq DEF Claim, TakeResources, TypeOK
<1> QED
  BY <1>2, <1>3, <1>4, <1>5 DEF Claim, TypeOK, doneVars, histVars

\* claim_disposal hands the effects of the scope, all of them and in order,
\* to its cleanup task.
LEMMA ClaimInv ==
  ASSUME IInv, NEW p \in Procs, NEW s \in Scopes, NEW after, NEW left,
         Caller(p, after, left), left \in [Procs -> Seq(Scopes)],
         Claim(p, s, after, left)
  PROVE  IInv'
<1>1. TypeOK'
  BY ClaimType DEF IInv, Caller
<1>2. /\ state[s] = "Active" /\ pc[s] = "idle" /\ p # s
      /\ p \in Scopes => state[p] = "Unloading"
  BY ConstantsAssumption, ZenonT(40)
  DEF Claim, IInv, TypeOK, ScopeStates, PhaseInv, Caller, Procs
<1>3. /\ pc'[s] = "clean" /\ pc'[p] = "poll"
      /\ \A q \in Procs \ {p, s} :
           pc'[q] = pc[q] \/ (pc[q] = "asleep" /\ pc'[q] = "poll")
  BY <1>2 DEF Claim, Wake, IInv, TypeOK, Procs
<1>4. ASSUME NEW q \in Scopes PROVE PhaseInv(q)'
  BY <1>2, <1>3, <1>4, ZenonT(40) DEF Claim, IInv, TypeOK, PhaseInv, Procs
<1>5. ASSUME NEW q \in Scopes PROVE EffectInv(q)'
  <2>1. CASE q = s
    <3>1. /\ effs'[s] = effects[s] /\ effects[s] = reg[s] /\ ran[s] = <<>>
          /\ reg' = reg /\ ran' = ran /\ state'[s] = "Unloading"
      BY <1>2 DEF Claim, IInv, TypeOK, EffectInv, Procs, histVars
    <3>2. Len(reg[s]) \in Nat /\ Len(<<>>) = 0
      BY LenProperties, EmptySeq DEF IInv, TypeOK
    <3>3. ran[s]' = <<>> /\ reg[s]' = reg[s] /\ effs[s]' = reg[s]
      BY <3>1
    <3>4. /\ Len(effs[s])' + Len(ran[s])' = Len(reg[s])'
          /\ \A i \in 1 .. Len(effs[s])' : effs[s]'[i] = reg[s]'[i]
          /\ \A i \in 1 .. Len(ran[s])' :
               ran[s]'[i] = reg[s]'[Len(reg[s])' + 1 - i]
      BY <3>2, <3>3
    <3> QED
      BY <2>1, <3>1, <3>4 DEF EffectInv
  <2>2. CASE q # s
    BY <2>2, ZenonT(40) DEF Claim, TakeResources, IInv, TypeOK, EffectInv, Procs, histVars
  <2> QED
    BY <2>1, <2>2
<1>6. ASSUME NEW q \in Scopes PROVE CurInv(q)'
  <2>1. CASE q = s
    BY <1>2, <1>3, <2>1
    DEF Claim, IInv, TypeOK, CurInv, InDisposer, InCall, Procs, histVars
  <2>2. CASE q = p
    BY <1>2, <1>3, <2>2
    DEF Claim, IInv, TypeOK, CurInv, InDisposer, InCall, Procs, histVars, Caller
  <2>3. CASE q # s /\ q # p
    BY <1>3, <2>3, ZenonT(40)
    DEF Claim, IInv, TypeOK, CurInv, InDisposer, InCall, Procs, histVars
  <2> QED
    BY <2>1, <2>2, <2>3
<1>7. ASSUME NEW c \in Clients PROVE ClientInv(c)'
  <2>1. c \in Procs /\ c \notin Scopes /\ c # s
    BY ConstantsAssumption DEF Procs
  <2>2. cur' = cur /\ cont'[c] = "idle"
    BY <2>1 DEF Claim, IInv, TypeOK, ClientInv, Caller
  <2>3. pc'[c] \in {"idle", "inherit", "poll", "asleep"}
    BY <1>3, <2>1 DEF IInv, ClientInv
  <2> QED
    BY <2>2, <2>3 DEF IInv, ClientInv
<1>8. ASSUME NEW q \in Procs PROVE CallInv(q)'
  BY <1>2, <1>3, <1>8, ConstantsAssumption, ZenonT(40)
  DEF Claim, IInv, TypeOK, CallInv, InCall, Procs, Caller
<1>9. RegisteredOnce'
  BY DEF Claim, IInv, RegisteredOnce, histVars
<1> QED
  BY <1>1, <1>4, <1>5, <1>6, <1>7, <1>8, <1>9 DEF IInv

\* A step that only moves processes, and no process into or out of a disposer.
LEMMA MoveInv ==
  ASSUME IInv, TypeOK', UNCHANGED <<effects, effs, cur, target, reg, ran>>,
         \A q \in Scopes : /\ state'[q] = state[q]
                           /\ PhaseInv(q)'
                           /\ InDisposer(q)' <=> InDisposer(q)
                           /\ pc'[q] = "disposer" => pc[q] = "disposer",
         \A c \in Clients : ClientInv(c)',
         \A p \in Procs : CallInv(p)'
  PROVE  IInv'
<1>1. ASSUME NEW q \in Scopes PROVE EffectInv(q)' /\ CurInv(q)'
  BY <1>1 DEF IInv, EffectInv, CurInv
<1>2. RegisteredOnce'
  BY DEF IInv, RegisteredOnce
<1> QED
  BY <1>1, <1>2 DEF IInv

\* A caller that joins a cleanup disturbs nothing.
LEMMA JoinInv ==
  ASSUME IInv, NEW p \in Procs, NEW s \in Scopes, NEW after, NEW left,
         Caller(p, after, left), left \in [Procs -> Seq(Scopes)],
         Join(p, s, after, left)
  PROVE  IInv'
<1>1. /\ pc'[p] = "inherit"
      /\ \A q \in Procs \ {p} : pc'[q] = pc[q]
  BY DEF Join, IInv, TypeOK
<1>2. after \in {"idle", "clean", "settle"}
  BY DEF Caller
<1>3. TypeOK'
  BY <1>2 DEF Join, IInv, TypeOK, PCs, resVars, doneVars, histVars
<1>4. ASSUME NEW q \in Scopes
      PROVE  /\ PhaseInv(q)'
             /\ InDisposer(q)' <=> InDisposer(q)
             /\ pc'[q] = "disposer" => pc[q] = "disposer"
  <2>1. CASE q = p
    BY <1>1, <2>1, ConstantsAssumption
    DEF Join, IInv, TypeOK, PhaseInv, InDisposer, InCall, Caller, Procs
  <2>2. CASE q # p
    BY <1>1, <2>2
    DEF Join, IInv, TypeOK, PhaseInv, InDisposer, InCall, Procs
  <2> QED
    BY <2>1, <2>2
<1>5. ASSUME NEW c \in Clients PROVE ClientInv(c)'
  <2>1. c \in Procs /\ c \notin Scopes
    BY ConstantsAssumption DEF Procs
  <2> QED
    BY <1>1, <2>1 DEF Join, IInv, TypeOK, ClientInv, Caller
<1>6. ASSUME NEW q \in Procs PROVE CallInv(q)'
  BY <1>1, ConstantsAssumption
  DEF Join, IInv, TypeOK, CallInv, InCall, Procs, Caller
<1> QED
  BY <1>3, <1>4, <1>5, <1>6, MoveInv DEF Join, resVars, histVars

\* A re-entrant caller returns at once and disturbs nothing.
LEMMA JoinReentrantInv ==
  ASSUME IInv, NEW p \in Procs, NEW s \in Scopes, NEW after, NEW left,
         Caller(p, after, left), left \in [Procs -> Seq(Scopes)],
         JoinReentrant(p, s, after, left)
  PROVE  IInv'
<1>1. /\ pc'[p] = after
      /\ \A q \in Procs \ {p} : pc'[q] = pc[q]
  BY DEF JoinReentrant, IInv, TypeOK
<1>2. after \in {"idle", "clean", "settle"}
  BY DEF Caller
<1>3. TypeOK'
  BY <1>2 DEF JoinReentrant, IInv, TypeOK, PCs, resVars, doneVars, callVars,
     histVars
<1>4. ASSUME NEW q \in Scopes
      PROVE  /\ PhaseInv(q)'
             /\ InDisposer(q)' <=> InDisposer(q)
             /\ pc'[q] = "disposer" => pc[q] = "disposer"
  <2>1. CASE q = p
    BY <1>1, <2>1, ConstantsAssumption
    DEF JoinReentrant, IInv, TypeOK, PhaseInv, InDisposer, InCall, Caller, Procs
  <2>2. CASE q # p
    BY <1>1, <2>2
    DEF JoinReentrant, IInv, TypeOK, PhaseInv, InDisposer, InCall, Procs, callVars
  <2> QED
    BY <2>1, <2>2
<1>5. ASSUME NEW c \in Clients PROVE ClientInv(c)'
  <2>1. c \in Procs /\ c \notin Scopes
    BY ConstantsAssumption DEF Procs
  <2> QED
    BY <1>1, <2>1 DEF JoinReentrant, IInv, TypeOK, ClientInv, Caller, callVars
<1>6. ASSUME NEW q \in Procs PROVE CallInv(q)'
  BY <1>1, <1>2 DEF JoinReentrant, IInv, TypeOK, CallInv, InCall, callVars
<1> QED
  BY <1>3, <1>4, <1>5, <1>6, MoveInv DEF JoinReentrant, resVars, histVars

\* Scope::dispose preserves the invariant, whoever calls it.
LEMMA DisposeInv ==
  ASSUME IInv, NEW p \in Procs, NEW s \in Scopes, NEW after, NEW left,
         Caller(p, after, left), left \in [Procs -> Seq(Scopes)],
         Dispose(p, s, after, left)
  PROVE  IInv'
  BY ClaimInv, JoinInv, JoinReentrantInv DEF Dispose

\* Growing a disposal context preserves the invariant.
LEMMA InheritInv ==
  ASSUME IInv, NEW p \in Procs, InheritAncestors(p)
  PROVE  IInv'
<1>1. /\ pc[p] = "inherit" /\ pc'[p] = "poll"
      /\ \A q \in Procs \ {p} :
           pc'[q] = pc[q] \/ (pc[q] = "asleep" /\ pc'[q] = "poll")
  BY DEF InheritAncestors, Wake, IInv, TypeOK
<1>2. UNCHANGED <<state, cancelled, resVars, doneVars, callVars, kids, effs, cur,
                  errs, histVars>>
  BY DEF InheritAncestors, workVars
<1>3. TypeOK'
  <2>1. [pc EXCEPT ![p] = "poll"] \in [Procs -> PCs]
    BY DEF IInv, TypeOK, PCs
  <2>2. pc' \in [Procs -> PCs]
    BY <2>1, WakeType DEF InheritAncestors
  <2>3. ancestors' \in [Scopes -> SUBSET Scopes]
    BY <1>1, ContextsType
    DEF InheritAncestors, IInv, TypeOK, CallInv, InCall
  <2> QED
    BY <1>2, <2>2, <2>3
    DEF IInv, TypeOK, resVars, doneVars, callVars, histVars
<1>4. ASSUME NEW q \in Scopes
      PROVE  /\ PhaseInv(q)'
             /\ InDisposer(q)' <=> InDisposer(q)
             /\ pc'[q] = "disposer" => pc[q] = "disposer"
  BY <1>1, <1>2
  DEF IInv, TypeOK, PhaseInv, InDisposer, InCall, Procs, callVars
<1>5. ASSUME NEW c \in Clients PROVE ClientInv(c)'
  <2>1. c \in Procs
    BY DEF Procs
  <2> QED
    BY <1>1, <1>2, <2>1 DEF IInv, ClientInv, callVars
<1>6. ASSUME NEW q \in Procs PROVE CallInv(q)'
  BY <1>1, <1>2 DEF IInv, CallInv, InCall, callVars
<1> QED
  BY <1>2, <1>3, <1>4, <1>5, <1>6, MoveInv DEF resVars, histVars

\* Polling a completion preserves the invariant.
LEMMA WaitInv ==
  ASSUME IInv, NEW p \in Procs,
         PollReentrant(p) \/ PollReady(p) \/ PollPending(p)
  PROVE  IInv'
<1>1. /\ pc[p] = "poll" /\ pc'[p] \in {cont[p], "asleep"}
      /\ \A q \in Procs \ {p} : pc'[q] = pc[q]
      /\ UNCHANGED <<state, cancelled, resVars, ancestors, callVars, kids, effs,
                     cur, histVars>>
  BY DEF PollReentrant, PollReady, PollPending, MustWait, IInv, TypeOK,
     workVars
<1>2. /\ call[p] \in Scopes
      /\ p \in Scopes => cont[p] \in {"clean", "settle"}
      /\ p \in Clients => cont[p] = "idle"
  BY <1>1 DEF IInv, CallInv, InCall, ClientInv
<1>3. TypeOK'
  <2>1. pc' \in [Procs -> PCs]
    BY ZenonT(60) DEF PollReentrant, PollReady, PollPending, IInv, TypeOK, PCs
  <2>2. result' = result /\ waiters' \in [Scopes -> SUBSET Procs]
    <3>1. CASE PollReentrant(p) \/ PollReady(p)
      BY <3>1 DEF PollReentrant, PollReady, IInv, TypeOK, doneVars
    <3>2. CASE PollPending(p)
      <4>1. waiters[call[p]] \cup {p} \in SUBSET Procs
        BY <1>2 DEF IInv, TypeOK
      <4> QED
        BY <3>2, <4>1 DEF PollPending, RegisterWaker, IInv, TypeOK
    <3> QED
      BY <3>1, <3>2
  <2>3. errs' \in [Procs -> BOOLEAN]
    BY DEF PollReentrant, PollReady, PollPending, IInv, TypeOK, workVars
  <2> QED
    BY <1>1, <2>1, <2>2, <2>3 DEF IInv, TypeOK, resVars, callVars, histVars
<1>4. ASSUME NEW q \in Scopes
      PROVE  /\ PhaseInv(q)'
             /\ InDisposer(q)' <=> InDisposer(q)
             /\ pc'[q] = "disposer" => pc[q] = "disposer"
  BY <1>1, <1>2
  DEF IInv, TypeOK, PhaseInv, InDisposer, InCall, Procs, callVars
<1>5. ASSUME NEW c \in Clients PROVE ClientInv(c)'
  <2>1. c \in Procs /\ c \notin Scopes
    BY ConstantsAssumption DEF Procs
  <2> QED
    BY <1>1, <1>2, <2>1 DEF IInv, ClientInv, callVars
<1>6. ASSUME NEW q \in Procs PROVE CallInv(q)'
  BY <1>1, <1>2 DEF IInv, CallInv, InCall, callVars
<1> QED
  BY <1>1, <1>3, <1>4, <1>5, <1>6, MoveInv DEF resVars, histVars

\* So does any poll of a dispose call.
LEMMA PollInv ==
  ASSUME IInv, NEW p \in Procs, Poll(p)
  PROVE  IInv'
<1>1. CASE InheritAncestors(p)
  BY <1>1, InheritInv
<1>2. CASE PollReentrant(p) \/ PollReady(p) \/ PollPending(p)
  BY <1>2, WaitInv
<1> QED
  BY <1>1, <1>2 DEF Poll

-----------------------------------------------------------------------------
(***************************************************************************)
(* The steps that touch the effects.                                       *)
(***************************************************************************)
\* A registered effect that is in the cleanup's hands is not a new one.
LEMMA AddEffectInv ==
  ASSUME IInv, NEW s \in Scopes, NEW e \in Effects,
         NEW t \in Scopes \cup {None}, AddEffect(s, e, t)
  PROVE  IInv'
<1>1. \A r \in Scopes : \A i \in 1 .. Len(reg[r]) : reg[r][i] # e
  BY LenProperties DEF AddEffect, Range, IInv, TypeOK
<1>2. /\ Append(effects[s], e) \in Seq(Effects)
      /\ Append(reg[s], e) \in Seq(Effects)
      /\ Len(Append(reg[s], e)) = Len(reg[s]) + 1
      /\ \A i \in 1 .. Len(reg[s]) : Append(reg[s], e)[i] = reg[s][i]
      /\ Append(reg[s], e)[Len(reg[s]) + 1] = e
      /\ Len(reg[s]) \in Nat
  BY AppendProperties, LenProperties DEF IInv, TypeOK
<1>3. TypeOK'
  BY <1>2 DEF AddEffect, IInv, TypeOK, doneVars, callVars, workVars
<1>4. ASSUME NEW q \in Scopes PROVE PhaseInv(q)'
  BY DEF AddEffect, IInv, PhaseInv, workVars
<1>5. ASSUME NEW q \in Scopes PROVE EffectInv(q)'
  BY ZenonT(60) DEF AddEffect, IInv, TypeOK, EffectInv, workVars
<1>6. ASSUME NEW q \in Scopes PROVE CurInv(q)'
  <2>1. /\ InDisposer(q)' <=> InDisposer(q)
        /\ UNCHANGED <<pc, cur, ran>>
    BY DEF AddEffect, InDisposer, InCall, callVars, workVars
  <2>2. ASSUME pc[q] = "disposer" PROVE cur[q] # e
    <3>1. /\ ran[q] # <<>> /\ cur[q] = Last(ran[q])
          /\ state[q] = "Unloading"
      BY <2>2
      DEF IInv, CurInv, InDisposer, PhaseInv, TypeOK, ScopeStates
    <3>2. /\ Len(ran[q]) \in Nat \ {0} /\ Len(reg[q]) \in Nat
          /\ Len(effs[q]) \in Nat
      BY <3>1, EmptySeq, LenProperties DEF IInv, TypeOK, Procs
    <3>3. /\ Len(effs[q]) + Len(ran[q]) = Len(reg[q])
          /\ \A i \in 1 .. Len(ran[q]) :
               ran[q][i] = reg[q][Len(reg[q]) + 1 - i]
      BY <3>1 DEF IInv, EffectInv
    <3>4. /\ Len(ran[q]) \in 1 .. Len(ran[q])
          /\ Len(reg[q]) + 1 - Len(ran[q]) \in 1 .. Len(reg[q])
      BY <3>2, <3>3, CountBound
    <3>5. ran[q][Len(ran[q])] = reg[q][Len(reg[q]) + 1 - Len(ran[q])]
      BY <3>3, <3>4
    <3> QED
      BY <1>1, <3>1, <3>4, <3>5 DEF Last
  <2> QED
    BY <2>1, <2>2 DEF AddEffect, IInv, TypeOK, CurInv
<1>7. ASSUME NEW c \in Clients PROVE ClientInv(c)'
  BY DEF AddEffect, IInv, ClientInv, callVars, workVars
<1>8. ASSUME NEW q \in Procs PROVE CallInv(q)'
  BY DEF AddEffect, IInv, CallInv, InCall, callVars
<1>9. RegisteredOnce'
  <2> SUFFICES ASSUME NEW q \in Scopes, NEW r \in Scopes,
                      NEW i \in 1 .. Len(reg'[q]), NEW j \in 1 .. Len(reg'[r]),
                      reg'[q][i] = reg'[r][j]
               PROVE  q = r /\ i = j
    BY DEF RegisteredOnce
  <2>1. /\ reg'[s] = Append(reg[s], e)
        /\ \A v \in Scopes \ {s} : reg'[v] = reg[v]
    BY DEF AddEffect, IInv, TypeOK
  <2>2. \A v \in Scopes : \A k \in 1 .. Len(reg'[v]) :
          \/ k \in 1 .. Len(reg[v]) /\ reg'[v][k] = reg[v][k]
          \/ v = s /\ k = Len(reg[s]) + 1 /\ reg'[v][k] = e
    BY <1>2, <2>1
  <2>3. \/ i \in 1 .. Len(reg[q]) /\ reg'[q][i] = reg[q][i]
        \/ q = s /\ i = Len(reg[s]) + 1 /\ reg'[q][i] = e
    BY <2>2
  <2>4. \/ j \in 1 .. Len(reg[r]) /\ reg'[r][j] = reg[r][j]
        \/ r = s /\ j = Len(reg[s]) + 1 /\ reg'[r][j] = e
    BY <2>2
  <2>5. \/ q = s /\ i = Len(reg[s]) + 1 /\ r = s /\ j = Len(reg[s]) + 1
        \/ /\ i \in 1 .. Len(reg[q]) /\ j \in 1 .. Len(reg[r])
           /\ reg[q][i] = reg[r][j]
    BY <1>1, <2>3, <2>4
  <2> QED
    BY <2>5 DEF IInv, RegisteredOnce
<1> QED
  BY <1>3, <1>4, <1>5, <1>6, <1>7, <1>8, <1>9 DEF IInv

\* A started disposer moves from the effects left to the effects run.
LEMMA StartDisposerInv ==
  ASSUME IInv, NEW s \in Scopes, StartDisposer(s, s)
  PROVE  IInv'
<1> DEFINE e == Last(effs[s])
<1>1. /\ s \in Procs /\ effs[s] \in Seq(Effects) /\ effs[s] # <<>>
      /\ state[s] = "Unloading" /\ pc[s] = "clean"
  BY DEF StartDisposer, IInv, TypeOK, PhaseInv, ScopeStates, Procs
<1>2. /\ Front(effs[s]) \in Seq(Effects) /\ e \in Effects
      /\ Len(effs[s]) \in Nat \ {0}
      /\ Len(Front(effs[s])) = Len(effs[s]) - 1
      /\ \A i \in 1 .. Len(effs[s]) - 1 : Front(effs[s])[i] = effs[s][i]
      /\ e = effs[s][Len(effs[s])]
  BY <1>1, FrontType DEF Last
<1>3. /\ Append(ran[s], e) \in Seq(Effects)
      /\ Append(ran[s], e) # <<>>
      /\ Len(Append(ran[s], e)) = Len(ran[s]) + 1
      /\ \A i \in 1 .. Len(ran[s]) : Append(ran[s], e)[i] = ran[s][i]
      /\ Append(ran[s], e)[Len(ran[s]) + 1] = e
      /\ Len(ran[s]) \in Nat /\ Len(reg[s]) \in Nat
  <2>1. ran[s] \in Seq(Effects) /\ reg[s] \in Seq(Effects)
    BY DEF IInv, TypeOK
  <2> HIDE DEF e
  <2> QED
    BY <1>2, <2>1, AppendProperties, LenProperties, SMTT(30)
<1>4. /\ effs'[s] = Front(effs[s]) /\ cur'[s] = e
      /\ ran'[s] = Append(ran[s], e)
      /\ pc'[s] = IF target[e] = None THEN "settle" ELSE "disposer"
      /\ \A q \in Procs \ {s} :
           effs'[q] = effs[q] /\ cur'[q] = cur[q] /\ pc'[q] = pc[q]
      /\ \A q \in Scopes \ {s} : ran'[q] = ran[q]
      /\ UNCHANGED <<state, effects, callVars, target, reg>>
  BY <1>1 DEF StartDisposer, IInv, TypeOK, resVars
<1>5. TypeOK'
  BY <1>1, <1>2, <1>3 DEF StartDisposer, IInv, TypeOK, PCs, resVars, doneVars,
     callVars
<1>6. ASSUME NEW q \in Scopes PROVE PhaseInv(q)'
  BY <1>1, <1>4 DEF IInv, PhaseInv, Procs
<1>7. ASSUME NEW q \in Scopes PROVE EffectInv(q)'
  <2>1. CASE q = s
    <3>1. /\ Len(effs[s]) + Len(ran[s]) = Len(reg[s])
          /\ \A i \in 1 .. Len(effs[s]) : effs[s][i] = reg[s][i]
          /\ \A i \in 1 .. Len(ran[s]) :
               ran[s][i] = reg[s][Len(reg[s]) + 1 - i]
      BY <1>1 DEF IInv, EffectInv
    <3> HIDE DEF e
    <3>2. /\ Len(effs'[s]) = Len(effs[s]) - 1
          /\ Len(ran'[s]) = Len(ran[s]) + 1
      BY <1>2, <1>3, <1>4
    <3>3. \A i \in 1 .. Len(effs'[s]) : effs'[s][i] = reg[s][i]
      BY <1>2, <1>4, <3>1, <3>2
    <3>4. ASSUME NEW i \in 1 .. Len(ran'[s])
          PROVE  ran'[s][i] = reg[s][Len(reg[s]) + 1 - i]
      <4>1. CASE i \in 1 .. Len(ran[s])
        BY <1>3, <1>4, <3>1, <4>1
      <4>2. CASE i = Len(ran[s]) + 1
        <5>1. ran'[s][i] = effs[s][Len(effs[s])]
          BY <1>2, <1>3, <1>4, <4>2
        <5>2. Len(reg[s]) + 1 - i = Len(effs[s])
          BY <1>2, <1>3, <3>1, <4>2, CountShift
        <5> QED
          BY <1>2, <3>1, <5>1, <5>2, SMTT(30)
      <4> QED
        BY <1>3, <3>2, <4>1, <4>2
    <3>5. Len(effs'[s]) + Len(ran'[s]) = Len(reg[s])
      <4>1. /\ Len(effs[s]) \in Nat \ {0} /\ Len(ran[s]) \in Nat
            /\ Len(reg[s]) \in Nat /\ Len(effs[s]) + Len(ran[s]) = Len(reg[s])
        BY <1>2, <1>3, <3>1
      <4>2. PICK k \in Nat \ {0}, m \in Nat, n \in Nat :
              Len(effs[s]) = k /\ Len(ran[s]) = m /\ Len(reg[s]) = n
        BY <4>1, Zenon
      <4>3. k + m = n
        BY <4>1, <4>2, Zenon
      <4>4. (k - 1) + (m + 1) = n
        BY <4>3, CountMove
      <4> QED
        BY <3>2, <4>2, <4>4, Zenon
    <3> QED
      BY <1>1, <1>4, <2>1, <3>3, <3>4, <3>5 DEF EffectInv
  <2>2. CASE q # s
    <3>1. /\ UNCHANGED <<state[q], effects[q], effs[q], ran[q], reg[q]>>
          /\ EffectInv(q)
      BY <1>4, <2>2 DEF IInv, Procs
    <3> QED
      BY <3>1 DEF EffectInv
  <2> QED
    BY <2>1, <2>2
<1>8. ASSUME NEW q \in Scopes PROVE CurInv(q)'
  <2>1. CASE q = s
    <3>1. target'[e] = target[e] /\ target[e] \in Scopes \cup {None}
      BY <1>2, <1>4 DEF IInv, TypeOK
    <3>2. Last(ran'[s]) = e /\ ran'[s] # <<>>
      BY <1>3, <1>4 DEF Last
    <3> QED
      BY <1>4, <2>1, <3>1, <3>2 DEF CurInv, InDisposer
  <2>2. CASE q # s
    BY <1>4, <2>2 DEF IInv, CurInv, InDisposer, InCall, Procs, callVars
  <2> QED
    BY <2>1, <2>2
<1>9. ASSUME NEW c \in Clients PROVE ClientInv(c)'
  <2>1. c \in Procs /\ c # s
    BY ConstantsAssumption DEF Procs
  <2> QED
    BY <1>4, <2>1 DEF IInv, ClientInv, callVars
<1>10. ASSUME NEW q \in Procs PROVE CallInv(q)'
  BY <1>4 DEF IInv, CallInv, InCall, callVars
<1>11. RegisteredOnce'
  BY <1>4 DEF IInv, RegisteredOnce
<1> QED
  BY <1>5, <1>6, <1>7, <1>8, <1>9, <1>10, <1>11 DEF IInv

\* A disposer that returns, with or without an error, leaves nothing running.
LEMMA FinishDisposerInv ==
  ASSUME IInv, NEW s \in Scopes, FinishDisposer(s)
  PROVE  IInv'
<1>1. s \in Procs /\ pc[s] = "settle" /\ cur[s] \in Effects
  <2>1. s \in Procs /\ pc[s] = "settle" /\ ran[s] # <<>>
        /\ cur[s] = Last(ran[s]) /\ ran[s] \in Seq(Effects)
    BY DEF FinishDisposer, IInv, TypeOK, CurInv, InDisposer, Procs
  <2> QED
    BY <2>1, FrontType
<1>2. /\ pc'[s] = "clean" /\ cur'[s] = None
      /\ \A q \in Procs \ {s} : cur'[q] = cur[q] /\ pc'[q] = pc[q]
      /\ UNCHANGED <<state, effects, effs, ran, callVars, target, reg>>
  BY <1>1 DEF FinishDisposer, IInv, TypeOK, resVars
<1>3. TypeOK'
  BY <1>1 DEF FinishDisposer, IInv, TypeOK, PCs, resVars, doneVars, callVars
<1>4. ASSUME NEW q \in Scopes PROVE PhaseInv(q)' /\ EffectInv(q)' /\ CurInv(q)'
  <2>1. PhaseInv(q)'
    BY <1>1, <1>2 DEF IInv, PhaseInv, TypeOK, ScopeStates, Procs
  <2>2. EffectInv(q)'
    BY <1>2 DEF IInv, EffectInv
  <2>3. CurInv(q)'
    BY <1>2 DEF IInv, CurInv, InDisposer, InCall, Procs, callVars
  <2> QED
    BY <2>1, <2>2, <2>3
<1>5. ASSUME NEW c \in Clients PROVE ClientInv(c)'
  <2>1. c \in Procs /\ c # s
    BY ConstantsAssumption DEF Procs
  <2> QED
    BY <1>2, <2>1 DEF IInv, ClientInv, callVars
<1>6. ASSUME NEW q \in Procs PROVE CallInv(q)'
  BY <1>2 DEF IInv, CallInv, InCall, callVars
<1>7. RegisteredOnce'
  BY <1>2 DEF IInv, RegisteredOnce
<1> QED
  BY <1>3, <1>4, <1>5, <1>6, <1>7 DEF IInv

\* A cleanup ends, and the scope is Disposed, when no effect is left.
LEMMA FinishCleanupInv ==
  ASSUME IInv, NEW s \in Scopes, FinishCleanup(s)
  PROVE  IInv'
<1>1. /\ s \in Procs /\ pc[s] = "clean" /\ effs[s] = <<>>
      /\ state[s] = "Unloading"
  BY DEF FinishCleanup, IInv, TypeOK, PhaseInv, ScopeStates, Procs
<1>2. /\ pc'[s] = "publish" /\ state'[s] = "Disposed"
      /\ \A q \in Procs \ {s} : pc'[q] = pc[q]
      /\ \A q \in Scopes \ {s} : state'[q] = state[q]
      /\ UNCHANGED <<effects, effs, ran, callVars, cur, target, reg>>
  BY <1>1 DEF FinishCleanup, IInv, TypeOK, resVars, workVars, histVars
<1>3. TypeOK'
  BY <1>1 DEF FinishCleanup, IInv, TypeOK, PCs, ScopeStates, resVars, doneVars,
     callVars, workVars, histVars
<1>4. ASSUME NEW q \in Scopes PROVE PhaseInv(q)' /\ EffectInv(q)' /\ CurInv(q)'
  <2>1. PhaseInv(q)'
    BY <1>1, <1>2 DEF IInv, PhaseInv, Procs
  <2>2. EffectInv(q)'
    BY <1>1, <1>2, ZenonT(40) DEF IInv, EffectInv
  <2>3. CurInv(q)'
    BY <1>1, <1>2 DEF IInv, CurInv, InDisposer, InCall, Procs, callVars
  <2> QED
    BY <2>1, <2>2, <2>3
<1>5. ASSUME NEW c \in Clients PROVE ClientInv(c)'
  <2>1. c \in Procs /\ c # s
    BY ConstantsAssumption DEF Procs
  <2> QED
    BY <1>2, <2>1 DEF IInv, ClientInv, callVars
<1>6. ASSUME NEW q \in Procs PROVE CallInv(q)'
  BY <1>2 DEF IInv, CallInv, InCall, callVars
<1>7. RegisteredOnce'
  BY <1>2 DEF IInv, RegisteredOnce
<1> QED
  BY <1>3, <1>4, <1>5, <1>6, <1>7 DEF IInv

\* Publishing the result and waking the waiters.
LEMMA CompleteInv ==
  ASSUME IInv, NEW s \in Scopes, Publish(s) \/ WakeWaiters(s)
  PROVE  IInv'
<1>1. /\ s \in Procs /\ pc[s] \in {"publish", "notify"}
      /\ state[s] = "Disposed" /\ effs[s] = <<>>
  BY DEF Publish, WakeWaiters, IInv, TypeOK, PhaseInv, ScopeStates, Procs
<1>2. /\ pc'[s] \in {"notify", "done"}
      /\ \A q \in Procs \ {s} :
           pc'[q] = pc[q] \/ (pc[q] = "asleep" /\ pc'[q] = "poll")
      /\ UNCHANGED <<state, effects, effs, ran, callVars, cur, target, reg>>
  BY <1>1 DEF Publish, WakeWaiters, Wake, IInv, TypeOK, resVars, workVars,
     histVars
<1>3. TypeOK'
  <2>1. pc' \in [Procs -> PCs]
    <3>1. CASE Publish(s)
      BY <3>1 DEF Publish, IInv, TypeOK, PCs
    <3>2. CASE WakeWaiters(s)
      <4>1. [pc EXCEPT ![s] = "done"] \in [Procs -> PCs]
        BY DEF IInv, TypeOK, PCs
      <4> QED
        BY <3>2, <4>1, WakeType DEF WakeWaiters
    <3> QED
      BY <3>1, <3>2
  <2>2. /\ result' \in [Scopes -> {"none", "ok", "err"}]
        /\ waiters' \in [Scopes -> SUBSET Procs]
    BY DEF Publish, WakeWaiters, IInv, TypeOK
  <2> QED
    BY <2>1, <2>2 DEF Publish, WakeWaiters, IInv, TypeOK, resVars, callVars,
       workVars, histVars
<1>4. ASSUME NEW q \in Scopes
      PROVE  /\ PhaseInv(q)'
             /\ InDisposer(q)' <=> InDisposer(q)
             /\ pc'[q] = "disposer" => pc[q] = "disposer"
  BY <1>1, <1>2 DEF IInv, PhaseInv, InDisposer, InCall, Procs, callVars
<1>5. ASSUME NEW c \in Clients PROVE ClientInv(c)'
  <2>1. c \in Procs /\ c # s
    BY ConstantsAssumption DEF Procs
  <2> QED
    BY <1>2, <2>1 DEF IInv, ClientInv, callVars
<1>6. ASSUME NEW q \in Procs PROVE CallInv(q)'
  BY <1>2 DEF IInv, CallInv, InCall, callVars
<1> QED
  BY <1>2, <1>3, <1>4, <1>5, <1>6, MoveInv

\* Creating scopes and cancelling tokens preserve the invariant.
LEMMA CreateInv ==
  ASSUME IInv, NEW s \in Scopes,
         NewRoot(s) \/ \E p \in Scopes : NewChild(p, s)
  PROVE  IInv'
<1>1. /\ state[s] = "Absent" /\ state'[s] = "Active"
      /\ \A q \in Scopes \ {s} : state'[q] = state[q]
      /\ UNCHANGED <<pc, effects, effs, ran, callVars, cur, target, reg>>
  BY DEF NewRoot, NewChild, IInv, TypeOK, resVars, workVars, histVars
<1>2. TypeOK'
  <2>1. ASSUME NEW p \in Scopes, NewChild(p, s) PROVE TypeOK'
    <3>1. Append(children[p], s) \in Seq(Scopes)
      BY AppendProperties DEF IInv, TypeOK
    <3> QED
      BY <2>1, <3>1 DEF NewChild, IInv, TypeOK, ScopeStates, doneVars, callVars,
         workVars
  <2>2. ASSUME NewRoot(s) PROVE TypeOK'
    BY <2>2 DEF NewRoot, IInv, TypeOK, ScopeStates, resVars, doneVars, callVars,
       workVars, histVars
  <2> QED
    BY <2>1, <2>2
<1>3. ASSUME NEW q \in Scopes PROVE PhaseInv(q)' /\ EffectInv(q)' /\ CurInv(q)'
  <2>1. PhaseInv(q)' /\ EffectInv(q)'
    BY <1>1, ZenonT(40) DEF IInv, PhaseInv, EffectInv
  <2>2. CurInv(q)'
    BY <1>1 DEF IInv, CurInv, InDisposer, InCall, callVars
  <2> QED
    BY <2>1, <2>2
<1>4. /\ \A c \in Clients : ClientInv(c)'
      /\ \A q \in Procs : CallInv(q)'
      /\ RegisteredOnce'
  BY <1>1 DEF IInv, ClientInv, CallInv, InCall, RegisteredOnce, callVars
<1> QED
  BY <1>2, <1>3, <1>4 DEF IInv

-----------------------------------------------------------------------------
\* The initial states satisfy the invariant.
LEMMA InitInv == Init => IInv
<1> SUFFICES ASSUME Init PROVE IInv
  OBVIOUS
<1>1. TypeOK
  BY EmptySeq DEF Init, TypeOK, ScopeStates, PCs
<1>2. ASSUME NEW s \in Scopes PROVE PhaseInv(s) /\ EffectInv(s) /\ CurInv(s)
  BY DEF Init, PhaseInv, EffectInv, CurInv, InDisposer, InCall, Procs
<1>3. /\ \A c \in Clients : ClientInv(c)
      /\ \A p \in Procs : CallInv(p)
  BY DEF Init, ClientInv, CallInv, InCall, Procs
<1>4. RegisteredOnce
  BY EmptySeq DEF Init, RegisteredOnce
<1> QED
  BY <1>1, <1>2, <1>3, <1>4 DEF IInv

\* Every step preserves the invariant.
LEMMA StepInv == IInv /\ [Next]_vars => IInv'
<1> SUFFICES ASSUME IInv, [Next]_vars PROVE IInv'
  OBVIOUS
<1>1. ASSUME NEW s \in Scopes, NewRoot(s) PROVE IInv'
  BY <1>1, CreateInv
<1>2. ASSUME NEW s \in Scopes, CancelToken(s) PROVE IInv'
  <2>1. TypeOK'
    BY <1>2 DEF CancelToken, IInv, TypeOK, resVars, doneVars, callVars, workVars,
       histVars
  <2>2. UNCHANGED <<state, pc, effects, effs, ran, cont, call, cur, target, reg>>
    BY <1>2 DEF CancelToken, resVars, callVars, workVars, histVars
  <2> QED
    <3>1. /\ \A q \in Scopes : PhaseInv(q)' /\ (InDisposer(q)' <=> InDisposer(q))
          /\ \A k \in Clients : ClientInv(k)'
          /\ \A q \in Procs : CallInv(q)'
      BY <2>2 DEF IInv, PhaseInv, InDisposer, InCall, ClientInv, CallInv
    <3> QED
      BY <2>1, <2>2, <3>1, MoveInv
<1>3. ASSUME NEW s \in Scopes, CleanupTask(s) PROVE IInv'
  <2>1. s \in Procs
    BY DEF Procs
  <2>2. CASE CleanChild(s)
    <3>1. /\ pc[s] = "clean" /\ kids[s] \in Seq(Scopes) /\ kids[s] # <<>>
          /\ Dispose(s, Last(kids[s]), "clean", [kids EXCEPT ![s] = Front(@)])
      BY <2>1, <2>2 DEF CleanChild, IInv, TypeOK
    <3>2. /\ Last(kids[s]) \in Scopes
          /\ [kids EXCEPT ![s] = Front(@)] \in [Procs -> Seq(Scopes)]
      BY <3>1, FrontType DEF IInv, TypeOK
    <3>3. Caller(s, "clean", [kids EXCEPT ![s] = Front(@)])
      BY <3>1 DEF Caller
    <3> QED
      BY <2>1, <3>1, <3>2, <3>3, DisposeInv
  <2>3. CASE DisposerDisposes(s)
    <3>1. /\ pc[s] = "disposer" /\ target[cur[s]] \in Scopes
          /\ Dispose(s, target[cur[s]], "settle", kids)
          /\ kids \in [Procs -> Seq(Scopes)]
      BY <2>3 DEF DisposerDisposes, IInv, TypeOK, CurInv
    <3>2. Caller(s, "settle", kids)
      BY <3>1 DEF Caller
    <3> QED
      BY <2>1, <3>1, <3>2, DisposeInv
  <2> QED
    BY <1>3, <2>1, <2>2, <2>3, StartDisposerInv, FinishDisposerInv,
       FinishCleanupInv, CompleteInv, PollInv DEF CleanupTask
<1>4. ASSUME NEW p \in Scopes, NEW s \in Scopes, NewChild(p, s) PROVE IInv'
  BY <1>4, CreateInv
<1>5. ASSUME NEW s \in Scopes, NEW e \in Effects, NEW t \in Scopes \cup {None},
             AddEffect(s, e, t)
      PROVE  IInv'
  BY <1>5, AddEffectInv
<1>6. ASSUME NEW c \in Clients, Abandon(c) PROVE IInv'
  <2>1. c \in Procs /\ c \notin Scopes
    BY ConstantsAssumption DEF Procs
  <2>2. TypeOK'
    BY <1>6 DEF Abandon, IInv, TypeOK, PCs, resVars, doneVars, callVars, workVars,
       histVars
  <2>3. /\ pc'[c] = "idle" /\ \A q \in Procs \ {c} : pc'[q] = pc[q]
        /\ UNCHANGED <<state, effects, effs, ran, callVars, cur, target, reg>>
    BY <1>6, <2>1 DEF Abandon, IInv, TypeOK, resVars, workVars, histVars
  <2>4. ASSUME NEW q \in Scopes
        PROVE  /\ PhaseInv(q)'
               /\ InDisposer(q)' <=> InDisposer(q)
               /\ pc'[q] = "disposer" => pc[q] = "disposer"
    BY <2>1, <2>3 DEF IInv, PhaseInv, InDisposer, InCall, Procs, callVars
  <2>5. /\ \A k \in Clients : ClientInv(k)'
        /\ \A q \in Procs : CallInv(q)'
    BY <2>1, <2>3 DEF IInv, ClientInv, CallInv, InCall, Procs, callVars
  <2> QED
    BY <2>2, <2>3, <2>4, <2>5, MoveInv
<1>7. ASSUME NEW c \in Clients, Poll(c) PROVE IInv'
  BY <1>7, PollInv DEF Procs
<1>8. ASSUME NEW c \in Clients, NEW s \in Scopes, ClientDispose(c, s) PROVE IInv'
  <2>1. c \in Procs /\ Caller(c, "idle", kids) /\ kids \in [Procs -> Seq(Scopes)]
    BY <1>8 DEF ClientDispose, Caller, IInv, TypeOK, Procs
  <2> QED
    BY <1>8, <2>1, DisposeInv DEF ClientDispose
<1>9. CASE UNCHANGED vars
  BY <1>9 DEF IInv, TypeOK, PhaseInv, EffectInv, CurInv, InDisposer, InCall,
     ClientInv, CallInv, RegisteredOnce, vars, resVars, doneVars, callVars,
     workVars, histVars
<1> QED
  BY <1>1, <1>2, <1>3, <1>4, <1>5, <1>6, <1>7, <1>8, <1>9 DEF Next

\* In every behaviour of the scopes every variable keeps its type and IInv
\* holds.
THEOREM Invariance == Spec => []IInv
  BY InitInv, StepInv, PTL DEF Spec

\* The fields of the scopes, of their cleanup tasks and of the callers keep
\* their types, whatever the tree and however many callers there are.
THEOREM TypeCorrect == Spec => []TypeOK
<1>1. IInv => TypeOK
  BY DEF IInv
<1> QED
  BY <1>1, Invariance, PTL

\* For every tree: a Disposed scope has run all the disposers registered with
\* it, once each and in reverse order, and none is running.
THEOREM CleanupIsComplete == Spec => []CleanedWhenDisposed
<1>1. IInv => CleanedWhenDisposed
  <2> SUFFICES ASSUME IInv, NEW s \in Scopes, state[s] = "Disposed"
               PROVE  /\ ran[s] = Reverse(reg[s])
                      /\ \A p \in Procs : cur[p] \notin Range(reg[s])
    BY DEF CleanedWhenDisposed
  <2>1. /\ reg[s] \in Seq(Effects) /\ ran[s] \in Seq(Effects)
        /\ effs[s] = <<>>
        /\ Len(effs[s]) + Len(ran[s]) = Len(reg[s])
        /\ \A i \in 1 .. Len(ran[s]) : ran[s][i] = reg[s][Len(reg[s]) + 1 - i]
    BY DEF IInv, TypeOK, PhaseInv, EffectInv
  <2>2. /\ Len(effs[s]) = 0 /\ Len(ran[s]) \in Nat /\ Len(reg[s]) \in Nat
        /\ ran[s] \in [1 .. Len(ran[s]) -> Effects]
        /\ DOMAIN reg[s] = 1 .. Len(reg[s])
    BY <2>1, EmptySeq, LenProperties
  <2>3. Len(ran[s]) = Len(reg[s])
    BY <2>1, <2>2
  <2>4. ran[s] = [i \in 1 .. Len(reg[s]) |-> reg[s][(Len(reg[s]) - i) + 1]]
    <3>1. \A i \in 1 .. Len(reg[s]) :
            ran[s][i] = reg[s][(Len(reg[s]) - i) + 1]
      BY <2>1, <2>2, <2>3
    <3> QED
      BY <2>2, <2>3, <3>1
  <2>5. ASSUME NEW p \in Procs, cur[p] \in Range(reg[s]) PROVE FALSE
    <3>1. cur[p] \in Effects /\ cur[p] # None
      <4>1. PICK i \in 1 .. Len(reg[s]) : cur[p] = reg[s][i]
        BY <2>2, <2>5 DEF Range
      <4> QED
        BY <2>1, <4>1, ElementOfSeq, ConstantsAssumption
    <3>2. p \in Scopes /\ InDisposer(p)
      BY <3>1 DEF IInv, ClientInv, CurInv, Procs
    <3>3. state[p] = "Unloading"
      BY <3>2 DEF IInv, TypeOK, PhaseInv, InDisposer, InCall, ScopeStates
    <3>4. /\ ran[p] \in Seq(Effects) /\ ran[p] # <<>> /\ cur[p] = Last(ran[p])
          /\ effs[p] \in Seq(Effects) /\ reg[p] \in Seq(Effects)
          /\ Len(effs[p]) + Len(ran[p]) = Len(reg[p])
          /\ \A i \in 1 .. Len(ran[p]) :
               ran[p][i] = reg[p][Len(reg[p]) + 1 - i]
      BY <3>2, <3>3 DEF IInv, TypeOK, CurInv, EffectInv
    <3>5. /\ Len(ran[p]) \in Nat \ {0} /\ Len(effs[p]) \in Nat
          /\ Len(reg[p]) \in Nat
      BY <3>4, EmptySeq, LenProperties
    <3>6. /\ Len(ran[p]) \in 1 .. Len(ran[p])
          /\ Len(reg[p]) + 1 - Len(ran[p]) \in 1 .. Len(reg[p])
      BY <3>4, <3>5, CountBound
    <3>7. cur[p] = reg[p][Len(reg[p]) + 1 - Len(ran[p])]
      BY <3>4, <3>6 DEF Last
    <3>8. PICK i \in 1 .. Len(reg[s]) : cur[p] = reg[s][i]
      BY <2>2, <2>5 DEF Range
    <3>9. p = s
      <4>1. \A j \in 1 .. Len(reg[p]) : reg[p][j] = reg[s][i] => p = s
        BY <3>2 DEF IInv, RegisteredOnce
      <4> QED
        BY <3>6, <3>7, <3>8, <4>1
    <3> QED
      BY <3>3, <3>9
  <2> QED
    BY <2>4, <2>5 DEF Reverse
<1> QED
  BY <1>1, Invariance, PTL

-----------------------------------------------------------------------------
(***************************************************************************)
(* Children before effects, errors on the way up, and wake-ups             *)
(*                                                                         *)
(* DisposalIsOrderly speaks of a scope that has started a disposer or has  *)
(* reported a result.  The invariant says where each of its children is    *)
(* before that: still listed, being awaited, or accounted for.             *)
(***************************************************************************)
\* The cleanup of s awaits its child c.
Awaited(s, c) == InCall(s) /\ cont[s] = "clean" /\ call[s] = c

\* The cleanup of s is done with c: c reported, a failure was kept, or c is
\* itself waiting for s.
Accounted(s, c) ==
  c \in ancestors[s] \/ result[c] = "ok" \/ (result[c] = "err" /\ errs[s])

\* Where c, a child of s, is.
ChildInv(s, c) ==
  parentOf[c] = s =>
    /\ c # s /\ state[c] # "Absent" /\ state[s] # "Absent"
    /\ state[s] = "Active" => c \in Range(children[s])
    /\ state[s] = "Unloading" =>
         c \in Range(kids[s]) \/ Awaited(s, c) \/ Accounted(s, c)
    /\ state[s] = "Disposed" => Accounted(s, c)

\* No disposer of s runs while a child is left, and a result is the last word.
QuietInv(s) ==
  /\ kids[s] # <<>> \/ (InCall(s) /\ cont[s] = "clean") => ran[s] = <<>>
  /\ result[s] # "none" => pc[s] \in {"notify", "done"}
  /\ result[s] = "ok" => ~errs[s]

\* A scope remembers that one of its effects has failed.
FailedInv == \A e \in failed : \E s \in Scopes : e \in Range(reg[s]) /\ errs[s]

\* p sleeps only while its wake-up is to come.
WakeInv(p) ==
  pc[p] = "asleep" =>
    /\ result[call[p]] = "none" \/ pc[call[p]] = "notify"
    /\ p \in waiters[call[p]]
    /\ role[p] = "join" => ~IsDisposing(p, call[p])

Orderly ==
  /\ \A s, c \in Scopes : ChildInv(s, c)
  /\ \A s \in Scopes : QuietInv(s)
  /\ FailedInv
  /\ \A p \in Procs : WakeInv(p)

OInv == IInv /\ Orderly

\* The last of the children, and the others.
LEMMA FrontRange ==
  ASSUME NEW S, NEW seq \in Seq(S), seq # <<>>
  PROVE  /\ Range(seq) = Range(Front(seq)) \cup {Last(seq)}
         /\ Front(seq) \in Seq(S)
<1>1. /\ Front(seq) \in Seq(S) /\ Len(seq) \in Nat \ {0}
      /\ Len(Front(seq)) = Len(seq) - 1
      /\ \A i \in 1 .. Len(Front(seq)) : Front(seq)[i] = seq[i]
  BY FrontType
<1>2. DOMAIN seq = 1 .. Len(seq) /\ DOMAIN Front(seq) = 1 .. Len(seq) - 1
  BY <1>1, LenProperties
<1>3. \A i \in 1 .. Len(seq) : i = Len(seq) \/ i \in 1 .. Len(seq) - 1
  BY <1>1
<1>4. \A i \in 1 .. Len(seq) - 1 : i \in 1 .. Len(seq)
  BY <1>1
<1>5. Len(seq) \in 1 .. Len(seq)
  BY <1>1
<1> QED
  BY <1>1, <1>2, <1>3, <1>4, <1>5 DEF Range, Last

\* A child or an effect that is added joins the others.
LEMMA AppendRange ==
  ASSUME NEW S, NEW seq \in Seq(S), NEW e \in S
  PROVE  Range(Append(seq, e)) = Range(seq) \cup {e}
<1>1. /\ DOMAIN seq = 1 .. Len(seq) /\ DOMAIN Append(seq, e) = 1 .. Len(seq) + 1
      /\ \A i \in 1 .. Len(seq) : Append(seq, e)[i] = seq[i]
      /\ Append(seq, e)[Len(seq) + 1] = e /\ Len(seq) \in Nat
  BY AppendProperties, LenProperties
<1> QED
  BY <1>1 DEF Range

\* The effect whose disposer runs is one of the scope's own.
LEMMA CurIsRegistered ==
  ASSUME IInv, NEW s \in Scopes, InDisposer(s)
  PROVE  cur[s] \in Range(reg[s])
<1>1. state[s] = "Unloading"
  BY DEF IInv, TypeOK, PhaseInv, InDisposer, InCall, ScopeStates
<1>2. /\ ran[s] \in Seq(Effects) /\ ran[s] # <<>> /\ cur[s] = Last(ran[s])
      /\ effs[s] \in Seq(Effects) /\ reg[s] \in Seq(Effects)
      /\ Len(effs[s]) + Len(ran[s]) = Len(reg[s])
      /\ \A i \in 1 .. Len(ran[s]) : ran[s][i] = reg[s][Len(reg[s]) + 1 - i]
  BY <1>1 DEF IInv, TypeOK, CurInv, EffectInv, Procs
<1>3. /\ Len(ran[s]) \in Nat \ {0} /\ Len(effs[s]) \in Nat
      /\ Len(reg[s]) \in Nat /\ DOMAIN reg[s] = 1 .. Len(reg[s])
  BY <1>2, EmptySeq, LenProperties
<1>4. /\ Len(ran[s]) \in 1 .. Len(ran[s])
      /\ Len(reg[s]) + 1 - Len(ran[s]) \in 1 .. Len(reg[s])
  BY <1>2, <1>3, CountBound
<1>5. cur[s] = reg[s][Len(reg[s]) + 1 - Len(ran[s])]
  BY <1>2, <1>4 DEF Last
<1> QED
  BY <1>3, <1>4, <1>5 DEF Range

-----------------------------------------------------------------------------
\* A step that is not about c or s leaves c where it is.
LEMMA ChildStays ==
  ASSUME NEW s \in Scopes, NEW c \in Scopes, ChildInv(s, c),
         parentOf'[c] = parentOf[c], state'[s] = state[s],
         state[c] # "Absent" => state'[c] # "Absent",
         Range(children[s]) \subseteq Range(children'[s]), kids'[s] = kids[s],
         Awaited(s, c) => Awaited(s, c)', Accounted(s, c) => Accounted(s, c)'
  PROVE  ChildInv(s, c)'
BY DEF ChildInv

\* A failure is not forgotten.
LEMMA FailedStays ==
  ASSUME FailedInv, failed' = failed, \A s \in Scopes : errs[s] => errs'[s],
         \A s \in Scopes : Range(reg[s]) \subseteq Range(reg'[s])
  PROVE  FailedInv'
BY DEF FailedInv

\* A process that moves, and does not go to sleep, leaves the sleepers alone.
LEMMA WakeStays ==
  ASSUME OInv, NEW p \in Procs, pc[p] # "notify", pc'[p] # "asleep",
         \A q \in Procs \ {p} : pc'[q] = pc[q] /\ call'[q] = call[q] /\ role'[q] = role[q],
         UNCHANGED <<result, waiters, ancestors>>
  PROVE  \A q \in Procs : WakeInv(q)'
<1> SUFFICES ASSUME NEW q \in Procs, pc'[q] = "asleep" PROVE WakeInv(q)'
  BY DEF WakeInv
<1>1. q # p /\ pc[q] = "asleep" /\ call'[q] = call[q] /\ role'[q] = role[q]
  OBVIOUS
<1>2. WakeInv(q) /\ call[q] \in Scopes /\ call[q] \in Procs
  BY <1>1 DEF OInv, Orderly, IInv, CallInv, InCall, Procs
<1>3. result[call[q]] = "none" \/ pc'[call[q]] = "notify"
  BY <1>1, <1>2 DEF WakeInv
<1> QED
  BY <1>1, <1>2, <1>3 DEF WakeInv, IsDisposing, Disposing

\* A cleanup that is done with a child stays so.
LEMMA AccountedStays ==
  ASSUME NEW s \in Scopes, NEW c \in Scopes, Accounted(s, c),
         ancestors[s] \subseteq ancestors'[s], errs[s] => errs'[s],
         result[c] # "none" => result'[c] = result[c]
  PROVE  Accounted(s, c)'
BY DEF Accounted

\* What holds of the callers of Scope::dispose, and of the list of children
\* that dispose_resources has left.
DisposeCall(p, s, after, left) ==
  \/ p \in Clients /\ pc[p] = "idle" /\ after = "idle" /\ left = kids
  \/ /\ p \in Scopes /\ pc[p] = "clean" /\ after = "clean" /\ kids[p] # <<>>
     /\ s = Last(kids[p]) /\ left = [kids EXCEPT ![p] = Front(@)]
  \/ p \in Scopes /\ pc[p] = "disposer" /\ after = "settle" /\ left = kids

\* Of the children that are left the one that is being disposed is gone.
LeftInv(p, s, after, left) ==
  /\ left \in [Procs -> Seq(Scopes)]
  /\ \A q \in Procs : q # p => left[q] = kids[q]
  /\ \A q \in Procs : left[q] # <<>> => kids[q] # <<>>
  /\ \A q \in Scopes : \A c \in Range(kids[q]) :
       c \in Range(left[q]) \/ (q = p /\ after = "clean" /\ c = s)
  /\ after \in {"idle", "clean", "settle"}
  /\ pc[p] \in {"idle", "clean", "disposer"}
  /\ p \in Scopes => state[p] = "Unloading" /\ ~InCall(p)
  /\ after = "clean" => p \in Scopes /\ ran[p] = <<>>

\* A cleanup that disposes a child has started no disposer yet.
LEMMA DisposeCallFacts ==
  ASSUME OInv, NEW p \in Procs, NEW s \in Scopes, NEW after, NEW left,
         DisposeCall(p, s, after, left)
  PROVE  LeftInv(p, s, after, left)
<1> USE DEF OInv, Orderly, LeftInv
<1>1. kids \in [Procs -> Seq(Scopes)]
  BY DEF IInv, TypeOK
<1>2. p \in Scopes => state[p] = "Unloading" /\ ~InCall(p)
  BY ConstantsAssumption DEF DisposeCall, IInv, TypeOK, ScopeStates, PhaseInv, InCall
<1>3. CASE left = kids /\ after # "clean"
  BY <1>1, <1>2, <1>3 DEF DisposeCall, Procs
<1>4. CASE /\ p \in Scopes /\ pc[p] = "clean" /\ after = "clean" /\ kids[p] # <<>>
           /\ s = Last(kids[p]) /\ left = [kids EXCEPT ![p] = Front(@)]
  <2>1. Range(kids[p]) = Range(Front(kids[p])) \cup {s} /\ Front(kids[p]) \in Seq(Scopes)
    BY <1>1, <1>4, FrontRange
  <2>2. left[p] = Front(kids[p]) /\ left \in [Procs -> Seq(Scopes)]
        /\ \A q \in Procs : q # p => left[q] = kids[q]
    BY <1>1, <1>4, <2>1
  <2>3. ran[p] = <<>>
    BY <1>4 DEF QuietInv
  <2> QED
    BY <1>2, <1>4, <2>1, <2>2, <2>3 DEF Procs
<1> QED
  BY <1>3, <1>4 DEF DisposeCall

-----------------------------------------------------------------------------
\* claim_disposal turns the children of s into the ones its cleanup has to
\* dispose, and wakes whoever now waits for itself.
LEMMA ClaimOrderly ==
  ASSUME OInv, NEW p \in Procs, NEW s \in Scopes, NEW after, NEW left,
         DisposeCall(p, s, after, left), Claim(p, s, after, left)
  PROVE  Orderly'
<1>1. /\ left \in [Procs -> Seq(Scopes)]
      /\ \A q \in Procs : q # p => left[q] = kids[q]
      /\ \A q \in Procs : left[q] # <<>> => kids[q] # <<>>
      /\ \A q \in Scopes : \A c \in Range(kids[q]) :
           c \in Range(left[q]) \/ (q = p /\ after = "clean" /\ c = s)
      /\ pc[p] \in {"idle", "clean", "disposer"}
      /\ p \in Scopes => state[p] = "Unloading" /\ ~InCall(p)
      /\ after = "clean" => p \in Scopes /\ ran[p] = <<>>
  <2>1. LeftInv(p, s, after, left)
    BY DisposeCallFacts
  <2> QED
    BY <2>1 DEF LeftInv
<1> USE DEF OInv, Orderly
<1>2. /\ s \in Procs /\ state[s] = "Active" /\ pc[s] = "idle" /\ p # s
      /\ ran[s] = <<>> /\ result[s] = "none"
  <2>1. state[s] = "Active" /\ pc[s] = "idle" /\ s \in Procs
    BY DEF Claim, IInv, PhaseInv, Procs
  <2>2. p # s /\ ran[s] = <<>> /\ result[s] = "none"
    BY <1>1, <2>1 DEF IInv, EffectInv, QuietInv
  <2> QED
    BY <2>1, <2>2
<1>3. /\ state'[s] = "Unloading" /\ \A q \in Scopes \ {s} : state'[q] = state[q]
      /\ kids'[s] = children[s] /\ \A q \in Procs \ {s} : kids'[q] = left[q]
      /\ \A q \in Scopes \ {s} : children'[q] = children[q]
      /\ call'[p] = s /\ cont'[p] = after
      /\ \A q \in Procs \ {p} : call'[q] = call[q] /\ cont'[q] = cont[q] /\ role'[q] = role[q]
      /\ result' = result /\ waiters' = waiters /\ errs' = errs
      /\ parentOf' = parentOf /\ reg' = reg /\ ran' = ran /\ failed' = failed
  BY <1>1, <1>2 DEF Claim, TakeResources, IInv, TypeOK, doneVars, histVars
<1>4. /\ pc'[s] = "clean" /\ pc'[p] = "poll"
      /\ \A q \in Procs \ {p, s} :
           pc'[q] = pc[q] \/ (pc[q] = "asleep" /\ pc'[q] = "poll")
      /\ \A q \in Scopes : pc'[q] = "asleep" => ancestors'[q] = ancestors[q]
  BY <1>2 DEF Claim, Wake, GrownContexts, IInv, TypeOK, Procs
<1>5. \A q \in Scopes : ancestors[q] \subseteq ancestors'[q]
  BY DEF Claim, ContextsAfterClaim
<1>6. ASSUME NEW q \in Scopes, NEW c \in Scopes PROVE ChildInv(q, c)'
  <2>0. q \in Procs
    BY DEF Procs
  <2>1. Accounted(q, c) => Accounted(q, c)'
    BY <1>3, <1>5, AccountedStays
  <2>2. state[c] # "Absent" => state'[c] # "Absent"
    BY <1>3
  <2>3. CASE q = s
    BY <1>2, <1>3, <2>2, <2>3 DEF ChildInv
  <2>4. CASE q = p
    <3>1. state'[q] = "Unloading" /\ state[q] = "Unloading" /\ ~InCall(q)
      BY <1>1, <1>2, <1>3, <2>4
    <3>2. c = s /\ after = "clean" => Awaited(q, c)'
      BY <1>3, <1>4, <2>4 DEF Awaited, InCall
    <3>3. c \in Range(kids[q]) => c \in Range(kids'[q]) \/ (c = s /\ after = "clean")
      BY <1>1, <1>2, <1>3, <2>0, <2>4
    <3> QED
      BY <1>3, <2>1, <2>2, <3>1, <3>2, <3>3 DEF ChildInv, Awaited
  <2>5. CASE q # s /\ q # p
    <3>1. kids'[q] = kids[q] /\ state'[q] = state[q] /\ children'[q] = children[q]
      BY <1>1, <1>3, <2>0, <2>5
    <3>2. Awaited(q, c) => Awaited(q, c)'
      BY <1>3, <1>4, <2>0, <2>5 DEF Awaited, InCall
    <3> QED
      BY <1>3, <2>1, <2>2, <3>1, <3>2, ChildStays
  <2> QED
    BY <2>3, <2>4, <2>5
<1>7. ASSUME NEW q \in Scopes PROVE QuietInv(q)'
  <2>0. q \in Procs
    BY DEF Procs
  <2>1. CASE q = s
    BY <1>2, <1>3, <1>4, <2>1 DEF QuietInv
  <2>2. CASE q = p
    <3>1. result[q] = "none"
      BY <1>1, <2>2 DEF QuietInv
    <3>2. kids'[q] # <<>> => ran[q] = <<>>
      BY <1>1, <1>2, <1>3, <2>0, <2>2 DEF QuietInv
    <3> QED
      BY <1>1, <1>3, <2>2, <3>1, <3>2 DEF QuietInv
  <2>3. CASE q # s /\ q # p
    <3>1. kids'[q] = kids[q] /\ cont'[q] = cont[q] /\ (InCall(q)' => InCall(q))
      BY <1>1, <1>3, <1>4, <2>0, <2>3 DEF InCall
    <3>2. pc[q] \in {"notify", "done"} => pc'[q] = pc[q]
      BY <1>4, <2>0, <2>3
    <3> QED
      BY <1>3, <3>1, <3>2 DEF QuietInv
  <2> QED
    BY <2>1, <2>2, <2>3
<1>8. FailedInv'
  BY <1>3, FailedStays
<1>9. ASSUME NEW q \in Procs PROVE WakeInv(q)'
  <2> SUFFICES ASSUME pc'[q] = "asleep" PROVE WakeInv(q)'
    BY DEF WakeInv
  <2>1. q # p /\ q # s /\ pc[q] = "asleep" /\ call'[q] = call[q] /\ role'[q] = role[q]
    BY <1>3, <1>4
  <2>2. WakeInv(q) /\ call[q] \in Scopes /\ call[q] \in Procs
    BY <2>1 DEF IInv, CallInv, InCall, Procs
  <2>3. pc[call[q]] = "notify" => pc'[call[q]] = "notify"
    BY <1>1, <1>2, <1>4, <2>2
  <2>4. IsDisposing(q, call[q])' <=> IsDisposing(q, call[q])
    BY <1>4, <2>1 DEF IsDisposing, Disposing
  <2> QED
    BY <1>3, <2>1, <2>2, <2>3, <2>4 DEF WakeInv
<1> QED
  BY <1>6, <1>7, <1>8, <1>9

\* A caller that joins, or finds itself part of the cleanup, leaves the order
\* alone: a child it does not wait for waits for it.
LEMMA JoinOrderly ==
  ASSUME OInv, NEW p \in Procs, NEW s \in Scopes, NEW after, NEW left,
         DisposeCall(p, s, after, left),
         Join(p, s, after, left) \/ JoinReentrant(p, s, after, left)
  PROVE  Orderly'
<1>1. /\ left \in [Procs -> Seq(Scopes)]
      /\ \A q \in Procs : q # p => left[q] = kids[q]
      /\ \A q \in Procs : left[q] # <<>> => kids[q] # <<>>
      /\ \A q \in Scopes : \A c \in Range(kids[q]) :
           c \in Range(left[q]) \/ (q = p /\ after = "clean" /\ c = s)
      /\ pc[p] \in {"idle", "clean", "disposer"}
      /\ p \in Scopes => state[p] = "Unloading" /\ ~InCall(p)
      /\ after = "clean" => p \in Scopes /\ ran[p] = <<>>
  <2>1. LeftInv(p, s, after, left)
    BY DisposeCallFacts
  <2> QED
    BY <2>1 DEF LeftInv
<1>0. after \in {"idle", "clean", "settle"}
  BY DEF DisposeCall
<1> USE DEF OInv, Orderly
<1>2. /\ kids' = left /\ state' = state /\ children' = children /\ ancestors' = ancestors
      /\ result' = result /\ waiters' = waiters /\ errs' = errs
      /\ parentOf' = parentOf /\ reg' = reg /\ ran' = ran /\ failed' = failed
      /\ \A q \in Procs \ {p} : /\ pc'[q] = pc[q] /\ call'[q] = call[q]
                                /\ cont'[q] = cont[q] /\ role'[q] = role[q]
  BY DEF Join, JoinReentrant, IInv, TypeOK, resVars, doneVars, callVars, histVars
<1>3. \/ pc'[p] = "inherit" /\ call'[p] = s /\ cont'[p] = after
      \/ pc'[p] = after /\ s \in Disposing(p)
  BY DEF Join, JoinReentrant, IsDisposing, IInv, TypeOK
<1>4. ASSUME NEW q \in Scopes, NEW c \in Scopes PROVE ChildInv(q, c)'
  <2>0. q \in Procs
    BY DEF Procs
  <2>1. Accounted(q, c) => Accounted(q, c)'
    BY <1>2 DEF Accounted
  <2>2. CASE q = p
    <3>1. state[q] = "Unloading" /\ ~InCall(q)
      BY <1>1, <2>2
    <3>2. c = s /\ after = "clean" /\ c # q => Awaited(q, c)' \/ Accounted(q, c)'
      BY <1>2, <1>3, <2>2 DEF Awaited, InCall, Accounted, Disposing
    <3>3. c \in Range(kids[q]) => c \in Range(kids'[q]) \/ (c = s /\ after = "clean")
      BY <1>1, <1>2, <2>2
    <3> QED
      BY <1>2, <2>1, <3>1, <3>2, <3>3 DEF ChildInv, Awaited
  <2>3. CASE q # p
    <3>1. kids'[q] = kids[q] /\ (Awaited(q, c) => Awaited(q, c)')
      BY <1>1, <1>2, <2>0, <2>3 DEF Awaited, InCall
    <3> QED
      BY <1>2, <2>1, <3>1, ChildStays
  <2> QED
    BY <2>2, <2>3
<1>5. ASSUME NEW q \in Scopes PROVE QuietInv(q)'
  <2>0. q \in Procs
    BY DEF Procs
  <2>1. CASE q = p
    <3>1. result[q] = "none"
      BY <1>1, <2>1 DEF QuietInv
    <3>2. kids'[q] # <<>> => ran[q] = <<>>
      BY <1>1, <1>2, <2>0, <2>1 DEF QuietInv
    <3>3. InCall(q)' /\ cont'[q] = "clean" => ran[q] = <<>>
      BY <1>0, <1>1, <1>3, <2>1 DEF InCall
    <3> QED
      BY <1>2, <3>1, <3>2, <3>3 DEF QuietInv
  <2>2. CASE q # p
    BY <1>1, <1>2, <2>0, <2>2 DEF QuietInv, InCall
  <2> QED
    BY <2>1, <2>2
<1>6. FailedInv'
  BY <1>2, FailedStays
<1>7. \A q \in Procs : WakeInv(q)'
  <2>1. pc'[p] # "asleep" /\ pc[p] # "notify"
    BY <1>0, <1>1, <1>3
  <2> QED
    BY <1>2, <2>1, WakeStays
<1> QED
  BY <1>4, <1>5, <1>6, <1>7

\* Scope::dispose keeps the order, whoever calls it.
LEMMA DisposeOrderly ==
  ASSUME OInv, NEW p \in Procs, NEW s \in Scopes, NEW after, NEW left,
         DisposeCall(p, s, after, left), Dispose(p, s, after, left)
  PROVE  Orderly'
BY ClaimOrderly, JoinOrderly DEF Dispose

\* inherit_ancestors wakes the sleepers whose context has grown.
LEMMA InheritOrderly ==
  ASSUME OInv, NEW p \in Procs, InheritAncestors(p)
  PROVE  Orderly'
<1> USE DEF OInv, Orderly
<1>1. /\ pc[p] = "inherit" /\ pc'[p] = "poll"
      /\ \A q \in Procs \ {p} :
           pc'[q] = pc[q] \/ (pc[q] = "asleep" /\ pc'[q] = "poll")
      /\ \A q \in Scopes : pc'[q] = "asleep" => ancestors'[q] = ancestors[q]
  BY DEF InheritAncestors, Wake, GrownContexts, IInv, TypeOK, Procs
<1>2. \A q \in Scopes : ancestors[q] \subseteq ancestors'[q]
  BY DEF InheritAncestors, IInv, TypeOK
<1>3. UNCHANGED <<state, children, result, waiters, cont, call, role, kids, errs,
                  parentOf, reg, ran, failed>>
  BY DEF InheritAncestors, resVars, doneVars, callVars, workVars, histVars
<1>4. \A q \in Procs : InCall(q)' <=> InCall(q)
  BY <1>1 DEF InCall
<1>5. ASSUME NEW q \in Scopes, NEW c \in Scopes PROVE ChildInv(q, c)'
  <2>1. Accounted(q, c) => Accounted(q, c)'
    BY <1>2, <1>3, AccountedStays
  <2>2. Awaited(q, c) => Awaited(q, c)'
    BY <1>3, <1>4 DEF Awaited, Procs
  <2> QED
    BY <1>3, <2>1, <2>2, ChildStays
<1>6. ASSUME NEW q \in Scopes PROVE QuietInv(q)'
  BY <1>1, <1>3, <1>4 DEF QuietInv, Procs
<1>7. FailedInv'
  BY <1>3, FailedStays
<1>8. ASSUME NEW q \in Procs PROVE WakeInv(q)'
  <2> SUFFICES ASSUME pc'[q] = "asleep" PROVE WakeInv(q)'
    BY DEF WakeInv
  <2>1. pc[q] = "asleep"
    BY <1>1
  <2>2. WakeInv(q) /\ call[q] \in Scopes /\ call[q] \in Procs
    BY <2>1 DEF IInv, CallInv, InCall, Procs
  <2>3. pc[call[q]] = "notify" => pc'[call[q]] = "notify"
    BY <1>1, <2>2
  <2>4. IsDisposing(q, call[q])' <=> IsDisposing(q, call[q])
    BY <1>1, <1>3 DEF IsDisposing, Disposing
  <2> QED
    BY <1>3, <2>1, <2>2, <2>3, <2>4 DEF WakeInv
<1> QED
  BY <1>5, <1>6, <1>7, <1>8

\* A poll that ends a wait accounts for the child that was awaited: its result
\* is taken, or it waits for this very cleanup.
LEMMA ReturnOrderly ==
  ASSUME OInv, NEW p \in Procs, PollReentrant(p) \/ PollReady(p)
  PROVE  Orderly'
<1> USE DEF OInv, Orderly
<1>1. /\ pc[p] = "poll" /\ pc'[p] = cont[p] /\ cont[p] \in {"idle", "clean", "settle"}
      /\ \A q \in Procs \ {p} : pc'[q] = pc[q] /\ errs'[q] = errs[q]
      /\ UNCHANGED <<state, children, ancestors, result, waiters, cont, call, role,
                     kids, parentOf, reg, ran, failed>>
  BY DEF PollReentrant, PollReady, MustWait, IInv, TypeOK, resVars, doneVars, callVars,
     workVars, histVars
<1>2. errs[p] => errs'[p]
  BY DEF PollReentrant, PollReady, IInv, TypeOK, workVars
<1>3. call[p] \in Scopes
  BY <1>1 DEF IInv, CallInv, InCall
<1>4. \/ call[p] \in Disposing(p)
      \/ result[call[p]] # "none" /\ (cont[p] = "clean" /\ result[call[p]] = "err" => errs'[p])
  BY DEF PollReentrant, PollReady, IsDisposing, ChildFailed, IInv, TypeOK
<1>5. \A q \in Procs : errs[q] => errs'[q]
  BY <1>1, <1>2
<1>6. ASSUME NEW q \in Scopes, NEW c \in Scopes PROVE ChildInv(q, c)'
  <2>0. q \in Procs
    BY DEF Procs
  <2>1. Accounted(q, c) => Accounted(q, c)'
    BY <1>1, <1>5, <2>0, AccountedStays
  <2>2. CASE q # p
    <3>1. Awaited(q, c) => Awaited(q, c)'
      BY <1>1, <2>0, <2>2 DEF Awaited, InCall
    <3> QED
      BY <1>1, <2>1, <3>1, ChildStays
  <2>3. CASE q = p
    <3>1. Awaited(q, c) /\ c # q => Accounted(q, c)'
      <4>1. CASE call[p] \in Disposing(p)
        BY <1>1, <2>3, <4>1 DEF Awaited, Accounted, Disposing
      <4>2. CASE result[call[p]] # "none" /\ (cont[p] = "clean" /\ result[call[p]] = "err" => errs'[p])
        <5>1. result[call[p]] \in {"ok", "err"}
          BY <1>3, <4>2 DEF IInv, TypeOK
        <5> QED
          BY <1>1, <2>3, <4>2, <5>1 DEF Awaited, Accounted
      <4> QED
        BY <1>4, <4>1, <4>2
    <3> QED
      BY <1>1, <2>1, <3>1 DEF ChildInv
  <2> QED
    BY <2>2, <2>3
<1>7. ASSUME NEW q \in Scopes PROVE QuietInv(q)'
  <2>0. q \in Procs
    BY DEF Procs
  <2>1. CASE q # p
    BY <1>1, <2>0, <2>1 DEF QuietInv, InCall
  <2>2. CASE q = p
    <3>1. result[q] = "none"
      BY <1>1, <2>2 DEF QuietInv
    <3> QED
      BY <1>1, <2>2, <3>1 DEF QuietInv, InCall
  <2> QED
    BY <2>1, <2>2
<1>8. FailedInv'
  <2>1. \A q \in Scopes : errs[q] => errs'[q]
    BY <1>5 DEF Procs
  <2> QED
    BY <1>1, <2>1, FailedStays
<1>9. \A q \in Procs : WakeInv(q)'
  BY <1>1, WakeStays
<1> QED
  BY <1>6, <1>7, <1>8, <1>9

\* A poll that finds no result leaves its waker behind before it sleeps.
LEMMA PendingOrderly ==
  ASSUME OInv, NEW p \in Procs, PollPending(p)
  PROVE  Orderly'
<1> USE DEF OInv, Orderly
<1>1. /\ pc[p] = "poll" /\ pc'[p] = "asleep" /\ \A q \in Procs \ {p} : pc'[q] = pc[q]
      /\ UNCHANGED <<state, children, ancestors, result, cont, call, role, kids, errs,
                     parentOf, reg, ran, failed>>
  BY DEF PollPending, MustWait, IInv, TypeOK, resVars, callVars, workVars, histVars
<1>2. call[p] \in Scopes
  BY <1>1 DEF IInv, CallInv, InCall
<1>3. /\ p \in waiters'[call[p]] /\ \A s \in Scopes : waiters[s] \subseteq waiters'[s]
      /\ result[call[p]] = "none" /\ (role[p] = "join" => ~IsDisposing(p, call[p]))
  BY <1>2 DEF PollPending, RegisterWaker, MustWait, IInv, TypeOK
<1>4. \A q \in Procs : InCall(q)' <=> InCall(q)
  BY <1>1 DEF InCall
<1>5. ASSUME NEW q \in Scopes, NEW c \in Scopes PROVE ChildInv(q, c)'
  <2>1. (Accounted(q, c) => Accounted(q, c)') /\ (Awaited(q, c) => Awaited(q, c)')
    BY <1>1, <1>4 DEF Accounted, Awaited, Procs
  <2> QED
    BY <1>1, <2>1, ChildStays
<1>6. ASSUME NEW q \in Scopes PROVE QuietInv(q)'
  BY <1>1, <1>4 DEF QuietInv, Procs
<1>7. FailedInv'
  BY <1>1, FailedStays
<1>8. ASSUME NEW q \in Procs PROVE WakeInv(q)'
  <2>1. CASE q = p
    BY <1>1, <1>3, <2>1 DEF WakeInv, IsDisposing, Disposing
  <2>2. CASE q # p
    <3> SUFFICES ASSUME pc[q] = "asleep" PROVE WakeInv(q)'
      BY <1>1, <2>2 DEF WakeInv
    <3>1. WakeInv(q) /\ call[q] \in Scopes /\ call[q] \in Procs
      BY DEF IInv, CallInv, InCall, Procs
    <3>2. pc[call[q]] = "notify" => pc'[call[q]] = "notify"
      BY <1>1, <3>1
    <3> QED
      BY <1>1, <1>3, <2>2, <3>1, <3>2 DEF WakeInv, IsDisposing, Disposing
  <2> QED
    BY <2>1, <2>2
<1> QED
  BY <1>5, <1>6, <1>7, <1>8

\* A scope is new when it becomes somebody's child, and its parent is open.
LEMMA CreateOrderly ==
  ASSUME OInv, NEW s \in Scopes, NewRoot(s) \/ \E p \in Scopes : NewChild(p, s)
  PROVE  Orderly'
<1> USE DEF OInv, Orderly
<1>1. /\ state[s] = "Absent" /\ state'[s] = "Active"
      /\ \A q \in Scopes \ {s} : state'[q] = state[q] /\ parentOf'[q] = parentOf[q]
      /\ UNCHANGED <<ancestors, result, waiters, pc, cont, call, role, kids, errs,
                     reg, ran, failed>>
  BY DEF NewRoot, NewChild, IInv, TypeOK, resVars, doneVars, callVars, workVars, histVars
<1>2. /\ \A q \in Scopes : Range(children[q]) \subseteq Range(children'[q])
      /\ \A q \in Scopes : parentOf'[s] = q /\ parentOf[s] # q =>
           state[q] = "Active" /\ s \in Range(children'[q])
  <2>1. CASE NewRoot(s)
    BY <2>1 DEF NewRoot, resVars, histVars
  <2>2. ASSUME NEW p \in Scopes, NewChild(p, s)
        PROVE  /\ Range(children'[p]) = Range(children[p]) \cup {s}
               /\ \A q \in Scopes \ {p} : children'[q] = children[q]
               /\ parentOf'[s] = p /\ state[p] = "Active"
    <3>1. children[p] \in Seq(Scopes) /\ children'[p] = Append(children[p], s)
      BY <2>2 DEF NewChild, IInv, TypeOK
    <3>2. Range(children'[p]) = Range(children[p]) \cup {s}
      BY <3>1, AppendRange
    <3> QED
      BY <2>2, <3>2 DEF NewChild, IInv, TypeOK
  <2>3. CASE \E p \in Scopes : NewChild(p, s)
    BY <2>2, <2>3
  <2> QED
    BY <2>1, <2>3
<1>4. ASSUME NEW q \in Scopes, NEW c \in Scopes PROVE ChildInv(q, c)'
  <2>1. (Accounted(q, c) => Accounted(q, c)') /\ (Awaited(q, c) => Awaited(q, c)')
    BY <1>1 DEF Accounted, Awaited, InCall
  <2>2. CASE parentOf[c] = q
    <3>1. q # s /\ c # s
      BY <1>1, <2>2 DEF ChildInv
    <3> QED
      BY <1>1, <1>2, <2>1, <3>1, ChildStays
  <2>3. CASE parentOf[c] # q /\ parentOf'[c] = q
    BY <1>1, <1>2, <2>3 DEF ChildInv
  <2> QED
    BY <2>2, <2>3 DEF ChildInv
<1>5. ASSUME NEW q \in Scopes PROVE QuietInv(q)'
  BY <1>1 DEF QuietInv, InCall
<1>6. FailedInv'
  BY <1>1, FailedStays
<1>7. ASSUME NEW q \in Procs PROVE WakeInv(q)'
  BY <1>1 DEF WakeInv, IsDisposing, Disposing
<1> QED
  BY <1>4, <1>5, <1>6, <1>7

\* Registering an effect and cancelling a token are no concern of the order.
LEMMA AsideOrderly ==
  ASSUME OInv,
         \/ \E s \in Scopes : CancelToken(s)
         \/ \E s \in Scopes, e \in Effects, t \in Scopes \cup {None} : AddEffect(s, e, t)
         \/ UNCHANGED vars
  PROVE  Orderly'
<1> USE DEF OInv, Orderly
<1>1. UNCHANGED <<state, children, ancestors, result, waiters, pc, cont, call, role,
                  kids, errs, parentOf, ran, failed>>
  BY DEF CancelToken, AddEffect, vars, resVars, doneVars, callVars, workVars, histVars
<1>2. \A q \in Scopes : Range(reg[q]) \subseteq Range(reg'[q])
  <2>1. ASSUME NEW s \in Scopes, NEW e \in Effects, NEW t, AddEffect(s, e, t)
        PROVE  \A q \in Scopes : Range(reg[q]) \subseteq Range(reg'[q])
    BY <2>1, AppendRange DEF AddEffect, IInv, TypeOK
  <2> QED
    BY <2>1 DEF CancelToken, vars, histVars
<1>3. ASSUME NEW q \in Scopes, NEW c \in Scopes PROVE ChildInv(q, c)'
  BY <1>1 DEF ChildInv, Accounted, Awaited, InCall
<1>4. ASSUME NEW q \in Scopes PROVE QuietInv(q)'
  BY <1>1 DEF QuietInv, InCall
<1>5. FailedInv'
  BY <1>1, <1>2, FailedStays
<1>6. ASSUME NEW q \in Procs PROVE WakeInv(q)'
  BY <1>1 DEF WakeInv, IsDisposing, Disposing
<1> QED
  BY <1>3, <1>4, <1>5, <1>6

\* A client that stops waiting leaves the order alone.
LEMMA AbandonOrderly ==
  ASSUME OInv, NEW p \in Clients, Abandon(p)
  PROVE  Orderly'
<1> USE DEF OInv, Orderly
<1>1. /\ p \in Procs /\ p \notin Scopes /\ pc[p] # "notify" /\ pc'[p] = "idle"
      /\ \A q \in Procs \ {p} : pc'[q] = pc[q]
      /\ UNCHANGED <<state, children, ancestors, result, waiters, cont, call, role,
                     kids, errs, parentOf, reg, ran, failed>>
  BY ConstantsAssumption
  DEF Abandon, Procs, IInv, TypeOK, resVars, doneVars, callVars, workVars, histVars
<1>2. \A q \in Scopes : q \in Procs /\ q # p /\ pc'[q] = pc[q]
  BY <1>1 DEF Procs
<1>3. ASSUME NEW q \in Scopes, NEW c \in Scopes PROVE ChildInv(q, c)'
  BY <1>1, <1>2 DEF ChildInv, Accounted, Awaited, InCall
<1>4. ASSUME NEW q \in Scopes PROVE QuietInv(q)'
  BY <1>1, <1>2 DEF QuietInv, InCall
<1>5. FailedInv'
  BY <1>1, FailedStays
<1>6. \A q \in Procs : WakeInv(q)'
  BY <1>1, WakeStays
<1> QED
  BY <1>3, <1>4, <1>5, <1>6

\* A disposer starts when no child is left.
LEMMA StartOrderly ==
  ASSUME OInv, NEW s \in Scopes, StartDisposer(s, s)
  PROVE  Orderly'
<1> USE DEF OInv, Orderly
<1>1. /\ s \in Procs /\ pc[s] = "clean" /\ kids[s] = <<>> /\ pc'[s] \in {"settle", "disposer"}
      /\ \A q \in Procs \ {s} : pc'[q] = pc[q]
      /\ \A q \in Scopes \ {s} : ran'[q] = ran[q]
      /\ UNCHANGED <<state, children, ancestors, result, waiters, cont, call, role,
                     kids, errs, parentOf, reg, failed>>
  BY DEF StartDisposer, Procs, IInv, TypeOK, resVars, doneVars, callVars
<1>2. ASSUME NEW q \in Scopes, NEW c \in Scopes PROVE ChildInv(q, c)'
  <2>1. (Accounted(q, c) => Accounted(q, c)') /\ (Awaited(q, c) => Awaited(q, c)')
    BY <1>1 DEF Accounted, Awaited, InCall, Procs
  <2> QED
    BY <1>1, <2>1, ChildStays
<1>3. ASSUME NEW q \in Scopes PROVE QuietInv(q)'
  BY <1>1 DEF QuietInv, InCall, Procs
<1>4. FailedInv'
  BY <1>1, FailedStays
<1>5. \A q \in Procs : WakeInv(q)'
  BY <1>1, WakeStays
<1> QED
  BY <1>2, <1>3, <1>4, <1>5

\* The error of a disposer is kept by the scope that owns it.
LEMMA FinishOrderly ==
  ASSUME OInv, NEW s \in Scopes, FinishDisposer(s)
  PROVE  Orderly'
<1> USE DEF OInv, Orderly
<1>1. /\ s \in Procs /\ pc[s] = "settle" /\ pc'[s] = "clean"
      /\ \A q \in Procs \ {s} : pc'[q] = pc[q] /\ errs'[q] = errs[q]
      /\ UNCHANGED <<state, children, ancestors, result, waiters, cont, call, role,
                     kids, parentOf, reg, ran>>
  BY DEF FinishDisposer, Procs, IInv, TypeOK, resVars, doneVars, callVars
<1>2. /\ errs[s] => errs'[s]
      /\ failed' = failed \/ (errs'[s] /\ failed' = failed \cup {cur[s]})
  BY <1>1 DEF FinishDisposer, IInv, TypeOK
<1>3. cur[s] \in Range(reg[s])
  BY <1>1, CurIsRegistered DEF InDisposer
<1>4. \A q \in Scopes : errs[q] => errs'[q]
  BY <1>1, <1>2 DEF Procs
<1>5. ASSUME NEW q \in Scopes, NEW c \in Scopes PROVE ChildInv(q, c)'
  <2>1. Accounted(q, c) => Accounted(q, c)'
    BY <1>1, <1>4, AccountedStays
  <2>2. Awaited(q, c) => Awaited(q, c)'
    BY <1>1 DEF Awaited, InCall, Procs
  <2> QED
    BY <1>1, <2>1, <2>2, ChildStays
<1>6. ASSUME NEW q \in Scopes PROVE QuietInv(q)'
  <2>1. CASE q = s
    BY <1>1, <2>1 DEF QuietInv, InCall
  <2>2. CASE q # s
    BY <1>1, <2>2 DEF QuietInv, InCall, Procs
  <2> QED
    BY <2>1, <2>2
<1>7. FailedInv'
  <2>1. CASE failed' = failed
    BY <1>1, <1>4, <2>1, FailedStays
  <2>2. CASE errs'[s] /\ failed' = failed \cup {cur[s]}
    BY <1>1, <1>3, <1>4, <2>2 DEF FailedInv
  <2> QED
    BY <1>2, <2>1, <2>2
<1>8. \A q \in Procs : WakeInv(q)'
  BY <1>1, WakeStays
<1> QED
  BY <1>5, <1>6, <1>7, <1>8

\* A scope is Disposed when all its children are accounted for.
LEMMA FinishCleanupOrderly ==
  ASSUME OInv, NEW s \in Scopes, FinishCleanup(s)
  PROVE  Orderly'
<1> USE DEF OInv, Orderly
<1>1. /\ s \in Procs /\ pc[s] = "clean" /\ pc'[s] = "publish" /\ kids[s] = <<>>
      /\ state'[s] = "Disposed" /\ \A q \in Scopes \ {s} : state'[q] = state[q]
      /\ \A q \in Procs \ {s} : pc'[q] = pc[q]
      /\ UNCHANGED <<children, ancestors, result, waiters, cont, call, role, errs,
                     kids, parentOf, reg, ran, failed>>
  BY DEF FinishCleanup, Procs, IInv, TypeOK, resVars, doneVars, callVars, workVars, histVars
<1>2. state[s] = "Unloading" /\ Range(kids[s]) = {}
  <2>1. state[s] = "Unloading"
    BY <1>1 DEF IInv, TypeOK, PhaseInv, ScopeStates
  <2>2. Range(kids[s]) = {}
    BY <1>1, EmptySeq DEF Range
  <2> QED
    BY <2>1, <2>2
<1>3. ASSUME NEW q \in Scopes, NEW c \in Scopes PROVE ChildInv(q, c)'
  <2>1. Accounted(q, c)' <=> Accounted(q, c)
    BY <1>1 DEF Accounted
  <2>2. CASE q = s
    BY <1>1, <1>2, <2>1, <2>2 DEF ChildInv, Awaited, InCall
  <2>3. CASE q # s
    <3>1. Awaited(q, c) => Awaited(q, c)'
      BY <1>1, <2>3 DEF Awaited, InCall, Procs
    <3> QED
      BY <1>1, <2>1, <2>3, <3>1, ChildStays
  <2> QED
    BY <2>2, <2>3
<1>4. ASSUME NEW q \in Scopes PROVE QuietInv(q)'
  BY <1>1 DEF QuietInv, InCall, Procs
<1>5. FailedInv'
  BY <1>1, FailedStays
<1>6. \A q \in Procs : WakeInv(q)'
  BY <1>1, WakeStays
<1> QED
  BY <1>3, <1>4, <1>5, <1>6

\* The result is published before anybody is woken, and says what was kept.
LEMMA PublishOrderly ==
  ASSUME OInv, NEW s \in Scopes, Publish(s)
  PROVE  Orderly'
<1> USE DEF OInv, Orderly
<1>1. /\ s \in Procs /\ pc[s] = "publish" /\ pc'[s] = "notify"
      /\ \A q \in Procs \ {s} : pc'[q] = pc[q]
      /\ \A q \in Scopes \ {s} : result'[q] = result[q]
      /\ UNCHANGED <<state, children, ancestors, waiters, cont, call, role, errs,
                     kids, parentOf, reg, ran, failed>>
  BY DEF Publish, Procs, IInv, TypeOK, resVars, callVars, workVars, histVars
<1>2. result[s] = "none" /\ (result'[s] = "ok" => ~errs[s])
  BY <1>1 DEF QuietInv, Publish, IInv, TypeOK
<1>3. ASSUME NEW q \in Scopes, NEW c \in Scopes PROVE ChildInv(q, c)'
  <2>1. Accounted(q, c) => Accounted(q, c)'
    BY <1>1, <1>2, AccountedStays
  <2>2. Awaited(q, c) => Awaited(q, c)'
    BY <1>1 DEF Awaited, InCall, Procs
  <2> QED
    BY <1>1, <2>1, <2>2, ChildStays
<1>4. ASSUME NEW q \in Scopes PROVE QuietInv(q)'
  <2>1. CASE q = s
    BY <1>1, <1>2, <2>1 DEF QuietInv, InCall
  <2>2. CASE q # s
    BY <1>1, <2>2 DEF QuietInv, InCall, Procs
  <2> QED
    BY <2>1, <2>2
<1>5. FailedInv'
  BY <1>1, FailedStays
<1>6. ASSUME NEW q \in Procs PROVE WakeInv(q)'
  <2> SUFFICES ASSUME pc'[q] = "asleep" PROVE WakeInv(q)'
    BY DEF WakeInv
  <2>1. q # s /\ pc[q] = "asleep"
    BY <1>1
  <2>2. WakeInv(q) /\ call[q] \in Scopes /\ call[q] \in Procs
    BY <2>1 DEF IInv, CallInv, InCall, Procs
  <2>3. result'[call[q]] = "none" \/ pc'[call[q]] = "notify"
    BY <1>1, <2>1, <2>2 DEF WakeInv
  <2> QED
    BY <1>1, <2>1, <2>2, <2>3 DEF WakeInv, IsDisposing, Disposing
<1> QED
  BY <1>3, <1>4, <1>5, <1>6

\* Whoever sleeps for the completion of s is woken.
LEMMA WakeWaitersOrderly ==
  ASSUME OInv, NEW s \in Scopes, WakeWaiters(s)
  PROVE  Orderly'
<1> USE DEF OInv, Orderly
<1>1. /\ s \in Procs /\ pc[s] = "notify" /\ pc'[s] = "done"
      /\ \A q \in Procs \ {s} :
           \/ pc'[q] = pc[q] /\ (pc[q] = "asleep" => q \notin waiters[s])
           \/ pc[q] = "asleep" /\ pc'[q] = "poll"
      /\ \A q \in Scopes \ {s} : waiters'[q] = waiters[q]
      /\ UNCHANGED <<state, children, ancestors, result, cont, call, role, errs,
                     kids, parentOf, reg, ran, failed>>
  BY DEF WakeWaiters, Wake, Procs, IInv, TypeOK, resVars, callVars, workVars, histVars
<1>2. \A q \in Scopes : q # s => (InCall(q)' <=> InCall(q))
  BY <1>1 DEF InCall, Procs
<1>3. ASSUME NEW q \in Scopes, NEW c \in Scopes PROVE ChildInv(q, c)'
  <2>1. (Accounted(q, c) => Accounted(q, c)') /\ (Awaited(q, c) => Awaited(q, c)')
    BY <1>1, <1>2 DEF Accounted, Awaited, InCall
  <2> QED
    BY <1>1, <2>1, ChildStays
<1>4. ASSUME NEW q \in Scopes PROVE QuietInv(q)'
  <2>1. CASE q = s
    BY <1>1, <2>1 DEF QuietInv, InCall
  <2>2. CASE q # s
    BY <1>1, <1>2, <2>2 DEF QuietInv, Procs
  <2> QED
    BY <2>1, <2>2
<1>5. FailedInv'
  BY <1>1, FailedStays
<1>6. ASSUME NEW q \in Procs PROVE WakeInv(q)'
  <2> SUFFICES ASSUME pc'[q] = "asleep" PROVE WakeInv(q)'
    BY DEF WakeInv
  <2>1. q # s /\ pc[q] = "asleep" /\ q \notin waiters[s]
    BY <1>1
  <2>2. WakeInv(q) /\ call[q] \in Scopes /\ call[q] \in Procs
    BY <2>1 DEF IInv, CallInv, InCall, Procs
  <2>3. call[q] # s
    BY <2>1, <2>2 DEF WakeInv
  <2>4. pc[call[q]] = "notify" => pc'[call[q]] = "notify"
    BY <1>1, <2>2, <2>3
  <2> QED
    BY <1>1, <2>1, <2>2, <2>3, <2>4 DEF WakeInv, IsDisposing, Disposing
<1> QED
  BY <1>3, <1>4, <1>5, <1>6

-----------------------------------------------------------------------------
\* The order holds at first: there is no scope.
LEMMA InitOrderly == Init => Orderly
<1> SUFFICES ASSUME Init PROVE Orderly
  OBVIOUS
<1>1. ASSUME NEW s \in Scopes, NEW c \in Scopes PROVE ChildInv(s, c)
  BY ConstantsAssumption DEF Init, ChildInv
<1>2. ASSUME NEW s \in Scopes PROVE QuietInv(s)
  BY DEF Init, QuietInv, InCall, Procs
<1>3. FailedInv /\ \A p \in Procs : WakeInv(p)
  BY DEF Init, FailedInv, WakeInv
<1> QED
  BY <1>1, <1>2, <1>3 DEF Orderly

\* Every step keeps the order.
LEMMA StepOrderly == OInv /\ [Next]_vars => OInv'
<1> SUFFICES ASSUME OInv, [Next]_vars PROVE Orderly'
  BY StepInv DEF OInv
<1>1. ASSUME NEW s \in Scopes, CleanupTask(s) PROVE Orderly'
  <2>1. s \in Procs /\ kids[s] \in Seq(Scopes)
    BY DEF Procs, OInv, IInv, TypeOK
  <2>2. CASE CleanChild(s)
    <3>1. Last(kids[s]) \in Scopes
      BY <2>1, <2>2, FrontType DEF CleanChild
    <3>2. DisposeCall(s, Last(kids[s]), "clean", [kids EXCEPT ![s] = Front(@)])
      BY <2>2 DEF CleanChild, DisposeCall
    <3> QED
      BY <2>1, <2>2, <3>1, <3>2, DisposeOrderly DEF CleanChild
  <2>3. CASE DisposerDisposes(s)
    <3>1. target[cur[s]] \in Scopes
      BY <2>3 DEF DisposerDisposes, OInv, IInv, CurInv
    <3>2. DisposeCall(s, target[cur[s]], "settle", kids)
      BY <2>3 DEF DisposerDisposes, DisposeCall
    <3> QED
      BY <2>1, <2>3, <3>1, <3>2, DisposeOrderly DEF DisposerDisposes
  <2> QED
    BY <1>1, <2>1, <2>2, <2>3, StartOrderly, FinishOrderly, FinishCleanupOrderly,
       PublishOrderly, WakeWaitersOrderly, InheritOrderly, ReturnOrderly, PendingOrderly
    DEF CleanupTask, Poll
<1>2. ASSUME NEW c \in Clients, Poll(c) PROVE Orderly'
  <2>1. c \in Procs
    BY DEF Procs
  <2> QED
    BY <1>2, <2>1, InheritOrderly, ReturnOrderly, PendingOrderly DEF Poll
<1>3. ASSUME NEW c \in Clients, NEW s \in Scopes, ClientDispose(c, s) PROVE Orderly'
  <2>1. c \in Procs /\ DisposeCall(c, s, "idle", kids)
    BY <1>3 DEF ClientDispose, DisposeCall, Procs
  <2> QED
    BY <1>3, <2>1, DisposeOrderly DEF ClientDispose
<1> QED
  BY <1>1, <1>2, <1>3, CreateOrderly, AsideOrderly, AbandonOrderly DEF Next

\* The order of a disposal is an invariant of every forest of scopes.
THEOREM OrderInvariance == Spec => []OInv
<1>1. Init => OInv
  BY InitInv, InitOrderly DEF OInv
<1> QED
  BY <1>1, StepOrderly, PTL DEF Spec

\* For every forest: children complete before the effects of their parent are
\* disposed, unless they wait for that parent, and a scope that reports
\* success had no failure below it: dispose_resources, collect_cleanup_error.
THEOREM DisposalKeepsOrder == Spec => []DisposalIsOrderly
<1>1. ASSUME OInv PROVE DisposalIsOrderly
  <2> USE <1>1 DEF OInv, Orderly
  <2>1. ASSUME NEW s \in Scopes, NEW c \in Scopes, parentOf[c] = s,
               ran[s] # <<>> \/ state[s] = "Disposed"
        PROVE  Accounted(s, c)
    <3>1. state[s] \in {"Unloading", "Disposed"}
      BY <2>1 DEF IInv, TypeOK, ScopeStates, PhaseInv, EffectInv
    <3>2. CASE state[s] = "Disposed"
      BY <2>1, <3>2 DEF ChildInv
    <3>3. CASE state[s] = "Unloading" /\ ran[s] # <<>>
      <4>1. kids[s] = <<>> /\ ~Awaited(s, c)
        BY <3>3 DEF QuietInv, Awaited
      <4>2. Range(kids[s]) = {}
        BY <4>1, EmptySeq DEF Range
      <4> QED
        BY <2>1, <3>3, <4>1, <4>2 DEF ChildInv
    <3> QED
      BY <2>1, <3>1, <3>2, <3>3
  <2>2. ChildrenQuiesceFirst
    BY <2>1 DEF ChildrenQuiesceFirst, Settled, Accounted
  <2>3. ASSUME NEW s \in Scopes, result[s] = "ok"
        PROVE  /\ Range(reg[s]) \cap failed = {}
               /\ \A c \in Scopes : parentOf[c] = s => result[c] = "ok" \/ c \in ancestors[s]
    <3>1. ~errs[s] /\ pc[s] \in {"notify", "done"}
      BY <2>3 DEF QuietInv
    <3>2. state[s] = "Disposed"
      BY <3>1 DEF IInv, TypeOK, ScopeStates, PhaseInv
    <3>3. ASSUME NEW e \in Range(reg[s]), e \in failed PROVE FALSE
      <4>1. PICK r \in Scopes : e \in Range(reg[r]) /\ errs[r]
        BY <3>3 DEF FailedInv
      <4>2. DOMAIN reg[s] = 1 .. Len(reg[s]) /\ DOMAIN reg[r] = 1 .. Len(reg[r])
        BY LenProperties DEF IInv, TypeOK
      <4>3. PICK i \in 1 .. Len(reg[s]), j \in 1 .. Len(reg[r]) : reg[s][i] = e /\ reg[r][j] = e
        BY <4>1, <4>2 DEF Range
      <4>4. s = r
        BY <4>3 DEF IInv, RegisteredOnce
      <4> QED
        BY <3>1, <4>1, <4>4
    <3>4. \A c \in Scopes : parentOf[c] = s => Accounted(s, c)
      BY <2>1, <3>2
    <3> QED
      BY <3>1, <3>3, <3>4 DEF Accounted
  <2>4. FailuresPropagate
    BY <2>3 DEF FailuresPropagate
  <2> QED
    BY <2>2, <2>4 DEF DisposalIsOrderly
<1> QED
  BY <1>1, OrderInvariance, PTL

\* For every forest: no wake-up is lost between a completion and those who
\* wait for it, nor when a context grows under a sleeper: the waiters lock of
\* DisposeCompletion::wait and complete, and inherit_ancestors.  (It is the
\* half of NobodyIsStranded that holds for every forest: with four scopes
\* NoCircularWait does not.)
THEOREM NoWakeupIsLost == Spec => []NoLostWakeup
<1>1. OInv => NoLostWakeup
  BY DEF OInv, Orderly, WakeInv, NoLostWakeup
<1> QED
  BY <1>1, OrderInvariance, PTL

-----------------------------------------------------------------------------
(***************************************************************************)
(* Who can wait for whom.  NoCircularWait fails from four scopes on, but   *)
(* only if disposers close the circle: a cleanup waits for a child of its  *)
(* scope or for a scope that one of its own effects disposes, and the      *)
(* scopes themselves, which have a parent before they have a child, form   *)
(* no circle.                                                              *)
(***************************************************************************)
\* The cleanup of p may have to wait for q.
MayAwait(p, q) == parentOf[q] = p \/ \E e \in Range(reg[p]) : target[e] = q

\* Ownership and the scopes that disposers dispose form no circle.
NoCircle ==
  \A D \in SUBSET Scopes : (\A p \in D : \E q \in D : MayAwait(p, q)) => D = {}

\* Scopes alone form none.
ForestInv ==
  \A D \in SUBSET Scopes : (\A p \in D : \E q \in D : parentOf[q] = p) => D = {}

AwaitInv ==
  /\ \A s \in Scopes : \A c \in Range(children[s]) \cup Range(kids[s]) : parentOf[c] = s
  /\ \A s \in Scopes : InCall(s) => MayAwait(s, call[s])
  /\ ForestInv
  /\ \A e \in Effects : target[e] \in Targets[e] \cup {None}

\* A step that adds no scope and no effect, and lets nobody wait for a
\* stranger, keeps that.
LEMMA AwaitStays ==
  ASSUME AwaitInv, UNCHANGED <<parentOf, target, reg>>,
         \A s \in Scopes : Range(children'[s]) \cup Range(kids'[s])
                             \subseteq Range(children[s]) \cup Range(kids[s]),
         \A s \in Scopes : InCall(s)' =>
            (InCall(s) /\ call'[s] = call[s]) \/ MayAwait(s, call'[s])
  PROVE  AwaitInv'
<1>1. \A s \in Scopes : \A q : MayAwait(s, q)' <=> MayAwait(s, q)
  BY DEF MayAwait
<1>2. \A s \in Scopes : InCall(s)' => MayAwait(s, call'[s])
  BY DEF AwaitInv
<1>3. \A s \in Scopes : InCall(s)' => MayAwait(s, call[s])'
  BY <1>2 DEF MayAwait
<1>4. \A s \in Scopes : \A c \in Range(children'[s]) \cup Range(kids'[s]) : parentOf'[c] = s
  BY DEF AwaitInv
<1>5. ForestInv' /\ \A e \in Effects : target'[e] \in Targets[e] \cup {None}
  BY DEF AwaitInv, ForestInv
<1> QED
  BY <1>3, <1>4, <1>5 DEF AwaitInv

\* Scope::dispose lets p wait for s only.
LEMMA DisposeAwaits ==
  ASSUME TypeOK, AwaitInv, NEW p \in Procs, NEW s \in Scopes,
         NEW after \in {"idle", "clean", "settle"}, NEW left \in [Procs -> Seq(Scopes)],
         \A q \in Scopes : Range(left[q]) \subseteq Range(kids[q]),
         p \in Scopes => MayAwait(p, s), Dispose(p, s, after, left)
  PROVE  AwaitInv'
<1>1. CASE Claim(p, s, after, left)
  <2>1. /\ UNCHANGED <<parentOf, target, reg>> /\ s \in Procs
        /\ kids' = [left EXCEPT ![s] = children[s]]
        /\ children' = [children EXCEPT ![s] = <<>>]
        /\ call' = [call EXCEPT ![p] = s]
    BY <1>1 DEF Claim, TakeResources, histVars, Procs
  <2>2. \A q \in Procs \ {p, s} : pc'[q] = pc[q] \/ (pc[q] = "asleep" /\ pc'[q] = "poll")
    BY <1>1 DEF Claim, Wake, TypeOK
  <2>3. p # s => pc'[s] = "clean"
    BY <1>1, <2>1 DEF Claim, Wake, TypeOK
  <2>4. ASSUME NEW q \in Scopes
        PROVE  Range(children'[q]) \cup Range(kids'[q])
                 \subseteq Range(children[q]) \cup Range(kids[q])
    <3>0. q \in Procs /\ Range(<<>>) = {}
      BY EmptySeq DEF Procs, Range
    <3>1. CASE q = s
      BY <2>1, <3>0, <3>1 DEF TypeOK
    <3>2. CASE q # s
      <4>1. children'[q] = children[q] /\ kids'[q] = left[q]
        BY <2>1, <3>0, <3>2 DEF TypeOK
      <4> QED
        BY <4>1
    <3> QED
      BY <3>1, <3>2
  <2>5. ASSUME NEW q \in Scopes, InCall(q)'
        PROVE  (InCall(q) /\ call'[q] = call[q]) \/ MayAwait(q, call'[q])
    <3>0. q \in Procs
      BY DEF Procs
    <3>1. CASE q = p
      BY <2>1, <3>0, <3>1 DEF TypeOK
    <3>2. CASE q # p
      <4>1. q # s
        BY <2>3, <2>5, <3>2 DEF InCall
      <4> QED
        BY <2>1, <2>2, <2>5, <3>0, <3>2, <4>1 DEF InCall, TypeOK
    <3> QED
      BY <3>1, <3>2
  <2> QED
    BY <2>1, <2>4, <2>5, AwaitStays
<1>2. CASE Join(p, s, after, left) \/ JoinReentrant(p, s, after, left)
  <2>1. /\ UNCHANGED <<parentOf, target, reg, children>> /\ kids' = left
        /\ \A q \in Procs \ {p} : pc'[q] = pc[q] /\ call'[q] = call[q]
        /\ (pc'[p] = "inherit" /\ call'[p] = s) \/ pc'[p] = after
    BY <1>2 DEF Join, JoinReentrant, histVars, resVars, callVars, TypeOK
  <2>2. \A q \in Scopes : Range(children'[q]) \cup Range(kids'[q])
                            \subseteq Range(children[q]) \cup Range(kids[q])
    BY <2>1
  <2>3. ASSUME NEW q \in Scopes, InCall(q)'
        PROVE  (InCall(q) /\ call'[q] = call[q]) \/ MayAwait(q, call'[q])
    <3>1. CASE q = p
      BY <2>1, <2>3, <3>1 DEF InCall
    <3>2. CASE q # p
      BY <2>1, <2>3, <3>2 DEF InCall, Procs
    <3> QED
      BY <3>1, <3>2
  <2> QED
    BY <2>1, <2>2, <2>3, AwaitStays
<1> QED
  BY <1>1, <1>2 DEF Dispose

\* A poll lets nobody wait who did not.
LEMMA PollAwaits ==
  ASSUME TypeOK, AwaitInv, NEW p \in Procs, Poll(p)
  PROVE  AwaitInv'
<1>1. UNCHANGED <<parentOf, target, reg, children, kids, call>>
  BY DEF Poll, InheritAncestors, PollReentrant, PollReady, PollPending, resVars, callVars,
     workVars, histVars
<1>2. \A q \in Procs : InCall(q)' => InCall(q)
  <2>1. CASE InheritAncestors(p)
    BY <2>1 DEF InheritAncestors, Wake, TypeOK, InCall
  <2>2. CASE PollReentrant(p) \/ PollReady(p) \/ PollPending(p)
    BY <2>2 DEF PollReentrant, PollReady, PollPending, MustWait, TypeOK, InCall
  <2> QED
    BY <2>1, <2>2 DEF Poll
<1>3. \A q \in Scopes : InCall(q)' => InCall(q) /\ call'[q] = call[q]
  BY <1>1, <1>2 DEF Procs
<1>4. \A q \in Scopes : Range(children'[q]) \cup Range(kids'[q])
                          \subseteq Range(children[q]) \cup Range(kids[q])
  BY <1>1
<1> QED
  BY <1>1, <1>3, <1>4, AwaitStays

\* A cleanup waits for a child or for what an effect of its scope disposes.
LEMMA CleanupAwaits ==
  ASSUME OInv, AwaitInv, NEW s \in Scopes, CleanupTask(s)
  PROVE  AwaitInv'
<1>0. s \in Procs /\ TypeOK /\ IInv /\ kids \in [Procs -> Seq(Scopes)] /\ kids[s] \in Seq(Scopes)
  BY DEF Procs, OInv, IInv, TypeOK
<1>1. CASE CleanChild(s)
  <2>0. kids[s] # <<>>
    BY <1>1 DEF CleanChild
  <2>1. PICK c : c = Last(kids[s])
    OBVIOUS
  <2>2. PICK left : left = [kids EXCEPT ![s] = Front(@)]
    OBVIOUS
  <2>3. Range(kids[s]) = Range(Front(kids[s])) \cup {c} /\ Front(kids[s]) \in Seq(Scopes) /\ c \in Scopes
    BY <1>0, <2>0, <2>1, FrontRange, FrontType
  <2>4. left \in [Procs -> Seq(Scopes)] /\ \A q \in Scopes : Range(left[q]) \subseteq Range(kids[q])
    BY <1>0, <2>2, <2>3 DEF Procs
  <2>5. MayAwait(s, c)
    BY <2>3 DEF AwaitInv, MayAwait
  <2>6. Dispose(s, c, "clean", left)
    BY <1>1, <2>1, <2>2, Zenon DEF CleanChild
  <2>7. PICK after : after = "clean"
    OBVIOUS
  <2>8. after \in {"idle", "clean", "settle"} /\ Dispose(s, c, after, left)
    BY <2>6, <2>7
  <2>9. /\ c \in Scopes /\ s \in Procs /\ TypeOK /\ left \in [Procs -> Seq(Scopes)]
        /\ after \in {"idle", "clean", "settle"} /\ MayAwait(s, c)
    BY <1>0, <2>3, <2>4, <2>5, <2>8
  <2>10. \A q \in Scopes : Range(left[q]) \subseteq Range(kids[q])
    BY <2>4
  <2>11. Dispose(s, c, after, left)
    BY <2>8
  <2> QED
    BY <2>9, <2>10, <2>11, DisposeAwaits, Zenon
<1>2. CASE DisposerDisposes(s)
  <2>1. PICK t : t = target[cur[s]]
    OBVIOUS
  <2>2. t \in Scopes
    BY <1>0, <1>2, <2>1 DEF DisposerDisposes, IInv, CurInv
  <2>3. cur[s] \in Range(reg[s])
    BY <1>0, <1>2, CurIsRegistered DEF DisposerDisposes, InDisposer
  <2>4. MayAwait(s, t)
    BY <2>1, <2>3 DEF MayAwait
  <2>5. Dispose(s, t, "settle", kids)
    BY <1>2, <2>1 DEF DisposerDisposes
  <2>6. \A q \in Scopes : Range(kids[q]) \subseteq Range(kids[q])
    OBVIOUS
  <2>7. PICK after : after = "settle"
    OBVIOUS
  <2>8. after \in {"idle", "clean", "settle"} /\ Dispose(s, t, after, kids)
    BY <2>5, <2>7
  <2> QED
    BY <1>0, <2>2, <2>4, <2>6, <2>8, DisposeAwaits
<1>3. CASE Poll(s)
  BY <1>0, <1>3, PollAwaits
<1>4. CASE StartDisposer(s, s) \/ FinishDisposer(s) \/ FinishCleanup(s) \/ Publish(s)
           \/ WakeWaiters(s)
  <2>1. UNCHANGED <<parentOf, target, reg, children, kids, call>>
    BY <1>4 DEF StartDisposer, FinishDisposer, FinishCleanup, Publish, WakeWaiters, resVars,
       callVars, workVars, histVars
  <2>2. \A q \in Procs : InCall(q)' => InCall(q)
    <3>1. CASE WakeWaiters(s)
      BY <1>0, <3>1 DEF WakeWaiters, Wake, TypeOK, InCall
    <3>2. CASE StartDisposer(s, s) \/ FinishDisposer(s) \/ FinishCleanup(s) \/ Publish(s)
      BY <1>0, <3>2 DEF StartDisposer, FinishDisposer, FinishCleanup, Publish, TypeOK, InCall
    <3> QED
      BY <1>4, <3>1, <3>2
  <2>3. \A q \in Scopes : InCall(q)' => InCall(q) /\ call'[q] = call[q]
    BY <2>1, <2>2 DEF Procs
  <2>4. \A q \in Scopes : Range(children'[q]) \cup Range(kids'[q])
                            \subseteq Range(children[q]) \cup Range(kids[q])
    BY <2>1
  <2> QED
    BY <2>1, <2>3, <2>4, AwaitStays
<1> QED
  BY <1>1, <1>2, <1>3, <1>4 DEF CleanupTask

\* A new child has no child yet.
LEMMA NewChildAwaits ==
  ASSUME OInv, AwaitInv, NEW p \in Scopes, NEW s \in Scopes, NewChild(p, s)
  PROVE  AwaitInv'
<1>0. TypeOK /\ \A q, c \in Scopes : parentOf[c] = q => c # s /\ q # s
  BY DEF OInv, IInv, Orderly, ChildInv, NewChild
<1>1. /\ UNCHANGED <<target, reg, kids, pc, call>> /\ parentOf' = [parentOf EXCEPT ![s] = p]
      /\ p # s /\ children' = [children EXCEPT ![p] = Append(@, s)]
  BY DEF NewChild, callVars, workVars
<1>2. parentOf'[s] = p /\ \A c \in Scopes : c # s => parentOf'[c] = parentOf[c]
  BY <1>0, <1>1 DEF TypeOK
<1>3. ASSUME NEW q \in Scopes
      PROVE  \A c \in Range(children'[q]) \cup Range(kids'[q]) : parentOf'[c] = q
  <2>0. q \in Procs /\ children[q] \in Seq(Scopes) /\ kids[q] \in Seq(Scopes)
    BY <1>0 DEF Procs, TypeOK
  <2>1. Range(children[q]) \subseteq Scopes /\ Range(kids[q]) \subseteq Scopes
    BY <2>0, ElementOfSeq, LenProperties DEF Range
  <2>2. \A c \in Range(children[q]) \cup Range(kids[q]) : parentOf'[c] = q
    BY <1>0, <1>2, <2>1 DEF AwaitInv
  <2>3. CASE q = p
    <3>1. Range(children'[q]) = Range(children[q]) \cup {s}
      <4>1. children'[q] = Append(children[q], s)
        BY <1>0, <1>1, <2>3 DEF TypeOK
      <4> QED
        BY <2>0, <4>1, AppendRange
    <3> QED
      BY <1>1, <1>2, <2>2, <2>3, <3>1
  <2>4. CASE q # p
    BY <1>0, <1>1, <2>2, <2>4 DEF TypeOK
  <2> QED
    BY <2>3, <2>4
<1>4. ASSUME NEW q \in Scopes, InCall(q)' PROVE MayAwait(q, call[q])'
  <2>1. InCall(q) /\ q \in Procs
    BY <1>1, <1>4 DEF InCall, Procs
  <2>2. call[q] \in Scopes /\ MayAwait(q, call[q])
    BY <2>1 DEF OInv, IInv, CallInv, AwaitInv
  <2> QED
    BY <1>0, <1>1, <1>2, <2>2 DEF MayAwait
<1>5. ForestInv'
  <2> SUFFICES ASSUME NEW D \in SUBSET Scopes, \A q \in D : \E c \in D : parentOf'[c] = q
               PROVE  D = {}
    BY DEF ForestInv
  <2>1. s \notin D
    BY <1>0, <1>1, <1>2
  <2>2. \A q \in D : \E c \in D : parentOf[c] = q
    BY <1>2, <2>1
  <2> QED
    BY <2>2 DEF AwaitInv, ForestInv
<1>6. \A e \in Effects : target'[e] \in Targets[e] \cup {None}
  BY <1>1 DEF AwaitInv
<1> QED
  BY <1>3, <1>4, <1>5, <1>6 DEF AwaitInv

\* A new effect is not yet anybody's.
LEMMA AddEffectAwaits ==
  ASSUME OInv, AwaitInv, NEW s \in Scopes, NEW e \in Effects, NEW t, AddEffect(s, e, t)
  PROVE  AwaitInv'
<1>0. TypeOK
  BY DEF OInv, IInv
<1>1. /\ UNCHANGED <<parentOf, children, kids, pc, call>>
      /\ target' = [target EXCEPT ![e] = t] /\ t \in Targets[e]
      /\ \A r \in Scopes : e \notin Range(reg[r])
      /\ reg' = [reg EXCEPT ![s] = Append(@, e)]
  BY DEF AddEffect, callVars, workVars
<1>2. ASSUME NEW q \in Scopes PROVE Range(reg[q]) \subseteq Range(reg'[q]) /\ Range(reg[q]) \subseteq Effects
  <2>0. reg[q] \in Seq(Effects)
    BY <1>0 DEF TypeOK
  <2>1. Range(reg[q]) \subseteq Effects
    BY <2>0, ElementOfSeq, LenProperties DEF Range
  <2>2. CASE q = s
    <3>1. reg'[q] = Append(reg[q], e)
      BY <1>0, <1>1, <2>2 DEF TypeOK
    <3>2. Range(reg'[q]) = Range(reg[q]) \cup {e}
      BY <2>0, <3>1, AppendRange
    <3> QED
      BY <2>1, <3>2
  <2>3. CASE q # s
    BY <1>0, <1>1, <2>1, <2>3 DEF TypeOK
  <2> QED
    BY <2>2, <2>3
<1>3. \A f \in Effects : f # e => target'[f] = target[f]
  BY <1>0, <1>1 DEF TypeOK
<1>4. ASSUME NEW q \in Scopes, InCall(q)' PROVE MayAwait(q, call[q])'
  <2>1. InCall(q) /\ MayAwait(q, call[q])
    BY <1>1, <1>4 DEF InCall, AwaitInv
  <2> QED
    BY <1>1, <1>2, <1>3, <2>1 DEF MayAwait
<1>5. \A f \in Effects : target'[f] \in Targets[f] \cup {None}
  BY <1>0, <1>1 DEF AwaitInv, TypeOK
<1>6. ForestInv' /\ \A q \in Scopes : \A c \in Range(children'[q]) \cup Range(kids'[q]) : parentOf'[c] = q
  BY <1>1 DEF AwaitInv, ForestInv
<1> QED
  BY <1>4, <1>5, <1>6 DEF AwaitInv

\* Every step keeps what the cleanups can wait for.
LEMMA StepAwaits == OInv /\ AwaitInv /\ [Next]_vars => AwaitInv'
<1> SUFFICES ASSUME OInv, AwaitInv, [Next]_vars PROVE AwaitInv'
  OBVIOUS
<1>0. TypeOK
  BY DEF OInv, IInv
<1>1. ASSUME NEW s \in Scopes, NewRoot(s) \/ CancelToken(s) PROVE AwaitInv'
  <2>1. UNCHANGED <<parentOf, target, reg, children, kids, pc, call>>
    BY <1>1 DEF NewRoot, CancelToken, resVars, callVars, workVars, histVars
  <2> QED
    BY <2>1, AwaitStays DEF InCall
<1>2. ASSUME NEW c \in Clients, Abandon(c) PROVE AwaitInv'
  <2>1. UNCHANGED <<parentOf, target, reg, children, kids, call>>
    BY <1>2 DEF Abandon, resVars, callVars, workVars, histVars
  <2>2. \A q \in Scopes : pc'[q] = pc[q]
    BY <1>0, <1>2, ConstantsAssumption DEF Abandon, TypeOK, Procs
  <2> QED
    BY <2>1, <2>2, AwaitStays DEF InCall
<1>3. ASSUME NEW c \in Clients, Poll(c) PROVE AwaitInv'
  BY <1>0, <1>3, PollAwaits DEF Procs
<1>4. ASSUME NEW c \in Clients, NEW s \in Scopes, ClientDispose(c, s) PROVE AwaitInv'
  <2>1. c \in Procs /\ c \notin Scopes /\ kids \in [Procs -> Seq(Scopes)]
    BY <1>0, ConstantsAssumption DEF Procs, TypeOK
  <2>2. Dispose(c, s, "idle", kids)
    BY <1>4 DEF ClientDispose
  <2> QED
    BY <1>0, <2>1, <2>2, DisposeAwaits
<1>5. CASE UNCHANGED vars
  <2>1. UNCHANGED <<parentOf, target, reg, children, kids, pc, call>>
    BY <1>5 DEF vars, resVars, callVars, workVars, histVars
  <2> QED
    BY <2>1, AwaitStays DEF InCall
<1> QED
  BY <1>1, <1>2, <1>3, <1>4, <1>5, CleanupAwaits, NewChildAwaits, AddEffectAwaits DEF Next

\* It holds in every reachable state.
LEMMA AwaitsInvariance == Spec => [](OInv /\ AwaitInv)
<1>1. Init => AwaitInv
  <2> SUFFICES ASSUME Init PROVE AwaitInv
    OBVIOUS
  <2>1. \A s \in Scopes : Range(children[s]) \cup Range(kids[s]) = {}
    BY EmptySeq DEF Init, Procs, Range
  <2>2. \A s \in Scopes : ~InCall(s)
    BY DEF Init, InCall, Procs
  <2>3. ForestInv
    BY ConstantsAssumption DEF Init, ForestInv
  <2>4. \A e \in Effects : target[e] \in Targets[e] \cup {None}
    BY DEF Init
  <2> QED
    BY <2>1, <2>2, <2>3, <2>4 DEF AwaitInv
<1>2. Init => OInv
  BY InitInv, InitOrderly DEF OInv
<1> QED
  BY <1>1, <1>2, StepOrderly, StepAwaits, PTL DEF Spec

\* Cleanups that wait for each other in a circle follow a circle of ownership
\* and of scopes that disposers dispose.
LEMMA CircleIsOwned ==
  ASSUME OInv, AwaitInv, NoCircle
  PROVE  NobodyIsStranded
<1>1. NoLostWakeup
  BY DEF OInv, Orderly, WakeInv, NoLostWakeup
<1>2. ASSUME NEW D \in (SUBSET Scopes) \ {{}}, \A p \in D : pc[p] = "asleep" /\ call[p] \in D
      PROVE  FALSE
  <2>1. \A p \in D : MayAwait(p, call[p])
    BY <1>2 DEF AwaitInv, InCall
  <2> QED
    BY <1>2, <2>1 DEF NoCircle
<1> QED
  BY <1>1, <1>2 DEF NobodyIsStranded, NoCircularWait

\* For every forest: nobody waits for ever in Scope::dispose as long as no chain
\* of children, and of scopes that disposers dispose, leads from a scope back
\* to itself.  The circles that inherit_ancestors misses all have such a
\* disposer in them.
THEOREM CirclesAreReentrant == Spec => [](NoCircle => NobodyIsStranded)
BY AwaitsInvariance, CircleIsOwned, PTL

\* In particular: if no disposer disposes a scope, as in a tree of scopes with
\* listeners and providers only, nobody waits for ever, whoever disposes which
\* scopes and in what order.
THEOREM PlainDisposersStrandNobody ==
  ASSUME \A e \in Effects : Targets[e] \subseteq {None}
  PROVE  Spec => []NobodyIsStranded
<1>1. OInv /\ AwaitInv => NobodyIsStranded
  <2> SUFFICES ASSUME OInv, AwaitInv PROVE NoCircle
    BY CircleIsOwned
  <2>1. ASSUME NEW p \in Scopes, NEW q \in Scopes, MayAwait(p, q) PROVE parentOf[q] = p
    <3>1. \A e \in Range(reg[p]) : e \in Effects
      <4>1. reg[p] \in Seq(Effects)
        BY DEF OInv, IInv, TypeOK
      <4> QED
        BY <4>1, ElementOfSeq, LenProperties DEF Range
    <3>2. \A e \in Range(reg[p]) : target[e] = None
      BY <3>1 DEF AwaitInv
    <3> QED
      BY <2>1, <3>2, ConstantsAssumption DEF MayAwait
  <2> QED
    BY <2>1 DEF NoCircle, AwaitInv, ForestInv
<1> QED
  BY <1>1, AwaitsInvariance, PTL

-----------------------------------------------------------------------------
(***************************************************************************)
(* Proofs about FiberLifecycle, for every forest of scopes and fibers,     *)
(* every set of effects and any number of clients.                         *)
(*                                                                         *)
(* The effects of a scope that has left Active are with one process: its   *)
(* cleanup task, or the client whose failed setup has rolled it back.  The *)
(* other half of the invariant says what the state word of a fiber may be, *)
(* given the operations that are under way on it.                          *)
(***************************************************************************)
Setting == {"setup", "store", "rollback", "rolling"}
Stages == Setting \cup {"none", "cas", "disposing", "awaiting"}

\* The future of client c runs the disposers of scope s.
Rolls(c, s) == fpc[c] = "rolling" /\ fib[c] = s

\* The sequence all is `left', followed by `gone' in reverse.
Split(left, gone, all) ==
  /\ Len(left) + Len(gone) = Len(all)
  /\ \A i \in 1 .. Len(left) : left[i] = all[i]
  /\ \A i \in 1 .. Len(gone) : gone[i] = all[Len(all) + 1 - i]

\* The effects of s that process p has left and those that were started are
\* what was registered: the former its beginning, the latter its end, reversed.
Handed(p, s) == Split(effs[p], ran[s], reg[s])

\* A scope and its cleanup task agree.
TaskInv(s) ==
  /\ state[s] \in {"Absent", "Active", "Failed"} => pc[s] = "idle" /\ effs[s] = <<>>
  /\ state[s] = "Unloading" =>
       pc[s] \in {"clean", "disposer", "settle", "inherit", "poll", "asleep"}
  /\ state[s] = "Disposed" =>
       pc[s] \in {"publish", "notify", "done"} /\ effs[s] = <<>>

\* Where the effects of a scope are
WhereInv(s) ==
  /\ state[s] \in {"Absent", "Active"} =>
       /\ effects[s] = reg[s] /\ ran[s] = <<>>
       /\ \A c \in Clients : ~Rolls(c, s)
  /\ state[s] \notin {"Absent", "Active"} =>
       /\ effects[s] = <<>>
       /\ (\A c \in Clients : ~Rolls(c, s)) => Handed(s, s)
       /\ \A c \in Clients : Rolls(c, s) => effs[s] = <<>> /\ Handed(c, s)

\* A client runs disposers in a rollback only.
RollInv(c) ==
  IF fpc[c] = "rolling"
  THEN \/ pc[c] \in {"clean", "disposer", "settle"}
       \/ InCall(c) /\ cont[c] \in {"clean", "settle"}
  ELSE \/ pc[c] = "idle"
       \/ InCall(c) /\ cont[c] = "idle"

Registered(e) == \E r \in Scopes : e \in Range(reg[r])

\* A process that waits waits for a scope, and a disposer is that of an effect.
WorkInv(p) ==
  /\ InCall(p) => /\ call[p] \in Scopes
                  /\ p \in Scopes => cont[p] \in {"clean", "settle"}
  /\ InDisposer(p) => cur[p] \in Effects
  /\ pc[p] = "disposer" => Registered(cur[p]) /\ target[cur[p]] \in Scopes

ScopesInv ==
  /\ TypeOK
  /\ \A s \in Scopes : TaskInv(s) /\ WhereInv(s)
  /\ \A c \in Clients : RollInv(c)
  /\ \A p \in Procs : WorkInv(p)

\* What the state word of a fiber says of its scope and of its callers
WordInv(f) ==
  /\ raw[f] # "none" => state[f] # "Absent"
  /\ raw[f] \in {"none", "Pending"} =>
       \A c \in Clients : fpc[c] \in Setting => fib[c] # f
  /\ raw[f] = "Loading" /\ state[f] = "Active" =>
       \E c \in Clients : fpc[c] \in {"setup", "store"} /\ fib[c] = f
  /\ raw[f] = "Unloading" /\ state[f] = "Active" =>
       \E c \in Clients : fpc[c] = "disposing" /\ fib[c] = f
  /\ raw[f] = "Disposed" => state[f] = "Disposed"

\* Where a client may be in an operation on a fiber
StageInv(c) ==
  /\ fpc[c] # "none" => fib[c] \in Scopes /\ raw[fib[c]] # "none"
  /\ fpc[c] \in {"cas", "store", "rollback", "disposing"} => pc[c] = "idle"

WordsInv ==
  /\ raw \in [Scopes -> FiberStates \cup {"none"}]
  /\ fpc \in [Clients -> Stages]
  /\ fib \in [Clients -> Scopes \cup {None}]
  /\ \A f \in Scopes : WordInv(f)
  /\ \A c \in Clients : StageInv(c)
  /\ SetupRunsOnce

FIInv == ScopesInv /\ WordsInv

-----------------------------------------------------------------------------
(***************************************************************************)
(* Effects that are left and effects that have run                         *)
(***************************************************************************)
\* Nothing has run: all that was registered is left.
LEMMA SplitStart ==
  ASSUME NEW S, NEW all \in Seq(S)
  PROVE  Split(all, <<>>, all)
<1>1. Len(all) \in Nat /\ Len(<<>>) = 0
  BY LenProperties, EmptySeq
<1> QED
  BY <1>1 DEF Split

\* The last effect that is left is started: it is a registered one, and moves
\* to those that have run.
LEMMA SplitMove ==
  ASSUME NEW S, NEW left \in Seq(S), NEW gone \in Seq(S), NEW all \in Seq(S),
         left # <<>>, Split(left, gone, all)
  PROVE  /\ Last(left) \in Range(all)
         /\ Split(Front(left), Append(gone, Last(left)), all)
<1> DEFINE e == Last(left)
<1>1. /\ Front(left) \in Seq(S) /\ e \in S
      /\ Len(left) \in Nat \ {0} /\ Len(Front(left)) = Len(left) - 1
      /\ \A i \in 1 .. Len(left) - 1 : Front(left)[i] = left[i]
      /\ e = left[Len(left)]
  BY FrontType DEF Last
<1>2. /\ Len(Append(gone, e)) = Len(gone) + 1
      /\ \A i \in 1 .. Len(gone) : Append(gone, e)[i] = gone[i]
      /\ Append(gone, e)[Len(gone) + 1] = e
      /\ Len(gone) \in Nat /\ Len(all) \in Nat /\ DOMAIN all = 1 .. Len(all)
  <2> HIDE DEF e
  <2> QED
    BY <1>1, AppendProperties, LenProperties
<1>3. /\ Len(left) + Len(gone) = Len(all)
      /\ \A i \in 1 .. Len(left) : left[i] = all[i]
      /\ \A i \in 1 .. Len(gone) : gone[i] = all[Len(all) + 1 - i]
  BY DEF Split
<1>4. /\ Len(left) \in 1 .. Len(all) /\ e = all[Len(left)]
  BY <1>1, <1>2, <1>3
<1> HIDE DEF e
<1>5. \A i \in 1 .. Len(Front(left)) : Front(left)[i] = all[i]
  <2>1. Len(Front(left)) = Len(left) - 1 /\ Len(left) \in Nat
    BY <1>1
  <2>2. ASSUME NEW i \in 1 .. Len(left) - 1
        PROVE  Front(left)[i] = all[i]
    <3>1. i \in 1 .. Len(left)
      BY <2>1
    <3>2. Front(left)[i] = left[i]
      BY <1>1
    <3>3. left[i] = all[i]
      BY <1>3, <3>1
    <3> QED
      BY <3>2, <3>3
  <2> QED
    BY <2>1, <2>2
<1>6. ASSUME NEW i \in 1 .. Len(Append(gone, e))
      PROVE  Append(gone, e)[i] = all[Len(all) + 1 - i]
  <2>1. CASE i \in 1 .. Len(gone)
    BY <1>2, <1>3, <2>1
  <2>2. CASE i = Len(gone) + 1
    <3>1. Len(all) + 1 - i = Len(left)
      BY <1>1, <1>2, <1>3, <2>2, CountShift
    <3> QED
      BY <1>2, <1>4, <2>2, <3>1
  <2> QED
    BY <1>2, <2>1, <2>2
<1>7. Len(Front(left)) + Len(Append(gone, e)) = Len(all)
  <2>1. (Len(left) - 1) + (Len(gone) + 1) = Len(all)
    BY <1>1, <1>2, <1>3, CountMove, ZenonT(60)
  <2> QED
    BY <1>1, <1>2, <2>1
<1>8. Last(left) \in Range(all)
  BY <1>2, <1>4 DEF Range, e
<1> QED
  BY <1>5, <1>6, <1>7, <1>8 DEF Split, e

\* What has run is the beginning of the reversed registrations, and all of
\* them when nothing is left.
LEMMA SplitOrder ==
  ASSUME NEW S, NEW left \in Seq(S), NEW gone \in Seq(S), NEW all \in Seq(S),
         Split(left, gone, all)
  PROVE  /\ IsPrefix(gone, Reverse(all))
         /\ left = <<>> => gone = Reverse(all)
<1>1. /\ Len(left) \in Nat /\ Len(gone) \in Nat /\ Len(all) \in Nat
      /\ gone \in [1 .. Len(gone) -> S] /\ all \in [1 .. Len(all) -> S]
      /\ Len(<<>>) = 0
  BY LenProperties, EmptySeq
<1>2. /\ Len(left) + Len(gone) = Len(all)
      /\ \A i \in 1 .. Len(gone) : gone[i] = all[Len(all) + 1 - i]
  BY DEF Split
<1>3. /\ Reverse(all) \in [1 .. Len(all) -> S]
      /\ \A i \in 1 .. Len(all) : Reverse(all)[i] = all[(Len(all) - i) + 1]
  <2>1. \A i \in 1 .. Len(all) : (Len(all) - i) + 1 \in 1 .. Len(all)
    BY <1>1
  <2> QED
    BY <1>1, <2>1 DEF Reverse
<1>4. Reverse(all) \in Seq(S) /\ Len(Reverse(all)) = Len(all)
  <2>1. Reverse(all) \in Seq(S)
    BY <1>1, <1>3, SeqDef, SMTT(30)
  <2>2. DOMAIN Reverse(all) = 1 .. Len(all)
    BY <1>3
  <2> QED
    BY <1>1, <2>1, <2>2, LenProperties
<1>5. \A i \in 1 .. Len(gone) : gone[i] = Reverse(all)[i]
  <2> SUFFICES ASSUME NEW i \in 1 .. Len(gone) PROVE gone[i] = Reverse(all)[i]
    OBVIOUS
  <2>1. i \in 1 .. Len(all) /\ Len(all) + 1 - i = (Len(all) - i) + 1
    BY <1>1, <1>2
  <2> QED
    BY <1>2, <1>3, <2>1
<1>6. Len(gone) <= Len(Reverse(all))
  BY <1>1, <1>2, <1>4
<1>7. SubSeq(gone, 1, Len(gone)) = SubSeq(Reverse(all), 1, Len(gone))
  <2>1. /\ 1 \in Int /\ Len(gone) \in Int
        /\ \A i \in 1 .. Len(gone) : gone[i] \in S /\ Reverse(all)[i] \in S
    <3>1. \A i \in 1 .. Len(gone) : gone[i] \in S
      BY <1>1
    <3> QED
      BY <1>1, <1>5, <3>1
  <2> DEFINE t == SubSeq(gone, 1, Len(gone))
             u == SubSeq(Reverse(all), 1, Len(gone))
  <2>2. /\ t \in Seq(S) /\ Len(t) = IF 1 <= Len(gone) THEN Len(gone) - 1 + 1 ELSE 0
        /\ \A i \in 1 .. Len(gone) - 1 + 1 : t[i] = gone[1 + i - 1]
    BY <2>1, SubSeqProperties
  <2>3. /\ u \in Seq(S) /\ Len(u) = IF 1 <= Len(gone) THEN Len(gone) - 1 + 1 ELSE 0
        /\ \A i \in 1 .. Len(gone) - 1 + 1 : u[i] = Reverse(all)[1 + i - 1]
    BY <2>1, SubSeqProperties
  <2> HIDE DEF t, u
  <2>4. Len(t) = Len(gone) /\ Len(u) = Len(gone)
    BY <1>1, <2>2, <2>3
  <2>5. \A i \in 1 .. Len(gone) : t[i] = u[i]
    BY <1>1, <1>5, <2>2, <2>3
  <2>6. t = u
    BY <2>2, <2>3, <2>4, <2>5, SeqEqual
  <2> QED
    BY <2>6 DEF t, u
<1>8. ASSUME left = <<>> PROVE gone = Reverse(all)
  <2>1. Len(gone) = Len(all)
    <3>1. Len(left) = 0
      BY <1>1, <1>8, Zenon
    <3>2. \A k, m, n \in Nat : k + m = n /\ k = 0 => m = n
      OBVIOUS
    <3> QED
      BY <1>1, <1>2, <3>1, <3>2, Zenon
  <2> QED
    BY <1>4, <1>5, <2>1, SeqEqual
<1> QED
  BY <1>6, <1>7, <1>8 DEF IsPrefix

-----------------------------------------------------------------------------
(***************************************************************************)
(* Steps on the scopes                                                     *)
(***************************************************************************)
\* Nobody begins or ends a rollback.
SameRolls ==
  \A c \in Clients : /\ fpc'[c] = "rolling" <=> fpc[c] = "rolling"
                     /\ fpc[c] = "rolling" => fib'[c] = fib[c]

\* A scope only moves on in its life, and p disturbs no other idle client.
StateStep(f) ==
  /\ state'[f] = "Absent" => state[f] = "Absent"
  /\ state'[f] = "Active" => state[f] \in {"Absent", "Active"}
  /\ state[f] = "Disposed" => state'[f] = "Disposed"

Progress(p) ==
  /\ \A f \in Scopes : StateStep(f)
  /\ \A c \in Clients \ {p} : pc[c] = "idle" => pc'[c] = "idle"

\* Process p runs dispose_resources.
Works(p) == p \in Scopes \/ (p \in Clients /\ fpc[p] = "rolling")

\* What a process must be doing to call Scope::dispose
Calls(p, after, left) ==
  \/ p \in Clients /\ pc[p] = "idle" /\ after = "idle" /\ left = kids
  \/ Works(p) /\ pc[p] = "clean" /\ after = "clean"
  \/ Works(p) /\ pc[p] = "disposer" /\ after = "settle" /\ left = kids

\* Processes are scopes or clients, not both.
LEMMA ProcFacts ==
  /\ \A s \in Scopes : s \in Procs /\ s \notin Clients
  /\ \A c \in Clients : c \in Procs /\ c \notin Scopes
  /\ \A p \in Procs : p \in Scopes \/ p \in Clients
BY ConstantsAssumption DEF Procs

\* The effects of a scope that a step does not touch stay where they are.
LEMMA WhereFrame ==
  ASSUME NEW q \in Scopes, WhereInv(q), SameRolls,
         state'[q] \in {"Absent", "Active"} <=> state[q] \in {"Absent", "Active"},
         effects'[q] = effects[q], reg'[q] = reg[q], ran'[q] = ran[q], effs'[q] = effs[q],
         \A c \in Clients : Rolls(c, q) => effs'[c] = effs[c]
  PROVE  WhereInv(q)'
<1>1. \A c \in Clients : Rolls(c, q)' <=> Rolls(c, q)
  BY DEF SameRolls, Rolls
<1>2. Handed(q, q)' <=> Handed(q, q)
  BY DEF Handed
<1>3. \A c \in Clients : Rolls(c, q) => (Handed(c, q)' <=> Handed(c, q))
  BY DEF Handed
<1> QED
  BY <1>1, <1>2, <1>3 DEF WhereInv

\* A step that only moves processes leaves all effects where they are.
LEMMA MoveScopes ==
  ASSUME ScopesInv, SameRolls, TypeOK', UNCHANGED <<state, effects, effs, reg, ran>>,
         \A q \in Scopes : TaskInv(q)',
         \A c \in Clients : RollInv(c)',
         \A p \in Procs : WorkInv(p)'
  PROVE  ScopesInv'
<1>1. ASSUME NEW q \in Scopes PROVE WhereInv(q)'
  BY WhereFrame DEF ScopesInv
<1> QED
  BY <1>1 DEF ScopesInv

\* What claim_disposal does to the scope, to the caller and to everybody else
LEMMA ClaimFacts ==
  ASSUME ScopesInv, NEW p \in Procs, NEW s \in Scopes, NEW after, NEW left,
         Calls(p, after, left), left \in [Procs -> Seq(Scopes)],
         Claim(p, s, after, left)
  PROVE  /\ state[s] \in {"Active", "Failed"} /\ pc[s] = "idle" /\ p # s
         /\ p \in Scopes => state[p] = "Unloading"
         /\ after \in {"idle", "clean", "settle"}
         /\ pc'[s] = "clean" /\ pc'[p] = "poll"
         /\ \A q \in Procs \ {p, s} :
              pc'[q] = pc[q] \/ (pc[q] = "asleep" /\ pc'[q] = "poll")
         /\ state'[s] = "Unloading" /\ \A q \in Scopes \ {s} : state'[q] = state[q]
         /\ effs'[s] = effects[s] /\ \A q \in Procs \ {s} : effs'[q] = effs[q]
         /\ effects'[s] = <<>> /\ \A q \in Scopes \ {s} : effects'[q] = effects[q]
         /\ cont'[p] = after /\ \A q \in Procs \ {p} : cont'[q] = cont[q]
         /\ call'[p] = s /\ \A q \in Procs \ {p} : call'[q] = call[q]
         /\ UNCHANGED <<cur, target, reg, ran>>
<1> USE ProcFacts
<1>1. state[s] \in {"Active", "Failed"} /\ pc[s] = "idle"
  BY DEF Claim, ScopesInv, TaskInv
<1>2. p # s /\ after \in {"idle", "clean", "settle"}
  BY <1>1 DEF Calls, Works
<1>3. p \in Scopes => state[p] = "Unloading"
  BY DEF Calls, ScopesInv, TypeOK, ScopeStates, TaskInv
<1>4. /\ pc'[s] = "clean" /\ pc'[p] = "poll"
      /\ \A q \in Procs \ {p, s} :
           pc'[q] = pc[q] \/ (pc[q] = "asleep" /\ pc'[q] = "poll")
  BY <1>2 DEF Claim, Wake, ScopesInv, TypeOK
<1>5. /\ state'[s] = "Unloading" /\ \A q \in Scopes \ {s} : state'[q] = state[q]
      /\ effs'[s] = effects[s] /\ \A q \in Procs \ {s} : effs'[q] = effs[q]
      /\ effects'[s] = <<>> /\ \A q \in Scopes \ {s} : effects'[q] = effects[q]
      /\ cont'[p] = after /\ \A q \in Procs \ {p} : cont'[q] = cont[q]
      /\ call'[p] = s /\ \A q \in Procs \ {p} : call'[q] = call[q]
      /\ UNCHANGED <<cur, target, reg, ran>>
  BY DEF Claim, TakeResources, ScopesInv, TypeOK, histVars
<1> QED
  BY <1>1, <1>2, <1>3, <1>4, <1>5

\* claim_disposal gives the effects of an active scope to its cleanup task;
\* a failed scope has none left to give.
LEMMA ClaimScopes ==
  ASSUME ScopesInv, SameRolls, NEW p \in Procs, NEW s \in Scopes, NEW after, NEW left,
         Calls(p, after, left), left \in [Procs -> Seq(Scopes)],
         Claim(p, s, after, left)
  PROVE  ScopesInv' /\ Progress(p)
<1> USE ProcFacts
<1>f. /\ state[s] \in {"Active", "Failed"} /\ pc[s] = "idle" /\ p # s
      /\ p \in Scopes => state[p] = "Unloading"
      /\ after \in {"idle", "clean", "settle"}
  BY ClaimFacts
<1>g. /\ pc'[s] = "clean" /\ pc'[p] = "poll"
      /\ \A q \in Procs \ {p, s} :
           pc'[q] = pc[q] \/ (pc[q] = "asleep" /\ pc'[q] = "poll")
  BY ClaimFacts
<1>h. /\ state'[s] = "Unloading" /\ \A q \in Scopes \ {s} : state'[q] = state[q]
      /\ effs'[s] = effects[s] /\ \A q \in Procs \ {s} : effs'[q] = effs[q]
      /\ effects'[s] = <<>> /\ \A q \in Scopes \ {s} : effects'[q] = effects[q]
      /\ UNCHANGED <<cur, target, reg, ran>>
  BY ClaimFacts
<1>i. /\ cont'[p] = after /\ \A q \in Procs \ {p} : cont'[q] = cont[q]
      /\ call'[p] = s /\ \A q \in Procs \ {p} : call'[q] = call[q]
  BY ClaimFacts
<1>1. TypeOK'
  BY <1>f, ClaimType DEF ScopesInv
<1>2. ASSUME NEW q \in Scopes PROVE TaskInv(q)'
  BY <1>f, <1>g, <1>h DEF ScopesInv, TaskInv
<1>3. ASSUME NEW q \in Scopes PROVE WhereInv(q)'
  <2>1. CASE q # s
    <3>1. \A c \in Clients : effs'[c] = effs[c]
      BY <1>h
    <3> QED
      BY <1>h, <2>1, <3>1, WhereFrame DEF ScopesInv
  <2>2. CASE q = s /\ state[s] = "Failed"
    <3>1. /\ effects[s] = <<>> /\ effs[s] = <<>>
          /\ \A c \in Clients : effs'[c] = effs[c]
      BY <1>h, <2>2 DEF ScopesInv, TaskInv, WhereInv
    <3> QED
      BY <1>h, <2>2, <3>1, WhereFrame DEF ScopesInv
  <2>3. CASE q = s /\ state[s] = "Active"
    <3>1. /\ effects[s] = reg[s] /\ ran[s] = <<>> /\ reg[s] \in Seq(Effects)
          /\ \A c \in Clients : ~Rolls(c, s)
      BY <2>3 DEF ScopesInv, TypeOK, WhereInv
    <3>2. \A c \in Clients : ~Rolls(c, s)'
      BY <3>1 DEF SameRolls, Rolls
    <3>3. Handed(s, s)'
      <4>1. effs'[s] = reg[s] /\ ran'[s] = <<>> /\ reg'[s] = reg[s]
        BY <1>h, <3>1
      <4>2. Split(effs'[s], ran'[s], reg'[s])
        BY <3>1, <4>1, SplitStart
      <4> QED
        BY <4>2 DEF Handed
    <3> QED
      BY <1>h, <2>3, <3>2, <3>3 DEF WhereInv
  <2> QED
    BY <1>f, <2>1, <2>2, <2>3
<1>4. ASSUME NEW c \in Clients PROVE RollInv(c)'
  <2>1. CASE c = p
    BY <1>g, <1>i, <2>1 DEF ScopesInv, RollInv, InCall, Calls, Works, SameRolls
  <2>2. CASE c # p
    <3>1. /\ c \in Procs \ {p, s} /\ cont'[c] = cont[c]
          /\ fpc'[c] = "rolling" <=> fpc[c] = "rolling"
      BY <1>i, <2>2 DEF SameRolls
    <3>2. pc'[c] = pc[c] \/ (pc[c] = "asleep" /\ pc'[c] = "poll")
      BY <1>g, <3>1
    <3> QED
      BY <3>1, <3>2 DEF ScopesInv, RollInv, InCall
  <2> QED
    BY <2>1, <2>2
<1>5. ASSUME NEW q \in Procs PROVE WorkInv(q)'
  <2>1. CASE q = p
    <3>1. InCall(p)' /\ call'[p] \in Scopes /\ pc'[p] # "disposer"
      BY <1>g, <1>i DEF InCall
    <3>2. p \in Scopes => cont'[p] \in {"clean", "settle"}
      BY <1>i DEF Calls, Works
    <3>3. InDisposer(p)' => cur'[p] \in Effects
      BY <1>g, <1>h, <1>i DEF Calls, Works, ScopesInv, WorkInv, InDisposer, InCall
    <3> QED
      BY <2>1, <3>1, <3>2, <3>3 DEF WorkInv
  <2>2. CASE q = s
    BY <1>g, <2>2 DEF WorkInv, InCall, InDisposer
  <2>3. CASE q # p /\ q # s
    BY <1>g, <1>h, <1>i, <2>3, SMTT(30) DEF ScopesInv, WorkInv, InCall, InDisposer, Registered
  <2> QED
    BY <2>1, <2>2, <2>3
<1>6. Progress(p)
  BY <1>f, <1>g, <1>h DEF Progress, StateStep
<1> QED
  BY <1>1, <1>2, <1>3, <1>4, <1>5, <1>6 DEF ScopesInv

\* Joining a disposal, re-entrant or not, moves the caller only.
LEMMA JoinScopes ==
  ASSUME ScopesInv, SameRolls, NEW p \in Procs, NEW s \in Scopes, NEW after, NEW left,
         Calls(p, after, left), left \in [Procs -> Seq(Scopes)],
         Join(p, s, after, left) \/ JoinReentrant(p, s, after, left)
  PROVE  ScopesInv' /\ Progress(p) /\ state[s] \in {"Unloading", "Disposed"}
<1> USE ProcFacts
<1>1. /\ after \in {"idle", "clean", "settle"}
      /\ pc'[p] = after \/ (pc'[p] = "inherit" /\ cont'[p] = after /\ call'[p] = s)
      /\ \A q \in Procs \ {p} : pc'[q] = pc[q] /\ cont'[q] = cont[q] /\ call'[q] = call[q]
      /\ UNCHANGED <<state, effects, effs, reg, ran, cur, target>>
      /\ state[s] \in {"Unloading", "Disposed"}
  BY DEF Calls, Join, JoinReentrant, ScopesInv, TypeOK, resVars, callVars, histVars
<1>2. TypeOK'
  <2>1. CASE Join(p, s, after, left)
    BY <1>1, <2>1 DEF Join, ScopesInv, TypeOK, PCs, resVars, doneVars, histVars
  <2>2. CASE JoinReentrant(p, s, after, left)
    BY <1>1, <2>2 DEF JoinReentrant, ScopesInv, TypeOK, PCs, resVars, doneVars,
       callVars, histVars
  <2> QED
    BY <2>1, <2>2
<1>3. ASSUME NEW q \in Scopes PROVE TaskInv(q)'
  BY <1>1 DEF ScopesInv, TypeOK, ScopeStates, TaskInv, Calls, Works
<1>4. ASSUME NEW c \in Clients PROVE RollInv(c)'
  <2>1. CASE c = p
    BY <1>1, <2>1 DEF ScopesInv, RollInv, InCall, Calls, Works, SameRolls
  <2>2. CASE c # p
    BY <1>1, <2>2, ZenonT(40) DEF ScopesInv, RollInv, InCall, SameRolls
  <2> QED
    BY <2>1, <2>2
<1>5. ASSUME NEW q \in Procs PROVE WorkInv(q)'
  <2>1. CASE q = p
    <3>1. InDisposer(p)' => cur'[p] \in Effects
      BY <1>1 DEF Calls, Works, ScopesInv, WorkInv, InDisposer, InCall
    <3>2. InCall(p)' => /\ call'[p] \in Scopes
                        /\ p \in Scopes => cont'[p] \in {"clean", "settle"}
      BY <1>1 DEF Calls, Works, InCall
    <3>3. pc'[p] # "disposer"
      BY <1>1
    <3> QED
      BY <2>1, <3>1, <3>2, <3>3 DEF WorkInv
  <2>2. CASE q # p
    BY <1>1, <2>2 DEF ScopesInv, WorkInv, InCall, InDisposer, Registered
  <2> QED
    BY <2>1, <2>2
<1>6. Progress(p)
  BY <1>1 DEF Progress, StateStep
<1> QED
  BY <1>1, <1>2, <1>3, <1>4, <1>5, <1>6, MoveScopes

\* Scope::dispose, by whomever: afterwards the scope is not active.
LEMMA DisposeScopes ==
  ASSUME ScopesInv, SameRolls, NEW p \in Procs, NEW s \in Scopes, NEW after, NEW left,
         Calls(p, after, left), left \in [Procs -> Seq(Scopes)],
         Dispose(p, s, after, left)
  PROVE  ScopesInv' /\ Progress(p) /\ state'[s] \in {"Unloading", "Disposed"}
<1>1. CASE Claim(p, s, after, left)
  BY <1>1, ClaimScopes, ClaimFacts
<1>2. CASE Join(p, s, after, left) \/ JoinReentrant(p, s, after, left)
  <2>1. state' = state
    BY <1>2 DEF Join, JoinReentrant
  <2> QED
    BY <1>2, <2>1, JoinScopes
<1> QED
  BY <1>1, <1>2 DEF Dispose

\* A joining caller hands its context over.
LEMMA InheritScopes ==
  ASSUME ScopesInv, SameRolls, NEW p \in Procs, InheritAncestors(p)
  PROVE  ScopesInv' /\ Progress(p)
<1> USE ProcFacts
<1>1. /\ pc[p] = "inherit" /\ pc'[p] = "poll"
      /\ \A q \in Procs \ {p} :
           pc'[q] = pc[q] \/ (pc[q] = "asleep" /\ pc'[q] = "poll")
  BY DEF InheritAncestors, Wake, ScopesInv, TypeOK
<1>2. UNCHANGED <<state, cancelled, resVars, doneVars, callVars, kids, effs, cur,
                  errs, histVars>>
  BY DEF InheritAncestors, workVars
<1>3. TypeOK'
  <2>1. [pc EXCEPT ![p] = "poll"] \in [Procs -> PCs]
    BY DEF ScopesInv, TypeOK, PCs
  <2>2. pc' \in [Procs -> PCs]
    BY <2>1, WakeType DEF InheritAncestors
  <2>3. ancestors' \in [Scopes -> SUBSET Scopes]
    BY <1>1, ContextsType
    DEF InheritAncestors, ScopesInv, TypeOK, WorkInv, InCall
  <2> QED
    BY <1>2, <2>2, <2>3 DEF ScopesInv, TypeOK, resVars, doneVars, callVars, histVars
<1>4. ASSUME NEW q \in Scopes PROVE TaskInv(q)'
  BY <1>1, <1>2 DEF ScopesInv, TypeOK, ScopeStates, TaskInv
<1>5. ASSUME NEW c \in Clients PROVE RollInv(c)'
  <2>1. /\ pc'[c] = pc[c] \/ (InCall(c) /\ InCall(c)')
        /\ cont'[c] = cont[c] /\ (fpc'[c] = "rolling" <=> fpc[c] = "rolling")
    BY <1>1, <1>2 DEF InCall, callVars, SameRolls
  <2> QED
    BY <2>1 DEF ScopesInv, RollInv, InCall
<1>6. ASSUME NEW q \in Procs PROVE WorkInv(q)'
  BY <1>1, <1>2 DEF ScopesInv, WorkInv, InCall, InDisposer, Registered, callVars, histVars
<1>7. Progress(p)
  BY <1>1, <1>2 DEF Progress, StateStep
<1> QED
  BY <1>2, <1>3, <1>4, <1>5, <1>6, <1>7, MoveScopes DEF resVars, histVars

\* Polling a completion moves the caller only.
LEMMA WaitScopes ==
  ASSUME ScopesInv, SameRolls, NEW p \in Procs,
         PollReentrant(p) \/ PollReady(p) \/ PollPending(p)
  PROVE  ScopesInv' /\ Progress(p)
<1> USE ProcFacts
<1>1. /\ pc[p] = "poll" /\ pc'[p] \in {cont[p], "asleep"}
      /\ \A q \in Procs \ {p} : pc'[q] = pc[q]
      /\ UNCHANGED <<state, cancelled, resVars, ancestors, callVars, kids, effs,
                     cur, histVars>>
  BY DEF PollReentrant, PollReady, PollPending, MustWait, ScopesInv, TypeOK, workVars
<1>2. /\ call[p] \in Scopes
      /\ p \in Scopes => cont[p] \in {"clean", "settle"}
      /\ p \in Clients /\ fpc[p] = "rolling" => cont[p] \in {"clean", "settle"}
      /\ p \in Clients /\ fpc[p] # "rolling" => cont[p] = "idle"
  BY <1>1 DEF ScopesInv, WorkInv, RollInv, InCall
<1>3. TypeOK'
  <2>1. pc' \in [Procs -> PCs]
    BY ZenonT(60) DEF PollReentrant, PollReady, PollPending, ScopesInv, TypeOK, PCs
  <2>2. result' = result /\ waiters' \in [Scopes -> SUBSET Procs]
    <3>1. CASE PollReentrant(p) \/ PollReady(p)
      BY <3>1 DEF PollReentrant, PollReady, ScopesInv, TypeOK, doneVars
    <3>2. CASE PollPending(p)
      <4>1. waiters[call[p]] \cup {p} \in SUBSET Procs
        BY <1>2 DEF ScopesInv, TypeOK
      <4> QED
        BY <3>2, <4>1 DEF PollPending, RegisterWaker, ScopesInv, TypeOK
    <3> QED
      BY <3>1, <3>2
  <2>3. errs' \in [Procs -> BOOLEAN]
    BY DEF PollReentrant, PollReady, PollPending, ScopesInv, TypeOK, workVars
  <2> QED
    BY <1>1, <2>1, <2>2, <2>3 DEF ScopesInv, TypeOK, resVars, callVars, histVars
<1>4. ASSUME NEW q \in Scopes PROVE TaskInv(q)'
  BY <1>1, <1>2 DEF ScopesInv, TypeOK, ScopeStates, TaskInv
<1>5. ASSUME NEW c \in Clients PROVE RollInv(c)'
  BY <1>1, <1>2 DEF ScopesInv, RollInv, InCall, callVars, SameRolls
<1>6. ASSUME NEW q \in Procs PROVE WorkInv(q)'
  BY <1>1, <1>2 DEF ScopesInv, WorkInv, InCall, InDisposer, Registered, callVars, histVars
<1>7. Progress(p)
  BY <1>1 DEF Progress, StateStep
<1> QED
  BY <1>1, <1>3, <1>4, <1>5, <1>6, <1>7, MoveScopes DEF resVars, histVars

\* So any poll of a dispose call is harmless.
LEMMA PollScopes ==
  ASSUME ScopesInv, SameRolls, NEW p \in Procs, Poll(p)
  PROVE  ScopesInv' /\ Progress(p)
<1>1. CASE InheritAncestors(p)
  BY <1>1, InheritScopes
<1>2. CASE PollReentrant(p) \/ PollReady(p) \/ PollPending(p)
  BY <1>2, WaitScopes
<1> QED
  BY <1>1, <1>2 DEF Poll

\* The process that has the effects of s: its cleanup task, or the client that
\* rolls it back.
HasEffects(p, s) == p = s \/ (p \in Clients /\ Rolls(p, s))

\* Only the process that has the effects of a scope starts one of them.
LEMMA StartScopes ==
  ASSUME ScopesInv, SetupRunsOnce, SameRolls, NEW p \in Procs, NEW s \in Scopes,
         HasEffects(p, s), StartDisposer(p, s)
  PROVE  ScopesInv' /\ Progress(p)
<1> USE ProcFacts
<1> DEFINE e == Last(effs[p])
<1>1. /\ pc[p] = "clean" /\ effs[p] # <<>>
      /\ effs[p] \in Seq(Effects) /\ ran[s] \in Seq(Effects) /\ reg[s] \in Seq(Effects)
  BY DEF StartDisposer, ScopesInv, TypeOK
<1>2. /\ state[s] \notin {"Absent", "Active"} /\ Handed(p, s)
      /\ \A c \in Clients : Rolls(c, s) => p = c
  <2>1. CASE p = s
    <3>1. state[s] = "Unloading"
      BY <1>1, <2>1 DEF ScopesInv, TypeOK, ScopeStates, TaskInv
    <3> QED
      BY <1>1, <2>1, <3>1 DEF ScopesInv, WhereInv
  <2>2. CASE p \in Clients /\ Rolls(p, s)
    <3>1. state[s] \notin {"Absent", "Active"}
      BY <2>2 DEF ScopesInv, WhereInv
    <3>2. \A c \in Clients : Rolls(c, s) => p = c
      BY <2>2 DEF SetupRunsOnce, Rolls
    <3> QED
      BY <2>2, <3>1, <3>2 DEF ScopesInv, WhereInv
  <2> QED
    BY <2>1, <2>2 DEF HasEffects
<1>3. /\ e \in Range(reg[s]) /\ Split(Front(effs[p]), Append(ran[s], e), reg[s])
  BY <1>1, <1>2, SplitMove DEF Handed
<1>4. Front(effs[p]) \in Seq(Effects) /\ e \in Effects
  BY <1>1, FrontType
<1>5. Append(ran[s], e) \in Seq(Effects)
  BY <1>1, <1>4, AppendProperties
<1>6. /\ effs'[p] = Front(effs[p]) /\ cur'[p] = e /\ ran'[s] = Append(ran[s], e)
      /\ pc'[p] = IF target[e] = None THEN "settle" ELSE "disposer"
      /\ \A q \in Procs \ {p} :
           effs'[q] = effs[q] /\ cur'[q] = cur[q] /\ pc'[q] = pc[q]
      /\ \A q \in Scopes \ {s} : ran'[q] = ran[q]
      /\ UNCHANGED <<state, effects, callVars, target, reg>>
  BY <1>1 DEF StartDisposer, ScopesInv, TypeOK, resVars
<1>7. TypeOK'
  BY <1>1, <1>4, <1>5 DEF StartDisposer, ScopesInv, TypeOK, PCs, resVars, doneVars,
     callVars
<1> HIDE DEF e
<1>8. ASSUME NEW q \in Scopes PROVE TaskInv(q)'
  <2>1. CASE q = p
    BY <1>1, <1>6, <2>1 DEF ScopesInv, TypeOK, ScopeStates, TaskInv
  <2>2. CASE q # p
    BY <1>6, <2>2 DEF ScopesInv, TaskInv
  <2> QED
    BY <2>1, <2>2
<1>9. ASSUME NEW q \in Scopes PROVE WhereInv(q)'
  <2>1. CASE q # s
    <3>1. q # p /\ \A c \in Clients : Rolls(c, q) => c # p
      BY <2>1 DEF HasEffects, Rolls
    <3>2. /\ effs'[q] = effs[q] /\ ran'[q] = ran[q]
          /\ \A c \in Clients : Rolls(c, q) => effs'[c] = effs[c]
      BY <1>6, <2>1, <3>1
    <3> QED
      BY <1>6, <2>1, <3>2, WhereFrame DEF ScopesInv
  <2>2. CASE q = s
    <3>1. /\ state'[s] \notin {"Absent", "Active"} /\ effects'[s] = <<>>
      BY <1>2, <1>6 DEF ScopesInv, WhereInv
    <3>2. Handed(p, s)'
      <4>1. Split(effs'[p], ran'[s], reg'[s])
        BY <1>3, <1>6
      <4> QED
        BY <4>1 DEF Handed
    <3>3. \A c \in Clients : Rolls(c, s)' <=> Rolls(c, s)
      BY DEF SameRolls, Rolls
    <3>4. CASE p = s
      BY <1>2, <2>2, <3>1, <3>2, <3>3, <3>4 DEF WhereInv
    <3>5. CASE p \in Clients /\ Rolls(p, s)
      <4>1. effs'[s] = <<>>
        BY <1>2, <1>6, <3>5 DEF ScopesInv, WhereInv
      <4> QED
        BY <1>2, <2>2, <3>1, <3>2, <3>3, <3>5, <4>1 DEF WhereInv
    <3> QED
      BY <3>4, <3>5 DEF HasEffects
  <2> QED
    BY <2>1, <2>2
<1>10. ASSUME NEW c \in Clients PROVE RollInv(c)'
  <2>1. CASE c = p
    BY <1>6, <2>1 DEF HasEffects, Rolls, SameRolls, RollInv
  <2>2. CASE c # p
    BY <1>6, <2>2 DEF ScopesInv, RollInv, InCall, callVars, SameRolls
  <2> QED
    BY <2>1, <2>2
<1>11. ASSUME NEW q \in Procs PROVE WorkInv(q)'
  <2>1. CASE q = p
    <3>1. target[e] \in Scopes \cup {None}
      BY <1>4 DEF ScopesInv, TypeOK
    <3>2. cur'[p] = e /\ target' = target /\ reg' = reg /\ ~InCall(p)'
      BY <1>6 DEF InCall
    <3>3. \E r \in Scopes : cur'[p] \in Range(reg'[r])
      BY <1>3, <3>2
    <3>4. Registered(cur[p])'
      BY <3>3 DEF Registered
    <3>5. pc'[p] = "disposer" => target'[cur'[p]] \in Scopes
      BY <1>6, <3>1, <3>2
    <3> QED
      BY <1>4, <2>1, <3>2, <3>4, <3>5 DEF WorkInv
  <2>2. CASE q # p
    BY <1>6, <2>2 DEF ScopesInv, WorkInv, InCall, InDisposer, Registered, callVars
  <2> QED
    BY <2>1, <2>2
<1>12. Progress(p)
  BY <1>6 DEF Progress, StateStep
<1> QED
  BY <1>7, <1>8, <1>9, <1>10, <1>11, <1>12 DEF ScopesInv

\* A disposer that returns leaves its process cleaning.
LEMMA FinishScopes ==
  ASSUME ScopesInv, SameRolls, NEW p \in Procs, Works(p), FinishDisposer(p)
  PROVE  ScopesInv' /\ Progress(p)
<1> USE ProcFacts
<1>1. pc[p] = "settle" /\ cur[p] \in Effects
  BY DEF FinishDisposer, ScopesInv, WorkInv, InDisposer
<1>2. /\ pc'[p] = "clean"
      /\ \A q \in Procs \ {p} : cur'[q] = cur[q] /\ pc'[q] = pc[q]
      /\ UNCHANGED <<state, effects, effs, ran, callVars, target, reg>>
  BY DEF FinishDisposer, ScopesInv, TypeOK, resVars
<1>3. TypeOK'
  BY <1>1 DEF FinishDisposer, ScopesInv, TypeOK, PCs, resVars, doneVars, callVars
<1>4. ASSUME NEW q \in Scopes PROVE TaskInv(q)'
  BY <1>1, <1>2 DEF ScopesInv, TypeOK, ScopeStates, TaskInv
<1>5. ASSUME NEW c \in Clients PROVE RollInv(c)'
  <2>1. CASE c = p
    BY <1>2, <2>1 DEF Works, SameRolls, RollInv
  <2>2. CASE c # p
    BY <1>2, <2>2 DEF ScopesInv, RollInv, InCall, callVars, SameRolls
  <2> QED
    BY <2>1, <2>2
<1>6. ASSUME NEW q \in Procs PROVE WorkInv(q)'
  BY <1>2 DEF ScopesInv, WorkInv, InCall, InDisposer, Registered, callVars
<1>7. Progress(p)
  BY <1>2 DEF Progress, StateStep
<1> QED
  BY <1>2, <1>3, <1>4, <1>5, <1>6, <1>7, MoveScopes

\* dispose_resources, by a cleanup task or by a rollback
LEMMA WorkScopes ==
  ASSUME ScopesInv, SetupRunsOnce, SameRolls, NEW p \in Procs, NEW s \in Scopes,
         HasEffects(p, s), Works(p),
         \/ CleanChild(p) \/ StartDisposer(p, s) \/ DisposerDisposes(p)
         \/ FinishDisposer(p)
  PROVE  ScopesInv' /\ Progress(p)
<1>1. CASE CleanChild(p)
  <2>1. /\ pc[p] = "clean" /\ kids[p] \in Seq(Scopes) /\ kids[p] # <<>>
        /\ Dispose(p, Last(kids[p]), "clean", [kids EXCEPT ![p] = Front(@)])
    BY <1>1 DEF CleanChild, ScopesInv, TypeOK
  <2>2. /\ Last(kids[p]) \in Scopes
        /\ [kids EXCEPT ![p] = Front(@)] \in [Procs -> Seq(Scopes)]
    BY <2>1, FrontType DEF ScopesInv, TypeOK
  <2>3. Calls(p, "clean", [kids EXCEPT ![p] = Front(@)])
    BY <2>1 DEF Calls
  <2> QED
    BY <2>1, <2>2, <2>3, DisposeScopes
<1>2. CASE DisposerDisposes(p)
  <2>1. /\ pc[p] = "disposer" /\ target[cur[p]] \in Scopes
        /\ Dispose(p, target[cur[p]], "settle", kids)
        /\ kids \in [Procs -> Seq(Scopes)]
    BY <1>2 DEF DisposerDisposes, ScopesInv, TypeOK, WorkInv
  <2>2. Calls(p, "settle", kids)
    BY <2>1 DEF Calls
  <2> QED
    BY <2>1, <2>2, DisposeScopes
<1> QED
  BY <1>1, <1>2, StartScopes, FinishScopes

\* A cleanup task ends: the scope is Disposed and nothing is left.
LEMMA EndScopes ==
  ASSUME ScopesInv, SameRolls, NEW s \in Scopes, FinishCleanup(s)
  PROVE  ScopesInv' /\ Progress(s)
<1> USE ProcFacts
<1>1. /\ pc[s] = "clean" /\ effs[s] = <<>> /\ state[s] = "Unloading"
  BY DEF FinishCleanup, ScopesInv, TypeOK, ScopeStates, TaskInv
<1>2. /\ pc'[s] = "publish" /\ state'[s] = "Disposed"
      /\ \A q \in Procs \ {s} : pc'[q] = pc[q]
      /\ \A q \in Scopes \ {s} : state'[q] = state[q]
      /\ UNCHANGED <<effects, effs, ran, callVars, cur, target, reg>>
  BY DEF FinishCleanup, ScopesInv, TypeOK, resVars, workVars, histVars
<1>3. TypeOK'
  BY DEF FinishCleanup, ScopesInv, TypeOK, PCs, ScopeStates, resVars, doneVars,
     callVars, workVars, histVars
<1>4. ASSUME NEW q \in Scopes PROVE TaskInv(q)'
  BY <1>1, <1>2 DEF ScopesInv, TaskInv
<1>5. ASSUME NEW q \in Scopes PROVE WhereInv(q)'
  BY <1>1, <1>2, WhereFrame DEF ScopesInv
<1>6. ASSUME NEW c \in Clients PROVE RollInv(c)'
  BY <1>2 DEF ScopesInv, RollInv, InCall, callVars, SameRolls
<1>7. ASSUME NEW q \in Procs PROVE WorkInv(q)'
  BY <1>2 DEF ScopesInv, WorkInv, InCall, InDisposer, Registered, callVars
<1>8. Progress(s)
  BY <1>1, <1>2 DEF Progress, StateStep
<1> QED
  BY <1>3, <1>4, <1>5, <1>6, <1>7, <1>8 DEF ScopesInv

\* Publishing the result and waking the waiters
LEMMA CompleteScopes ==
  ASSUME ScopesInv, SameRolls, NEW s \in Scopes, Publish(s) \/ WakeWaiters(s)
  PROVE  ScopesInv' /\ Progress(s)
<1> USE ProcFacts
<1>1. pc[s] \in {"publish", "notify"} /\ state[s] = "Disposed"
  BY DEF Publish, WakeWaiters, ScopesInv, TypeOK, TaskInv, ScopeStates
<1>2. /\ pc'[s] \in {"notify", "done"}
      /\ \A q \in Procs \ {s} :
           pc'[q] = pc[q] \/ (pc[q] = "asleep" /\ pc'[q] = "poll")
      /\ UNCHANGED <<state, effects, effs, ran, callVars, cur, target, reg>>
  BY DEF Publish, WakeWaiters, Wake, ScopesInv, TypeOK, resVars, workVars, histVars
<1>3. TypeOK'
  <2>1. pc' \in [Procs -> PCs]
    <3>1. CASE Publish(s)
      BY <3>1 DEF Publish, ScopesInv, TypeOK, PCs
    <3>2. CASE WakeWaiters(s)
      <4>1. [pc EXCEPT ![s] = "done"] \in [Procs -> PCs]
        BY DEF ScopesInv, TypeOK, PCs
      <4> QED
        BY <3>2, <4>1, WakeType DEF WakeWaiters
    <3> QED
      BY <3>1, <3>2
  <2>2. /\ result' \in [Scopes -> {"none", "ok", "err"}]
        /\ waiters' \in [Scopes -> SUBSET Procs]
    BY DEF Publish, WakeWaiters, ScopesInv, TypeOK
  <2> QED
    BY <2>1, <2>2 DEF Publish, WakeWaiters, ScopesInv, TypeOK, resVars, callVars,
       workVars, histVars
<1>4. ASSUME NEW q \in Scopes PROVE TaskInv(q)'
  BY <1>1, <1>2 DEF ScopesInv, TypeOK, ScopeStates, TaskInv
<1>5. ASSUME NEW c \in Clients PROVE RollInv(c)'
  <2>1. /\ pc'[c] = pc[c] \/ (InCall(c) /\ InCall(c)')
        /\ cont'[c] = cont[c] /\ (fpc'[c] = "rolling" <=> fpc[c] = "rolling")
    BY <1>2 DEF InCall, callVars, SameRolls
  <2> QED
    BY <2>1 DEF ScopesInv, RollInv, InCall
<1>6. ASSUME NEW q \in Procs PROVE WorkInv(q)'
  BY <1>1, <1>2 DEF ScopesInv, WorkInv, InCall, InDisposer, Registered, callVars
<1>7. Progress(s)
  BY <1>2 DEF Progress, StateStep
<1> QED
  BY <1>2, <1>3, <1>4, <1>5, <1>6, <1>7, MoveScopes

\* All that a cleanup task does
LEMMA TaskScopes ==
  ASSUME ScopesInv, SetupRunsOnce, SameRolls, NEW s \in Scopes, CleanupTask(s)
  PROVE  ScopesInv' /\ Progress(s)
<1>1. s \in Procs /\ HasEffects(s, s) /\ Works(s)
  BY ProcFacts DEF HasEffects, Works
<1> QED
  BY <1>1, WorkScopes, EndScopes, CompleteScopes, PollScopes DEF CleanupTask

\* A new scope has no effects, and none has run.
LEMMA CreateScopes ==
  ASSUME ScopesInv, SameRolls, NEW s \in Scopes,
         NewRoot(s) \/ \E p \in Scopes : NewChild(p, s)
  PROVE  /\ ScopesInv' /\ \A p \in Procs : Progress(p)
         /\ state[s] = "Absent" /\ state'[s] = "Active"
<1>1. /\ state[s] = "Absent" /\ state'[s] = "Active"
      /\ \A q \in Scopes \ {s} : state'[q] = state[q]
      /\ UNCHANGED <<pc, effects, effs, ran, callVars, cur, target, reg>>
  BY DEF NewRoot, NewChild, ScopesInv, TypeOK, resVars, workVars, histVars
<1>2. TypeOK'
  <2>1. ASSUME NEW p \in Scopes, NewChild(p, s) PROVE TypeOK'
    <3>1. Append(children[p], s) \in Seq(Scopes)
      BY AppendProperties DEF ScopesInv, TypeOK
    <3> QED
      BY <2>1, <3>1 DEF NewChild, ScopesInv, TypeOK, ScopeStates, doneVars, callVars,
         workVars
  <2>2. ASSUME NewRoot(s) PROVE TypeOK'
    BY <2>2 DEF NewRoot, ScopesInv, TypeOK, ScopeStates, resVars, doneVars, callVars,
       workVars, histVars
  <2> QED
    BY <2>1, <2>2
<1>3. ASSUME NEW q \in Scopes PROVE TaskInv(q)'
  BY <1>1 DEF ScopesInv, TaskInv
<1>4. ASSUME NEW q \in Scopes PROVE WhereInv(q)'
  BY <1>1, WhereFrame DEF ScopesInv
<1>5. /\ \A c \in Clients : RollInv(c)'
      /\ \A q \in Procs : WorkInv(q)'
  BY <1>1 DEF ScopesInv, RollInv, WorkInv, InCall, InDisposer, Registered, callVars,
     SameRolls
<1>6. \A p \in Procs : Progress(p)
  BY <1>1 DEF Progress, StateStep
<1> QED
  BY <1>1, <1>2, <1>3, <1>4, <1>5, <1>6 DEF ScopesInv

\* An effect is admitted by an active scope, and it is a new one.
LEMMA AddScopes ==
  ASSUME ScopesInv, SameRolls, NEW s \in Scopes, NEW e \in Effects,
         NEW t \in Scopes \cup {None}, AddEffect(s, e, t)
  PROVE  ScopesInv' /\ \A p \in Procs : Progress(p)
<1>1. /\ Append(effects[s], e) \in Seq(Effects) /\ Append(reg[s], e) \in Seq(Effects)
      /\ Range(reg[s]) \subseteq Range(Append(reg[s], e))
  <2>1. effects[s] \in Seq(Effects) /\ reg[s] \in Seq(Effects)
    BY DEF ScopesInv, TypeOK
  <2>2. /\ Append(effects[s], e) \in Seq(Effects) /\ Append(reg[s], e) \in Seq(Effects)
        /\ Len(Append(reg[s], e)) = Len(reg[s]) + 1 /\ Len(reg[s]) \in Nat
        /\ \A i \in 1 .. Len(reg[s]) : Append(reg[s], e)[i] = reg[s][i]
        /\ DOMAIN reg[s] = 1 .. Len(reg[s])
    BY <2>1, AppendProperties, LenProperties
  <2>3. DOMAIN Append(reg[s], e) = 1 .. Len(reg[s]) + 1
    BY <2>2, LenProperties
  <2> QED
    BY <2>2, <2>3 DEF Range
<1>2. /\ state[s] = "Active" /\ ~Registered(e)
      /\ effects'[s] = Append(effects[s], e) /\ reg'[s] = Append(reg[s], e)
      /\ \A q \in Scopes \ {s} : effects'[q] = effects[q] /\ reg'[q] = reg[q]
      /\ \A d \in Effects \ {e} : target'[d] = target[d]
      /\ UNCHANGED <<state, pc, effs, ran, callVars, cur>>
  BY DEF AddEffect, ScopesInv, TypeOK, Registered, workVars
<1>3. TypeOK'
  BY <1>1 DEF AddEffect, ScopesInv, TypeOK, doneVars, callVars, workVars
<1>4. ASSUME NEW q \in Scopes PROVE TaskInv(q)'
  BY <1>2 DEF ScopesInv, TaskInv
<1>5. ASSUME NEW q \in Scopes PROVE WhereInv(q)'
  <2>1. CASE q = s
    <3>1. effects[s] = reg[s] /\ ran[s] = <<>> /\ \A c \in Clients : ~Rolls(c, s)
      BY <1>2 DEF ScopesInv, WhereInv
    <3>2. effects'[s] = reg'[s] /\ ran'[s] = <<>> /\ state'[s] = "Active"
      BY <1>2, <3>1
    <3>3. \A c \in Clients : ~Rolls(c, s)'
      BY <3>1 DEF SameRolls, Rolls
    <3> QED
      BY <2>1, <3>2, <3>3 DEF WhereInv
  <2>2. CASE q # s
    BY <1>2, <2>2, WhereFrame DEF ScopesInv
  <2> QED
    BY <2>1, <2>2
<1>6. ASSUME NEW c \in Clients PROVE RollInv(c)'
  BY <1>2 DEF ScopesInv, RollInv, InCall, callVars, SameRolls
<1>7. ASSUME NEW q \in Procs PROVE WorkInv(q)'
  <2>1. /\ InCall(q)' <=> InCall(q)
        /\ InDisposer(q)' <=> InDisposer(q)
        /\ UNCHANGED <<pc, call, cont, cur>>
    BY <1>2 DEF InCall, InDisposer, callVars
  <2>2. ASSUME pc[q] = "disposer"
        PROVE  Registered(cur[q])' /\ target'[cur[q]] = target[cur[q]]
    <3>1. Registered(cur[q]) /\ cur[q] \in Effects
      BY <2>2 DEF ScopesInv, WorkInv, InDisposer
    <3>2. cur[q] # e /\ cur' = cur
      BY <1>2, <3>1
    <3>3. \E r \in Scopes : cur'[q] \in Range(reg'[r])
      BY <1>1, <1>2, <3>1, <3>2 DEF Registered
    <3> QED
      BY <1>2, <3>1, <3>2, <3>3 DEF Registered
  <2> QED
    BY <2>1, <2>2 DEF ScopesInv, WorkInv
<1>8. \A p \in Procs : Progress(p)
  BY <1>2 DEF Progress, StateStep
<1> QED
  BY <1>3, <1>4, <1>5, <1>6, <1>7, <1>8 DEF ScopesInv

\* Nothing happens to the scopes.
LEMMA IdleScopes ==
  ASSUME ScopesInv, SameRolls, UNCHANGED vars
  PROVE  ScopesInv'
<1>1. TypeOK'
  BY DEF ScopesInv, TypeOK, vars, resVars, doneVars, callVars, workVars, histVars
<1>2. UNCHANGED <<state, effects, effs, reg, ran, pc, cur, target, cont, call>>
  BY DEF vars, resVars, callVars, workVars, histVars
<1>3. \A q \in Scopes : TaskInv(q)'
  BY <1>2 DEF ScopesInv, TaskInv
<1>4. \A c \in Clients : RollInv(c)'
  BY <1>2 DEF ScopesInv, RollInv, InCall, SameRolls
<1>5. \A p \in Procs : WorkInv(p)'
  BY <1>2 DEF ScopesInv, WorkInv, InCall, InDisposer, Registered
<1> QED
  BY <1>1, <1>2, <1>3, <1>4, <1>5, MoveScopes

\* A failed setup takes the effects of its scope, unless disposal was first.
LEMMA RollbackScopes ==
  ASSUME ScopesInv, WordsInv, NEW c \in Clients, Rollback(c)
  PROVE  ScopesInv' /\ Progress(c)
<1> USE ProcFacts
<1> DEFINE f == fib[c]
<1>1. f \in Scopes /\ pc[c] = "idle" /\ fpc[c] = "rollback" /\ state[f] = "Active"
  BY DEF Rollback, WordsInv, StageInv
<1>2. /\ state'[f] = "Failed" /\ \A q \in Scopes \ {f} : state'[q] = state[q]
      /\ effs'[c] = effects[f] /\ \A q \in Procs \ {c} : effs'[q] = effs[q]
      /\ effects'[f] = <<>> /\ \A q \in Scopes \ {f} : effects'[q] = effects[q]
      /\ pc'[c] = "clean" /\ \A q \in Procs \ {c} : pc'[q] = pc[q]
      /\ fpc'[c] = "rolling" /\ \A d \in Clients \ {c} : fpc'[d] = fpc[d]
      /\ UNCHANGED <<callVars, cur, target, reg, ran, fib>>
  BY <1>1 DEF Rollback, TakeResources, Goto, ScopesInv, TypeOK, WordsInv, histVars
<1>3. TypeOK'
  <2>1. /\ children' \in [Scopes -> Seq(Scopes)]
        /\ effects' \in [Scopes -> Seq(Effects)]
        /\ kids' \in [Procs -> Seq(Scopes)]
        /\ effs' \in [Procs -> Seq(Effects)]
    BY <1>1, EmptySeq DEF Rollback, TakeResources, ScopesInv, TypeOK
  <2>2. /\ state' \in [Scopes -> ScopeStates] /\ cancelled' \in [Scopes -> BOOLEAN]
        /\ pc' \in [Procs -> PCs]
    BY <1>1 DEF Rollback, ScopesInv, TypeOK, ScopeStates, PCs
  <2> QED
    BY <2>1, <2>2 DEF Rollback, ScopesInv, TypeOK, doneVars, callVars, histVars
<1>4. ASSUME NEW q \in Scopes PROVE TaskInv(q)'
  BY <1>1, <1>2 DEF ScopesInv, TaskInv
<1>5. ASSUME NEW q \in Scopes PROVE WhereInv(q)'
  <2>1. CASE q = f
    <3>1. /\ effects[f] = reg[f] /\ ran[f] = <<>> /\ effs[f] = <<>>
          /\ reg[f] \in Seq(Effects) /\ \A d \in Clients : ~Rolls(d, f)
      BY <1>1 DEF ScopesInv, TypeOK, TaskInv, WhereInv
    <3>2. \A d \in Clients : fpc'[d] = "rolling" /\ fib'[d] = f => d = c
      BY <1>2, <3>1 DEF Rolls
    <3>3. Split(effs'[c], ran'[f], reg'[f])
      BY <1>2, <3>1, SplitStart
    <3>4. fpc'[c] = "rolling" /\ fib'[c] = f /\ effs'[f] = <<>>
      BY <1>1, <1>2, <3>1
    <3> HIDE DEF f
    <3>5. /\ \A d \in Clients : Rolls(d, q)' => d = c
          /\ Rolls(c, q)' /\ Handed(c, q)' /\ effs'[q] = <<>>
          /\ state'[q] = "Failed" /\ effects'[q] = <<>>
      BY <1>2, <2>1, <3>2, <3>3, <3>4 DEF Rolls, Handed
    <3> QED
      BY <3>5 DEF WhereInv
  <2>2. CASE q # f
    <3>1. \A d \in Clients : Rolls(d, q)' <=> Rolls(d, q)
      BY <1>1, <1>2, <2>2 DEF Rolls
    <3>2. \A d \in Clients : Rolls(d, q) => effs'[d] = effs[d]
      BY <1>1, <1>2 DEF Rolls
    <3>3. UNCHANGED <<state[q], effects[q], reg[q], ran[q], effs[q]>>
      BY <1>1, <1>2, <2>2
    <3>4. /\ Handed(q, q)' <=> Handed(q, q)
          /\ \A d \in Clients : Rolls(d, q) => (Handed(d, q)' <=> Handed(d, q))
      BY <3>2, <3>3 DEF Handed
    <3> QED
      BY <3>1, <3>3, <3>4 DEF ScopesInv, WhereInv
  <2> QED
    BY <2>1, <2>2
<1>6. ASSUME NEW d \in Clients PROVE RollInv(d)'
  BY <1>2 DEF ScopesInv, RollInv, InCall, callVars
<1>7. ASSUME NEW q \in Procs PROVE WorkInv(q)'
  BY <1>2 DEF ScopesInv, WorkInv, InCall, InDisposer, Registered, callVars
<1>8. Progress(c)
  BY <1>1, <1>2 DEF Progress, StateStep
<1> QED
  BY <1>3, <1>4, <1>5, <1>6, <1>7, <1>8 DEF ScopesInv

\* A rollback ends when it has started every effect of the scope.
LEMMA RollbackDoneScopes ==
  ASSUME ScopesInv, WordsInv, NEW c \in Clients, RollbackDone(c)
  PROVE  ScopesInv' /\ Progress(c)
<1> USE ProcFacts
<1> DEFINE f == fib[c]
<1>1. /\ f \in Scopes /\ fpc[c] = "rolling" /\ effs[c] = <<>>
      /\ Rolls(c, f) /\ \A d \in Clients : Rolls(d, f) => d = c
  <2>1. f \in Scopes /\ fpc[c] = "rolling" /\ effs[c] = <<>>
    BY DEF RollbackDone, WordsInv, StageInv
  <2>2. \A d \in Clients : Rolls(d, f) => d = c
    BY <2>1 DEF WordsInv, SetupRunsOnce, Rolls
  <2> QED
    BY <2>1, <2>2 DEF Rolls
<1>2. /\ pc'[c] = "idle" /\ \A q \in Procs \ {c} : pc'[q] = pc[q]
      /\ fpc'[c] = "none" /\ \A d \in Clients \ {c} : fpc'[d] = fpc[d]
      /\ UNCHANGED <<state, effects, effs, callVars, cur, target, reg, ran, fib>>
  BY DEF RollbackDone, Goto, ScopesInv, TypeOK, WordsInv, resVars, histVars
<1>3. TypeOK'
  BY DEF RollbackDone, ScopesInv, TypeOK, PCs, resVars, doneVars, callVars, histVars
<1>4. ASSUME NEW q \in Scopes PROVE TaskInv(q)'
  BY <1>2 DEF ScopesInv, TaskInv
<1>5. ASSUME NEW q \in Scopes PROVE WhereInv(q)'
  <2>1. CASE q = f
    <3>1. /\ state[f] \notin {"Absent", "Active"} /\ effects[f] = <<>>
          /\ effs[f] = <<>> /\ Handed(c, f)
      BY <1>1 DEF ScopesInv, WhereInv
    <3>2. Handed(f, f)
      BY <1>1, <3>1 DEF Handed
    <3> HIDE DEF f
    <3>3. Handed(q, q)'
      BY <1>2, <2>1, <3>2 DEF Handed
    <3>4. \A d \in Clients : ~Rolls(d, q)'
      BY <1>1, <1>2, <2>1 DEF Rolls
    <3> QED
      BY <1>2, <2>1, <3>1, <3>3, <3>4 DEF WhereInv
  <2>2. CASE q # f
    <3>1. \A d \in Clients : Rolls(d, q)' <=> Rolls(d, q)
      BY <1>1, <1>2, <2>2 DEF Rolls
    <3>2. \A p \in Procs : Handed(p, q)' <=> Handed(p, q)
      BY <1>2 DEF Handed
    <3> QED
      BY <1>2, <3>1, <3>2 DEF ScopesInv, WhereInv
  <2> QED
    BY <2>1, <2>2
<1>6. ASSUME NEW d \in Clients PROVE RollInv(d)'
  BY <1>2 DEF ScopesInv, RollInv, InCall, callVars
<1>7. ASSUME NEW q \in Procs PROVE WorkInv(q)'
  BY <1>2 DEF ScopesInv, WorkInv, InCall, InDisposer, Registered, callVars
<1>8. Progress(c)
  BY <1>2 DEF Progress, StateStep
<1> QED
  BY <1>3, <1>4, <1>5, <1>6, <1>7, <1>8 DEF ScopesInv

-----------------------------------------------------------------------------
(***************************************************************************)
(* The state words of the fibers                                           *)
(***************************************************************************)
\* The places at which a client has no dispose call under way
Still == {"cas", "store", "rollback", "disposing"}

\* A step on the scopes by a process that is not in the middle of a fiber
\* operation with nothing to wait for
LEMMA ScopeWords ==
  ASSUME WordsInv, UNCHANGED fiberVars, NEW p \in Procs, Progress(p),
         p \in Clients => fpc[p] \notin Still
  PROVE  WordsInv' /\ SameRolls
<1>1. UNCHANGED <<raw, fpc, fib>>
  BY DEF fiberVars
<1>2. ASSUME NEW f \in Scopes PROVE WordInv(f)'
  <2>1. StateStep(f)
    BY DEF Progress
  <2> QED
    BY <1>1, <2>1 DEF WordsInv, WordInv, StateStep
<1>3. ASSUME NEW c \in Clients PROVE StageInv(c)'
  BY <1>1 DEF WordsInv, StageInv, Progress, Still
<1>4. SetupRunsOnce'
  BY <1>1 DEF WordsInv, SetupRunsOnce
<1> QED
  BY <1>1, <1>2, <1>3, <1>4 DEF WordsInv, SameRolls

\* A new fiber is Pending, and nobody has an operation on it.
LEMMA NewWords ==
  ASSUME WordsInv, NEW f \in Scopes, NEW p \in Procs, Progress(p), pc' = pc,
         state[f] = "Absent", state'[f] = "Active",
         raw' = [raw EXCEPT ![f] = "Pending"], UNCHANGED <<fpc, fib>>
  PROVE  WordsInv'
<1>1. raw[f] = "none" /\ \A c \in Clients : fpc[c] # "none" => fib[c] # f
  <2>1. raw[f] = "none"
    BY DEF WordsInv, WordInv
  <2> QED
    BY <2>1 DEF WordsInv, StageInv
<1>2. /\ raw' \in [Scopes -> FiberStates \cup {"none"}]
      /\ raw'[f] = "Pending" /\ \A g \in Scopes \ {f} : raw'[g] = raw[g]
  BY DEF WordsInv, FiberStates
<1>3. ASSUME NEW g \in Scopes PROVE WordInv(g)'
  <2>1. CASE g = f
    BY <1>1, <1>2, <2>1 DEF WordInv, Setting
  <2>2. CASE g # f
    <3>1. StateStep(g) /\ raw'[g] = raw[g]
      BY <1>2, <2>2 DEF Progress
    <3> QED
      BY <3>1 DEF WordsInv, WordInv, StateStep
  <2> QED
    BY <2>1, <2>2
<1>4. ASSUME NEW c \in Clients PROVE StageInv(c)'
  BY <1>1, <1>2 DEF WordsInv, StageInv
<1>5. SetupRunsOnce'
  BY DEF WordsInv, SetupRunsOnce
<1> QED
  BY <1>2, <1>3, <1>4, <1>5 DEF WordsInv

\* Client c goes on to `where', on fiber f, whose word becomes w; the scopes
\* may have moved on.
Moves(c, f, where, w) ==
  /\ f \in Scopes /\ where \in Stages /\ w \in FiberStates \cup {"none"}
  /\ raw' = [raw EXCEPT ![f] = w]
  /\ fpc' = [fpc EXCEPT ![c] = where]
  /\ fib' = [fib EXCEPT ![c] = f]
  /\ fpc[c] # "none" => fib[c] = f
  /\ raw[f] # "none" /\ w # "none"
  /\ Progress(c)

\* A step of an operation on fiber f keeps the words of the others, and the
\* places of the other clients.
LEMMA MoveWords ==
  ASSUME WordsInv, NEW c \in Clients, NEW f, NEW where, NEW w, Moves(c, f, where, w),
         WordInv(f)', where \in Still => pc'[c] = "idle",
         where \in Setting /\ fpc[c] \notin Setting =>
           \A d \in Clients : fpc[d] \in Setting => fib[d] # f
  PROVE  WordsInv'
<1>1. /\ raw' \in [Scopes -> FiberStates \cup {"none"}]
      /\ fpc' \in [Clients -> Stages] /\ fib' \in [Clients -> Scopes \cup {None}]
      /\ raw'[f] = w /\ \A g \in Scopes \ {f} : raw'[g] = raw[g]
      /\ fpc'[c] = where /\ fib'[c] = f
      /\ \A d \in Clients \ {c} : fpc'[d] = fpc[d] /\ fib'[d] = fib[d]
  BY DEF WordsInv, Moves
<1>2. ASSUME NEW g \in Scopes PROVE WordInv(g)'
  <2>1. CASE g = f
    BY <2>1
  <2>2. CASE g # f
    <3>1. StateStep(g) /\ raw'[g] = raw[g] /\ WordInv(g)
      BY <1>1, <2>2 DEF Moves, Progress, WordsInv
    <3>2. \A d \in Clients : fpc[d] # "none" /\ fib[d] = g => d # c
      BY <2>2 DEF Moves
    <3>3. \A d \in Clients : fpc'[d] \in Setting /\ fib'[d] = g =>
            fpc[d] \in Setting /\ fib[d] = g
      BY <1>1, <2>2
    <3>4. \A d \in Clients : fpc[d] # "none" /\ fib[d] = g =>
            fpc'[d] = fpc[d] /\ fib'[d] = g
      BY <1>1, <3>2
    <3> QED
      BY <3>1, <3>3, <3>4 DEF WordInv, StateStep
  <2> QED
    BY <2>1, <2>2
<1>3. ASSUME NEW d \in Clients PROVE StageInv(d)'
  <2>1. CASE d = c
    BY <1>1, <2>1 DEF StageInv, Moves, Still
  <2>2. CASE d # c
    <3>1. fpc'[d] = fpc[d] /\ fib'[d] = fib[d] /\ (pc[d] = "idle" => pc'[d] = "idle")
      BY <1>1, <2>2 DEF Moves, Progress
    <3>2. fpc[d] # "none" => fib[d] \in Scopes /\ raw'[fib[d]] # "none"
      BY <1>1 DEF WordsInv, StageInv, Moves
    <3> QED
      BY <3>1, <3>2 DEF WordsInv, StageInv
  <2> QED
    BY <2>1, <2>2
<1>4. SetupRunsOnce'
  <2> SUFFICES ASSUME NEW d1 \in Clients, NEW d2 \in Clients,
                      fpc'[d1] \in Setting, fpc'[d2] \in Setting, fib'[d1] = fib'[d2]
               PROVE  d1 = d2
    BY DEF SetupRunsOnce, Setting
  <2>1. \A x, y \in Clients :
          fpc[x] \in Setting /\ fpc[y] \in Setting /\ fib[x] = fib[y] => x = y
    BY DEF WordsInv, SetupRunsOnce, Setting
  <2>2. fpc[c] \in Setting => fib[c] = f
    BY DEF Moves, Setting
  <2> QED
    BY <1>1, <2>1, <2>2
<1> QED
  BY <1>1, <1>2, <1>3, <1>4 DEF WordsInv

\* A step that leaves the scopes alone is progress for everybody.
LEMMA IdleProgress ==
  ASSUME NEW p, UNCHANGED vars
  PROVE  Progress(p) /\ state' = state /\ pc' = pc
  BY DEF vars, Progress, StateStep

\* Fiber::start has found the scope open.
LEMMA StartCheckInv ==
  ASSUME FIInv, NEW c \in Clients, NEW f \in Scopes, StartCheck(c, f)
  PROVE  FIInv'
<1>1. /\ fpc[c] = "none" /\ pc'[c] = "idle" /\ raw[f] # "none"
      /\ state' = state /\ raw' = raw /\ Progress(c)
      /\ fpc' = [fpc EXCEPT ![c] = "cas"] /\ fib' = [fib EXCEPT ![c] = f]
  BY IdleProgress DEF StartCheck, Goto
<1>2. Moves(c, f, "cas", raw[f])
  BY <1>1 DEF Moves, Stages, FIInv, WordsInv
<1>3. /\ fpc'[c] = "cas" /\ \A d \in Clients \ {c} : fpc'[d] = fpc[d] /\ fib'[d] = fib[d]
  BY <1>1 DEF FIInv, WordsInv
<1>4. WordInv(f)'
  BY <1>1, <1>3 DEF FIInv, WordsInv, WordInv, Setting
<1>5. WordsInv'
  BY <1>1, <1>2, <1>4, MoveWords DEF FIInv, Setting
<1>6. SameRolls /\ UNCHANGED vars
  BY <1>1, <1>3 DEF SameRolls, StartCheck
<1> QED
  BY <1>5, <1>6, IdleScopes DEF FIInv

\* The compare_exchange: whoever finds Pending is alone in the setup.
LEMMA StartCasInv ==
  ASSUME FIInv, NEW c \in Clients, StartCas(c)
  PROVE  FIInv'
<1> DEFINE f == fib[c]
<1>1. /\ fpc[c] = "cas" /\ f \in Scopes /\ raw[f] # "none" /\ fib' = fib
      /\ fib' = [fib EXCEPT ![c] = f]
      /\ state' = state /\ pc' = pc /\ pc[c] = "idle" /\ Progress(c)
  BY IdleProgress DEF StartCas, FIInv, WordsInv, StageInv
<1>2. CASE CanLoad(f) /\ raw' = [raw EXCEPT ![f] = "Loading"] /\ Goto(c, "setup")
  <2>1. /\ raw'[f] = "Loading" /\ raw[f] = "Pending"
        /\ fpc'[c] = "setup" /\ \A d \in Clients \ {c} : fpc'[d] = fpc[d]
    BY <1>1, <1>2 DEF Goto, CanLoad, FIInv, WordsInv
  <2>2. Moves(c, f, "setup", "Loading")
    BY <1>1, <1>2 DEF Moves, Stages, Setting, FiberStates, Goto
  <2>3. \A d \in Clients : fpc[d] \in Setting => fib[d] # f
    BY <1>1, <2>1 DEF FIInv, WordsInv, WordInv
  <2>4. ASSUME NEW g, g = f PROVE WordInv(g)'
    BY <1>1, <2>1, <2>4 DEF FIInv, WordsInv, WordInv
  <2> HIDE DEF f
  <2>5. WordsInv'
    BY <2>2, <2>3, <2>4, MoveWords DEF FIInv, Still
  <2>6. SameRolls /\ UNCHANGED vars
    BY <1>1, <2>1 DEF SameRolls, StartCas
  <2> QED
    BY <2>5, <2>6, IdleScopes DEF FIInv
<1>3. CASE Goto(c, "none") /\ raw' = raw
  <2>1. fpc'[c] = "none" /\ \A d \in Clients \ {c} : fpc'[d] = fpc[d]
    BY <1>3 DEF Goto, FIInv, WordsInv
  <2>2. Moves(c, f, "none", raw[f])
    BY <1>1, <1>3 DEF Moves, Stages, Goto, FIInv, WordsInv
  <2>3. ASSUME NEW g, g = f PROVE WordInv(g)'
    BY <1>1, <1>3, <2>1, <2>3 DEF FIInv, WordsInv, WordInv, Setting
  <2> HIDE DEF f
  <2>4. WordsInv'
    BY <2>2, <2>3, MoveWords DEF FIInv, Still, Setting
  <2>5. SameRolls /\ UNCHANGED vars
    BY <1>1, <2>1 DEF SameRolls, StartCas
  <2> QED
    BY <2>4, <2>5, IdleScopes DEF FIInv
<1> QED
  BY <1>2, <1>3 DEF StartCas

\* The setup has returned Ok and the scope is looked at once more.
LEMMA SetupOkInv ==
  ASSUME FIInv, NEW c \in Clients, SetupOk(c)
  PROVE  FIInv'
<1> DEFINE f == fib[c]
           where == IF state[f] = "Active" THEN "store" ELSE "none"
<1>1. /\ fpc[c] = "setup" /\ f \in Scopes /\ raw[f] # "none" /\ raw' = raw /\ fib' = fib
      /\ fib' = [fib EXCEPT ![c] = f]
      /\ state' = state /\ pc' = pc /\ pc[c] = "idle" /\ Progress(c)
  BY IdleProgress DEF SetupOk, FIInv, WordsInv, StageInv
<1>2. /\ fpc'[c] = where /\ \A d \in Clients \ {c} : fpc'[d] = fpc[d]
      /\ fpc' = [fpc EXCEPT ![c] = where]
  BY DEF SetupOk, Goto, FIInv, WordsInv
<1>3. Moves(c, f, where, raw[f])
  BY <1>1, <1>2 DEF Moves, Stages, Setting, FIInv, WordsInv
<1>4. ASSUME NEW g, g = f PROVE WordInv(g)'
  BY <1>1, <1>2, <1>4 DEF FIInv, WordsInv, WordInv, Setting
<1>5. SameRolls /\ UNCHANGED vars
  BY <1>1, <1>2 DEF SameRolls, SetupOk
<1> HIDE DEF f, where
<1>6. WordsInv'
  BY <1>1, <1>3, <1>4, MoveWords DEF FIInv, Setting
<1> QED
  BY <1>5, <1>6, IdleScopes DEF FIInv

\* Active is stored, however late.
LEMMA StoreActiveInv ==
  ASSUME FIInv, NEW c \in Clients, StoreActive(c)
  PROVE  FIInv'
<1> DEFINE f == fib[c]
<1>1. /\ fpc[c] = "store" /\ f \in Scopes /\ raw[f] # "none" /\ fib' = fib
      /\ fib' = [fib EXCEPT ![c] = f]
      /\ state' = state /\ pc' = pc /\ Progress(c)
  BY IdleProgress DEF StoreActive, FIInv, WordsInv, StageInv
<1>2. /\ fpc'[c] = "none" /\ \A d \in Clients \ {c} : fpc'[d] = fpc[d]
      /\ raw'[f] = "Active"
  BY <1>1 DEF StoreActive, Goto, FIInv, WordsInv
<1>3. Moves(c, f, "none", "Active")
  BY <1>1 DEF Moves, Stages, FiberStates, StoreActive, Goto
<1>4. ASSUME NEW g, g = f PROVE WordInv(g)'
  BY <1>1, <1>2, <1>4 DEF FIInv, WordsInv, WordInv
<1>5. SameRolls /\ UNCHANGED vars
  BY <1>1, <1>2 DEF SameRolls, StoreActive
<1> HIDE DEF f
<1>6. WordsInv'
  BY <1>3, <1>4, MoveWords DEF FIInv, Setting, Still
<1> QED
  BY <1>5, <1>6, IdleScopes DEF FIInv

\* The setup has failed.
LEMMA SetupErrInv ==
  ASSUME FIInv, NEW c \in Clients, SetupErr(c)
  PROVE  FIInv'
<1> DEFINE f == fib[c]
<1>1. /\ fpc[c] = "setup" /\ f \in Scopes /\ raw[f] # "none" /\ fib' = fib
      /\ fib' = [fib EXCEPT ![c] = f]
      /\ state' = state /\ pc' = pc /\ pc[c] = "idle" /\ Progress(c)
  BY IdleProgress DEF SetupErr, FIInv, WordsInv, StageInv
<1>2. /\ fpc'[c] = "rollback" /\ \A d \in Clients \ {c} : fpc'[d] = fpc[d]
      /\ raw'[f] = "Failed"
  BY <1>1 DEF SetupErr, Goto, FIInv, WordsInv
<1>3. Moves(c, f, "rollback", "Failed")
  BY <1>1 DEF Moves, Stages, Setting, FiberStates, SetupErr, Goto
<1>4. ASSUME NEW g, g = f PROVE WordInv(g)'
  BY <1>1, <1>2, <1>4 DEF FIInv, WordsInv, WordInv
<1>5. SameRolls /\ UNCHANGED vars
  BY <1>1, <1>2 DEF SameRolls, SetupErr
<1> HIDE DEF f
<1>6. WordsInv'
  BY <1>1, <1>3, <1>4, MoveWords DEF FIInv, Setting
<1> QED
  BY <1>5, <1>6, IdleScopes DEF FIInv

\* The rollback begins, has come too late, or is over.
LEMMA RollbackInv ==
  ASSUME FIInv, NEW c \in Clients, Rollback(c) \/ RollbackLost(c) \/ RollbackDone(c)
  PROVE  FIInv'
<1> DEFINE f == fib[c]
<1>1. PICK where \in {"rolling", "none"} :
        /\ fpc' = [fpc EXCEPT ![c] = where]
        /\ where = "rolling" => Rollback(c)
  BY DEF Rollback, RollbackLost, RollbackDone, Goto
<1>2. /\ fpc[c] \in {"rollback", "rolling"} /\ f \in Scopes /\ raw[f] # "none"
      /\ raw' = raw /\ fib' = fib /\ fib' = [fib EXCEPT ![c] = f]
  BY DEF Rollback, RollbackLost, RollbackDone, FIInv, WordsInv, StageInv
<1>3. Progress(c) /\ ScopesInv'
  <2>1. CASE Rollback(c)
    BY <2>1, RollbackScopes DEF FIInv
  <2>2. CASE RollbackDone(c)
    BY <2>2, RollbackDoneScopes DEF FIInv
  <2>3. CASE RollbackLost(c)
    <3>1. UNCHANGED vars
      BY <2>3 DEF RollbackLost
    <3>2. SameRolls
      BY <2>3 DEF RollbackLost, Goto, FIInv, WordsInv, SameRolls
    <3> QED
      BY <3>1, <3>2, IdleProgress, IdleScopes DEF FIInv
  <2> QED
    BY <2>1, <2>2, <2>3
<1>4. fpc'[c] = where /\ \A d \in Clients \ {c} : fpc'[d] = fpc[d]
  BY <1>1 DEF FIInv, WordsInv
<1>5. Moves(c, f, where, raw[f])
  BY <1>1, <1>2, <1>3 DEF Moves, Stages, Setting, FIInv, WordsInv
<1>6. ASSUME NEW g, g = f PROVE WordInv(g)'
  <2>1. StateStep(f)
    BY <1>2, <1>3 DEF Progress
  <2>2. \A d \in Clients : fpc'[d] \in Setting => fpc[d] \in Setting
    BY <1>2, <1>4 DEF Setting
  <2>3. \A d \in Clients : fpc[d] \in {"setup", "store", "disposing"} => fpc'[d] = fpc[d]
    BY <1>2, <1>4
  <2> QED
    BY <1>2, <1>6, <2>1, <2>2, <2>3 DEF FIInv, WordsInv, WordInv, StateStep
<1> HIDE DEF f
<1>7. WordsInv'
  BY <1>2, <1>5, <1>6, MoveWords DEF FIInv, Setting, Still
<1> QED
  BY <1>3, <1>7 DEF FIInv

\* Fiber::dispose marks the fiber as Unloading.
LEMMA FiberDisposeInv ==
  ASSUME FIInv, NEW c \in Clients, NEW f \in Scopes, FiberDispose(c, f)
  PROVE  FIInv'
<1> DEFINE w == IF raw[f] \in {"Unloading", "Disposed"} THEN raw[f] ELSE "Unloading"
<1>1. /\ fpc[c] = "none" /\ pc'[c] = "idle" /\ raw[f] # "none"
      /\ state' = state /\ raw' = [raw EXCEPT ![f] = w] /\ Progress(c)
      /\ fpc' = [fpc EXCEPT ![c] = "disposing"] /\ fib' = [fib EXCEPT ![c] = f]
  BY IdleProgress DEF FiberDispose, Goto, FIInv, WordsInv
<1>2. Moves(c, f, "disposing", w)
  BY <1>1 DEF Moves, Stages, FiberStates, FIInv, WordsInv
<1>3. /\ fpc'[c] = "disposing" /\ fib'[c] = f
      /\ \A d \in Clients \ {c} : fpc'[d] = fpc[d] /\ fib'[d] = fib[d]
      /\ raw'[f] = w
  BY <1>1 DEF FIInv, WordsInv
<1>4. WordInv(f)'
  BY <1>1, <1>3 DEF FIInv, WordsInv, WordInv
<1>5. WordsInv'
  BY <1>1, <1>2, <1>4, MoveWords DEF FIInv, Setting
<1>6. SameRolls /\ UNCHANGED vars
  BY <1>1, <1>3 DEF SameRolls, FiberDispose
<1> QED
  BY <1>5, <1>6, IdleScopes DEF FIInv

\* It disposes the scope, which is not active from then on.
LEMMA FiberDisposeScopeInv ==
  ASSUME FIInv, NEW c \in Clients, FiberDisposeScope(c)
  PROVE  FIInv'
<1> DEFINE f == fib[c]
<1>1. /\ fpc[c] = "disposing" /\ f \in Scopes /\ raw[f] # "none" /\ raw' = raw
      /\ fib' = fib /\ fib' = [fib EXCEPT ![c] = f] /\ pc[c] = "idle"
      /\ fpc' = [fpc EXCEPT ![c] = "awaiting"]
      /\ Dispose(c, f, "idle", kids)
  BY DEF FiberDisposeScope, Goto, FIInv, WordsInv, StageInv
<1>2. fpc'[c] = "awaiting" /\ \A d \in Clients \ {c} : fpc'[d] = fpc[d]
  BY <1>1 DEF FIInv, WordsInv
<1>3. SameRolls
  BY <1>1, <1>2 DEF SameRolls
<1>4. ScopesInv' /\ Progress(c) /\ state'[f] \in {"Unloading", "Disposed"}
  <2>1. c \in Procs /\ Calls(c, "idle", kids) /\ kids \in [Procs -> Seq(Scopes)]
    BY <1>1, ProcFacts DEF Calls, FIInv, ScopesInv, TypeOK
  <2> QED
    BY <1>1, <1>3, <2>1, DisposeScopes DEF FIInv
<1>5. Moves(c, f, "awaiting", raw[f])
  BY <1>1, <1>4 DEF Moves, Stages, FIInv, WordsInv
<1>6. ASSUME NEW g, g = f PROVE WordInv(g)'
  <2>1. StateStep(f)
    BY <1>1, <1>4 DEF Progress
  <2> QED
    BY <1>1, <1>2, <1>4, <1>6, <2>1 DEF FIInv, WordsInv, WordInv, StateStep, Setting
<1> HIDE DEF f
<1>7. WordsInv'
  BY <1>5, <1>6, MoveWords DEF FIInv, Setting, Still
<1> QED
  BY <1>4, <1>7 DEF FIInv

\* Disposed is stored only for a scope that is.
LEMMA FiberDisposedInv ==
  ASSUME FIInv, NEW c \in Clients, FiberDisposed(c)
  PROVE  FIInv'
<1> DEFINE f == fib[c]
           w == IF state[f] = "Disposed" THEN "Disposed" ELSE raw[f]
<1>1. /\ fpc[c] = "awaiting" /\ f \in Scopes /\ raw[f] # "none" /\ fib' = fib
      /\ fib' = [fib EXCEPT ![c] = f] /\ raw' = [raw EXCEPT ![f] = w]
      /\ fpc' = [fpc EXCEPT ![c] = "none"]
      /\ state' = state /\ Progress(c)
  BY IdleProgress DEF FiberDisposed, Goto, FIInv, WordsInv, StageInv
<1>2. /\ fpc'[c] = "none" /\ \A d \in Clients \ {c} : fpc'[d] = fpc[d]
      /\ raw'[f] = w
  BY <1>1 DEF FIInv, WordsInv
<1>3. Moves(c, f, "none", w)
  BY <1>1 DEF Moves, Stages, FiberStates, FIInv, WordsInv
<1>4. ASSUME NEW g, g = f PROVE WordInv(g)'
  BY <1>1, <1>2, <1>4 DEF FIInv, WordsInv, WordInv, Setting
<1>5. SameRolls /\ UNCHANGED vars
  BY <1>1, <1>2 DEF SameRolls, FiberDisposed
<1> HIDE DEF f, w
<1>6. WordsInv'
  BY <1>3, <1>4, MoveWords DEF FIInv, Setting, Still
<1> QED
  BY <1>5, <1>6, IdleScopes DEF FIInv

-----------------------------------------------------------------------------
\* Every run starts in the invariant: nothing is created and nobody calls.
LEMMA InitFIInv == FInit => FIInv
<1> SUFFICES ASSUME FInit PROVE FIInv
  OBVIOUS
<1> USE ProcFacts DEF FInit
<1>1. TypeOK
  BY EmptySeq DEF Init, TypeOK, ScopeStates, PCs
<1>2. \A s \in Scopes : TaskInv(s) /\ WhereInv(s)
  BY DEF Init, TaskInv, WhereInv, Rolls
<1>3. /\ \A c \in Clients : RollInv(c)
      /\ \A p \in Procs : WorkInv(p)
  BY DEF Init, RollInv, WorkInv, InCall, InDisposer
<1>4. WordsInv
  BY DEF WordsInv, WordInv, StageInv, SetupRunsOnce, Setting, Stages, FiberStates
<1> QED
  BY <1>1, <1>2, <1>3, <1>4 DEF FIInv, ScopesInv

\* A step on the scopes alone
LEMMA ScopeStepInv ==
  ASSUME FIInv, ScopeOperation, UNCHANGED fiberVars
  PROVE  FIInv'
<1>1. SameRolls /\ SetupRunsOnce
  BY DEF SameRolls, fiberVars, FIInv, WordsInv
<1>2. ASSUME NEW s \in Scopes, NewRoot(s) PROVE FIInv'
  <2>1. ScopesInv' /\ s \in Procs /\ Progress(s)
    BY <1>1, <1>2, CreateScopes, ProcFacts DEF FIInv
  <2> QED
    BY <2>1, ScopeWords, ProcFacts DEF FIInv
<1>3. ASSUME NEW s \in Scopes, CleanupTask(s) PROVE FIInv'
  <2>1. ScopesInv' /\ s \in Procs /\ Progress(s)
    BY <1>1, <1>3, TaskScopes, ProcFacts DEF FIInv
  <2> QED
    BY <2>1, ScopeWords, ProcFacts DEF FIInv
<1>4. ASSUME NEW s \in Scopes, NEW e \in Effects, NEW t \in Scopes \cup {None},
             AddEffect(s, e, t)
      PROVE  FIInv'
  <2>1. ScopesInv' /\ s \in Procs /\ Progress(s)
    BY <1>1, <1>4, AddScopes, ProcFacts DEF FIInv
  <2> QED
    BY <2>1, ScopeWords, ProcFacts DEF FIInv
<1>5. ASSUME NEW c \in Clients, NEW s \in Scopes,
             fpc[c] \in {"none", "setup"}, ClientDispose(c, s)
      PROVE  FIInv'
  <2>1. c \in Procs /\ Calls(c, "idle", kids) /\ kids \in [Procs -> Seq(Scopes)]
    BY <1>5, ProcFacts DEF ClientDispose, Calls, FIInv, ScopesInv, TypeOK
  <2>2. ScopesInv' /\ Progress(c)
    BY <1>1, <1>5, <2>1, DisposeScopes DEF ClientDispose, FIInv
  <2> QED
    BY <1>5, <2>1, <2>2, ScopeWords DEF FIInv, Still
<1> QED
  BY <1>2, <1>3, <1>4, <1>5 DEF ScopeOperation

\* A step of a client that has called start or dispose
LEMMA OperationInv ==
  ASSUME FIInv, NEW c \in Clients, FiberOperation(c)
  PROVE  FIInv'
<1>1. CASE RollbackStep(c)
  <2>1. /\ fpc[c] = "rolling" /\ UNCHANGED fiberVars /\ fib[c] \in Scopes
        /\ \/ CleanChild(c) \/ StartDisposer(c, fib[c]) \/ DisposerDisposes(c)
           \/ FinishDisposer(c)
    BY <1>1 DEF RollbackStep, FIInv, WordsInv, StageInv
  <2>2. /\ c \in Procs /\ HasEffects(c, fib[c]) /\ Works(c)
        /\ SameRolls /\ SetupRunsOnce
    BY <2>1, ProcFacts
    DEF HasEffects, Rolls, Works, SameRolls, fiberVars, FIInv, WordsInv
  <2>3. ScopesInv' /\ Progress(c)
    BY <2>1, <2>2, WorkScopes DEF FIInv
  <2> QED
    BY <2>1, <2>2, <2>3, ScopeWords DEF FIInv, Still
<1>2. CASE Poll(c) /\ UNCHANGED fiberVars
  <2>1. c \in Procs /\ SameRolls
    BY <1>2, ProcFacts DEF SameRolls, fiberVars
  <2>2. fpc[c] \notin Still
    BY <1>2 DEF Poll, InheritAncestors, PollReentrant, PollReady, PollPending,
       MustWait, FIInv, WordsInv, StageInv, Still
  <2>3. ScopesInv' /\ Progress(c)
    BY <1>2, <2>1, PollScopes DEF FIInv
  <2> QED
    BY <1>2, <2>1, <2>2, <2>3, ScopeWords DEF FIInv
<1> QED
  BY <1>1, <1>2, StartCasInv, SetupOkInv, StoreActiveInv, SetupErrInv, RollbackInv,
     FiberDisposeScopeInv, FiberDisposedInv DEF FiberOperation

\* Every step preserves the invariant.
LEMMA StepFIInv == FIInv /\ [FNext]_fvars => FIInv'
<1> SUFFICES ASSUME FIInv, [FNext]_fvars PROVE FIInv'
  OBVIOUS
<1>1. CASE ScopeOperation /\ UNCHANGED fiberVars
  BY <1>1, ScopeStepInv
<1>2. ASSUME NEW p \in Scopes, NEW f \in Scopes, NewFiber(p, f) PROVE FIInv'
  <2>1. /\ NewChild(p, f) /\ raw' = [raw EXCEPT ![f] = "Pending"]
        /\ UNCHANGED <<fpc, fib>> /\ pc' = pc /\ f \in Procs /\ SameRolls
    BY <1>2, ProcFacts DEF NewFiber, NewChild, SameRolls
  <2>2. /\ ScopesInv' /\ Progress(f) /\ state[f] = "Absent" /\ state'[f] = "Active"
    BY <2>1, CreateScopes DEF FIInv
  <2> QED
    BY <2>1, <2>2, NewWords DEF FIInv
<1>3. ASSUME NEW c \in Clients, FiberOperation(c) PROVE FIInv'
  BY <1>3, OperationInv
<1>4. ASSUME NEW c \in Clients, NEW f \in Scopes, StartCheck(c, f) \/ FiberDispose(c, f)
      PROVE  FIInv'
  BY <1>4, StartCheckInv, FiberDisposeInv
<1>5. CASE UNCHANGED fvars
  <2>1. UNCHANGED vars /\ UNCHANGED <<raw, fpc, fib>>
    BY <1>5 DEF fvars, fiberVars
  <2>2. SameRolls /\ state' = state /\ pc' = pc
    BY <2>1 DEF SameRolls, vars
  <2>3. ScopesInv'
    BY <2>1, <2>2, IdleScopes DEF FIInv
  <2>4. WordsInv'
    BY <2>1, <2>2 DEF FIInv, WordsInv, WordInv, StageInv, SetupRunsOnce
  <2> QED
    BY <2>3, <2>4 DEF FIInv
<1> QED
  BY <1>1, <1>2, <1>3, <1>4, <1>5 DEF FNext

\* In every behaviour of scopes and fibers the effects of a scope are with one
\* process, and the state words agree with the operations under way.
THEOREM FiberInvariance == FFairSpec => []FIInv
  BY InitFIInv, StepFIInv, PTL DEF FFairSpec, FSpec

\* Rollback and disposal race for the resources of a fiber and one of them gets
\* them, the setup runs once, and no operation leaves a fiber half way, for
\* every forest and any number of concurrent callers.
THEOREM FibersAreConsistent == FFairSpec => []FiberInv
<1>1. ASSUME FIInv PROVE FiberInv
  <2> USE <1>1
  <2>1. FTypeOK
    BY DEF FIInv, ScopesInv, WordsInv, FTypeOK, Stages, Setting
  <2>2. ASSUME NEW s \in Scopes, state[s] \in {"Absent", "Active"} PROVE ran[s] = <<>>
    BY <2>2 DEF FIInv, ScopesInv, WhereInv
  <2>3. ASSUME NEW s \in Scopes, state[s] \notin {"Absent", "Active"}
        PROVE  /\ IsPrefix(ran[s], Reverse(reg[s]))
               /\ effs[s] = <<>> /\ ~Rolling(s) => ran[s] = Reverse(reg[s])
    <3>1. /\ ran[s] \in Seq(Effects) /\ reg[s] \in Seq(Effects)
          /\ \A p \in Procs : effs[p] \in Seq(Effects)
      BY DEF FIInv, ScopesInv, TypeOK
    <3>2. /\ (\A c \in Clients : ~Rolls(c, s)) => Handed(s, s)
          /\ \A c \in Clients : Rolls(c, s) => Handed(c, s)
      BY <2>3 DEF FIInv, ScopesInv, WhereInv
    <3>3. PICK p \in Procs : Handed(p, s) /\ (~Rolling(s) => p = s)
      <4>1. CASE \A c \in Clients : ~Rolls(c, s)
        BY <3>2, <4>1, ProcFacts
      <4>2. ASSUME NEW c \in Clients, Rolls(c, s)
            PROVE  \E p \in Procs : Handed(p, s) /\ (~Rolling(s) => p = s)
        BY <3>2, <4>2, ProcFacts DEF Rolling, Rolls
      <4> QED
        BY <4>1, <4>2
    <3>4. Split(effs[p], ran[s], reg[s])
      BY <3>3 DEF Handed
    <3> QED
      BY <3>1, <3>3, <3>4, SplitOrder
  <2>4. CleanedOnceInOrder
    <3> SUFFICES ASSUME NEW s \in Scopes, state[s] # "Active"
                 PROVE  IsPrefix(ran[s], Reverse(reg[s]))
      BY DEF CleanedOnceInOrder
    <3>1. CASE state[s] = "Absent"
      <4>1. ran[s] = <<>> /\ reg[s] \in Seq(Effects)
        BY <2>2, <3>1 DEF FIInv, ScopesInv, TypeOK
      <4>2. <<>> \in Seq(Effects) /\ Split(reg[s], <<>>, reg[s])
        BY <4>1, EmptySeq, SplitStart
      <4> QED
        BY <4>1, <4>2, SplitOrder, ZenonT(40)
    <3> QED
      BY <2>3, <3>1
  <2>5. OnlyRollbackOutlivesDisposal
    <3>1. \A s \in Scopes : state[s] = "Disposed" => effs[s] = <<>>
      BY DEF FIInv, ScopesInv, TaskInv
    <3> QED
      BY <2>3, <3>1 DEF OnlyRollbackOutlivesDisposal
  <2>6. NoFiberStuckHalfway
    <3> SUFFICES ASSUME NEW f \in Scopes, raw[f] # "none",
                        \A c \in Clients : fpc[c] = "none" \/ fib[c] # f,
                        pc[f] \in {"idle", "publish", "notify", "done"}
                 PROVE  FiberState(f) \in {"Pending", "Active", "Failed", "Disposed"}
      BY DEF NoFiberStuckHalfway
    <3>1. state[f] \in {"Active", "Failed", "Disposed"}
      <4>1. state[f] \in ScopeStates /\ TaskInv(f) /\ WordInv(f)
        BY DEF FIInv, ScopesInv, TypeOK, WordsInv
      <4>2. state[f] # "Absent" /\ state[f] # "Unloading"
        BY <4>1 DEF TaskInv, WordInv
      <4> QED
        BY <4>1, <4>2 DEF ScopeStates
    <3>2. state[f] = "Active" => raw[f] \in {"Pending", "Active", "Failed"}
      BY DEF FIInv, WordsInv, WordInv, FiberStates
    <3> QED
      BY <3>1, <3>2 DEF FiberState
  <2> QED
    BY <2>1, <2>4, <2>5, <2>6 DEF FiberInv, FIInv, WordsInv
<1> QED
  BY <1>1, FiberInvariance, PTL
=============================================================================

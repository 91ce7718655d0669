--------------------------- MODULE ServiceProofs ---------------------------
(***************************************************************************)
(* Proofs about ServiceRegistry and about ManagedNative, the plugin that   *)
(* follows a service of the registry.  The two share no state.             *)
(***************************************************************************)
EXTENDS ServiceRegistry, ManagedNative, SequenceTheorems, FiniteSetTheorems, TLAPS

(***************************************************************************)
(* Proofs about ServiceRegistry, for any services, stagings, owners,       *)
(* subscriptions and threads.                                              *)
(*                                                                         *)
(* The inductive invariant has a part for each promise of the registry:    *)
(* generations are given once, a staging knows what it has seen of the     *)
(* host, providers and listeners have their disposers, and a change that a *)
(* listener has not been told of is on the list of some thread.            *)
(***************************************************************************)
Effects ==
  [what : {"provider"}, svc : Services, gen : Gens]
  \cup [what : {"listener"}, sub : Listeners]

Jobs == [reg : Registries, svcs : Seq(Services)]

RTypes ==
  /\ RTypeOK
  /\ effects \in [Owners -> Seq(Effects)]
  /\ todo \in [Threads -> Jobs]

\* next_generation() is ahead of every generation that is anywhere.
FreshInv ==
  /\ \A r \in Registries, k \in Services : providers[r][k] < nextGen
  /\ \A u \in Users : held[u].gen < nextGen

\* A generation provides one service, in one registry.
UniqueInv ==
  \A r1, r2 \in Registries, k1, k2 \in Services :
    providers[r1][k1] # NoGen /\ providers[r1][k1] = providers[r2][k2] =>
      r1 = r2 /\ k1 = k2

\* A staging remembers what it has seen of the host for exactly the services
\* it provides; where that was a provider, it has replaced it.
StageInv ==
  \A r \in Staged, k \in Services :
    /\ providers[r][k] = NoGen <=> expected[r][k] = Unset
    /\ committed[r] => providers[r][k] = NoGen
    /\ expected[r][k] \in Gens => kind[providers[r][k]] = "replace"

\* What a handle of the host has got is not in a staging.
HeldInv ==
  \A u \in Users, r \in Staged, k \in Services :
    held[u] # NoHandle /\ held[u].reg = Host => providers[r][k] # held[u].gen

\* The disposer of a subscription
Ending(l) == [what |-> "listener", sub |-> l]

Enlisting(l) == \E t \in Threads : act[t] = "enlist" /\ on[t] = l

\* Providers and listeners have a disposer, and a closed scope has none left.
OwnInv ==
  /\ \A r \in Registries, k \in Services : providers[r][k] # NoGen =>
       \E o \in Owners : /\ Target(View[o]) = r
                         /\ Disposer(k, providers[r][k]) \in Range(effects[o])
  /\ \A l \in listeners : Enlisting(l) \/ Ending(l) \in Range(effects[SubOwner[l]])
  /\ \A o \in Owners : scope[o] = "closed" => effects[o] = <<>>

\* What a thread does is done for an owner or for a subscription.
JobInv ==
  \A t \in Threads :
    /\ act[t] = "clean" => on[t] \in Owners
    /\ act[t] \in {"enlist", "greet", "greeting"} => on[t] \in Listeners

\* Nobody has told listener l anything yet, but somebody will.
Awaited(l) == \E t \in Threads : act[t] \in {"enlist", "greet"} /\ on[t] = l

\* Some thread has yet to announce a change of k to the listeners of the host.
Announced(k) ==
  \E t \in Threads : Target(todo[t].reg) = Host /\ k \in Range(todo[t].svcs)

Informed(l) ==
  /\ told[l] = [k \in Deps[l] |-> told[l][k]]
  /\ \A k \in Deps[l] : told[l][k] = providers[Host][k] \/ Announced(k)

TellInv == \A l \in listeners : Awaited(l) \/ Informed(l)

RInv ==
  /\ RTypes /\ FreshInv /\ UniqueInv /\ StageInv /\ HeldInv
  /\ OwnInv /\ JobInv
  /\ DOMAIN told = Listeners /\ TellInv

-----------------------------------------------------------------------------
(***************************************************************************)
(* Generations, sequences and the conversion of a set to a sequence        *)
(***************************************************************************)
\* Generations are positive, and neither "none" nor "no expectation" is one.
LEMMA GenFacts ==
  /\ NoGen \notin Gens /\ Unset \notin Gens /\ Unset # NoGen
  /\ Gens \subseteq Nat /\ NoGen \in Nat
  /\ 1 \in 1 .. MaxGen + 1 /\ NoGen < 1
  /\ \A n \in 1 .. MaxGen + 1 :
       /\ n \in Nat /\ NoGen < n
       /\ n <= MaxGen => n \in Gens /\ n + 1 \in 1 .. MaxGen + 1
BY RegistryAssumption DEF Gens, NoGen, Unset

\* What a disposer that is registered adds to the disposers of its scope
LEMMA RangeAppend ==
  ASSUME NEW S, NEW s \in Seq(S), NEW e \in S
  PROVE  Range(Append(s, e)) = Range(s) \cup {e}
BY AppendProperties, LenProperties DEF Range

\* The disposers that are left when the last one has run
LEMMA RangeFront ==
  ASSUME NEW S, NEW s \in Seq(S), s # <<>>
  PROVE  /\ Front(s) \in Seq(S) /\ Last(s) \in S
         /\ Range(s) = Range(Front(s)) \cup {Last(s)}
<1>1. /\ Len(s) \in Nat /\ Len(s) # 0 /\ DOMAIN s = 1 .. Len(s)
      /\ \A i \in 1 .. Len(s) : s[i] \in S
  BY LenProperties, EmptySeq
<1>2. /\ Front(s) \in Seq(S) /\ Len(Front(s)) = Len(s) - 1
      /\ \A i \in 1 .. Len(s) - 1 : Front(s)[i] = s[i]
  <2>1. 1 \in Int /\ Len(s) - 1 \in Int /\ \A i \in 1 .. Len(s) - 1 : s[i] \in S
    BY <1>1
  <2>2. /\ SubSeq(s, 1, Len(s) - 1) \in Seq(S)
        /\ Len(SubSeq(s, 1, Len(s) - 1)) =
             IF 1 <= Len(s) - 1 THEN Len(s) - 1 - 1 + 1 ELSE 0
        /\ \A i \in 1 .. Len(s) - 1 - 1 + 1 : SubSeq(s, 1, Len(s) - 1)[i] = s[1 + i - 1]
    BY <2>1, SubSeqProperties
  <2> QED
    BY <1>1, <2>2 DEF Front
<1>3. DOMAIN Front(s) = 1 .. Len(s) - 1
  BY <1>2, LenProperties
<1> QED
  BY <1>1, <1>2, <1>3 DEF Range, Last

\* The services that are left when the first one has been announced
LEMMA RangeTail ==
  ASSUME NEW S, NEW s \in Seq(S), s # <<>>
  PROVE  /\ Tail(s) \in Seq(S) /\ Head(s) \in S
         /\ Range(s) = Range(Tail(s)) \cup {Head(s)}
<1>1. /\ Len(s) \in Nat /\ Len(s) # 0 /\ DOMAIN s = 1 .. Len(s) /\ Head(s) = s[1]
  BY LenProperties, EmptySeq
<1>2. /\ Tail(s) \in Seq(S) /\ Len(Tail(s)) = Len(s) - 1
      /\ \A i \in 1 .. Len(s) - 1 : Tail(s)[i] = s[i + 1]
      /\ DOMAIN Tail(s) = 1 .. Len(s) - 1
  BY HeadTailProperties, LenProperties
<1>3. ASSUME NEW i \in 1 .. Len(s), i # 1 PROVE s[i] \in Range(Tail(s))
  <2>1. i - 1 \in 1 .. Len(s) - 1 /\ Tail(s)[i - 1] = s[i]
    BY <1>1, <1>2, <1>3
  <2> QED
    BY <1>2, <2>1 DEF Range
<1>4. ASSUME NEW i \in 1 .. Len(s) - 1 PROVE Tail(s)[i] \in Range(s)
  BY <1>1, <1>2 DEF Range
<1> QED
  BY <1>1, <1>2, <1>3, <1>4, HeadTailProperties, SMTT(30) DEF Range

\* The announcements of a commit are those of a finite set of services.
LEMMA SetToSeqFacts ==
  ASSUME NEW S, IsFiniteSet(S)
  PROVE  SetToSeq(S) \in Seq(S) /\ Range(SetToSeq(S)) = S
<1> DEFINE n == Cardinality(S)
<1>1. n \in Nat /\ ExistsBijection(1 .. n, S)
  BY FS_CardinalityType
<1>2. PICK b \in [1 .. n -> S] : IsInjective(b)
  BY <1>1 DEF ExistsBijection, Bijection, Injection
<1>3. SetToSeq(S) \in [1 .. n -> S] /\ IsInjective(SetToSeq(S))
  BY <1>2 DEF SetToSeq
<1>4. SetToSeq(S) \in Injection(1 .. n, S)
  BY <1>3 DEF Injection
<1>5. IsFiniteSet(1 .. n) /\ Cardinality(1 .. n) = n
  BY <1>1, FS_Interval
<1>6. SetToSeq(S) \in Surjection(1 .. n, S)
  BY <1>4, <1>5, FS_Injection
<1>7. Range(SetToSeq(S)) = S
  BY <1>3, <1>6 DEF Surjection, Range
<1> QED
  BY <1>1, <1>3, <1>7, SeqDef

\* A staging provides finitely many services: each has a generation of its own.
LEMMA StagedServicesAreFinite ==
  ASSUME RTypes, UniqueInv, NEW r \in Registries
  PROVE  IsFiniteSet({k \in Services : providers[r][k] # NoGen})
<1> DEFINE S == {k \in Services : providers[r][k] # NoGen}
           f == [k \in S |-> providers[r][k]]
<1>1. f \in [S -> Gens]
  BY DEF RTypes, RTypeOK
<1>2. f \in Injection(S, Gens)
  BY <1>1 DEF UniqueInv, Injection, IsInjective
<1>3. IsFiniteSet(Gens)
  BY FS_Interval, RegistryAssumption DEF Gens
<1> QED
  BY <1>2, <1>3, FS_Injection

\* An owner, a staging or the host: the registry that answers is one of them,
\* and the host answers for itself.
LEMMA TargetFacts ==
  /\ Host \in Registries /\ Target(Host) = Host
  /\ \A r \in Registries : Target(r) \in Registries
  /\ \A o \in Owners : View[o] \in Registries
BY RegistryAssumption DEF Target, Registries

\* A handle has a generation or none.
LEMMA HeldFacts == RTypes => \A u \in Users : held[u].gen \in Nat
<1> SUFFICES ASSUME RTypes, NEW u \in Users PROVE held[u].gen \in Nat
  OBVIOUS
<1>1. held[u] \in Handles
  BY DEF RTypes, RTypeOK
<1>2. CASE held[u] = NoHandle
  BY <1>2, GenFacts DEF NoHandle
<1>3. CASE held[u] \in [reg : Registries, svc : Services, gen : Gens]
  BY <1>3, GenFacts
<1> QED
  BY <1>1, <1>2, <1>3 DEF Handles

-----------------------------------------------------------------------------
(***************************************************************************)
(* One lemma for each action                                               *)
(***************************************************************************)
\* Every run starts in the invariant: nothing is provided and nobody listens.
LEMMA InitRInv == RInit => RInv
<1> SUFFICES ASSUME RInit PROVE RInv
  OBVIOUS
<1> USE GenFacts, TargetFacts, RegistryAssumption DEF RInit
<1>1. RTypes
  BY EmptySeq DEF RTypes, RTypeOK, Jobs, NoJob, Handles
<1>2. FreshInv /\ UniqueInv /\ HeldInv
  BY DEF FreshInv, UniqueInv, HeldInv, NoHandle
<1>3. StageInv
  BY DEF StageInv, Registries
<1>4. OwnInv /\ JobInv
  BY DEF OwnInv, JobInv
<1>5. DOMAIN told = Listeners /\ TellInv
  BY DEF TellInv
<1> QED
  BY <1>1, <1>2, <1>3, <1>4, <1>5 DEF RInv

\* publish_service: the new provider has a new generation, and its disposer.
LEMMA PublishKeeps ==
  ASSUME RInv, NEW t \in Threads, NEW o \in Owners, NEW k \in Services,
         NEW how \in {"provide", "replace"}, Publish(t, o, k, how)
  PROVE  RInv'
<1> DEFINE tr == Target(View[o])
<1> USE GenFacts, TargetFacts DEF RInv
<1>1. /\ tr \in Registries /\ nextGen \in Gens /\ nextGen + 1 \in 1 .. MaxGen + 1
      /\ scope[o] = "open" /\ todo[t].svcs = <<>>
      /\ providers \in [Registries -> [Services -> Gens \cup {NoGen}]]
      /\ nextGen \in Nat
  BY DEF Publish, Admits, Idle, Quiet, RTypes, RTypeOK, NewGeneration
<1>2. /\ providers' \in [Registries -> [Services -> Gens \cup {NoGen}]]
      /\ providers'[tr][k] = nextGen
      /\ \A r \in Registries, j \in Services :
           r # tr \/ j # k => providers'[r][j] = providers[r][j]
  BY <1>1 DEF Publish, NewGeneration
<1>3. /\ expected' \in [Staged -> [Services -> Gens \cup {NoGen, Unset}]]
      /\ \A r \in Staged, j \in Services :
           expected'[r][j] = IF r = tr /\ j = k /\ expected[r][j] = Unset
                             THEN providers[Host][k] ELSE expected[r][j]
  BY <1>1 DEF Publish, RTypes, RTypeOK
<1>4. /\ kind' \in [Gens -> {"none", "provide", "replace"}] /\ kind'[nextGen] = how
      /\ \A g \in Gens : g # nextGen => kind'[g] = kind[g]
  BY <1>1 DEF Publish, RTypes, RTypeOK, NewGeneration
<1>5. /\ effects' \in [Owners -> Seq(Effects)]
      /\ Disposer(k, nextGen) \in Range(effects'[o])
      /\ \A p \in Owners : Range(effects[p]) \subseteq Range(effects'[p])
      /\ \A p \in Owners : p # o => effects'[p] = effects[p]
  <2>1. Disposer(k, nextGen) \in Effects
    BY <1>1 DEF Disposer, Effects
  <2>2. effects[o] \in Seq(Effects) /\ effects' = [effects EXCEPT ![o] = Append(effects[o], Disposer(k, nextGen))]
    BY DEF Publish, RTypes, NewGeneration
  <2>3. Range(Append(effects[o], Disposer(k, nextGen))) = Range(effects[o]) \cup {Disposer(k, nextGen)}
    BY <2>1, <2>2, RangeAppend
  <2>4. Append(effects[o], Disposer(k, nextGen)) \in Seq(Effects)
    BY <2>1, <2>2, AppendProperties
  <2> QED
    BY <2>2, <2>3, <2>4 DEF RTypes
<1>6. /\ todo' \in [Threads -> Jobs] /\ todo'[t].reg = View[o] /\ todo'[t].svcs = <<k>>
      /\ \A s \in Threads : s # t => todo'[s] = todo[s]
  BY DEF Publish, RTypes, Jobs
<1>7. /\ committed' = committed /\ listeners' = listeners /\ scope' = scope
      /\ act' = act /\ on' = on /\ seen' = seen /\ told' = told /\ held' = held
      /\ nextGen' = nextGen + 1 /\ \A r : Target(r)' = Target(r)
  BY DEF Publish, callVars, NewGeneration, Target
<1>8. RTypes'
  BY <1>1, <1>2, <1>3, <1>4, <1>5, <1>6, <1>7 DEF RTypes, RTypeOK
<1>9. FreshInv'
  <2>1. \A r \in Registries, j \in Services : providers[r][j] \in Nat /\ providers[r][j] < nextGen
    BY <1>1 DEF FreshInv
  <2>2. \A u \in Users : held[u].gen < nextGen + 1
    BY <1>1, HeldFacts DEF FreshInv
  <2>3. \A r \in Registries, j \in Services : providers'[r][j] < nextGen + 1
    <3> SUFFICES ASSUME NEW r \in Registries, NEW j \in Services
                 PROVE  providers'[r][j] < nextGen + 1
      OBVIOUS
    <3>1. CASE r = tr /\ j = k
      BY <1>1, <1>2, <3>1
    <3>2. CASE r # tr \/ j # k
      <4>1. providers'[r][j] = providers[r][j]
        BY <1>2, <3>2
      <4> QED
        BY <1>1, <2>1, <4>1
    <3> QED
      BY <3>1, <3>2
  <2> QED
    BY <1>7, <2>2, <2>3 DEF FreshInv
<1>10. UniqueInv'
  BY <1>1, <1>2 DEF UniqueInv, FreshInv
<1>11. (providers[tr][k] # NoGen \/ providers[Host][k] # NoGen) => how = "replace"
  <2>1. Target(tr) = tr
    BY DEF Target, Registries
  <2> QED
    BY <2>1 DEF Publish, Entry
<1>12. StageInv'
  <2> SUFFICES ASSUME NEW r \in Staged, NEW j \in Services
               PROVE  /\ providers'[r][j] = NoGen <=> expected'[r][j] = Unset
                      /\ committed'[r] => providers'[r][j] = NoGen
                      /\ expected'[r][j] \in Gens => kind'[providers'[r][j]] = "replace"
    BY DEF StageInv
  <2>1. r \in Registries
    BY DEF Registries
  <2>2. CASE r = tr /\ j = k
    <3>1. ~committed[r]
      BY <2>2, RegistryAssumption DEF Target
    <3>2. expected[r][j] \in Gens => providers[r][j] # NoGen
      BY DEF StageInv
    <3> QED
      BY <1>1, <1>2, <1>3, <1>4, <1>7, <1>11, <2>2, <3>1, <3>2 DEF StageInv
  <2>3. CASE r # tr \/ j # k
    <3>1. providers[r][j] < nextGen /\ providers[r][j] \in Gens \cup {NoGen}
      BY <1>1, <2>1 DEF FreshInv
    <3>2. expected[r][j] \in Gens => providers[r][j] # NoGen
      BY DEF StageInv
    <3>3. providers'[r][j] = providers[r][j] /\ expected'[r][j] = expected[r][j]
      BY <1>2, <1>3, <2>1, <2>3
    <3>4. providers[r][j] \in Gens => kind'[providers[r][j]] = kind[providers[r][j]]
      <4>1. providers[r][j] \in Gens => providers[r][j] \in Nat
        OBVIOUS
      <4>2. providers[r][j] \in Gens => providers[r][j] # nextGen
        BY <1>1, <3>1, <4>1
      <4> QED
        BY <1>4, <4>2
    <3> QED
      BY <1>7, <3>1, <3>2, <3>3, <3>4 DEF StageInv
  <2> QED
    BY <2>2, <2>3
<1>13. HeldInv'
  BY <1>1, <1>2, <1>7 DEF HeldInv, FreshInv, Registries
<1>14. OwnInv'
  <2>1. ASSUME NEW r \in Registries, NEW j \in Services, providers'[r][j] # NoGen
        PROVE  \E p \in Owners : /\ Target(View[p]) = r
                                 /\ Disposer(j, providers'[r][j]) \in Range(effects'[p])
    <3>1. CASE r = tr /\ j = k
      BY <1>2, <1>5, <3>1
    <3>2. CASE r # tr \/ j # k
      BY <1>2, <1>5, <2>1, <3>2 DEF OwnInv
    <3> QED
      BY <3>1, <3>2
  <2>2. \A l \in listeners : Enlisting(l)' <=> Enlisting(l)
    BY <1>7 DEF Enlisting
  <2>3. \A l \in listeners : SubOwner[l] \in Owners
    BY RegistryAssumption DEF RTypes, RTypeOK
  <2> QED
    BY <1>1, <1>5, <1>7, <2>1, <2>2, <2>3 DEF OwnInv
<1>15. JobInv'
  BY <1>7 DEF JobInv
<1>16. TellInv'
  <2>1. \A j : Announced(j) => Announced(j)'
    <3> SUFFICES ASSUME NEW j, NEW s \in Threads, Target(todo[s].reg) = Host, j \in Range(todo[s].svcs)
                 PROVE  Announced(j)'
      BY DEF Announced
    <3>1. s # t
      BY <1>1 DEF Range
    <3> QED
      BY <1>6, <1>7, <3>1 DEF Announced
  <2>2. tr = Host => Announced(k)'
    BY <1>6, <1>7 DEF Announced, Range
  <2>3. \A j \in Services : providers'[Host][j] = providers[Host][j] \/ Announced(j)'
    BY <1>2, <2>2
  <2>4. \A l \in listeners : Deps[l] \subseteq Services
    BY RegistryAssumption DEF RTypes, RTypeOK
  <2> QED
    BY <1>7, <2>1, <2>3, <2>4 DEF TellInv, Awaited, Informed
<1> QED
  BY <1>7, <1>8, <1>9, <1>10, <1>12, <1>13, <1>14, <1>15, <1>16

\* Registry::commit: what the staging has seen of the host is still so, and
\* what it provides moves, with its owners, to the host.
LEMMA CommitKeeps ==
  ASSUME RInv, NEW t \in Threads, NEW r \in Staged, Commit(t, r)
  PROVE  RInv'
<1> DEFINE moved == {k \in Services : providers[r][k] # NoGen}
<1> USE GenFacts, TargetFacts DEF RInv
<1>1. /\ r \in Registries /\ r # Host /\ ~committed[r] /\ todo[t].svcs = <<>>
      /\ providers \in [Registries -> [Services -> Gens \cup {NoGen}]]
  BY RegistryAssumption DEF Commit, Idle, Quiet, RTypes, RTypeOK, Registries
<1>2. /\ providers' \in [Registries -> [Services -> Gens \cup {NoGen}]]
      /\ \A k \in Services : providers'[Host][k] =
           IF providers[r][k] # NoGen THEN providers[r][k] ELSE providers[Host][k]
      /\ \A k \in Services : providers'[r][k] = NoGen
      /\ \A q \in Registries : q # r /\ q # Host => providers'[q] = providers[q]
  BY <1>1 DEF Commit, Merge
<1>3. /\ expected' \in [Staged -> [Services -> Gens \cup {NoGen, Unset}]]
      /\ \A k \in Services : expected'[r][k] = Unset
      /\ \A q \in Staged : q # r => expected'[q] = expected[q]
  BY DEF Commit, RTypes, RTypeOK
<1>4. /\ committed' \in [Staged -> BOOLEAN] /\ committed'[r] = TRUE
      /\ \A q \in Staged : q # r => committed'[q] = committed[q]
  BY DEF Commit, RTypes, RTypeOK
<1>5. /\ \A q \in Registries : Target(q)' = IF q = r THEN Host ELSE Target(q)
      /\ Target(r) = r
      /\ \A q \in Registries : q # r => Target(q) # r
  BY <1>1, <1>4 DEF Target, Registries
<1>6. SetToSeq(moved) \in Seq(Services) /\ Range(SetToSeq(moved)) = moved
  <2>1. IsFiniteSet(moved)
    BY <1>1, StagedServicesAreFinite
  <2>2. SetToSeq(moved) \in Seq(moved) /\ Range(SetToSeq(moved)) = moved
    BY <2>1, SetToSeqFacts, Zenon
  <2> QED
    BY <2>2, SeqMonotonic
<1>7. /\ todo' \in [Threads -> Jobs] /\ todo'[t].reg = Host /\ Range(todo'[t].svcs) = moved
      /\ \A s \in Threads : s # t => todo'[s] = todo[s]
  BY <1>6 DEF Commit, RTypes, Jobs
<1>8. /\ nextGen' = nextGen /\ listeners' = listeners /\ scope' = scope
      /\ effects' = effects /\ act' = act /\ on' = on /\ seen' = seen /\ told' = told
      /\ held' = held /\ kind' = kind
  BY DEF Commit, callVars
<1>9. RTypes'
  BY <1>2, <1>3, <1>4, <1>7, <1>8 DEF RTypes, RTypeOK
<1>10. FreshInv'
  <2>1. nextGen \in 1 .. MaxGen + 1
    BY DEF RTypes, RTypeOK
  <2>2. \A q \in Registries, k \in Services : providers'[q][k] < nextGen
    BY <1>1, <1>2, <2>1 DEF FreshInv
  <2> QED
    BY <1>8, <2>2 DEF FreshInv
<1>11. UniqueInv'
  <2> SUFFICES ASSUME NEW q1 \in Registries, NEW q2 \in Registries,
                      NEW k1 \in Services, NEW k2 \in Services,
                      providers'[q1][k1] # NoGen, providers'[q1][k1] = providers'[q2][k2]
               PROVE  q1 = q2 /\ k1 = k2
    BY DEF UniqueInv
  <2>1. \A q \in Registries, k \in Services : providers'[q][k] # NoGen =>
          \/ q = Host /\ providers[r][k] = providers'[q][k]
          \/ q # r /\ providers[q][k] = providers'[q][k]
    BY <1>1, <1>2
  <2>2. q1 # r /\ q2 # r
    BY <1>2
  <2> QED
    BY <1>1, <2>1, <2>2 DEF UniqueInv
<1>12. StageInv'
  <2> SUFFICES ASSUME NEW q \in Staged, NEW k \in Services
               PROVE  /\ providers'[q][k] = NoGen <=> expected'[q][k] = Unset
                      /\ committed'[q] => providers'[q][k] = NoGen
                      /\ expected'[q][k] \in Gens => kind'[providers'[q][k]] = "replace"
    BY DEF StageInv
  <2>1. CASE q = r
    BY <1>2, <1>3, <2>1
  <2>2. CASE q # r
    <3>1. q \in Registries /\ q # Host
      BY RegistryAssumption DEF Registries
    <3> QED
      BY <1>2, <1>3, <1>4, <1>8, <2>2, <3>1 DEF StageInv
  <2> QED
    BY <2>1, <2>2
<1>13. HeldInv'
  <2> SUFFICES ASSUME NEW u \in Users, NEW q \in Staged, NEW k \in Services,
                      held[u] # NoHandle, held[u].reg = Host
               PROVE  providers'[q][k] # held[u].gen
    BY <1>8 DEF HeldInv
  <2>1. q \in Registries /\ q # Host
    BY RegistryAssumption DEF Registries
  <2>2. CASE q = r
    <3>1. held[u].gen \in Gens
      BY DEF RTypes, RTypeOK, Handles
    <3> QED
      BY <1>2, <2>2, <3>1
  <2>3. CASE q # r
    BY <1>2, <2>1, <2>3 DEF HeldInv
  <2> QED
    BY <2>2, <2>3
<1>14. OwnInv'
  <2>1. ASSUME NEW q \in Registries, NEW k \in Services, providers'[q][k] # NoGen
        PROVE  \E o \in Owners : /\ Target(View[o])' = q
                                 /\ Disposer(k, providers'[q][k]) \in Range(effects[o])
    <3>1. q # r
      BY <1>2, <2>1
    <3>2. CASE q = Host /\ providers[r][k] # NoGen
      <4>1. PICK o \in Owners : /\ Target(View[o]) = r
                                /\ Disposer(k, providers[r][k]) \in Range(effects[o])
        BY <1>1, <3>2 DEF OwnInv
      <4>2. View[o] = r
        BY <1>5, <4>1
      <4> QED
        BY <1>2, <1>5, <3>2, <4>1, <4>2
    <3>3. CASE ~(q = Host /\ providers[r][k] # NoGen)
      <4>1. providers'[q][k] = providers[q][k]
        BY <1>2, <3>1, <3>3
      <4>2. PICK o \in Owners : /\ Target(View[o]) = q
                                /\ Disposer(k, providers[q][k]) \in Range(effects[o])
        BY <2>1, <4>1 DEF OwnInv
      <4>3. View[o] # r
        BY <1>5, <3>1, <4>2
      <4> QED
        BY <1>5, <4>1, <4>2, <4>3
    <3> QED
      BY <3>2, <3>3
  <2>2. \A l : Enlisting(l)' <=> Enlisting(l)
    BY <1>8 DEF Enlisting
  <2> QED
    BY <1>8, <2>1, <2>2 DEF OwnInv
<1>15. JobInv'
  BY <1>8 DEF JobInv
<1>16. TellInv'
  <2>1. \A j : Announced(j) => Announced(j)'
    <3> SUFFICES ASSUME NEW j, NEW s \in Threads, Target(todo[s].reg) = Host, j \in Range(todo[s].svcs)
                 PROVE  Announced(j)'
      BY DEF Announced
    <3>1. s # t
      BY <1>1 DEF Range
    <3>2. todo[s].reg \in Registries
      BY DEF RTypes, Jobs
    <3> QED
      BY <1>5, <1>7, <3>1, <3>2 DEF Announced
  <2>2. \A j \in moved : Announced(j)'
    BY <1>1, <1>5, <1>7 DEF Announced
  <2>3. \A j \in Services : providers'[Host][j] = providers[Host][j] \/ Announced(j)'
    BY <1>2, <2>2
  <2>4. \A l \in listeners : Deps[l] \subseteq Services
    BY RegistryAssumption DEF RTypes, RTypeOK
  <2> QED
    BY <1>8, <2>1, <2>3, <2>4 DEF TellInv, Awaited, Informed
<1> QED
  BY <1>8, <1>9, <1>10, <1>11, <1>12, <1>13, <1>14, <1>15, <1>16

\* Registry::notify: those who are interested in the service are told all.
LEMMA NotifyKeeps ==
  ASSUME RInv, NEW t \in Threads, Notify(t)
  PROVE  RInv'
<1> DEFINE k == Head(todo[t].svcs)
           found == IF Target(todo[t].reg) = Host THEN Interested(k) ELSE {}
<1> USE DEF RInv
<1>1. /\ todo[t] \in Jobs /\ todo[t].svcs \in Seq(Services) /\ todo[t].svcs # <<>>
  BY DEF Notify, RTypes, Jobs
<1>2. /\ Tail(todo[t].svcs) \in Seq(Services) /\ k \in Services
      /\ Range(todo[t].svcs) = Range(Tail(todo[t].svcs)) \cup {k}
  BY <1>1, RangeTail
<1>3. /\ todo' \in [Threads -> Jobs] /\ todo'[t].reg = todo[t].reg
      /\ todo'[t].svcs = Tail(todo[t].svcs)
      /\ \A s \in Threads : s # t => todo'[s] = todo[s]
  BY <1>1, <1>2 DEF Notify, RTypes, Jobs
<1>4. told' = [l \in Listeners |-> IF l \in found THEN Snapshot(l) ELSE told[l]]
  BY DEF Notify
<1>5. /\ providers' = providers /\ expected' = expected /\ committed' = committed
      /\ nextGen' = nextGen /\ listeners' = listeners /\ scope' = scope
      /\ effects' = effects /\ act' = act /\ on' = on /\ held' = held /\ kind' = kind
      /\ \A r : Target(r)' = Target(r)
  BY DEF Notify, regVars, Target
<1>6. RTypes' /\ FreshInv' /\ UniqueInv' /\ StageInv' /\ HeldInv' /\ JobInv'
  BY <1>3, <1>5 DEF RTypes, RTypeOK, FreshInv, UniqueInv, StageInv, HeldInv, JobInv
<1>7. OwnInv'
  BY <1>5 DEF OwnInv, Enlisting
<1>8. TellInv'
  <2> SUFFICES ASSUME NEW l \in listeners, ~Awaited(l) PROVE Informed(l)'
    BY <1>5 DEF TellInv, Awaited
  <2>1. l \in Listeners
    BY DEF RTypes, RTypeOK
  <2>2. CASE l \in found
    <3>1. told'[l] = [j \in Deps[l] |-> providers[Host][j]]
      BY <1>4, <2>1, <2>2 DEF Snapshot
    <3> QED
      BY <1>5, <3>1 DEF Informed
  <2>3. CASE l \notin found
    <3>1. told'[l] = told[l] /\ Informed(l)
      BY <1>4, <2>1, <2>3 DEF TellInv
    <3>2. ASSUME NEW j \in Deps[l], Announced(j) PROVE Announced(j)'
      <4>1. PICK s \in Threads : Target(todo[s].reg) = Host /\ j \in Range(todo[s].svcs)
        BY <3>2 DEF Announced
      <4>2. s = t => j # k
        BY <2>3, <4>1 DEF Interested
      <4> QED
        BY <1>2, <1>3, <1>5, <4>1, <4>2 DEF Announced
    <3> QED
      BY <1>5, <3>1, <3>2 DEF Informed
  <2> QED
    BY <2>2, <2>3
<1> QED
  BY <1>4, <1>5, <1>6, <1>7, <1>8

\* One callback changes nothing of the registry.
LEMMA DeliverKeeps ==
  ASSUME RInv, NEW t \in Threads, Deliver(t)
  PROVE  RInv'
<1> USE DEF RInv
<1>1. /\ providers' = providers /\ expected' = expected /\ committed' = committed
      /\ nextGen' = nextGen /\ listeners' = listeners /\ scope' = scope
      /\ effects' = effects /\ todo' = todo /\ told' = told /\ on' = on
      /\ held' = held /\ kind' = kind
      /\ \A r : Target(r)' = Target(r)
  BY DEF Deliver, regVars, Target
<1>2. /\ act' \in [Threads -> {"idle", "enlist", "greet", "greeting", "clean"}]
      /\ \A s \in Threads : act'[s] = act[s] \/ (act[s] = "greeting" /\ act'[s] = "idle")
  BY DEF Deliver, RTypes, RTypeOK
<1>3. RTypes' /\ FreshInv' /\ UniqueInv' /\ StageInv' /\ HeldInv' /\ JobInv'
  BY <1>1, <1>2 DEF RTypes, RTypeOK, FreshInv, UniqueInv, StageInv, HeldInv, JobInv
<1>4. \A l : (Enlisting(l)' <=> Enlisting(l)) /\ (Awaited(l)' <=> Awaited(l))
  BY <1>1, <1>2 DEF Enlisting, Awaited
<1>5. \A l : Informed(l)' <=> Informed(l)
  BY <1>1 DEF Informed, Announced
<1> QED
  BY <1>1, <1>3, <1>4, <1>5 DEF OwnInv, TellInv

\* subscribe, first half: the listener is there before its effect is.
LEMMA RegisterListenerKeeps ==
  ASSUME RInv, NEW t \in Threads, NEW l \in Listeners, RegisterListener(t, l)
  PROVE  RInv'
<1> USE DEF RInv
<1>1. /\ providers' = providers /\ expected' = expected /\ committed' = committed
      /\ nextGen' = nextGen /\ scope' = scope /\ effects' = effects /\ todo' = todo
      /\ told' = told /\ held' = held /\ kind' = kind
      /\ \A r : Target(r)' = Target(r)
  BY DEF RegisterListener, regVars, callVars, Target
<1>2. /\ act' \in [Threads -> {"idle", "enlist", "greet", "greeting", "clean"}]
      /\ on' \in [Threads -> {Host} \cup Owners \cup Listeners]
      /\ act[t] = "idle" /\ act'[t] = "enlist" /\ on'[t] = l
      /\ \A s \in Threads : s # t => act'[s] = act[s] /\ on'[s] = on[s]
      /\ listeners' = listeners \cup {l}
  BY DEF RegisterListener, RTypes, RTypeOK, Idle
<1>3. RTypes' /\ FreshInv' /\ UniqueInv' /\ StageInv' /\ HeldInv' /\ JobInv'
  BY <1>1, <1>2 DEF RTypes, RTypeOK, FreshInv, UniqueInv, StageInv, HeldInv, JobInv
<1>4. /\ \A m : (Enlisting(m) => Enlisting(m)') /\ (Awaited(m) => Awaited(m)')
      /\ Enlisting(l)' /\ Awaited(l)'
  BY <1>1, <1>2 DEF Enlisting, Awaited
<1>5. \A m : Informed(m)' <=> Informed(m)
  BY <1>1 DEF Informed, Announced
<1> QED
  BY <1>1, <1>2, <1>3, <1>4, <1>5 DEF OwnInv, TellInv

\* subscribe, second half: the listener gets its disposer, or is removed.
LEMMA AddSubscriptionKeeps ==
  ASSUME RInv, NEW t \in Threads, AddSubscription(t)
  PROVE  RInv'
<1> DEFINE l == on[t]
           o == SubOwner[l]
<1> USE DEF RInv
<1>1. /\ providers' = providers /\ expected' = expected /\ committed' = committed
      /\ nextGen' = nextGen /\ scope' = scope /\ on' = on /\ todo' = todo
      /\ told' = told /\ held' = held /\ kind' = kind
      /\ \A r : Target(r)' = Target(r)
  BY DEF AddSubscription, regVars, callVars, Target
<1>2. /\ act[t] = "enlist" /\ l \in Listeners /\ o \in Owners /\ effects[o] \in Seq(Effects)
  BY RegistryAssumption DEF AddSubscription, JobInv, RTypes
<1>3. \A m : Informed(m)' <=> Informed(m)
  BY <1>1 DEF Informed, Announced
<1>4. CASE Admits(o)
  <2>1. /\ effects' = [effects EXCEPT ![o] = Append(effects[o], Ending(l))]
        /\ act' = [act EXCEPT ![t] = "greet"] /\ listeners' = listeners
    BY <1>4 DEF AddSubscription, Ending
  <2>2. Ending(l) \in Effects
    BY <1>2 DEF Ending, Effects
  <2>3. /\ Append(effects[o], Ending(l)) \in Seq(Effects)
        /\ Range(Append(effects[o], Ending(l))) = Range(effects[o]) \cup {Ending(l)}
    BY <1>2, <2>2, AppendProperties, RangeAppend
  <2>4. /\ effects' \in [Owners -> Seq(Effects)]
        /\ Ending(l) \in Range(effects'[o])
        /\ \A p \in Owners : Range(effects[p]) \subseteq Range(effects'[p])
        /\ \A p \in Owners : p # o => effects'[p] = effects[p]
    BY <1>2, <2>1, <2>3 DEF RTypes
  <2>5. /\ act' \in [Threads -> {"idle", "enlist", "greet", "greeting", "clean"}]
        /\ act'[t] = "greet" /\ \A s \in Threads : s # t => act'[s] = act[s]
    BY <2>1 DEF RTypes, RTypeOK
  <2>6. RTypes' /\ FreshInv' /\ UniqueInv' /\ StageInv' /\ HeldInv'
    BY <1>1, <2>1, <2>4, <2>5 DEF RTypes, RTypeOK, FreshInv, UniqueInv, StageInv, HeldInv
  <2>7. JobInv'
    BY <1>1, <1>2, <2>5 DEF JobInv
  <2>8. \A m : (Awaited(m)' <=> Awaited(m)) /\ (m # l => (Enlisting(m)' <=> Enlisting(m)))
    BY <1>1, <1>2, <2>5 DEF Awaited, Enlisting
  <2>9. OwnInv'
    <3>1. \A m \in listeners : SubOwner[m] \in Owners
      BY RegistryAssumption DEF RTypes, RTypeOK
    <3>2. scope[o] # "closed"
      BY <1>4 DEF Admits
    <3>3. \A r \in Registries, k \in Services : providers[r][k] # NoGen =>
            \E p \in Owners : /\ Target(View[p]) = r
                              /\ Disposer(k, providers[r][k]) \in Range(effects'[p])
      BY <2>4 DEF OwnInv
    <3>4. \A m \in listeners : Enlisting(m)' \/ Ending(m) \in Range(effects'[SubOwner[m]])
      BY <2>4, <2>8, <3>1 DEF OwnInv
    <3> QED
      BY <1>1, <2>1, <2>4, <3>2, <3>3, <3>4 DEF OwnInv
  <2> QED
    BY <1>1, <1>3, <2>1, <2>6, <2>7, <2>8, <2>9 DEF TellInv
<1>5. CASE ~Admits(o)
  <2>1. /\ effects' = effects /\ act' = [act EXCEPT ![t] = "idle"]
        /\ listeners' = listeners \ {l}
    BY <1>5 DEF AddSubscription, Unregister
  <2>2. /\ act' \in [Threads -> {"idle", "enlist", "greet", "greeting", "clean"}]
        /\ act'[t] = "idle" /\ \A s \in Threads : s # t => act'[s] = act[s]
    BY <2>1 DEF RTypes, RTypeOK
  <2>3. RTypes' /\ FreshInv' /\ UniqueInv' /\ StageInv' /\ HeldInv' /\ JobInv'
    BY <1>1, <2>1, <2>2 DEF RTypes, RTypeOK, FreshInv, UniqueInv, StageInv, HeldInv, JobInv
  <2>4. \A m : m # l => (Awaited(m)' <=> Awaited(m)) /\ (Enlisting(m)' <=> Enlisting(m))
    BY <1>1, <1>2, <2>2 DEF Awaited, Enlisting
  <2> QED
    BY <1>1, <1>3, <2>1, <2>3, <2>4 DEF OwnInv, TellInv
<1> QED
  BY <1>4, <1>5

\* The first snapshot of a new listener shows how things are.
LEMMA GreetKeeps ==
  ASSUME RInv, NEW t \in Threads, Greet(t)
  PROVE  RInv'
<1> USE DEF RInv
<1>1. /\ providers' = providers /\ expected' = expected /\ committed' = committed
      /\ nextGen' = nextGen /\ scope' = scope /\ on' = on /\ todo' = todo
      /\ effects' = effects /\ listeners' = listeners /\ held' = held /\ kind' = kind
      /\ \A r : Target(r)' = Target(r)
  BY DEF Greet, regVars, Target
<1>2. /\ act' \in [Threads -> {"idle", "enlist", "greet", "greeting", "clean"}]
      /\ act[t] = "greet" /\ act'[t] = "greeting"
      /\ \A s \in Threads : s # t => act'[s] = act[s]
      /\ on[t] \in Listeners
  BY DEF Greet, RTypes, RTypeOK, JobInv
<1>3. /\ DOMAIN told' = Listeners
      /\ told'[on[t]] = [k \in Deps[on[t]] |-> providers[Host][k]]
      /\ \A l \in Listeners : l # on[t] => told'[l] = told[l]
  BY <1>2 DEF Greet, Snapshot
<1>4. RTypes' /\ FreshInv' /\ UniqueInv' /\ StageInv' /\ HeldInv' /\ JobInv'
  BY <1>1, <1>2 DEF RTypes, RTypeOK, FreshInv, UniqueInv, StageInv, HeldInv, JobInv
<1>5. \A l : (Enlisting(l)' <=> Enlisting(l)) /\ (l # on[t] => (Awaited(l)' <=> Awaited(l)))
  BY <1>1, <1>2 DEF Enlisting, Awaited
<1>7. \A l \in Listeners : l # on[t] /\ Informed(l) => Informed(l)'
  BY <1>1, <1>3 DEF Informed, Announced
<1>8. TellInv'
  <2> SUFFICES ASSUME NEW l \in listeners PROVE Awaited(l)' \/ Informed(l)'
    BY <1>1 DEF TellInv
  <2>1. l \in Listeners
    BY DEF RTypes, RTypeOK
  <2>2. CASE l = on[t]
    BY <1>1, <1>3, <2>2 DEF Informed
  <2>3. CASE l # on[t]
    BY <1>5, <1>7, <2>1, <2>3 DEF TellInv
  <2> QED
    BY <2>2, <2>3
<1> QED
  BY <1>1, <1>3, <1>4, <1>5, <1>8 DEF OwnInv

\* A subscription that is given up is not listened to any more.
LEMMA UnsubscribeKeeps ==
  ASSUME RInv, NEW t \in Threads, NEW l \in Listeners, Unsubscribe(t, l)
  PROVE  RInv'
<1> USE DEF RInv
<1>1. /\ providers' = providers /\ expected' = expected /\ committed' = committed
      /\ nextGen' = nextGen /\ scope' = scope /\ on' = on /\ todo' = todo /\ act' = act
      /\ effects' = effects /\ held' = held /\ kind' = kind /\ told' = told
      /\ \A r : Target(r)' = Target(r)
      /\ listeners' = listeners \ {l}
  BY DEF Unsubscribe, Unregister, regVars, jobVars, callVars, Target
<1>2. RTypes' /\ FreshInv' /\ UniqueInv' /\ StageInv' /\ HeldInv' /\ JobInv'
  BY <1>1 DEF RTypes, RTypeOK, FreshInv, UniqueInv, StageInv, HeldInv, JobInv
<1>3. \A m : (Enlisting(m)' <=> Enlisting(m)) /\ (Awaited(m)' <=> Awaited(m))
             /\ (Informed(m)' <=> Informed(m))
  BY <1>1 DEF Enlisting, Awaited, Informed, Announced
<1> QED
  BY <1>1, <1>2, <1>3 DEF OwnInv, TellInv

\* The disposal of a scope begins.
LEMMA CloseScopeKeeps ==
  ASSUME RInv, NEW t \in Threads, NEW o \in Owners, CloseScope(t, o)
  PROVE  RInv'
<1> USE DEF RInv
<1>1. /\ providers' = providers /\ expected' = expected /\ committed' = committed
      /\ nextGen' = nextGen /\ todo' = todo /\ listeners' = listeners
      /\ effects' = effects /\ held' = held /\ kind' = kind /\ told' = told
      /\ \A r : Target(r)' = Target(r)
  BY DEF CloseScope, regVars, callVars, Target
<1>2. /\ act' \in [Threads -> {"idle", "enlist", "greet", "greeting", "clean"}]
      /\ on' \in [Threads -> {Host} \cup Owners \cup Listeners]
      /\ scope' \in [Owners -> {"open", "closing", "closed"}]
      /\ act[t] = "idle" /\ act'[t] = "clean" /\ on'[t] = o
      /\ \A s \in Threads : s # t => act'[s] = act[s] /\ on'[s] = on[s]
      /\ \A p \in Owners : scope'[p] = "closed" => scope[p] = "closed"
  BY DEF CloseScope, RTypes, RTypeOK, Idle
<1>3. RTypes' /\ FreshInv' /\ UniqueInv' /\ StageInv' /\ HeldInv' /\ JobInv'
  BY <1>1, <1>2 DEF RTypes, RTypeOK, FreshInv, UniqueInv, StageInv, HeldInv, JobInv
<1>4. \A m : (Enlisting(m)' <=> Enlisting(m)) /\ (Awaited(m)' <=> Awaited(m))
  BY <1>2 DEF Enlisting, Awaited
<1>5. \A m : Informed(m)' <=> Informed(m)
  BY <1>1 DEF Informed, Announced
<1> QED
  BY <1>1, <1>2, <1>3, <1>4, <1>5 DEF OwnInv, TellInv

\* The disposal of a scope is over when no disposer is left.
LEMMA ScopeClosedKeeps ==
  ASSUME RInv, NEW t \in Threads, ScopeClosed(t)
  PROVE  RInv'
<1> USE DEF RInv
<1>1. /\ providers' = providers /\ expected' = expected /\ committed' = committed
      /\ nextGen' = nextGen /\ todo' = todo /\ listeners' = listeners /\ on' = on
      /\ effects' = effects /\ held' = held /\ kind' = kind /\ told' = told
      /\ \A r : Target(r)' = Target(r)
  BY DEF ScopeClosed, regVars, callVars, Target
<1>2. /\ act' \in [Threads -> {"idle", "enlist", "greet", "greeting", "clean"}]
      /\ scope' \in [Owners -> {"open", "closing", "closed"}]
      /\ act[t] = "clean" /\ act'[t] = "idle" /\ effects[on[t]] = <<>>
      /\ \A s \in Threads : s # t => act'[s] = act[s]
      /\ \A p \in Owners : scope'[p] = "closed" => scope[p] = "closed" \/ p = on[t]
  BY DEF ScopeClosed, RTypes, RTypeOK
<1>3. RTypes' /\ FreshInv' /\ UniqueInv' /\ StageInv' /\ HeldInv' /\ JobInv'
  BY <1>1, <1>2 DEF RTypes, RTypeOK, FreshInv, UniqueInv, StageInv, HeldInv, JobInv
<1>4. \A m : (Enlisting(m)' <=> Enlisting(m)) /\ (Awaited(m)' <=> Awaited(m))
  BY <1>1, <1>2 DEF Enlisting, Awaited
<1>5. \A m : Informed(m)' <=> Informed(m)
  BY <1>1 DEF Informed, Announced
<1> QED
  BY <1>1, <1>2, <1>3, <1>4, <1>5 DEF OwnInv, TellInv

\* ContextHandle::get in the host's view returns what the host has.
LEMMA GetKeeps ==
  ASSUME RInv, NEW u \in Users, NEW o \in Owners, NEW k \in Services, Get(u, o, k)
  PROVE  RInv'
<1> DEFINE h == [reg |-> View[o], svc |-> k, gen |-> Entry(View[o], k)]
<1> USE GenFacts, TargetFacts DEF RInv
<1>1. /\ providers' = providers /\ expected' = expected /\ committed' = committed
      /\ nextGen' = nextGen /\ todo' = todo /\ listeners' = listeners /\ on' = on
      /\ effects' = effects /\ scope' = scope /\ act' = act /\ kind' = kind /\ told' = told
      /\ \A r : Target(r)' = Target(r)
  BY DEF Get, regVars, jobVars, callVars, Target
<1>2. Entry(View[o], k) \in Gens /\ Entry(View[o], k) < nextGen
  BY DEF Get, Entry, RTypes, RTypeOK, FreshInv
<1>3. h \in Handles /\ held'= [held EXCEPT ![u] = h]
  BY <1>2 DEF Handles, Get
<1>4. held' \in [Users -> Handles] /\ held'[u] = h /\ \A v \in Users : v # u => held'[v] = held[v]
  BY <1>3 DEF RTypes, RTypeOK
<1>5. RTypes' /\ UniqueInv' /\ StageInv' /\ JobInv' /\ OwnInv'
  BY <1>1, <1>4 DEF RTypes, RTypeOK, UniqueInv, StageInv, JobInv, OwnInv, Enlisting
<1>6. FreshInv'
  BY <1>1, <1>2, <1>4 DEF FreshInv
<1>7. HeldInv'
  <2>1. View[o] = Host => \A r \in Staged, j \in Services : providers[r][j] # h.gen
    BY <1>2, RegistryAssumption DEF UniqueInv, Entry, Registries
  <2> QED
    BY <1>1, <1>4, <2>1 DEF HeldInv
<1>8. TellInv'
  BY <1>1 DEF TellInv, Awaited, Informed, Announced
<1> QED
  BY <1>1, <1>5, <1>6, <1>7, <1>8

\* remove_if_current: the disposer of a provider removes that provider and no
\* other one, so what is left has its disposer still.
LEMMA RunProviderDisposerKeeps ==
  ASSUME RInv, NEW t \in Threads, RunDisposer(t),
         RemoveIfCurrent(t, on[t], Last(effects[on[t]]))
  PROVE  RInv'
<1> DEFINE o == on[t]
           e == Last(effects[o])
           tr == Target(View[o])
           current == providers[tr][e.svc] = e.gen
<1> USE GenFacts, TargetFacts DEF RInv
<1>1. /\ o \in Owners /\ effects[o] \in Seq(Effects) /\ effects[o] # <<>>
      /\ todo[t].svcs = <<>> /\ tr \in Registries /\ Target(tr) = tr
      /\ providers \in [Registries -> [Services -> Gens \cup {NoGen}]]
  BY DEF RunDisposer, JobInv, RTypes, RTypeOK, Quiet, Target
<1>2. /\ Front(effects[o]) \in Seq(Effects) /\ e \in Effects
      /\ Range(effects[o]) = Range(Front(effects[o])) \cup {e}
  BY <1>1, RangeFront
<1>3. e.svc \in Services /\ e.gen \in Gens /\ e = Disposer(e.svc, e.gen)
  <2>1. e.what = "provider"
    BY DEF RemoveIfCurrent
  <2>2. e \notin [what : {"listener"}, sub : Listeners]
    BY <2>1
  <2>3. e \in [what : {"provider"}, svc : Services, gen : Gens]
    BY <1>2, <2>2 DEF Effects
  <2> QED
    BY <2>1, <2>3 DEF Disposer
<1>4. /\ effects' \in [Owners -> Seq(Effects)]
      /\ \A p \in Owners : Range(effects[p]) \subseteq
           Range(effects'[p]) \cup (IF p = o THEN {e} ELSE {})
      /\ \A p \in Owners : effects[p] = <<>> => effects'[p] = <<>>
  BY <1>1, <1>2 DEF RunDisposer, RTypes
<1>5. /\ committed' = committed /\ nextGen' = nextGen /\ scope' = scope /\ act' = act
      /\ on' = on /\ told' = told /\ held' = held /\ kind' = kind /\ listeners' = listeners
      /\ \A r : Target(r)' = Target(r)
  BY DEF RunDisposer, RemoveIfCurrent, callVars, Target
<1>6. /\ providers' \in [Registries -> [Services -> Gens \cup {NoGen}]]
      /\ current => providers'[tr][e.svc] = NoGen
      /\ \A r \in Registries, k \in Services :
           ~current \/ r # tr \/ k # e.svc => providers'[r][k] = providers[r][k]
  BY <1>1, <1>3 DEF RemoveIfCurrent
<1>7. /\ expected' \in [Staged -> [Services -> Gens \cup {NoGen, Unset}]]
      /\ \A r \in Staged, k \in Services :
           expected'[r][k] = IF current /\ r = tr /\ k = e.svc THEN Unset ELSE expected[r][k]
  BY <1>1, <1>3 DEF RemoveIfCurrent, RTypes, RTypeOK
<1>8. /\ todo' \in [Threads -> Jobs]
      /\ current => todo'[t].reg = View[o] /\ todo'[t].svcs = <<e.svc>>
      /\ \A s \in Threads : s # t => todo'[s] = todo[s]
  BY <1>1, <1>3 DEF RemoveIfCurrent, RTypes, Jobs
<1>9. RTypes'
  BY <1>4, <1>5, <1>6, <1>7, <1>8 DEF RTypes, RTypeOK
<1>10. \A r \in Registries, k \in Services :
         providers'[r][k] = NoGen \/ providers'[r][k] = providers[r][k]
  BY <1>6
<1>11. FreshInv'
  <2>1. NoGen < nextGen
    BY DEF RTypes, RTypeOK
  <2> QED
    BY <1>5, <1>10, <2>1 DEF FreshInv
<1>12. UniqueInv'
  BY <1>10 DEF UniqueInv
<1>13. StageInv'
  <2> SUFFICES ASSUME NEW r \in Staged, NEW k \in Services
               PROVE  /\ providers'[r][k] = NoGen <=> expected'[r][k] = Unset
                      /\ committed'[r] => providers'[r][k] = NoGen
                      /\ expected'[r][k] \in Gens => kind'[providers'[r][k]] = "replace"
    BY DEF StageInv
  <2>1. r \in Registries
    BY DEF Registries
  <2>2. CASE current /\ r = tr /\ k = e.svc
    BY <1>6, <1>7, <2>2
  <2>3. CASE ~(current /\ r = tr /\ k = e.svc)
    BY <1>5, <1>6, <1>7, <2>1, <2>3 DEF StageInv
  <2> QED
    BY <2>2, <2>3
<1>14. HeldInv'
  <2> SUFFICES ASSUME NEW u \in Users, NEW r \in Staged, NEW k \in Services,
                      held[u] # NoHandle, held[u].reg = Host
               PROVE  providers'[r][k] # held[u].gen
    BY <1>5 DEF HeldInv
  <2>1. held[u].gen \in Gens /\ r \in Registries
    BY DEF RTypes, RTypeOK, Handles, Registries
  <2> QED
    BY <1>10, <2>1 DEF HeldInv
<1>15. OwnInv'
  <2>1. ASSUME NEW r \in Registries, NEW k \in Services, providers'[r][k] # NoGen
        PROVE  \E p \in Owners : /\ Target(View[p]) = r
                                 /\ Disposer(k, providers'[r][k]) \in Range(effects'[p])
    <3>1. providers'[r][k] = providers[r][k]
      BY <1>10, <2>1
    <3>2. PICK p \in Owners : /\ Target(View[p]) = r
                              /\ Disposer(k, providers[r][k]) \in Range(effects[p])
      BY <2>1, <3>1 DEF OwnInv
    <3>3. p = o => Disposer(k, providers[r][k]) # e
      <4> SUFFICES ASSUME p = o, Disposer(k, providers[r][k]) = e PROVE FALSE
        OBVIOUS
      <4>1. r = tr /\ k = e.svc /\ current
        BY <3>2 DEF Disposer
      <4> QED
        BY <1>6, <2>1, <4>1
    <3> QED
      BY <1>4, <3>1, <3>2, <3>3
  <2>2. ASSUME NEW l \in listeners
        PROVE  Enlisting(l)' \/ Ending(l) \in Range(effects'[SubOwner[l]])
    <3>1. SubOwner[l] \in Owners
      BY RegistryAssumption DEF RTypes, RTypeOK
    <3>2. e.what = "provider" /\ Ending(l).what = "listener"
      BY <1>3 DEF Ending, Disposer
    <3>3. Enlisting(l)' <=> Enlisting(l)
      BY <1>5 DEF Enlisting
    <3> QED
      BY <1>4, <3>1, <3>2, <3>3 DEF OwnInv
  <2> QED
    BY <1>4, <1>5, <2>1, <2>2 DEF OwnInv
<1>16. JobInv'
  BY <1>5 DEF JobInv
<1>17. TellInv'
  <2>1. \A j : Announced(j) => Announced(j)'
    <3> SUFFICES ASSUME NEW j, NEW s \in Threads, Target(todo[s].reg) = Host, j \in Range(todo[s].svcs)
                 PROVE  Announced(j)'
      BY DEF Announced
    <3>1. s # t
      BY <1>1 DEF Range
    <3> QED
      BY <1>5, <1>8, <3>1 DEF Announced
  <2>2. ASSUME NEW j, j = e.svc, current, tr = Host PROVE Announced(j)'
    BY <1>5, <1>8, <2>2 DEF Announced, Range
  <2>3. \A j \in Services : providers'[Host][j] = providers[Host][j] \/ Announced(j)'
    BY <1>6, <2>2
  <2>4. \A l \in listeners : Deps[l] \subseteq Services
    BY RegistryAssumption DEF RTypes, RTypeOK
  <2> QED
    BY <1>5, <2>1, <2>3, <2>4 DEF TellInv, Awaited, Informed
<1> QED
  BY <1>5, <1>9, <1>11, <1>12, <1>13, <1>14, <1>15, <1>16, <1>17

\* The disposer of a subscription removes its listener.
LEMMA RunListenerDisposerKeeps ==
  ASSUME RInv, NEW t \in Threads, RunDisposer(t), RemoveListener(Last(effects[on[t]]))
  PROVE  RInv'
<1> DEFINE o == on[t]
           e == Last(effects[o])
<1> USE GenFacts, TargetFacts DEF RInv
<1>1. /\ o \in Owners /\ effects[o] \in Seq(Effects) /\ effects[o] # <<>>
  BY DEF RunDisposer, JobInv, RTypes
<1>2. /\ Front(effects[o]) \in Seq(Effects) /\ e \in Effects
      /\ Range(effects[o]) = Range(Front(effects[o])) \cup {e}
  BY <1>1, RangeFront
<1>3. /\ effects' \in [Owners -> Seq(Effects)]
      /\ \A p \in Owners : Range(effects[p]) \subseteq
           Range(effects'[p]) \cup (IF p = o THEN {e} ELSE {})
      /\ \A p \in Owners : effects[p] = <<>> => effects'[p] = <<>>
  BY <1>1, <1>2 DEF RunDisposer, RTypes
<1>4. /\ committed' = committed /\ nextGen' = nextGen /\ scope' = scope /\ act' = act
      /\ on' = on /\ told' = told /\ held' = held /\ kind' = kind
      /\ providers' = providers /\ expected' = expected /\ todo' = todo
      /\ listeners' = listeners \ {e.sub} /\ e.what = "listener"
      /\ \A r : Target(r)' = Target(r)
  BY DEF RunDisposer, RemoveListener, Unregister, callVars, Target
<1>5. RTypes' /\ FreshInv' /\ UniqueInv' /\ StageInv' /\ HeldInv' /\ JobInv'
  BY <1>3, <1>4 DEF RTypes, RTypeOK, FreshInv, UniqueInv, StageInv, HeldInv, JobInv
<1>6. OwnInv'
  <2>1. \A r \in Registries, k \in Services : Disposer(k, providers[r][k]) # e
    BY <1>4 DEF Disposer
  <2>2. \A l \in listeners' : Ending(l) # e
    BY <1>4 DEF Ending
  <2>3. \A l \in listeners : SubOwner[l] \in Owners
    BY RegistryAssumption DEF RTypes, RTypeOK
  <2>4. \A r \in Registries, k \in Services : providers[r][k] # NoGen =>
          \E p \in Owners : /\ Target(View[p]) = r
                            /\ Disposer(k, providers[r][k]) \in Range(effects'[p])
    BY <1>3, <2>1 DEF OwnInv
  <2>5. \A l \in listeners' : Enlisting(l)' \/ Ending(l) \in Range(effects'[SubOwner[l]])
    BY <1>3, <1>4, <2>2, <2>3 DEF OwnInv, Enlisting
  <2> QED
    BY <1>3, <1>4, <2>4, <2>5 DEF OwnInv
<1>7. TellInv'
  BY <1>4 DEF TellInv, Awaited, Informed, Announced
<1> QED
  BY <1>4, <1>5, <1>6, <1>7

\* Every step keeps the invariant.
LEMMA StepRInv == RInv /\ [RNext]_rvars => RInv'
<1> SUFFICES ASSUME RInv, [RNext]_rvars PROVE RInv'
  OBVIOUS
<1>1. CASE UNCHANGED rvars
  <2>1. /\ providers' = providers /\ expected' = expected /\ committed' = committed
        /\ nextGen' = nextGen /\ todo' = todo /\ listeners' = listeners /\ on' = on
        /\ effects' = effects /\ scope' = scope /\ act' = act /\ kind' = kind
        /\ told' = told /\ held' = held
    BY <1>1 DEF rvars, regVars, jobVars, callVars
  <2>2. \A r : Target(r)' = Target(r)
    BY <2>1 DEF Target
  <2>3. RTypes' /\ FreshInv' /\ UniqueInv' /\ StageInv' /\ HeldInv' /\ JobInv'
    BY <2>1 DEF RInv, RTypes, RTypeOK, FreshInv, UniqueInv, StageInv, HeldInv, JobInv
  <2>4. OwnInv'
    BY <2>1, <2>2 DEF RInv, OwnInv, Enlisting
  <2>5. TellInv'
    BY <2>1, <2>2 DEF RInv, TellInv, Awaited, Informed, Announced
  <2> QED
    BY <2>1, <2>3, <2>4, <2>5 DEF RInv
<1>2. ASSUME NEW t \in Threads, NEW o \in Owners, NEW k \in Services,
             NEW how \in {"provide", "replace"}, Publish(t, o, k, how)
      PROVE  RInv'
  BY <1>2, PublishKeeps
<1>3. ASSUME NEW t \in Threads, NEW r \in Staged, Commit(t, r) PROVE RInv'
  BY <1>3, CommitKeeps
<1>4. ASSUME NEW t \in Threads, Notify(t) \/ Deliver(t) \/ AddSubscription(t) \/ Greet(t)
      PROVE  RInv'
  BY <1>4, NotifyKeeps, DeliverKeeps, AddSubscriptionKeeps, GreetKeeps
<1>5. ASSUME NEW t \in Threads, RunDisposer(t) \/ ScopeClosed(t) PROVE RInv'
  <2>1. CASE RunDisposer(t)
    <3>1. \/ RemoveIfCurrent(t, on[t], Last(effects[on[t]]))
          \/ RemoveListener(Last(effects[on[t]]))
      BY <2>1 DEF RunDisposer
    <3> QED
      BY <2>1, <3>1, RunProviderDisposerKeeps, RunListenerDisposerKeeps
  <2> QED
    BY <1>5, <2>1, ScopeClosedKeeps
<1>6. ASSUME NEW t \in Threads, NEW l \in Listeners,
             RegisterListener(t, l) \/ Unsubscribe(t, l)
      PROVE  RInv'
  BY <1>6, RegisterListenerKeeps, UnsubscribeKeeps
<1>7. ASSUME NEW t \in Threads, NEW o \in Owners, CloseScope(t, o) PROVE RInv'
  BY <1>7, CloseScopeKeeps
<1>8. ASSUME NEW u \in Users, NEW o \in Owners, NEW k \in Services, Get(u, o, k)
      PROVE  RInv'
  BY <1>8, GetKeeps
<1> QED
  BY <1>1, <1>2, <1>3, <1>4, <1>5, <1>6, <1>7, <1>8 DEF RNext

-----------------------------------------------------------------------------
\* In every state of every run, whatever threads, stagings and scopes there
\* are, generations, expectations, disposers and announcements are in order.
THEOREM RegistryInvariance == RSpec => []RInv
BY InitRInv, StepRInv, PTL DEF RSpec

\* No provider and no listener is left without the scope that owns it, also
\* when its staging has been committed or its scope closed under it.
THEOREM NothingIsOrphaned == RSpec => []RegistryInv
<1>1. ASSUME RInv PROVE OwnedProviders
  <2>1. \A o \in Owners : scope[o] = "closed" => Range(effects[o]) = {}
    BY <1>1 DEF RInv, OwnInv, Range
  <2> QED
    BY <1>1, <2>1 DEF RInv, OwnInv, OwnedProviders
<1>2. ASSUME RInv PROVE NoOrphanListener
  <2>1. \A o \in Owners : scope[o] = "closed" => Range(effects[o]) = {}
    BY <1>2 DEF RInv, OwnInv, Range
  <2>2. \A l \in listeners : SubOwner[l] \in Owners
    BY <1>2, RegistryAssumption DEF RInv, RTypes, RTypeOK
  <2> QED
    BY <1>2, <2>1, <2>2 DEF RInv, OwnInv, NoOrphanListener, Enlisting
<1>3. RInv => RegistryInv
  BY <1>1, <1>2 DEF RInv, RTypes, RegistryInv
<1> QED
  BY <1>3, RegistryInvariance, PTL

\* Every change of a service is announced to everybody who depends on it:
\* when all calls have returned, what a listener was told last is so.
THEOREM ListenersAreCurrent == RSpec => []ChangesAreAnnounced
<1>1. ASSUME RInv, \A t \in Threads : Idle(t), NEW l \in listeners
      PROVE  told[l] = Snapshot(l)
  <2>1. ~Awaited(l)
    BY <1>1 DEF Awaited, Idle
  <2>2. \A k : ~Announced(k)
    BY <1>1 DEF Announced, Idle, Quiet, Range
  <2> QED
    BY <1>1, <2>1, <2>2 DEF RInv, TellInv, Informed, Snapshot
<1>2. RInv => ChangesAreAnnounced
  BY <1>1 DEF ChangesAreAnnounced
<1> QED
  BY <1>2, RegistryInvariance, PTL

\* What a step does to the provider of a service in the host: it stays, or
\* goes, or publish_service or a commit brings one.
LEMMA HostChanges ==
  ASSUME RInv, RNext, NEW k \in Services, providers'[Host][k] # providers[Host][k]
  PROVE  \/ providers'[Host][k] = NoGen
         \/ /\ providers'[Host][k] = nextGen
            /\ providers[Host][k] # NoGen => kind'[providers'[Host][k]] = "replace"
         \/ \E r \in Staged :
              /\ providers'[Host][k] = providers[r][k] /\ providers[r][k] # NoGen
              /\ expected[r][k] = providers[Host][k] /\ kind' = kind
<1> USE GenFacts, TargetFacts DEF RInv
<1>0. providers \in [Registries -> [Services -> Gens \cup {NoGen}]]
  BY DEF RTypes, RTypeOK
<1>1. ASSUME NEW t \in Threads, NEW o \in Owners, NEW j \in Services,
             NEW how \in {"provide", "replace"}, Publish(t, o, j, how)
      PROVE  /\ providers'[Host][k] = nextGen
             /\ providers[Host][k] # NoGen => kind'[providers'[Host][k]] = "replace"
  <2>1. nextGen \in Gens /\ providers' = [providers EXCEPT ![Target(View[o])][j] = nextGen]
        /\ kind' = [kind EXCEPT ![nextGen] = how]
    BY <1>1 DEF Publish, NewGeneration, RTypes, RTypeOK
  <2>2. Target(View[o]) = Host /\ j = k
    BY <1>0, <2>1
  <2>3. providers[Host][k] # NoGen => how = "replace"
    BY <1>1, <2>2 DEF Publish, Entry
  <2> QED
    BY <1>0, <2>1, <2>2, <2>3 DEF RTypes, RTypeOK
<1>2. ASSUME NEW t \in Threads, NEW r \in Staged, Commit(t, r)
      PROVE  /\ providers'[Host][k] = providers[r][k] /\ providers[r][k] # NoGen
             /\ expected[r][k] = providers[Host][k] /\ kind' = kind
  <2>1. r # Host /\ r \in Registries
    BY RegistryAssumption DEF Registries
  <2>2. providers'[Host][k] = IF providers[r][k] # NoGen THEN providers[r][k] ELSE providers[Host][k]
    BY <1>0, <1>2, <2>1 DEF Commit, Merge
  <2>3. expected[r][k] # Unset
    BY <2>2 DEF StageInv
  <2> QED
    BY <1>2, <2>2, <2>3 DEF Commit, HostAsExpected
<1>3. ASSUME NEW t \in Threads, RunDisposer(t) PROVE providers'[Host][k] = NoGen
  <2> DEFINE o == on[t]
             e == Last(effects[o])
  <2>1. RemoveIfCurrent(t, o, e)
    BY <1>3 DEF RunDisposer, RemoveListener
  <2>2. o \in Owners /\ effects[o] \in Seq(Effects) /\ effects[o] # <<>>
    BY <1>3 DEF RunDisposer, JobInv, RTypes
  <2>3. providers' = providers \/ providers' = [providers EXCEPT ![Target(View[o])][e.svc] = NoGen]
    BY <2>1 DEF RemoveIfCurrent
  <2> QED
    BY <1>0, <2>2, <2>3
<1>4. ASSUME NEW t \in Threads,
             Notify(t) \/ Deliver(t) \/ AddSubscription(t) \/ Greet(t) \/ ScopeClosed(t)
      PROVE  FALSE
  BY <1>4 DEF Notify, Deliver, AddSubscription, Greet, ScopeClosed, regVars
<1>5. ASSUME NEW t \in Threads, NEW l \in Listeners,
             RegisterListener(t, l) \/ Unsubscribe(t, l)
      PROVE  FALSE
  BY <1>5 DEF RegisterListener, Unsubscribe, regVars
<1>6. ASSUME NEW t \in Threads, NEW o \in Owners, CloseScope(t, o) PROVE FALSE
  BY <1>6 DEF CloseScope, regVars
<1>7. ASSUME NEW u \in Users, NEW o \in Owners, NEW j \in Services, Get(u, o, j)
      PROVE  FALSE
  BY <1>7 DEF Get, regVars
<1> QED
  BY <1>1, <1>2, <1>3, <1>4, <1>5, <1>6, <1>7 DEF RNext

\* A staging is committed by Commit and by nothing else, and the view of its
\* plugins is the same after it.
LEMMA CommitKeepsView ==
  ASSUME RInv, RNext, NEW r \in Staged, ~committed[r], committed'[r], NEW k \in Services
  PROVE  Entry(r, k)' = Entry(r, k)
<1> USE GenFacts, TargetFacts DEF RInv
<1>1. ASSUME NEW t \in Threads, NEW q \in Staged, Commit(t, q) PROVE Entry(r, k)' = Entry(r, k)
  <2>1. q = r
    BY <1>1 DEF Commit, RTypes, RTypeOK
  <2>2. r # Host /\ r \in Registries
    BY RegistryAssumption DEF Registries
  <2>3. providers'[Host][k] = IF providers[r][k] # NoGen THEN providers[r][k] ELSE providers[Host][k]
    BY <1>1, <2>1, <2>2 DEF Commit, Merge, RTypes, RTypeOK
  <2> QED
    BY <2>3 DEF Entry, Target
<1>2. committed' # committed
  OBVIOUS
<1>3. ASSUME NEW t \in Threads, NEW o \in Owners, NEW j \in Services,
             NEW how \in {"provide", "replace"}, Publish(t, o, j, how)
      PROVE  FALSE
  BY <1>2, <1>3 DEF Publish
<1>4. ASSUME NEW t \in Threads,
             \/ Notify(t) \/ Deliver(t) \/ AddSubscription(t) \/ Greet(t)
             \/ RunDisposer(t) \/ ScopeClosed(t)
      PROVE  FALSE
  BY <1>2, <1>4 DEF Notify, Deliver, AddSubscription, Greet, RunDisposer, ScopeClosed, regVars
<1>5. ASSUME NEW t \in Threads, NEW l \in Listeners,
             RegisterListener(t, l) \/ Unsubscribe(t, l)
      PROVE  FALSE
  BY <1>2, <1>5 DEF RegisterListener, Unsubscribe, regVars
<1>6. ASSUME NEW t \in Threads, NEW o \in Owners, CloseScope(t, o) PROVE FALSE
  BY <1>2, <1>6 DEF CloseScope, regVars
<1>7. ASSUME NEW u \in Users, NEW o \in Owners, NEW j \in Services, Get(u, o, j)
      PROVE  FALSE
  BY <1>2, <1>7 DEF Get, regVars
<1> QED
  BY <1>1, <1>3, <1>4, <1>5, <1>6, <1>7 DEF RNext

\* A commit supersedes nothing of the host that its staging has not seen, and
\* changes nothing for the candidate it comes from.
THEOREM CommitsAreFaithful == RSpec => CommitIsFaithful
<1>1. ASSUME RInv, RNext PROVE StrictRegistration
  <2> SUFFICES ASSUME NEW k \in Services, providers[Host][k] # NoGen,
                      providers'[Host][k] # NoGen, providers'[Host][k] # providers[Host][k]
               PROVE  kind'[providers'[Host][k]] = "replace"
    BY DEF StrictRegistration
  <2>1. \/ providers'[Host][k] = NoGen
        \/ /\ providers'[Host][k] = nextGen
           /\ providers[Host][k] # NoGen => kind'[providers'[Host][k]] = "replace"
        \/ \E r \in Staged :
             /\ providers'[Host][k] = providers[r][k] /\ providers[r][k] # NoGen
             /\ expected[r][k] = providers[Host][k] /\ kind' = kind
    BY <1>1, HostChanges
  <2>2. providers[Host][k] \in Gens
    BY <1>1, TargetFacts DEF RInv, RTypes, RTypeOK
  <2> QED
    BY <1>1, <2>1, <2>2 DEF RInv, StageInv
<1>2. ASSUME RInv, RNext PROVE CommitPreservesView
  BY <1>2, CommitKeepsView DEF CommitPreservesView
<1>3. RInv /\ [RNext]_rvars => [StrictRegistration /\ CommitPreservesView]_rvars
  BY <1>1, <1>2
<1> QED
  BY <1>3, RegistryInvariance, PTL DEF RSpec, CommitIsFaithful

\* A handle of the host registry that has gone stale stays so: a generation is
\* given once, and none that was in the host comes back by a commit.
THEOREM StaleForGood == RSpec => StaleStaysStale
<1> DEFINE A == \A u \in Users :
       /\ held[u] # NoHandle /\ held[u].reg = Host
       /\ IsCurrent(held[u])'
       => IsCurrent(held[u])
<1>1. ASSUME RInv, RNext PROVE A
  <2> SUFFICES ASSUME NEW u \in Users, held[u] # NoHandle, held[u].reg = Host,
                      IsCurrent(held[u])'
               PROVE  IsCurrent(held[u])
    OBVIOUS
  <2>1. held[u].svc \in Services /\ held[u].gen \in Gens
    BY <1>1 DEF RInv, RTypes, RTypeOK, Handles
  <2>2. held'[u] = held[u]
    <3>1. CASE \E v \in Users, o \in Owners, k \in Services : Get(v, o, k)
      BY <1>1, <3>1 DEF Get, RInv, RTypes, RTypeOK
    <3>2. CASE ~\E v \in Users, o \in Owners, k \in Services : Get(v, o, k)
      BY <1>1, <3>2 DEF RNext, Publish, Commit, Notify, Deliver, AddSubscription, Greet,
         RunDisposer, ScopeClosed, RegisterListener, Unsubscribe, CloseScope
    <3> QED
      BY <3>1, <3>2
  <2>3. \A k : Entry(Host, k) = providers[Host][k] /\ Entry(Host, k)' = providers'[Host][k]
    BY RegistryAssumption DEF Entry, Target
  <2>4. providers'[Host][held[u].svc] = held[u].gen
    BY <2>2, <2>3 DEF IsCurrent
  <2>5. CASE providers'[Host][held[u].svc] = providers[Host][held[u].svc]
    BY <2>1, <2>3, <2>4, <2>5, GenFacts DEF IsCurrent
  <2>6. CASE providers'[Host][held[u].svc] # providers[Host][held[u].svc]
    <3>1. held[u].gen # NoGen /\ held[u].gen # nextGen
      <4>1. held[u].gen \in Nat /\ nextGen \in Nat /\ held[u].gen < nextGen
        BY <1>1, <2>1, GenFacts DEF RInv, FreshInv, RTypes, RTypeOK
      <4> QED
        BY <2>1, <4>1, GenFacts
    <3>2. \A r \in Staged : providers[r][held[u].svc] # held[u].gen
      BY <1>1, <2>1 DEF RInv, HeldInv
    <3> QED
      BY <1>1, <2>1, <2>4, <2>6, <3>1, <3>2, HostChanges
  <2> QED
    BY <2>5, <2>6
<1>2. RInv /\ [RNext]_rvars => [A]_rvars
  BY <1>1
<1> QED
  BY <1>2, RegistryInvariance, PTL DEF RSpec, StaleStaysStale

-----------------------------------------------------------------------------
(***************************************************************************)
(* Proofs about ManagedNative, for any number of provider changes and any  *)
(* set of faults.                                                          *)
(*                                                                         *)
(* The properties speak of a worker that waits.  The invariant says what   *)
(* it is about to leave behind while a pass is under way: what every fiber *)
(* has been through (FibersOK), which fiber is being started and for which *)
(* snapshot (AttemptOK), what holds before the first pass and after the    *)
(* last one (EndsOK), and what a pass has done when it is over (PassOK).   *)
(***************************************************************************)
\* Where the worker is when it tries to start the fiber `Starting'
Attempt == {"gate", "subscribe", "signal", "check", "blocked", "config", "hook"}

\* What a fiber has been through: plugin code is stopped at most once, and for
\* good before the fiber is left.
FibersOK ==
  \A f \in DOMAIN fibers :
    /\ fibers[f].state = "Pending" =>
         fibers[f].stops = 0 /\ (fibers[f].attempted => wpc = "hook" /\ f = Starting)
    /\ fibers[f].state \in {"Failed", "Disposed"} =>
         (fibers[f].attempted => fibers[f].stops = 1)
    /\ f \notin {fib, cand} => fibers[f].state = "Disposed"

\* The fiber that is started, and the candidate of an update
AttemptOK ==
  /\ cand # 0 => cand # fib /\ wpc \in Attempt \cup {"commit", "discard", "retire"}
  /\ wpc \in {"commit", "discard", "retire"} => cand # 0
  /\ wpc \in Attempt => fibers[Starting].state = "Pending"
  /\ wpc \in {"commit", "retire"} => fibers[cand].state = "Active"
  /\ wpc = "republish" => fibers[fib].state = "Active"
  /\ wpc = "publish" => fibers[fib].state = "Pending"
  /\ wpc \in Attempt \cup {"commit", "discard", "retire", "republish"} =>
       local \in tried
  /\ active # 0 => active \in tried

\* The worker before its first pass, and after its last one
EndsOK ==
  /\ wpc \in {"build", "watch", "greet", "initialize"} =>
       local = 0 /\ fibers[fib].state = "Pending"
  /\ wpc = "build" => ~initialized
  /\ wpc = "shutdown" => stopping
  /\ wpc = "done" => stopping \/ phase # "Active"
  /\ wpc = "done" /\ initialized => fibers[fib].state = "Disposed"

\* What a pass for the snapshot `local' has done when it is over
PassOK ==
  /\ ~dirty => local = snap
  /\ phase = "Active" => wpc \in {"wait", "shutdown", "done"}
  /\ wpc = "wait" =>
       /\ local = 0 => fibers[fib].state # "Active"
       /\ local # 0 /\ ~fibers[fib].unclean => local \in tried
       /\ phase = "Active" => fibers[fib].state = "Active" /\ active = local

MInv == MTypeOK /\ FibersOK /\ AttemptOK /\ EndsOK /\ PassOK

\* The fibers of a sequence, by index.
LEMMA FiberSeq ==
  ASSUME NEW fs \in Seq(FiberRecords)
  PROVE  /\ Len(fs) \in Nat /\ DOMAIN fs = 1 .. Len(fs)
         /\ \A f \in DOMAIN fs : fs[f] \in FiberRecords
BY LenProperties, ElementOfSeq

\* One fiber is replaced.
LEMMA SetFiber ==
  ASSUME NEW fs \in Seq(FiberRecords), NEW f \in DOMAIN fs, NEW r \in FiberRecords,
         NEW gs, gs = [fs EXCEPT ![f] = r]
  PROVE  /\ gs \in Seq(FiberRecords) /\ Len(gs) = Len(fs) /\ DOMAIN gs = DOMAIN fs
         /\ gs[f] = r /\ \A g \in DOMAIN fs : g # f => gs[g] = fs[g]
<1>1. Len(fs) \in Nat /\ DOMAIN fs = 1 .. Len(fs) /\ \A g \in DOMAIN fs : fs[g] \in FiberRecords
  BY FiberSeq
<1>2. gs \in [1 .. Len(fs) -> FiberRecords]
  BY <1>1
<1>3. gs \in Seq(FiberRecords) /\ Len(gs) = Len(fs) /\ DOMAIN gs = DOMAIN fs
  BY <1>1, <1>2, SeqDef
<1>4. gs[f] = r /\ \A g \in DOMAIN fs : g # f => gs[g] = fs[g]
  BY <1>1
<1> QED
  BY <1>3, <1>4

\* A fiber is added.
LEMMA AddFiber ==
  ASSUME NEW fs \in Seq(FiberRecords), NEW gs, gs = Append(fs, NewFiber)
  PROVE  /\ gs \in Seq(FiberRecords) /\ Len(gs) = Len(fs) + 1
         /\ Len(fs) + 1 \in DOMAIN gs /\ DOMAIN gs = DOMAIN fs \cup {Len(fs) + 1}
         /\ gs[Len(fs) + 1] = NewFiber /\ \A g \in DOMAIN fs : gs[g] = fs[g]
<1>1. Len(fs) \in Nat /\ DOMAIN fs = 1 .. Len(fs)
  BY FiberSeq
<1>2. NewFiber \in FiberRecords
  BY DEF NewFiber, FiberRecords
<1>3. /\ gs \in Seq(FiberRecords) /\ Len(gs) = Len(fs) + 1
      /\ \A i \in 1 .. Len(fs) : gs[i] = fs[i] /\ gs[Len(fs) + 1] = NewFiber
  BY <1>1, <1>2, AppendProperties
<1>4. gs[Len(fs) + 1] = NewFiber
  BY <1>2, AppendProperties
<1>5. DOMAIN gs = 1 .. Len(fs) + 1
  BY <1>3, FiberSeq
<1> QED
  BY <1>1, <1>3, <1>4, <1>5

\* Letters stay letters when there are more fibers.
LEMMA LettersGrow ==
  ASSUME NEW ls, NEW m \in Nat, NEW n \in Nat, m <= n, NEW G,
         ls \in Seq([to : 0 .. m, gen : G])
  PROVE  ls \in Seq([to : 0 .. n, gen : G])
<1> DEFINE A == [to : 0 .. m, gen : G]
           B == [to : 0 .. n, gen : G]
<1>1. A \subseteq B
  OBVIOUS
<1>5. ls \in Seq(A)
  OBVIOUS
<1> HIDE DEF A, B
<1>2. PICK k \in Nat : ls \in [1 .. k -> A]
  BY <1>5, SeqDef
<1>3. ls \in [1 .. k -> B]
  BY <1>1, <1>2
<1>4. ls \in Seq(B)
  BY <1>3, SeqDef
<1> QED
  BY <1>4 DEF B

\* The types, of everything but the letters and what depends on the fibers.
Scalars ==
  /\ avail \in 0 .. MaxChanges /\ changes \in 0 .. MaxChanges
  /\ due \in BOOLEAN /\ greeting \in 0 .. MaxChanges
  /\ activated \in BOOLEAN /\ initialized \in BOOLEAN
  /\ stopping \in BOOLEAN /\ dirty \in BOOLEAN
  /\ snap \in 0 .. MaxChanges
  /\ phase \in {"Pending", "Starting", "Active", "Failed"}
  /\ wpc \in WorkerStates
  /\ local \in 0 .. MaxChanges /\ active \in 0 .. MaxChanges
  /\ opc \in {"idle", "polling", "asleep", "stopping", "joining", "disposed"}
  /\ tried \subseteq 1 .. MaxChanges

Letters == letters \in Seq([to : 0 .. Len(fibers), gen : 0 .. MaxChanges])

Pointers ==
  /\ fibers \in Seq(FiberRecords)
  /\ fib \in DOMAIN fibers /\ token \in DOMAIN fibers
  /\ cand \in {0} \cup DOMAIN fibers
  /\ gate \in [of : {0} \cup DOMAIN fibers, ready : BOOLEAN]

\* They are all there are.
LEMMA TypeParts ==
  /\ MTypeOK <=> Scalars /\ Letters /\ Pointers
  /\ MTypeOK' <=> Scalars' /\ Letters' /\ Pointers'
BY DEF MTypeOK, Scalars, Letters, Pointers

\* stop_current leaves a fiber that is disposed of, with its plugin stopped.
LEMMA AfterStopFacts ==
  ASSUME fibers \in Seq(FiberRecords), NEW f \in DOMAIN fibers, NEW u \in BOOLEAN
  PROVE  /\ AfterStop(f, u) \in FiberRecords /\ AfterStop(f, u).state = "Disposed"
         /\ AfterStop(f, u).attempted => AfterStop(f, u).stops = 1
         /\ AfterStop(f, u).unclean <=> fibers[f].unclean \/ u
<1>1. PICK r \in FiberRecords : r = fibers[f]
  BY FiberSeq
<1>2. PICK n \in 0 .. 1 : n = (IF StopsNow(f) THEN r.stops + 1 ELSE r.stops)
                          /\ (r.attempted => n = 1)
  BY <1>1 DEF StopsNow, FiberRecords
<1>3. PICK b \in BOOLEAN : b = (r.unclean \/ u)
  OBVIOUS
<1>4. PICK t : t = AfterStop(f, u)
  OBVIOUS
<1>5. t = [r EXCEPT !.state = "Disposed", !.cancelled = TRUE, !.stops = n, !.unclean = b]
  BY <1>1, <1>2, <1>3, <1>4 DEF AfterStop, FiberRecords
<1>6. /\ t \in FiberRecords /\ t.state = "Disposed" /\ t.attempted = r.attempted
      /\ t.stops = n /\ t.unclean = b
  <2>1. r.attempted \in BOOLEAN /\ DOMAIN r = {"state", "cancelled", "attempted", "stops", "unclean"}
    BY DEF FiberRecords
  <2>2. t \in FiberRecords
    BY <1>5 DEF FiberRecords
  <2>3. t.state = "Disposed" /\ t.attempted = r.attempted /\ t.stops = n
    BY <1>5, <2>1
  <2>4. t.unclean = b
    BY <1>5, <2>1
  <2> QED
    BY <2>2, <2>3, <2>4
<1> QED
  BY <1>1, <1>2, <1>3, <1>4, <1>6

\* What stop_current does to the fibers, and why it fails.
LEMMA StopCurrentFacts ==
  ASSUME fibers \in Seq(FiberRecords), NEW f \in DOMAIN fibers, NEW error \in BOOLEAN,
         StopCurrent(f, error)
  PROVE  /\ fibers' \in Seq(FiberRecords) /\ Len(fibers') = Len(fibers)
         /\ DOMAIN fibers' = DOMAIN fibers
         /\ fibers'[f].state = "Disposed" /\ (fibers'[f].attempted => fibers'[f].stops = 1)
         /\ error /\ ~StopsNow(f) => fibers'[f].unclean
         /\ \A g \in DOMAIN fibers : g # f => fibers'[g] = fibers[g]
<1>1. PICK u \in MayBeUnclean(f), s \in MayFailToStop(f) :
        /\ fibers' = [fibers EXCEPT ![f] = AfterStop(f, u)]
        /\ error <=> (s \/ fibers'[f].unclean)
  BY DEF StopCurrent
<1>2. u \in BOOLEAN /\ (s => StopsNow(f))
  BY DEF MayBeUnclean, MayFailToStop
<1>3. /\ AfterStop(f, u) \in FiberRecords /\ AfterStop(f, u).state = "Disposed"
      /\ AfterStop(f, u).attempted => AfterStop(f, u).stops = 1
      /\ AfterStop(f, u).unclean <=> fibers[f].unclean \/ u
  BY <1>2, AfterStopFacts, Zenon
<1>4. /\ fibers' \in Seq(FiberRecords) /\ Len(fibers') = Len(fibers)
      /\ DOMAIN fibers' = DOMAIN fibers
      /\ fibers'[f] = AfterStop(f, u)
      /\ \A g \in DOMAIN fibers : g # f => fibers'[g] = fibers[g]
  BY <1>1, <1>3, SetFiber
<1> QED
  BY <1>1, <1>2, <1>3, <1>4

\* In the beginning.
LEMMA ManagedStarts == MInit => MInv
<1> SUFFICES ASSUME MInit PROVE MInv
  OBVIOUS
<1>1. MaxChanges \in Nat /\ NewFiber \in FiberRecords
  BY ManagedAssumption DEF NewFiber, FiberRecords
<1>2. fibers \in Seq(FiberRecords) /\ DOMAIN fibers = {1} /\ fibers[1] = NewFiber
  BY <1>1 DEF MInit
<1>3. Scalars
  <2>1. 0 \in 0 .. MaxChanges
    BY <1>1
  <2> QED
    BY <2>1 DEF MInit, Scalars, WorkerStates
<1>4. Letters /\ Pointers
  BY <1>2 DEF MInit, Letters, Pointers, NoGate
<1>5. FibersOK /\ AttemptOK /\ EndsOK /\ PassOK
  BY <1>2 DEF MInit, FibersOK, AttemptOK, EndsOK, PassOK, NewFiber, Attempt
<1> QED
  BY <1>3, <1>4, <1>5, TypeParts DEF MInv

\* The fibers and where the worker is stay as they are.
LEMMA WorkerRests ==
  ASSUME MInv, UNCHANGED <<fibers, fib, cand, token, wpc, local, active, tried, phase, initialized>>,
         Scalars', Letters', gate' \in [of : {0} \cup DOMAIN fibers, ready : BOOLEAN],
         stopping => stopping', ~dirty' => local = snap'
  PROVE  MInv'
<1>1. Pointers'
  BY TypeParts DEF MInv, Pointers
<1>2. FibersOK'
  BY DEF MInv, FibersOK, Starting
<1>3. AttemptOK' /\ EndsOK'
  BY DEF MInv, AttemptOK, EndsOK, Starting
<1>4. PassOK'
  BY DEF MInv, PassOK
<1> QED
  BY <1>1, <1>2, <1>3, <1>4, TypeParts DEF MInv

\* The registry, its notifier and the owner of the handle.
LEMMA OutsideKeeps ==
  ASSUME MInv, Change \/ Announce \/ NotifyWatcher \/ NotifyGate \/ Activate \/ PollActivation
               \/ DropActivation \/ Stop \/ Joined
  PROVE  MInv'
<1>0. MaxChanges \in Nat /\ Scalars /\ Letters /\ Pointers /\ PassOK
  BY ManagedAssumption, TypeParts DEF MInv
<1> USE DEF providerVars, controlVars, flagVars, instVars, gateVars, workVars
<1>1. UNCHANGED <<fibers, fib, cand, token, wpc, local, active, tried, phase, initialized>>
  BY DEF Change, Announce, NotifyWatcher, NotifyGate, Activate, PollActivation, DropActivation,
     Stop, Joined, SetSnapshot
<1>2. ASSUME NEW l, letters # <<>>, l = Head(letters)
      PROVE  /\ l \in [to : 0 .. Len(fibers), gen : 0 .. MaxChanges]
             /\ Tail(letters) \in Seq([to : 0 .. Len(fibers), gen : 0 .. MaxChanges])
  BY <1>0, <1>2, HeadTailProperties DEF Letters
<1>3. Scalars'
  <2>1. CASE Change
    BY <1>0, <2>1 DEF Change, Scalars
  <2>2. CASE NotifyWatcher
    <3>1. Head(letters).gen \in 0 .. MaxChanges
      BY <1>2, <2>2 DEF NotifyWatcher
    <3> QED
      BY <1>0, <2>2, <3>1 DEF NotifyWatcher, SetSnapshot, Dirtied, WakeOwner, Scalars
  <2>3. CASE Announce \/ NotifyGate \/ PollActivation \/ DropActivation \/ Joined
    BY <1>0, <2>3, ZenonT(40) DEF Announce, NotifyGate, PollActivation, DropActivation, Joined, Scalars
  <2>4. CASE Activate \/ Stop
    BY <1>0, <2>4 DEF Activate, Stop, Scalars
  <2> QED
    BY <2>1, <2>2, <2>3, <2>4
<1>4. Letters'
  <2>1. CASE Announce
    <3> DEFINE L == [to : 0 .. Len(fibers), gen : 0 .. MaxChanges]
    <3>1. Len(fibers) \in Nat /\ DOMAIN fibers = 1 .. Len(fibers)
      BY <1>0, FiberSeq DEF Pointers
    <3>2. /\ [to |-> 0, gen |-> avail] \in L
          /\ gate.of # 0 => [to |-> gate.of, gen |-> avail] \in L
      BY <1>0, <3>1 DEF Scalars, Pointers
    <3> HIDE DEF L
    <3> DEFINE a == IF Watching THEN <<[to |-> 0, gen |-> avail]>> ELSE <<>>
               b == IF gate.of # 0 THEN <<[to |-> gate.of, gen |-> avail]>> ELSE <<>>
    <3>3. a \in Seq(L) /\ b \in Seq(L)
      <4>1. \A x \in L : <<x>> \in Seq(L)
        OBVIOUS
      <4>2. <<>> \in Seq(L)
        OBVIOUS
      <4> QED
        BY <3>2, <4>1, <4>2, Zenon
    <3>4. letters' = a \o b
      BY <2>1 DEF Announce
    <3> HIDE DEF a, b
    <3>5. a \o b \in Seq(L)
      BY <3>3, ConcatProperties
    <3> QED
      BY <1>1, <3>4, <3>5 DEF Letters, L
  <2>2. CASE NotifyWatcher \/ NotifyGate
    BY <1>1, <1>2, <2>2 DEF NotifyWatcher, NotifyGate, Letters
  <2>3. CASE Change \/ Activate \/ PollActivation \/ DropActivation \/ Stop \/ Joined
    BY <1>0, <1>1, <2>3 DEF Change, Activate, PollActivation, DropActivation, Stop, Joined, Letters
  <2> QED
    BY <2>1, <2>2, <2>3
<1>5. gate' \in [of : {0} \cup DOMAIN fibers, ready : BOOLEAN]
  <2>1. CASE NotifyGate
    BY <1>0, <2>1 DEF NotifyGate, Pointers
  <2>2. CASE ~NotifyGate
    BY <1>0, <2>2 DEF Pointers, Change, Announce, NotifyWatcher, Activate, PollActivation,
       DropActivation, Stop, Joined
  <2> QED
    BY <2>1, <2>2
<1>6. (stopping => stopping') /\ (~dirty' => local = snap')
  BY <1>0 DEF PassOK, Scalars, Change, Announce, NotifyWatcher, NotifyGate, Activate, PollActivation,
     DropActivation, Stop, Joined, SetSnapshot, Dirtied
<1> QED
  BY <1>1, <1>3, <1>4, <1>5, <1>6, WorkerRests

\* Waking the owner leaves it in a state of its own.
LEMMA OwnerStates ==
  Scalars => WakeOwner \in {"idle", "polling", "asleep", "stopping", "joining", "disposed"}
BY DEF Scalars, WakeOwner

\* A step of the worker that leaves the fibers alone, outside the hooks of a
\* start, changes nothing they have been through.
LEMMA FibersRest ==
  ASSUME MInv, UNCHANGED <<fibers, fib, cand>>, wpc # "hook"
  PROVE  FibersOK'
BY DEF MInv, FibersOK, Starting

\* The worker comes up, and takes a snapshot.
LEMMA OpeningKeeps ==
  ASSUME MInv, BuildFails \/ Watch \/ ReadSnapshot \/ GreetWatcher \/ SetInitialized
               \/ NextSnapshot
  PROVE  MInv'
<1>0. /\ MaxChanges \in Nat /\ 0 \in 0 .. MaxChanges /\ Scalars /\ Letters /\ Pointers
      /\ FibersOK /\ AttemptOK /\ EndsOK /\ PassOK
  BY ManagedAssumption, TypeParts DEF MInv
<1> USE DEF providerVars, controlVars, flagVars, instVars, gateVars, workVars
<1>1. UNCHANGED <<fibers, fib, cand, token, letters, gate>> /\ wpc # "hook"
  BY DEF BuildFails, Watch, ReadSnapshot, GreetWatcher, SetInitialized, NextSnapshot
<1>2. Letters' /\ Pointers' /\ FibersOK'
  BY <1>0, <1>1, FibersRest DEF Letters, Pointers
<1>3. Scalars'
  <2>1. CASE BuildFails
    BY <1>0, <2>1, OwnerStates DEF BuildFails, SetPhase, Scalars, WorkerStates
  <2>4. CASE Watch \/ ReadSnapshot
    <3>1. wpc' \in WorkerStates
      BY <2>4 DEF Watch, ReadSnapshot, WorkerStates
    <3> QED
      BY <1>0, <2>4, <3>1, ZenonT(40) DEF Watch, ReadSnapshot, Scalars
  <2>2. CASE GreetWatcher \/ SetInitialized
    BY <1>0, <2>2, ZenonT(40) DEF GreetWatcher, SetSnapshot, Dirtied, SetInitialized, WakeOwner, Scalars,
       WorkerStates
  <2>3. CASE NextSnapshot
    BY <1>0, <2>3 DEF NextSnapshot, Scalars, WorkerStates
  <2> QED
    BY <2>1, <2>2, <2>3, <2>4
<1>4. AttemptOK'
  BY <1>0, <1>1 DEF AttemptOK, Attempt, Starting, BuildFails, Watch, ReadSnapshot, GreetWatcher,
     SetInitialized, NextSnapshot
<1>5. EndsOK'
  <2>1. CASE BuildFails \/ Watch \/ ReadSnapshot
    BY <1>0, <1>1, <2>1 DEF EndsOK, BuildFails, Watch, ReadSnapshot, SetPhase
  <2>2. CASE GreetWatcher \/ SetInitialized \/ NextSnapshot
    BY <1>0, <1>1, <2>2 DEF EndsOK, GreetWatcher, SetSnapshot, SetInitialized, NextSnapshot
  <2> QED
    BY <2>1, <2>2
<1>6. PassOK'
  <2>1. CASE BuildFails \/ Watch \/ ReadSnapshot
    BY <1>0, <1>1, <2>1 DEF PassOK, BuildFails, Watch, ReadSnapshot, SetPhase
  <2>2. CASE GreetWatcher
    BY <1>0, <1>1, <2>2 DEF PassOK, GreetWatcher, SetSnapshot, Dirtied
  <2>3. CASE SetInitialized
    BY <1>0, <1>1, <2>3 DEF PassOK, EndsOK, SetInitialized
  <2>4. CASE NextSnapshot
    BY <1>0, <1>1, <2>4 DEF PassOK, NextSnapshot
  <2> QED
    BY <2>1, <2>2, <2>3, <2>4
<1> QED
  BY <1>2, <1>3, <1>4, <1>5, <1>6, TypeParts DEF MInv

\* A pass that ends before a fiber is touched.
LEMMA DecisionKeeps ==
  ASSUME MInv, NothingToDo \/ KeepActive \/ UpdateRefused
  PROVE  MInv'
<1>0. /\ MaxChanges \in Nat /\ 0 \in 0 .. MaxChanges /\ Scalars /\ Letters /\ Pointers
      /\ FibersOK /\ AttemptOK /\ EndsOK /\ PassOK
  BY ManagedAssumption, TypeParts DEF MInv
<1> USE DEF providerVars, controlVars, flagVars, instVars, gateVars, workVars
<1>1. /\ UNCHANGED <<fibers, fib, cand, token, letters, gate, local, dirty, snap, stopping>>
      /\ wpc = "decide" /\ wpc' = "wait"
  BY DEF NothingToDo, KeepActive, UpdateRefused, EndPass
<1>2. Letters' /\ Pointers' /\ FibersOK'
  BY <1>0, <1>1, FibersRest DEF Letters, Pointers
<1>3. Scalars'
  <2>1. CASE NothingToDo \/ KeepActive
    BY <1>0, <2>1, OwnerStates DEF NothingToDo, KeepActive, EndPass, SetPhase, Scalars,
       WorkerStates
  <2>2. CASE UpdateRefused
    BY <1>0, <2>2, OwnerStates DEF UpdateRefused, EndPass, SetPhase, Scalars, WorkerStates
  <2> QED
    BY <2>1, <2>2
<1>4. cand = 0
  BY <1>0, <1>1 DEF AttemptOK, Attempt
<1>5. tried \subseteq tried' /\ (active' # 0 => active' \in tried')
  BY <1>0 DEF AttemptOK, NothingToDo, KeepActive, UpdateRefused
<1>6. AttemptOK' /\ EndsOK'
  BY <1>1, <1>4, <1>5 DEF AttemptOK, EndsOK, Attempt
<1>7. PassOK'
  <2>1. CASE NothingToDo
    BY <1>0, <1>1, <2>1 DEF PassOK, NothingToDo, EndPass, SetPhase
  <2>2. CASE KeepActive
    BY <1>0, <1>1, <2>2 DEF PassOK, AttemptOK, KeepActive, Bound, EndPass, SetPhase
  <2>3. CASE UpdateRefused
    BY <1>0, <1>1, <2>3 DEF PassOK, UpdateRefused, EndPass, SetPhase
  <2> QED
    BY <2>1, <2>2, <2>3
<1> QED
  BY <1>2, <1>3, <1>6, <1>7, TypeParts DEF MInv

\* The gate, and the steps of an attempt that leave the fibers alone.
LEMMA AttemptKeeps ==
  ASSUME MInv, GateSubscribe \/ GreetGate \/ GateCheck \/ GateOpens \/ GateCancelled
               \/ ConfigFails \/ CommitFails \/ CommitStaged
  PROVE  MInv'
<1>0. /\ MaxChanges \in Nat /\ 0 \in 0 .. MaxChanges /\ Scalars /\ Letters /\ Pointers
      /\ FibersOK /\ AttemptOK /\ EndsOK /\ PassOK
  BY ManagedAssumption, TypeParts DEF MInv
<1> USE DEF providerVars, controlVars, flagVars, instVars, gateVars, workVars
<1>1. /\ UNCHANGED <<fibers, fib, cand, token, letters, local, active, tried, dirty, snap,
                     stopping, initialized>>
      /\ wpc \in {"gate", "signal", "check", "blocked", "config", "commit"}
  BY DEF GateSubscribe, GreetGate, GateCheck, GateOpens, GateCancelled, ConfigFails, CommitFails,
     CommitStaged
<1>2. gate' \in [of : {0} \cup DOMAIN fibers, ready : BOOLEAN]
  <2>1. CASE GateSubscribe
    <3>1. Starting \in DOMAIN fibers
      BY <1>0 DEF Pointers, Starting
    <3>2. [of |-> Starting, ready |-> FALSE] \in [of : {0} \cup DOMAIN fibers, ready : BOOLEAN]
      BY <3>1
    <3> QED
      BY <1>0, <2>1, <3>2, Zenon DEF GateSubscribe, Pointers
  <2>2. CASE GreetGate
    BY <1>0, <2>2 DEF GreetGate, Pointers
  <2>3. CASE ~GateSubscribe /\ ~GreetGate
    BY <1>0, <2>3 DEF Pointers, GateCheck, GateOpens, GateCancelled, ConfigFails, CommitFails,
       CommitStaged
  <2> QED
    BY <2>1, <2>2, <2>3
<1>3. Letters' /\ Pointers' /\ FibersOK'
  BY <1>0, <1>1, <1>2, FibersRest DEF Letters, Pointers
<1>4. Scalars'
  <2>1. CASE GateSubscribe \/ GreetGate \/ GateCheck \/ GateOpens
    BY <1>0, <2>1 DEF GateSubscribe, GreetGate, GateCheck, GateOpens, Scalars, WorkerStates
  <2>2. CASE GateCancelled \/ ConfigFails
    <3>1. wpc' \in WorkerStates
      BY <2>2 DEF GateCancelled, ConfigFails, Refuse, EndPass, WorkerStates
    <3> QED
      BY <1>0, <2>2, <3>1, OwnerStates, ZenonT(40) DEF GateCancelled, ConfigFails, Refuse, EndPass, SetPhase,
         Scalars
  <2>3. CASE CommitFails \/ CommitStaged
    <3>1. wpc' \in WorkerStates
      BY <2>3 DEF CommitFails, CommitStaged, WorkerStates
    <3> QED
      BY <1>0, <2>3, <3>1, ZenonT(40) DEF CommitFails, CommitStaged, Scalars
  <2> QED
    BY <2>1, <2>2, <2>3
<1>5. /\ wpc' \in Attempt \cup {"retire", "discard", "wait"}
      /\ wpc' \in Attempt => wpc \in Attempt
      /\ wpc' = "retire" => wpc = "commit"
      /\ wpc' = "discard" => cand # 0
      /\ wpc' = "wait" => cand = 0 /\ phase' = "Failed"
      /\ phase' \in {phase, "Failed"}
  <2>1. CASE GateSubscribe \/ GreetGate \/ GateCheck \/ GateOpens
    BY <2>1 DEF GateSubscribe, GreetGate, GateCheck, GateOpens, Attempt
  <2>2. CASE GateCancelled \/ ConfigFails
    BY <2>2 DEF GateCancelled, ConfigFails, Refuse, EndPass, SetPhase, Attempt
  <2>3. CASE CommitFails \/ CommitStaged
    BY <1>0, <2>3 DEF CommitFails, CommitStaged, Attempt, AttemptOK
  <2> QED
    BY <2>1, <2>2, <2>3
<1>6. local \in tried /\ local # 0 /\ phase # "Active"
  BY <1>0, <1>1 DEF AttemptOK, Attempt, Scalars, PassOK
<1>7. AttemptOK'
  BY <1>0, <1>1, <1>5, <1>6 DEF AttemptOK, Attempt, Starting
<1>8. EndsOK' /\ PassOK'
  BY <1>0, <1>1, <1>5, <1>6 DEF EndsOK, PassOK, Attempt
<1> QED
  BY <1>3, <1>4, <1>7, <1>8, TypeParts DEF MInv

\* The letters after a step that sends none and loses no fiber.
LEMMA LettersKept ==
  ASSUME Letters, letters' = letters, Len(fibers) \in Nat, Len(fibers') \in Nat,
         Len(fibers) <= Len(fibers')
  PROVE  Letters'
<1>1. letters \in Seq([to : 0 .. Len(fibers'), gen : 0 .. MaxChanges])
  BY LettersGrow DEF Letters
<1> QED
  BY <1>1 DEF Letters

\* A cancellation touches nothing but the flag.
LEMMA CancelFiber ==
  ASSUME fibers \in Seq(FiberRecords), NEW f \in DOMAIN fibers,
         fibers' = [fibers EXCEPT ![f].cancelled = TRUE]
  PROVE  /\ fibers' \in Seq(FiberRecords) /\ Len(fibers') = Len(fibers)
         /\ DOMAIN fibers' = DOMAIN fibers
         /\ \A g \in DOMAIN fibers :
              /\ fibers'[g].state = fibers[g].state /\ fibers'[g].attempted = fibers[g].attempted
              /\ fibers'[g].stops = fibers[g].stops /\ fibers'[g].unclean = fibers[g].unclean
<1>1. /\ Len(fibers) \in Nat /\ DOMAIN fibers = 1 .. Len(fibers)
      /\ \A g \in DOMAIN fibers : fibers[g] \in FiberRecords
  BY FiberSeq
<1>2. PICK r : r = [fibers[f] EXCEPT !.cancelled = TRUE]
  OBVIOUS
<1>3. /\ r \in FiberRecords /\ r.state = fibers[f].state /\ r.attempted = fibers[f].attempted
      /\ r.stops = fibers[f].stops /\ r.unclean = fibers[f].unclean
  BY <1>1, <1>2 DEF FiberRecords
<1>4. fibers'[f] = r /\ \A g \in DOMAIN fibers : g # f => fibers'[g] = fibers[g]
  BY <1>2
<1>5. fibers' \in [1 .. Len(fibers) -> FiberRecords]
  BY <1>1, <1>3, <1>4
<1>6. /\ fibers' \in Seq(FiberRecords) /\ Len(fibers') = Len(fibers)
      /\ DOMAIN fibers' = DOMAIN fibers
  BY <1>1, <1>5, SeqDef
<1> QED
  BY <1>3, <1>4, <1>6

\* dispose cancels the token.
LEMMA CancelTokenKeeps ==
  ASSUME MInv, CancelToken
  PROVE  MInv'
<1>0. /\ Scalars /\ Letters /\ Pointers
      /\ FibersOK /\ AttemptOK /\ EndsOK /\ PassOK
  BY TypeParts DEF MInv
<1> USE DEF providerVars, controlVars, flagVars, instVars, gateVars, workVars
<1>1. /\ UNCHANGED <<fib, cand, token, letters, gate, wpc, local, active, tried, dirty, snap,
                     stopping, initialized, phase>>
      /\ fibers' = [fibers EXCEPT ![token].cancelled = TRUE]
  BY DEF CancelToken
<1>2. /\ fibers' \in Seq(FiberRecords) /\ Len(fibers') = Len(fibers)
      /\ DOMAIN fibers' = DOMAIN fibers
      /\ \A g \in DOMAIN fibers :
           /\ fibers'[g].state = fibers[g].state /\ fibers'[g].attempted = fibers[g].attempted
           /\ fibers'[g].stops = fibers[g].stops /\ fibers'[g].unclean = fibers[g].unclean
  BY <1>0, <1>1, CancelFiber DEF Pointers
<1>3. Scalars'
  BY <1>0 DEF CancelToken, Scalars
<1>4. Letters' /\ Pointers'
  BY <1>0, <1>1, <1>2 DEF Letters, Pointers
<1>5. Starting' = Starting /\ Starting \in DOMAIN fibers /\ fib \in DOMAIN fibers
      /\ cand \in {0} \cup DOMAIN fibers
  BY <1>0, <1>1 DEF Starting, Pointers
<1>6. FibersOK'
  BY <1>0, <1>1, <1>2, <1>5 DEF FibersOK
<1>7. AttemptOK'
  BY <1>0, <1>1, <1>2, <1>5 DEF AttemptOK
<1>8. EndsOK' /\ PassOK'
  BY <1>0, <1>1, <1>2, <1>5 DEF EndsOK, PassOK
<1> QED
  BY <1>3, <1>4, <1>6, <1>7, <1>8, TypeParts DEF MInv

\* set_cancellation publishes the token of the instance, or cancels it.
LEMMA TokenKeeps ==
  ASSUME MInv, PublishToken \/ Updated
  PROVE  MInv'
<1>0. /\ MaxChanges \in Nat /\ 0 \in 0 .. MaxChanges /\ Scalars /\ Letters /\ Pointers
      /\ FibersOK /\ AttemptOK /\ EndsOK /\ PassOK
  BY ManagedAssumption, TypeParts DEF MInv
<1> USE DEF providerVars, controlVars, flagVars, instVars, gateVars, workVars
<1>1. /\ UNCHANGED <<fib, cand, letters, gate, local, tried, dirty, snap, stopping, initialized>>
      /\ wpc \in {"publish", "republish"} /\ wpc' \in {"wait", "decide"}
      /\ SetCancellation(fib)
  BY DEF PublishToken, Updated, EndPass
<1>2. /\ fibers' \in Seq(FiberRecords) /\ Len(fibers') = Len(fibers)
      /\ DOMAIN fibers' = DOMAIN fibers
      /\ \A g \in DOMAIN fibers :
           /\ fibers'[g].state = fibers[g].state /\ fibers'[g].attempted = fibers[g].attempted
           /\ fibers'[g].stops = fibers[g].stops /\ fibers'[g].unclean = fibers[g].unclean
  <2>1. CASE stopping
    BY <1>0, <1>1, <2>1, CancelFiber DEF Pointers, SetCancellation
  <2>2. CASE ~stopping
    BY <1>0, <1>1, <2>2 DEF Pointers, SetCancellation
  <2> QED
    BY <2>1, <2>2
<1>3. Scalars'
  <2>1. wpc' \in WorkerStates
    BY <1>1 DEF WorkerStates
  <2>2. CASE PublishToken
    BY <1>0, <2>1, <2>2, OwnerStates DEF PublishToken, EndPass, SetPhase, Scalars
  <2>3. CASE Updated
    BY <1>0, <2>1, <2>3, OwnerStates DEF Updated, EndPass, SetPhase, Scalars
  <2> QED
    BY <2>2, <2>3
<1>4. Letters' /\ Pointers'
  <2>1. token' \in DOMAIN fibers
    BY <1>0, <1>1 DEF SetCancellation, Pointers
  <2> QED
    BY <1>0, <1>1, <1>2, <2>1 DEF Letters, Pointers
<1>5. fib \in DOMAIN fibers /\ cand = 0 /\ phase # "Active"
  BY <1>0, <1>1 DEF AttemptOK, Attempt, PassOK, Pointers
<1>6. FibersOK'
  BY <1>0, <1>1, <1>2, <1>5 DEF FibersOK
<1>7. (active' # 0 => active' \in tried) /\ (wpc = "republish" => local \in tried /\ local # 0)
  BY <1>0, <1>1 DEF AttemptOK, PublishToken, Updated, Scalars
<1>8. AttemptOK' /\ EndsOK'
  BY <1>1, <1>5, <1>7 DEF AttemptOK, EndsOK, Attempt
<1>9. PassOK'
  <2>1. CASE PublishToken
    BY <1>0, <1>1, <1>2, <1>5, <2>1 DEF PassOK, AttemptOK, PublishToken, EndPass, SetPhase
  <2>2. CASE Updated
    BY <1>0, <1>1, <1>2, <1>5, <1>7, <2>2 DEF PassOK, AttemptOK, Updated, EndPass, SetPhase
  <2> QED
    BY <2>1, <2>2
<1> QED
  BY <1>3, <1>4, <1>6, <1>8, <1>9, TypeParts DEF MInv

\* What a start does to the fiber it works on.
LEMMA StartingFiber ==
  ASSUME fibers \in Seq(FiberRecords), NEW f \in DOMAIN fibers, NEW r \in FiberRecords,
         fibers' = [g \in DOMAIN fibers |-> IF g = f THEN r ELSE fibers[g]]
  PROVE  /\ fibers' \in Seq(FiberRecords) /\ Len(fibers') = Len(fibers)
         /\ DOMAIN fibers' = DOMAIN fibers
         /\ fibers'[f] = r /\ \A g \in DOMAIN fibers : g # f => fibers'[g] = fibers[g]
<1>1. /\ Len(fibers) \in Nat /\ DOMAIN fibers = 1 .. Len(fibers)
      /\ \A g \in DOMAIN fibers : fibers[g] \in FiberRecords
  BY FiberSeq
<1>2. fibers' \in [1 .. Len(fibers) -> FiberRecords]
  BY <1>1
<1>3. /\ fibers' \in Seq(FiberRecords) /\ Len(fibers') = Len(fibers)
      /\ DOMAIN fibers' = DOMAIN fibers
  BY <1>1, <1>2, SeqDef
<1> QED
  BY <1>3

\* Fiber::start calls the hooks.
LEMMA StartHookKeeps ==
  ASSUME MInv, StartHook
  PROVE  MInv'
<1>0. /\ Scalars /\ Letters /\ Pointers
      /\ FibersOK /\ AttemptOK /\ EndsOK /\ PassOK
  BY TypeParts DEF MInv
<1> USE DEF providerVars, controlVars, flagVars, instVars, gateVars, workVars
<1>1. /\ UNCHANGED <<fib, cand, token, letters, gate, local, active, tried, dirty, snap,
                     stopping, initialized, phase>>
      /\ fibers' = [fibers EXCEPT ![Starting].attempted = TRUE]
      /\ wpc = "config" /\ wpc' = "hook"
  BY DEF StartHook
<1>2. PICK f \in DOMAIN fibers : f = Starting
  BY <1>0 DEF Starting, Pointers
<1>3. fibers[f] \in FiberRecords
  BY <1>0, FiberSeq DEF Pointers
<1>4. PICK r : r = [fibers[f] EXCEPT !.attempted = TRUE]
  OBVIOUS
<1>5. r \in FiberRecords /\ r.state = fibers[f].state /\ r.stops = fibers[f].stops
  BY <1>3, <1>4 DEF FiberRecords
<1>6. fibers' = [g \in DOMAIN fibers |-> IF g = f THEN r ELSE fibers[g]]
  BY <1>1, <1>2, <1>4
<1>7. /\ fibers' \in Seq(FiberRecords) /\ Len(fibers') = Len(fibers)
      /\ DOMAIN fibers' = DOMAIN fibers
      /\ fibers'[f] = r /\ \A g \in DOMAIN fibers : g # f => fibers'[g] = fibers[g]
  BY <1>0, <1>5, <1>6, StartingFiber DEF Pointers
<1>8. Starting' = f
  BY <1>1, <1>2 DEF Starting
<1>9. Scalars'
  BY <1>0 DEF StartHook, Scalars, WorkerStates
<1>10. Letters' /\ Pointers'
  BY <1>0, <1>1, <1>7 DEF Letters, Pointers
<1>11. FibersOK'
  BY <1>0, <1>1, <1>2, <1>5, <1>7, <1>8 DEF FibersOK, AttemptOK, Attempt
<1>12. AttemptOK' /\ EndsOK' /\ PassOK'
  BY <1>0, <1>1, <1>2, <1>5, <1>7, <1>8 DEF AttemptOK, EndsOK, PassOK, Attempt
<1> QED
  BY <1>9, <1>10, <1>11, <1>12, TypeParts DEF MInv

\* The hooks fail.
LEMMA HookFailsKeeps ==
  ASSUME MInv, HookFails
  PROVE  MInv'
<1>0. /\ Scalars /\ Letters /\ Pointers
      /\ FibersOK /\ AttemptOK /\ EndsOK /\ PassOK
  BY TypeParts DEF MInv
<1> USE DEF providerVars, controlVars, flagVars, instVars, gateVars, workVars
<1>1. /\ UNCHANGED <<fib, cand, token, letters, gate, local, active, tried, dirty, snap,
                     stopping, initialized>>
      /\ fibers' = [fibers EXCEPT ![Starting].state = "Failed", ![Starting].cancelled = TRUE,
                                  ![Starting].stops = @ + 1]
      /\ wpc = "hook"
  BY DEF HookFails
<1>2. PICK f \in DOMAIN fibers : f = Starting
  BY <1>0 DEF Starting, Pointers
<1>3. fibers[f] \in FiberRecords /\ fibers[f].stops = 0
  BY <1>0, <1>1, <1>2, FiberSeq DEF Pointers, AttemptOK, Attempt, FibersOK
<1>4. PICK r : r = [fibers[f] EXCEPT !.state = "Failed", !.cancelled = TRUE, !.stops = @ + 1]
  OBVIOUS
<1>5. r \in FiberRecords /\ r.state = "Failed" /\ r.stops = 1
  <2>1. DOMAIN fibers[f] = {"state", "cancelled", "attempted", "stops", "unclean"}
    BY <1>3 DEF FiberRecords
  <2>2. r.state = "Failed" /\ r.stops = 1
    BY <1>3, <1>4, <2>1
  <2>3. r = [fibers[f] EXCEPT !.state = "Failed", !.cancelled = TRUE, !.stops = 1]
    BY <1>3, <1>4
  <2>4. PICK q \in FiberRecords : q = fibers[f]
    BY <1>3
  <2>5. PICK n \in 0 .. 1 : n = 1
    OBVIOUS
  <2>6. r = [q EXCEPT !.state = "Failed", !.cancelled = TRUE, !.stops = n]
    BY <2>3, <2>4, <2>5
  <2>7. r \in FiberRecords
    BY <2>6 DEF FiberRecords
  <2> QED
    BY <2>2, <2>7
<1>6. fibers' = [g \in DOMAIN fibers |-> IF g = f THEN r ELSE fibers[g]]
  BY <1>1, <1>2, <1>3, <1>4
<1>7. /\ fibers' \in Seq(FiberRecords) /\ Len(fibers') = Len(fibers)
      /\ DOMAIN fibers' = DOMAIN fibers
      /\ fibers'[f] = r /\ \A g \in DOMAIN fibers : g # f => fibers'[g] = fibers[g]
  BY <1>0, <1>5, <1>6, StartingFiber DEF Pointers
<1>8. /\ (cand # 0 /\ wpc' = "discard" /\ phase' = phase)
         \/ (cand = 0 /\ wpc' = "wait" /\ phase' = "Failed")
  BY DEF HookFails, Refuse, EndPass, SetPhase
<1>9. Scalars'
  <2>1. wpc' \in WorkerStates
    BY <1>8 DEF WorkerStates
  <2> QED
    BY <1>0, <2>1, OwnerStates DEF HookFails, Refuse, EndPass, SetPhase, Scalars
<1>10. Letters' /\ Pointers'
  BY <1>0, <1>1, <1>7 DEF Letters, Pointers
<1>11. FibersOK'
  BY <1>0, <1>1, <1>2, <1>5, <1>7, <1>8 DEF FibersOK, Starting
<1>12. local \in tried /\ local # 0 /\ phase # "Active"
  BY <1>0, <1>1 DEF AttemptOK, Attempt, Scalars, PassOK
<1>13. AttemptOK'
  BY <1>0, <1>1, <1>8, <1>12 DEF AttemptOK, Attempt
<1>14. EndsOK' /\ PassOK'
  BY <1>0, <1>1, <1>8, <1>12 DEF EndsOK, PassOK
<1> QED
  BY <1>9, <1>10, <1>11, <1>13, <1>14, TypeParts DEF MInv

\* The start of the instance, or of a candidate, succeeds.
LEMMA StartedKeeps ==
  ASSUME MInv, Started \/ CandidateStarted
  PROVE  MInv'
<1>0. /\ Scalars /\ Letters /\ Pointers
      /\ FibersOK /\ AttemptOK /\ EndsOK /\ PassOK
  BY TypeParts DEF MInv
<1> USE DEF providerVars, controlVars, flagVars, instVars, gateVars, workVars
<1>1. /\ UNCHANGED <<fib, cand, token, letters, gate, local, tried, dirty, snap, stopping,
                     initialized>>
      /\ fibers' = [fibers EXCEPT ![Starting].state = "Active"]
      /\ wpc = "hook"
  BY DEF Started, CandidateStarted, Starting
<1>2. PICK f \in DOMAIN fibers : f = Starting
  BY <1>0 DEF Starting, Pointers
<1>3. fibers[f] \in FiberRecords
  BY <1>0, FiberSeq DEF Pointers
<1>4. PICK r : r = [fibers[f] EXCEPT !.state = "Active"]
  OBVIOUS
<1>5. r \in FiberRecords /\ r.state = "Active"
  BY <1>3, <1>4 DEF FiberRecords
<1>6. fibers' = [g \in DOMAIN fibers |-> IF g = f THEN r ELSE fibers[g]]
  BY <1>1, <1>2, <1>3, <1>4
<1>7. /\ fibers' \in Seq(FiberRecords) /\ Len(fibers') = Len(fibers)
      /\ DOMAIN fibers' = DOMAIN fibers
      /\ fibers'[f] = r /\ \A g \in DOMAIN fibers : g # f => fibers'[g] = fibers[g]
  BY <1>0, <1>5, <1>6, StartingFiber DEF Pointers
<1>8. \/ cand = 0 /\ wpc' = "wait" /\ phase' = "Active" /\ active' = local /\ f = fib
      \/ cand # 0 /\ wpc' = "commit" /\ phase' = phase /\ active' = active /\ f = cand
  BY <1>2 DEF Started, CandidateStarted, EndPass, SetPhase, Starting
<1>9. Scalars'
  <2>1. wpc' \in WorkerStates
    BY <1>8 DEF WorkerStates
  <2>2. CASE Started
    BY <1>0, <2>1, <2>2, OwnerStates DEF Started, EndPass, SetPhase, Scalars
  <2>3. CASE CandidateStarted
    BY <1>0, <2>1, <2>3 DEF CandidateStarted, Scalars
  <2> QED
    BY <2>2, <2>3
<1>10. Letters' /\ Pointers'
  BY <1>0, <1>1, <1>7 DEF Letters, Pointers
<1>11. FibersOK'
  BY <1>0, <1>1, <1>2, <1>5, <1>7, <1>8 DEF FibersOK
<1>12. local \in tried /\ local # 0 /\ phase # "Active"
  BY <1>0, <1>1 DEF AttemptOK, Attempt, Scalars, PassOK
<1>13. AttemptOK'
  BY <1>0, <1>1, <1>5, <1>7, <1>8, <1>12 DEF AttemptOK, Attempt
<1>14. EndsOK' /\ PassOK'
  BY <1>0, <1>1, <1>5, <1>7, <1>8, <1>12 DEF EndsOK, PassOK
<1> QED
  BY <1>9, <1>10, <1>11, <1>13, <1>14, TypeParts DEF MInv

\* A start is tried, or an update with a candidate of its own.
LEMMA TryKeeps ==
  ASSUME MInv, Try
  PROVE  MInv'
<1>0. /\ MaxChanges \in Nat /\ Scalars /\ Letters /\ Pointers
      /\ FibersOK /\ AttemptOK /\ EndsOK /\ PassOK
  BY ManagedAssumption, TypeParts DEF MInv
<1> USE DEF providerVars, controlVars, flagVars, instVars, gateVars, workVars
<1>1. /\ UNCHANGED <<fib, token, letters, gate, local, active, dirty, snap, stopping, initialized>>
      /\ wpc = "decide" /\ wpc' = "gate" /\ phase' = "Starting"
      /\ local # 0 /\ tried' = tried \cup {local}
  BY DEF Try, SetPhase
<1>2. Scalars'
  <2>1. wpc' \in WorkerStates
    BY <1>1 DEF WorkerStates
  <2> QED
    BY <1>0, <2>1, OwnerStates DEF Try, SetPhase, Scalars
<1>3. cand = 0 /\ fib \in DOMAIN fibers /\ 0 \notin DOMAIN fibers /\ Len(fibers) \in Nat
      /\ DOMAIN fibers = 1 .. Len(fibers)
  BY <1>0, <1>1, FiberSeq DEF AttemptOK, Attempt, Pointers
<1>4. EndsOK' /\ PassOK'
  BY <1>0, <1>1 DEF EndsOK, PassOK
<1>5. CASE fibers[fib].state = "Pending" /\ UNCHANGED <<fibers, cand>>
  <2>1. Letters' /\ Pointers' /\ FibersOK'
    BY <1>0, <1>1, <1>5, FibersRest DEF Letters, Pointers
  <2>2. AttemptOK'
    BY <1>0, <1>1, <1>3, <1>5 DEF AttemptOK, Attempt, Starting
  <2> QED
    BY <1>2, <1>4, <2>1, <2>2, TypeParts DEF MInv
<1>6. CASE /\ fibers[fib].state = "Active"
           /\ fibers' = Append(fibers, NewFiber)
           /\ cand' = Len(fibers) + 1
  <2>1. /\ fibers' \in Seq(FiberRecords) /\ Len(fibers') = Len(fibers) + 1
        /\ cand' \in DOMAIN fibers' /\ DOMAIN fibers' = DOMAIN fibers \cup {cand'}
        /\ fibers'[cand'] = NewFiber /\ \A g \in DOMAIN fibers : fibers'[g] = fibers[g]
    BY <1>0, <1>6, AddFiber, ZenonT(40) DEF Pointers
  <2>2. cand' \notin DOMAIN fibers /\ cand' # 0 /\ cand' # fib
    BY <1>3, <1>6
  <2>3. Letters'
    BY <1>0, <1>1, <1>3, <2>1, LettersKept
  <2>4. Pointers'
    BY <1>0, <1>1, <2>1 DEF Pointers
  <2>5. Starting' = cand'
    BY <2>2 DEF Starting
  <2>6. FibersOK'
    BY <1>0, <1>1, <1>3, <2>1, <2>2, <2>5 DEF FibersOK, NewFiber
  <2>7. AttemptOK'
    BY <1>0, <1>1, <1>3, <2>1, <2>2, <2>5 DEF AttemptOK, Attempt, NewFiber
  <2> QED
    BY <1>2, <1>4, <2>3, <2>4, <2>6, <2>7, TypeParts DEF MInv
<1> QED
  BY <1>5, <1>6 DEF Try

\* suspend fails.
LEMMA SuspendFailsKeeps ==
  ASSUME MInv, SuspendFails
  PROVE  MInv'
<1>0. /\ Scalars /\ Letters /\ Pointers
      /\ FibersOK /\ AttemptOK /\ EndsOK /\ PassOK
  BY TypeParts DEF MInv
<1> USE DEF providerVars, controlVars, flagVars, instVars, gateVars, workVars
<1>1. /\ UNCHANGED <<fib, cand, token, letters, gate, local, active, tried, dirty, snap, stopping,
                     initialized>>
      /\ wpc = "decide" /\ wpc' = "wait" /\ phase' = "Failed"
      /\ MustSuspend /\ StopCurrent(fib, TRUE)
  BY DEF SuspendFails, EndPass, SetPhase, MustSuspend
<1>2. Scalars'
  <2>1. wpc' \in WorkerStates
    BY <1>1 DEF WorkerStates
  <2> QED
    BY <1>0, <2>1, OwnerStates DEF SuspendFails, EndPass, SetPhase, Scalars
<1>3. fib \in DOMAIN fibers /\ cand = 0 /\ fibers \in Seq(FiberRecords)
  BY <1>0, <1>1 DEF AttemptOK, Attempt, Pointers
<1>4. /\ fibers' \in Seq(FiberRecords) /\ Len(fibers') = Len(fibers)
      /\ DOMAIN fibers' = DOMAIN fibers
      /\ fibers'[fib].state = "Disposed" /\ (fibers'[fib].attempted => fibers'[fib].stops = 1)
      /\ ~StopsNow(fib) => fibers'[fib].unclean
      /\ \A g \in DOMAIN fibers : g # fib => fibers'[g] = fibers[g]
  BY <1>1, <1>3, StopCurrentFacts
<1>5. Letters' /\ Pointers'
  BY <1>0, <1>1, <1>4 DEF Letters, Pointers
<1>6. FibersOK'
  BY <1>0, <1>1, <1>3, <1>4 DEF FibersOK
<1>7. AttemptOK' /\ EndsOK'
  BY <1>0, <1>1, <1>3 DEF AttemptOK, EndsOK, Attempt
<1>8. local # 0 => fibers'[fib].unclean
  <2>1. local # 0 => fibers[fib].state \in {"Failed", "Disposed"}
    <3>1. fibers[fib].state \in {"Pending", "Active", "Failed", "Disposed"}
      BY <1>3, FiberSeq DEF FiberRecords
    <3> QED
      BY <1>1, <3>1 DEF MustSuspend, Suspended
  <2> QED
    BY <1>0, <1>3, <1>4, <2>1 DEF FibersOK, StopsNow
<1>9. PassOK'
  BY <1>0, <1>1, <1>4, <1>8 DEF PassOK
<1> QED
  BY <1>2, <1>5, <1>6, <1>7, <1>9, TypeParts DEF MInv

\* suspend leaves the instance on a fiber of its own.
LEMMA SuspendKeeps ==
  ASSUME MInv, Suspend
  PROVE  MInv'
<1>0. /\ MaxChanges \in Nat /\ Scalars /\ Letters /\ Pointers
      /\ FibersOK /\ AttemptOK /\ EndsOK /\ PassOK
  BY ManagedAssumption, TypeParts DEF MInv
<1> USE DEF providerVars, controlVars, flagVars, instVars, gateVars, workVars
<1>1. /\ UNCHANGED <<cand, token, letters, local, active, tried, dirty, snap, stopping,
                     initialized, phase>>
      /\ wpc = "decide" /\ wpc' = "publish"
      /\ fib' = Len(fibers) + 1 /\ gate' = NoGate
  BY DEF Suspend, MustSuspend
<1>2. Scalars'
  BY <1>0 DEF Suspend, Scalars, WorkerStates
<1>3. cand = 0 /\ fib \in DOMAIN fibers /\ 0 \notin DOMAIN fibers /\ Len(fibers) \in Nat
      /\ DOMAIN fibers = 1 .. Len(fibers) /\ fibers \in Seq(FiberRecords)
  BY <1>0, <1>1, FiberSeq DEF AttemptOK, Attempt, Pointers
<1>4. PICK u \in BOOLEAN :
        fibers' = Append([fibers EXCEPT ![fib] = AfterStop(fib, u)], NewFiber)
  BY DEF Suspend, MayBeUnclean
<1>5. /\ AfterStop(fib, u) \in FiberRecords /\ AfterStop(fib, u).state = "Disposed"
      /\ AfterStop(fib, u).attempted => AfterStop(fib, u).stops = 1
  BY <1>3, AfterStopFacts, Zenon
<1>6. PICK fs : fs = [fibers EXCEPT ![fib] = AfterStop(fib, u)]
  OBVIOUS
<1>7. /\ fs \in Seq(FiberRecords) /\ Len(fs) = Len(fibers) /\ DOMAIN fs = DOMAIN fibers
      /\ fs[fib] = AfterStop(fib, u) /\ \A g \in DOMAIN fibers : g # fib => fs[g] = fibers[g]
  BY <1>3, <1>5, <1>6, SetFiber
<1>8. /\ fibers' \in Seq(FiberRecords) /\ Len(fibers') = Len(fibers) + 1
      /\ fib' \in DOMAIN fibers' /\ DOMAIN fibers' = DOMAIN fibers \cup {fib'}
      /\ fibers'[fib'] = NewFiber /\ \A g \in DOMAIN fibers : fibers'[g] = fs[g]
  <2>1. fibers' = Append(fs, NewFiber)
    BY <1>4, <1>6
  <2>2. /\ fibers' \in Seq(FiberRecords) /\ Len(fibers') = Len(fs) + 1
        /\ Len(fs) + 1 \in DOMAIN fibers' /\ DOMAIN fibers' = DOMAIN fs \cup {Len(fs) + 1}
        /\ fibers'[Len(fs) + 1] = NewFiber /\ \A g \in DOMAIN fs : fibers'[g] = fs[g]
    BY <1>7, <2>1, AddFiber
  <2> QED
    BY <1>1, <1>7, <2>2
<1>9. Letters'
  BY <1>0, <1>1, <1>3, <1>8, LettersKept
<1>10. Pointers'
  BY <1>0, <1>1, <1>3, <1>8 DEF Pointers, NoGate
<1>11. fib' \notin DOMAIN fibers
  BY <1>1, <1>3
<1>12. FibersOK'
  BY <1>0, <1>1, <1>3, <1>5, <1>7, <1>8, <1>11 DEF FibersOK, NewFiber
<1>13. AttemptOK' /\ EndsOK' /\ PassOK'
  BY <1>0, <1>1, <1>3, <1>8 DEF AttemptOK, EndsOK, PassOK, Attempt, NewFiber
<1> QED
  BY <1>2, <1>9, <1>10, <1>12, <1>13, TypeParts DEF MInv

\* A candidate that failed is disposed of.
LEMMA DiscardKeeps ==
  ASSUME MInv, Discard
  PROVE  MInv'
<1>0. /\ Scalars /\ Letters /\ Pointers
      /\ FibersOK /\ AttemptOK /\ EndsOK /\ PassOK
  BY TypeParts DEF MInv
<1> USE DEF providerVars, controlVars, flagVars, instVars, gateVars, workVars
<1>1. /\ UNCHANGED <<fib, token, letters, gate, local, active, tried, dirty, snap, stopping,
                     initialized>>
      /\ wpc = "discard" /\ wpc' = "wait" /\ phase' = "Failed" /\ cand' = 0
  BY DEF Discard, EndPass, SetPhase
<1>2. Scalars'
  <2>1. wpc' \in WorkerStates
    BY <1>1 DEF WorkerStates
  <2> QED
    BY <1>0, <2>1, OwnerStates DEF Discard, EndPass, SetPhase, Scalars
<1>3. /\ fib \in DOMAIN fibers /\ cand \in DOMAIN fibers /\ cand # fib
      /\ fibers \in Seq(FiberRecords) /\ local \in tried /\ local # 0
  BY <1>0, <1>1 DEF AttemptOK, Attempt, Pointers, Scalars
<1>4. PICK u \in BOOLEAN : fibers' = [fibers EXCEPT ![cand] = AfterStop(cand, u)]
  BY DEF Discard, MayBeUnclean, DisposeCandidate
<1>5. /\ AfterStop(cand, u) \in FiberRecords /\ AfterStop(cand, u).state = "Disposed"
      /\ AfterStop(cand, u).attempted => AfterStop(cand, u).stops = 1
  BY <1>3, AfterStopFacts, Zenon
<1>6. /\ fibers' \in Seq(FiberRecords) /\ Len(fibers') = Len(fibers)
      /\ DOMAIN fibers' = DOMAIN fibers /\ fibers'[cand] = AfterStop(cand, u)
      /\ \A g \in DOMAIN fibers : g # cand => fibers'[g] = fibers[g]
  BY <1>3, <1>4, <1>5, SetFiber
<1>7. Letters' /\ Pointers'
  BY <1>0, <1>1, <1>6 DEF Letters, Pointers
<1>8. FibersOK'
  BY <1>0, <1>1, <1>3, <1>5, <1>6 DEF FibersOK
<1>9. AttemptOK' /\ EndsOK' /\ PassOK'
  BY <1>0, <1>1, <1>3 DEF AttemptOK, EndsOK, PassOK, Attempt
<1> QED
  BY <1>2, <1>7, <1>8, <1>9, TypeParts DEF MInv

\* The candidate takes the place of the instance.
LEMMA RetireKeeps ==
  ASSUME MInv, Retire \/ RetireFails
  PROVE  MInv'
<1>0. /\ Scalars /\ Letters /\ Pointers
      /\ FibersOK /\ AttemptOK /\ EndsOK /\ PassOK
  BY TypeParts DEF MInv
<1> USE DEF providerVars, controlVars, flagVars, instVars, gateVars, workVars
<1>1. /\ UNCHANGED <<token, letters, gate, local, active, tried, dirty, snap, stopping,
                     initialized>>
      /\ wpc = "retire" /\ fib' = cand /\ cand' = 0
      /\ (wpc' = "republish" /\ phase' = phase) \/ (wpc' = "wait" /\ phase' = "Failed")
  BY DEF Retire, RetireFails, EndPass, SetPhase
<1>2. Scalars'
  <2>1. wpc' \in WorkerStates
    BY <1>1 DEF WorkerStates
  <2> QED
    BY <1>0, <2>1, OwnerStates, ZenonT(40) DEF Retire, RetireFails, EndPass, SetPhase, Scalars
<1>3. /\ fib \in DOMAIN fibers /\ cand \in DOMAIN fibers /\ cand # fib
      /\ fibers \in Seq(FiberRecords) /\ local \in tried /\ local # 0
      /\ fibers[cand].state = "Active" /\ phase # "Active"
  BY <1>0, <1>1 DEF AttemptOK, Attempt, Pointers, Scalars, PassOK
<1>4. PICK error \in BOOLEAN : StopCurrent(fib, error)
  BY DEF Retire, RetireFails
<1>5. /\ fibers' \in Seq(FiberRecords) /\ Len(fibers') = Len(fibers)
      /\ DOMAIN fibers' = DOMAIN fibers
      /\ fibers'[fib].state = "Disposed" /\ (fibers'[fib].attempted => fibers'[fib].stops = 1)
      /\ \A g \in DOMAIN fibers : g # fib => fibers'[g] = fibers[g]
  BY <1>3, <1>4, StopCurrentFacts
<1>6. Letters' /\ Pointers'
  BY <1>0, <1>1, <1>3, <1>5 DEF Letters, Pointers
<1>7. FibersOK'
  BY <1>0, <1>1, <1>3, <1>5 DEF FibersOK
<1>8. AttemptOK' /\ EndsOK' /\ PassOK'
  BY <1>0, <1>1, <1>3, <1>5 DEF AttemptOK, EndsOK, PassOK, Attempt
<1> QED
  BY <1>2, <1>6, <1>7, <1>8, TypeParts DEF MInv

\* The worker ends.
LEMMA ShutdownKeeps ==
  ASSUME MInv, Shutdown
  PROVE  MInv'
<1>0. /\ Scalars /\ Letters /\ Pointers
      /\ FibersOK /\ AttemptOK /\ EndsOK /\ PassOK
  BY TypeParts DEF MInv
<1> USE DEF providerVars, controlVars, flagVars, instVars, gateVars, workVars
<1>1. /\ UNCHANGED <<fib, cand, token, letters, gate, local, active, tried, dirty, snap, stopping,
                     initialized, phase>>
      /\ wpc = "shutdown" /\ wpc' = "done"
  BY DEF Shutdown
<1>2. Scalars'
  BY <1>0 DEF Shutdown, Scalars, WorkerStates
<1>3. fib \in DOMAIN fibers /\ cand = 0 /\ fibers \in Seq(FiberRecords) /\ stopping
  BY <1>0, <1>1 DEF AttemptOK, EndsOK, Attempt, Pointers
<1>4. PICK error \in BOOLEAN : StopCurrent(fib, error)
  BY DEF Shutdown
<1>5. /\ fibers' \in Seq(FiberRecords) /\ Len(fibers') = Len(fibers)
      /\ DOMAIN fibers' = DOMAIN fibers
      /\ fibers'[fib].state = "Disposed" /\ (fibers'[fib].attempted => fibers'[fib].stops = 1)
      /\ \A g \in DOMAIN fibers : g # fib => fibers'[g] = fibers[g]
  BY <1>3, <1>4, StopCurrentFacts
<1>6. Letters' /\ Pointers'
  BY <1>0, <1>1, <1>3, <1>5 DEF Letters, Pointers
<1>7. FibersOK'
  BY <1>0, <1>1, <1>3, <1>5 DEF FibersOK
<1>8. AttemptOK' /\ EndsOK' /\ PassOK'
  BY <1>0, <1>1, <1>3, <1>5 DEF AttemptOK, EndsOK, PassOK, Attempt
<1> QED
  BY <1>2, <1>6, <1>7, <1>8, TypeParts DEF MInv

\* The invariant is inductive.
LEMMA ManagedStep == MInv /\ [MNext]_mvars => MInv'
<1> SUFFICES ASSUME MInv, [MNext]_mvars PROVE MInv'
  OBVIOUS
<1>1. CASE Change \/ Notifier \/ Activate \/ DropActivation \/ Stop
  BY <1>1, OutsideKeeps DEF Notifier
<1>2. CASE Owner
  BY <1>2, OutsideKeeps, CancelTokenKeeps DEF Owner
<1>3. CASE Worker
  <2>1. CASE BuildFails \/ Watch \/ ReadSnapshot \/ GreetWatcher \/ SetInitialized
             \/ NextSnapshot
    BY <2>1, OpeningKeeps
  <2>2. CASE NothingToDo \/ KeepActive \/ UpdateRefused
    BY <2>2, DecisionKeeps
  <2>3. CASE GateSubscribe \/ GreetGate \/ GateCheck \/ GateOpens \/ GateCancelled
             \/ ConfigFails \/ CommitFails \/ CommitStaged
    BY <2>3, AttemptKeeps
  <2>4. CASE Try \/ SuspendFails \/ Suspend
    BY <2>4, TryKeeps, SuspendFailsKeeps, SuspendKeeps
  <2>5. CASE PublishToken \/ Updated
    BY <2>5, TokenKeeps
  <2>6. CASE StartHook \/ HookFails \/ Started \/ CandidateStarted
    BY <2>6, StartHookKeeps, HookFailsKeeps, StartedKeeps
  <2>7. CASE Discard \/ Retire \/ RetireFails \/ Shutdown
    BY <2>7, DiscardKeeps, RetireKeeps, ShutdownKeeps
  <2> QED
    BY <1>3, <2>1, <2>2, <2>3, <2>4, <2>5, <2>6, <2>7 DEF Worker
<1>4. CASE UNCHANGED mvars
  BY <1>4 DEF mvars, providerVars, controlVars, flagVars, instVars, gateVars, workVars, MInv, MTypeOK,
     FibersOK, AttemptOK, EndsOK, PassOK, Starting
<1> QED
  BY <1>1, <1>2, <1>3, <1>4 DEF MNext

\* It holds of every reachable state.
LEMMA ManagedAlways == MSpec => []MInv
BY ManagedStarts, ManagedStep, PTL DEF MSpec

\* What the control block shows, and which fibers are left, follow from it.
LEMMA ManagedImplied == MInv => ManagedInv
<1> SUFFICES ASSUME MInv PROVE ManagedInv
  OBVIOUS
<1>1. ActiveMeansBound
  BY DEF MInv, ActiveMeansBound, PassOK, EndsOK
<1>2. MissingMeansStopped
  BY DEF MInv, MissingMeansStopped, Caught, PassOK
<1>3. NoForgottenFiber
  <2> SUFFICES ASSUME NEW f \in DOMAIN fibers, initialized, f \in {fib, cand} => wpc = "done"
               PROVE  fibers[f].state = "Disposed" /\ (fibers[f].attempted => fibers[f].stops = 1)
    BY DEF NoForgottenFiber, MInv, MTypeOK
  <2>1. cand # 0 => wpc # "done"
    BY DEF MInv, AttemptOK, Attempt
  <2>2. f # cand
    <3>1. f # 0
      BY FiberSeq DEF MInv, MTypeOK
    <3> QED
      BY <2>1, <3>1
  <2>3. fibers[f].state = "Disposed"
    BY <2>2 DEF MInv, EndsOK, FibersOK
  <2> QED
    BY <2>3 DEF MInv, FibersOK
<1> QED
  BY <1>1, <1>2, <1>3 DEF MInv, ManagedInv

\* What activation() reports as Active is bound to the provider of the last
\* snapshot, a plugin whose provider is missing does not run, and no fiber the
\* worker leaves behind escapes its disposal, whichever steps of plugin code
\* fail and however often the provider changes.
THEOREM ManagedSafety == MSpec => []ManagedInv
BY ManagedAlways, ManagedImplied, PTL

\* A worker that has caught up with a provider that is back has tried it,
\* unless an effect of its fiber failed to clean up.
THEOREM ProviderIsTried == MSpec => []RestoreReactivates
<1>1. MInv => RestoreReactivates
  BY DEF MInv, PassOK, RestoreReactivates, Caught
<1> QED
  BY <1>1, ManagedAlways, PTL
=============================================================================

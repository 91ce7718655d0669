---------------------------- MODULE EventBusProofs ----------------------------
(***************************************************************************)
(* Proofs about EventBus, for any listeners, owners, registrars and        *)
(* dispatchers: the lists of the bus stay consistent with the owners, a    *)
(* once listener is consumed by one dispatch that calls it, a dispatch     *)
(* calls what its snapshot holds, in order, and completes when all of it   *)
(* was called.                                                             *)
(***************************************************************************)
EXTENDS EventBus, SequenceTheorems, FiniteSetTheorems, FunctionTheorems, TLAPS

-----------------------------------------------------------------------------
(***************************************************************************)
(* The inductive invariant                                                 *)
(***************************************************************************)
\* Both are in s, a somewhere before b.
Precedes(s, a, b) == \E p, q \in DOMAIN s : p < q /\ s[p] = a /\ s[q] = b

\* t lists elements of s, in the order of s.
InOrder(s, t) == \A i, j \in DOMAIN t : i < j => Precedes(s, t[i], t[j])

\* Everything in A comes before everything in B.
Ahead(s, A, B) == \A a \in A, b \in B : Precedes(s, a, b)

\* A token is with one registration, which inserts it once.
RegInv ==
  /\ \A r \in Registrars :
       /\ reg[r].at = "idle" <=> reg[r].token = 0
       /\ reg[r].at = "insert" => reg[r].token \notin Range(entries)
  /\ \A r, q \in Registrars : reg[r].token = reg[q].token => r = q \/ reg[r].token = 0

\* A listed listener has somebody who will remove it: an effect of its owner,
\* or the registration that is on its way.
OwnInv ==
  /\ \A t \in Range(entries) :
       \/ t \in Range(effects[listeners[t].owner])
       \/ \E r \in Registrars : reg[r].token = t
  /\ \A o \in Owners : scope[o] = "Disposed" => effects[o] = <<>>

\* What the dispatch has consumed, or is about to.
Holds(d, t) ==
  \/ t \in Range(called[d]) \cup Range(futures[d])
  \/ at[d] \in {"unlist", "call"} /\ t = Head(todo[d])

\* A once listener is with one dispatch, and every claim is with one or was
\* refused.
HoldInv ==
  /\ \A d, e \in Dispatchers, t \in Tokens :
       listeners[t].once /\ Holds(d, t) => t \in claimed /\ (Holds(e, t) => d = e)
  /\ \A t \in claimed : t \in refused \/ \E d \in Dispatchers : Holds(d, t)

Scanning(d) == at[d] \in {"idle", "scan"}
Choosing(d) == at[d] \in {"claim", "unlist", "call"}

\* How far a dispatch is, and what that says of its mode and its outcome.
StageInv(d) ==
  /\ Scanning(d) => /\ futures[d] = <<>> /\ called[d] = <<>> /\ running[d] = {}
                    /\ fresh[d] = {} /\ fails[d] = 0 /\ outcome[d] = "none"
  /\ at[d] = "idle" => snap[d] = <<>>
  /\ at[d] \in {"unlist", "call"} => todo[d] # <<>>
  /\ at[d] = "unlist" => listeners[Head(todo[d])].once
  /\ Choosing(d) => fresh[d] = {}
  /\ mode[d] # "waterfall" => fresh[d] = {}
  /\ mode[d] # "parallel" => futures[d] = <<>> /\ fails[d] = 0
  /\ mode[d] = "parallel" =>
       /\ at[d] \in {"idle", "scan", "claim", "unlist"}
       /\ outcome[d] # "none" =>
            running[d] = {} /\ futures[d] = <<>> /\ at[d] = "claim" /\ todo[d] = <<>>
  /\ InTurn(d) =>
       /\ Choosing(d) => running[d] = {} /\ outcome[d] = "none"
       /\ running[d] # {} => /\ at[d] = "wait" /\ outcome[d] = "none"
                             /\ todo[d] # <<>> /\ running[d] = {Head(todo[d])}
  /\ mode[d] # "waterfall" /\ outcome[d] = "Completed" =>
       todo[d] = <<>> /\ futures[d] = <<>> /\ fails[d] = 0 /\ running[d] = {}

\* While the dispatch scans, nothing is seen twice.
SnapInv(d) ==
  /\ IsInjective(snap[d])
  /\ at[d] = "scan" => IsInjective(todo[d]) /\ Range(snap[d]) \cap Range(todo[d]) = {}

\* What is called comes before what is waiting, in the order of the snapshot.
OrderInv(d) ==
  ~Scanning(d) =>
    /\ Range(called[d]) \cup Range(futures[d]) \cup Range(todo[d]) \subseteq Range(snap[d])
    /\ InOrder(snap[d], called[d]) /\ InOrder(snap[d], futures[d])
    /\ InOrder(snap[d], todo[d])
    /\ Ahead(snap[d], Range(called[d]), Range(futures[d]))
    /\ Choosing(d) => Ahead(snap[d], Range(called[d]) \cup Range(futures[d]), Range(todo[d]))
    /\ InTurn(d) /\ running[d] # {} =>
         Ahead(snap[d], Range(called[d]), Range(Tail(todo[d])))
    /\ \A t \in fresh[d], u \in Range(called[d]) : u = t \/ Precedes(snap[d], u, t)

\* Nothing of the snapshot is forgotten.
CoverInv(d) ==
  ~Scanning(d) /\ mode[d] # "waterfall" =>
    \A t \in Range(snap[d]) :
      \/ t \in Range(called[d]) \cup Range(futures[d]) \cup Range(todo[d]) \cup claimed
      \/ fails[d] > 0

\* Every error is of another listener of the snapshot.
CountInv(d) ==
  ~Scanning(d) /\ mode[d] = "parallel" =>
    fails[d] + Cardinality(running[d]) + Len(futures[d]) + Len(todo[d]) <= Len(snap[d])

\* An owner that was closed before the dispatch is closed, and not heard.
SilentInv(d) ==
  /\ \A o \in gone[d] : scope[o] # "Active"
  /\ \A t \in Range(snap[d]) : listeners[t].owner \notin gone[d]

DispatchInv(d) ==
  StageInv(d) /\ SnapInv(d) /\ OrderInv(d) /\ CoverInv(d) /\ CountInv(d) /\ SilentInv(d)

EIInv ==
  /\ ETypeOK /\ RegInv /\ OwnInv /\ HoldInv
  /\ \A d \in Dispatchers : DispatchInv(d)

-----------------------------------------------------------------------------
(***************************************************************************)
(* Sequences                                                               *)
(***************************************************************************)
\* What Append adds to a sequence.
LEMMA AppendFacts ==
  ASSUME NEW S, NEW s \in Seq(S), NEW e \in S
  PROVE  /\ Append(s, e) \in Seq(S) /\ Len(Append(s, e)) = Len(s) + 1 /\ Len(s) \in Nat
         /\ Range(Append(s, e)) = Range(s) \cup {e}
         /\ IsInjective(s) /\ e \notin Range(s) => IsInjective(Append(s, e))
<1>1. /\ Append(s, e) \in Seq(S) /\ Len(Append(s, e)) = Len(s) + 1 /\ Len(s) \in Nat
      /\ DOMAIN s = 1 .. Len(s) /\ DOMAIN Append(s, e) = 1 .. Len(s) + 1
      /\ \A i \in 1 .. Len(s) : Append(s, e)[i] = s[i]
      /\ Append(s, e)[Len(s) + 1] = e
  BY AppendProperties, LenProperties
<1>2. 1 .. Len(s) + 1 = 1 .. Len(s) \cup {Len(s) + 1}
  BY <1>1
<1>3. Range(Append(s, e)) = Range(s) \cup {e}
  BY <1>1, <1>2, ZenonT(60) DEF Range
<1>4. ASSUME IsInjective(s), e \notin Range(s),
             NEW i \in 1 .. Len(s) + 1, NEW j \in 1 .. Len(s) + 1,
             Append(s, e)[i] = Append(s, e)[j]
      PROVE  i = j
  <2>1. \A k \in 1 .. Len(s) : s[k] # e
    BY <1>1, <1>4 DEF Range
  <2>2. CASE i \in 1 .. Len(s) /\ j \in 1 .. Len(s)
    BY <1>1, <1>4, <2>2 DEF IsInjective
  <2>3. CASE i = Len(s) + 1 /\ j = Len(s) + 1
    BY <2>3
  <2>4. CASE i \in 1 .. Len(s) /\ j = Len(s) + 1
    BY <1>1, <1>4, <2>1, <2>4
  <2>5. CASE j \in 1 .. Len(s) /\ i = Len(s) + 1
    BY <1>1, <1>4, <2>1, <2>5
  <2> QED
    BY <1>2, <2>2, <2>3, <2>4, <2>5
<1> QED
  BY <1>1, <1>3, <1>4, Zenon DEF IsInjective

\* What prepending adds to a sequence.
LEMMA PrependFacts ==
  ASSUME NEW S, NEW s \in Seq(S), NEW e \in S, IsInjective(s), e \notin Range(s)
  PROVE  /\ <<e>> \o s \in Seq(S) /\ IsInjective(<<e>> \o s)
         /\ Range(<<e>> \o s) = Range(s) \cup {e}
<1> DEFINE r == <<e>> \o s
<1>1. <<e>> \in Seq(S) /\ Len(<<e>>) = 1 /\ <<e>>[1] = e
  OBVIOUS
<1>2. Len(s) \in Nat /\ DOMAIN s = 1 .. Len(s)
  BY LenProperties
<1>3. /\ r \in Seq(S) /\ Len(r) = 1 + Len(s)
      /\ \A i \in 1 .. 1 + Len(s) : r[i] = IF i <= 1 THEN <<e>>[i] ELSE s[i - 1]
  BY <1>1, ConcatProperties
<1> HIDE DEF r
<1>4. DOMAIN r = 1 .. 1 + Len(s)
  BY <1>3, LenProperties
<1>5. r[1] = e /\ \A i \in 1 .. Len(s) : r[i + 1] = s[i]
  BY <1>1, <1>2, <1>3
<1>6. /\ 1 \in 1 .. 1 + Len(s)
      /\ \A i \in 1 .. Len(s) : i + 1 \in 1 .. 1 + Len(s)
      /\ \A i \in 1 .. 1 + Len(s) : i = 1 \/ \E k \in 1 .. Len(s) : i = k + 1
  <2>1. ASSUME NEW i \in 1 .. 1 + Len(s), i # 1 PROVE \E k \in 1 .. Len(s) : i = k + 1
    <3>1. i - 1 \in 1 .. Len(s) /\ i = (i - 1) + 1
      BY <1>2, <2>1
    <3> QED
      BY <3>1
  <2> QED
    BY <1>2, <2>1
<1>7. Range(r) \subseteq Range(s) \cup {e}
  <2>1. ASSUME NEW i \in 1 .. 1 + Len(s) PROVE r[i] \in Range(s) \cup {e}
    <3>1. CASE i = 1
      BY <1>5, <3>1
    <3>2. CASE i # 1
      <4>1. PICK k \in 1 .. Len(s) : i = k + 1
        BY <1>6, <3>2
      <4>2. r[i] = s[k]
        BY <1>5, <4>1
      <4> QED
        BY <1>2, <4>2, Zenon DEF Range
    <3> QED
      BY <3>1, <3>2
  <2> QED
    BY <1>4, <2>1, Zenon DEF Range
<1>8. Range(s) \cup {e} \subseteq Range(r)
  <2>1. e \in Range(r)
    BY <1>4, <1>5, <1>6, Zenon DEF Range
  <2>2. ASSUME NEW k \in 1 .. Len(s) PROVE s[k] \in Range(r)
    <3>1. k + 1 \in 1 .. 1 + Len(s) /\ r[k + 1] = s[k]
      BY <1>5, <1>6
    <3> QED
      BY <1>4, <3>1, Zenon DEF Range
  <2> QED
    BY <1>2, <2>1, <2>2, Zenon DEF Range
<1>9. ASSUME NEW i \in 1 .. 1 + Len(s), NEW j \in 1 .. 1 + Len(s), r[i] = r[j]
      PROVE  i = j
  <2>1. \A k \in 1 .. Len(s) : s[k] # e
    BY <1>2, Zenon DEF Range
  <2>2. \A k, m \in 1 .. Len(s) : s[k] = s[m] => k = m
    BY <1>2, Zenon DEF IsInjective
  <2>3. CASE i = 1 \/ j = 1
    BY <1>5, <1>6, <1>9, <2>1, <2>3
  <2>4. CASE i # 1 /\ j # 1
    <3>1. PICK k \in 1 .. Len(s), m \in 1 .. Len(s) : i = k + 1 /\ j = m + 1
      BY <1>6, <2>4
    <3> QED
      BY <1>5, <1>9, <2>2, <3>1
  <2> QED
    BY <2>3, <2>4
<1> QED
  BY <1>3, <1>4, <1>7, <1>8, <1>9, Zenon DEF IsInjective, r

\* What Tail leaves of a sequence.
LEMMA TailFacts ==
  ASSUME NEW S, NEW s \in Seq(S), s # <<>>
  PROVE  /\ Tail(s) \in Seq(S) /\ Head(s) \in S
         /\ Len(Tail(s)) = Len(s) - 1 /\ Len(s) \in Nat \ {0}
         /\ Range(s) = Range(Tail(s)) \cup {Head(s)}
         /\ IsInjective(s) => IsInjective(Tail(s)) /\ Head(s) \notin Range(Tail(s))
<1>1. /\ Tail(s) \in Seq(S) /\ Head(s) \in S /\ Head(s) = s[1]
      /\ Len(s) \in Nat \ {0} /\ Len(Tail(s)) = Len(s) - 1
      /\ DOMAIN s = 1 .. Len(s) /\ DOMAIN Tail(s) = 1 .. Len(s) - 1
      /\ \A i \in 1 .. Len(s) - 1 : Tail(s)[i] = s[i + 1]
  BY HeadTailProperties, LenProperties, EmptySeq
<1>2. /\ \A i \in 1 .. Len(s) - 1 : i + 1 \in 1 .. Len(s) /\ i + 1 # 1
      /\ \A i \in 1 .. Len(s) : i = 1 \/ (i - 1 \in 1 .. Len(s) - 1 /\ (i - 1) + 1 = i)
      /\ 1 \in 1 .. Len(s)
      /\ \A i, j \in 1 .. Len(s) - 1 : i + 1 = j + 1 => i = j
  BY <1>1
<1>3. Range(s) \subseteq Range(Tail(s)) \cup {Head(s)}
  <2> SUFFICES ASSUME NEW i \in 1 .. Len(s), s[i] # Head(s)
               PROVE  s[i] \in Range(Tail(s))
    BY <1>1, Zenon DEF Range
  <2>1. i - 1 \in 1 .. Len(s) - 1 /\ (i - 1) + 1 = i
    BY <1>1, <1>2
  <2>2. Tail(s)[i - 1] = s[i]
    BY <1>1, <2>1
  <2> QED
    BY <1>1, <2>1, <2>2, Zenon DEF Range
<1>4. Range(Tail(s)) \cup {Head(s)} \subseteq Range(s)
  <2>1. Head(s) \in Range(s)
    BY <1>1, <1>2, Zenon DEF Range
  <2>2. ASSUME NEW i \in 1 .. Len(s) - 1 PROVE Tail(s)[i] \in Range(s)
    <3>1. i + 1 \in 1 .. Len(s) /\ Tail(s)[i] = s[i + 1]
      BY <1>1, <1>2
    <3> QED
      BY <1>1, <3>1, Zenon DEF Range
  <2> QED
    BY <1>1, <2>1, <2>2, Zenon DEF Range
<1>5. ASSUME IsInjective(s) PROVE IsInjective(Tail(s)) /\ Head(s) \notin Range(Tail(s))
  <2>1. \A i, j \in 1 .. Len(s) : s[i] = s[j] => i = j
    BY <1>1, <1>5, Zenon DEF IsInjective
  <2>2. \A i, j \in 1 .. Len(s) - 1 : Tail(s)[i] = Tail(s)[j] => i = j
    BY <1>1, <1>2, <2>1
  <2>3. \A i \in 1 .. Len(s) - 1 : Tail(s)[i] # Head(s)
    BY <1>1, <1>2, <2>1
  <2> QED
    BY <1>1, <2>2, <2>3, Zenon DEF IsInjective, Range
<1> QED
  BY <1>1, <1>3, <1>4, <1>5, Zenon

\* What the disposer of the last effect leaves.
LEMMA FrontFacts ==
  ASSUME NEW S, NEW s \in Seq(S), s # <<>>
  PROVE  /\ Front(s) \in Seq(S) /\ Last(s) \in S
         /\ Range(s) \subseteq Range(Front(s)) \cup {Last(s)}
<1>1. /\ Len(s) \in Nat \ {0} /\ DOMAIN s = 1 .. Len(s)
      /\ \A i \in 1 .. Len(s) - 1 : s[i] \in S
      /\ s[Len(s)] \in S
  BY LenProperties, EmptySeq, ElementOfSeq
<1>2. /\ Front(s) \in Seq(S) /\ Len(Front(s)) = Len(s) - 1
      /\ \A i \in 1 .. Len(s) - 1 : Front(s)[i] = s[i]
  <2>1. /\ SubSeq(s, 1, Len(s) - 1) \in Seq(S)
        /\ Len(SubSeq(s, 1, Len(s) - 1)) = IF 1 <= Len(s) - 1 THEN (Len(s) - 1) - 1 + 1 ELSE 0
        /\ \A i \in 1 .. (Len(s) - 1) - 1 + 1 : SubSeq(s, 1, Len(s) - 1)[i] = s[1 + i - 1]
    BY <1>1, SubSeqProperties
  <2> QED
    BY <1>1, <2>1 DEF Front
<1>3. DOMAIN Front(s) = 1 .. Len(s) - 1
  BY <1>2, LenProperties
<1>4. ASSUME NEW i \in 1 .. Len(s), s[i] # s[Len(s)]
      PROVE  s[i] \in Range(Front(s))
  <2>1. i \in 1 .. Len(s) - 1
    BY <1>1, <1>4
  <2> QED
    BY <1>2, <1>3, <2>1, Zenon DEF Range
<1> QED
  BY <1>1, <1>2, <1>4, Zenon DEF Last, Range

\* The empty sequence.
LEMMA EmptyFacts ==
  /\ \A S : <<>> \in Seq(S)
  /\ Range(<<>>) = {} /\ Len(<<>>) = 0 /\ IsInjective(<<>>)
  /\ \A s : InOrder(s, <<>>)
BY EmptySeq DEF Range, IsInjective, InOrder

\* The place of an element, as the operators of SequencesExt find it.
LEMMA PlaceFacts ==
  ASSUME NEW S, NEW s \in Seq(S), IsInjective(s), NEW e, e \in Range(s)
  PROVE  /\ SelectInSeq(s, LAMBDA v : v = e) \in 1 .. Len(s)
         /\ s[SelectInSeq(s, LAMBDA v : v = e)] = e
<1> DEFINE I == {i \in 1 .. Len(s) : s[i] = e}
<1>1. Len(s) \in Nat /\ DOMAIN s = 1 .. Len(s)
  BY LenProperties
<1>2. I # {} /\ I \subseteq Nat
  BY <1>1 DEF Range
<1>3. \E m \in I : \A j \in I : m <= j
  <2>1. PICK m \in I : TRUE
    BY <1>2
  <2>2. \A j \in I : j = m
    BY <1>1, <2>1, Zenon DEF IsInjective
  <2> QED
    BY <1>2, <2>1, <2>2
<1>4. Min(I) \in I
  BY <1>3, Zenon DEF Min
<1>5. SelectInSeq(s, LAMBDA v : v = e) = Min(I)
  BY <1>2, Zenon DEF SelectInSeq
<1> QED
  BY <1>4, <1>5

\* remove_listener drops the token and nothing else.
LEMMA RemoveFacts ==
  ASSUME NEW S, NEW s \in Seq(S), IsInjective(s), NEW e
  PROVE  /\ RemoveFirst(s, e) \in Seq(S)
         /\ IsInjective(RemoveFirst(s, e))
         /\ Range(RemoveFirst(s, e)) = Range(s) \ {e}
<1>1. Len(s) \in Nat /\ DOMAIN s = 1 .. Len(s) /\ s \in [1 .. Len(s) -> S]
  BY LenProperties
<1>2. CASE e \notin Range(s)
  <2>1. RemoveFirst(s, e) = s
    BY <1>1, <1>2, Zenon DEF RemoveFirst, Range
  <2> QED
    BY <1>2, <2>1
<1>3. CASE e \in Range(s)
  <2> DEFINE n == SelectInSeq(s, LAMBDA v : v = e)
             x == SubSeq(s, 1, n - 1)
             y == SubSeq(s, n + 1, Len(s))
             r == RemoveFirst(s, e)
  <2>1. n \in 1 .. Len(s) /\ s[n] = e
    BY <1>3, PlaceFacts
  <2>2. r = x \o y
    BY <1>1, <1>3, Zenon DEF RemoveFirst, RemoveAt, Range
  <2> HIDE DEF n, r
  <2>3. /\ n \in Nat /\ n >= 1 /\ n <= Len(s)
        /\ \A i \in 1 .. n - 1 : s[i] \in S
        /\ \A i \in n + 1 .. Len(s) : s[i] \in S
    BY <1>1, <2>1
  <2>4. /\ x \in Seq(S) /\ Len(x) = n - 1
        /\ \A i \in 1 .. n - 1 : x[i] = s[i]
    <3>1. /\ x \in Seq(S)
          /\ Len(x) = IF 1 <= n - 1 THEN (n - 1) - 1 + 1 ELSE 0
          /\ \A i \in 1 .. (n - 1) - 1 + 1 : x[i] = s[1 + i - 1]
      BY <2>3, SubSeqProperties
    <3> HIDE DEF x
    <3> QED
      BY <2>3, <3>1
  <2>5. /\ y \in Seq(S) /\ Len(y) = Len(s) - n
        /\ \A i \in 1 .. Len(s) - n : y[i] = s[n + i]
    <3>1. /\ y \in Seq(S)
          /\ Len(y) = IF n + 1 <= Len(s) THEN Len(s) - (n + 1) + 1 ELSE 0
          /\ \A i \in 1 .. Len(s) - (n + 1) + 1 : y[i] = s[(n + 1) + i - 1]
      BY <1>1, <2>3, SubSeqProperties
    <3> HIDE DEF y
    <3>2. Len(y) = Len(s) - n
      BY <1>1, <2>3, <3>1, SMTT(30)
    <3>3. ASSUME NEW i \in 1 .. Len(s) - n PROVE y[i] = s[n + i]
      <4>1. i \in 1 .. Len(s) - (n + 1) + 1 /\ (n + 1) + i - 1 = n + i
        BY <1>1, <2>3
      <4> QED
        BY <3>1, <4>1
    <3> QED
      BY <3>1, <3>2, <3>3
  <2> HIDE DEF x, y
  <2>6. /\ r \in Seq(S) /\ Len(r) = Len(s) - 1 /\ DOMAIN r = 1 .. Len(s) - 1
        /\ \A i \in 1 .. Len(s) - 1 : r[i] = IF i < n THEN s[i] ELSE s[i + 1]
    <3>1. /\ r \in Seq(S) /\ Len(r) = Len(x) + Len(y)
          /\ \A i \in 1 .. Len(x) + Len(y) :
               r[i] = IF i <= Len(x) THEN x[i] ELSE y[i - Len(x)]
      BY <2>2, <2>4, <2>5, ConcatProperties
    <3>2. Len(r) = Len(s) - 1 /\ Len(x) + Len(y) = Len(s) - 1
      BY <1>1, <2>3, <2>4, <2>5, <3>1
    <3>3. ASSUME NEW i \in 1 .. Len(s) - 1
          PROVE  r[i] = IF i < n THEN s[i] ELSE s[i + 1]
      <4>1. r[i] = IF i <= n - 1 THEN x[i] ELSE y[i - (n - 1)]
        BY <2>4, <3>1, <3>2
      <4>2. CASE i < n
        <5>1. i \in 1 .. n - 1
          BY <2>3, <4>2
        <5> QED
          BY <2>4, <4>1, <4>2, <5>1
      <4>3. CASE ~(i < n)
        <5>1. i - (n - 1) \in 1 .. Len(s) - n /\ n + (i - (n - 1)) = i + 1 /\ ~(i <= n - 1)
          BY <1>1, <2>3, <4>3
        <5>2. y[i - (n - 1)] = s[n + (i - (n - 1))]
          BY <2>5, <5>1
        <5> QED
          BY <4>1, <4>3, <5>1, <5>2
      <4> QED
        BY <4>2, <4>3
    <3>4. DOMAIN r = 1 .. Len(s) - 1
      BY <3>1, <3>2, LenProperties
    <3> QED
      BY <3>1, <3>2, <3>3, <3>4
  <2> DEFINE at2(i) == IF i < n THEN i ELSE i + 1
  <2>7. /\ \A i \in 1 .. Len(s) - 1 : at2(i) \in 1 .. Len(s) /\ at2(i) # n
        /\ \A i, j \in 1 .. Len(s) - 1 : at2(i) = at2(j) => i = j
        /\ \A k \in 1 .. Len(s) : k # n => \E i \in 1 .. Len(s) - 1 : at2(i) = k
    <3>1. /\ \A i \in 1 .. Len(s) - 1 : at2(i) \in 1 .. Len(s) /\ at2(i) # n
          /\ \A i, j \in 1 .. Len(s) - 1 : at2(i) = at2(j) => i = j
      BY <1>1, <2>3
    <3>2. ASSUME NEW k \in 1 .. Len(s), k # n
          PROVE  \E i \in 1 .. Len(s) - 1 : at2(i) = k
      <4>1. CASE k < n
        BY <1>1, <2>3, <4>1
      <4>2. CASE k > n
        <5>1. k - 1 \in 1 .. Len(s) - 1 /\ ~(k - 1 < n) /\ (k - 1) + 1 = k
          BY <1>1, <2>3, <4>2
        <5> QED
          BY <5>1
      <4> QED
        BY <2>3, <3>2, <4>1, <4>2
    <3> QED
      BY <3>1, <3>2
  <2>8. \A i \in 1 .. Len(s) - 1 : r[i] = s[at2(i)]
    BY <2>6
  <2> HIDE DEF at2
  <2>9. \A j, k \in 1 .. Len(s) : s[j] = s[k] => j = k
    BY <1>1, Zenon DEF IsInjective
  <2>10. IsInjective(r)
    <3>1. ASSUME NEW i \in 1 .. Len(s) - 1, NEW j \in 1 .. Len(s) - 1, r[i] = r[j]
          PROVE  i = j
      <4>1. at2(i) \in 1 .. Len(s) /\ at2(j) \in 1 .. Len(s)
        BY <2>7
      <4>2. s[at2(i)] = s[at2(j)]
        BY <2>8, <3>1
      <4>3. at2(i) = at2(j)
        BY <2>9, <4>1, <4>2
      <4> QED
        BY <2>7, <4>3
    <3> QED
      BY <2>6, <3>1, Zenon DEF IsInjective
  <2>11. Range(r) \subseteq Range(s) \ {e}
    <3> SUFFICES ASSUME NEW i \in 1 .. Len(s) - 1
                 PROVE  r[i] \in Range(s) /\ r[i] # e
      BY <2>6, Zenon DEF Range
    <3> QED
      BY <1>1, <2>1, <2>7, <2>8, <2>9, Zenon DEF Range
  <2>12. Range(s) \ {e} \subseteq Range(r)
    <3> SUFFICES ASSUME NEW k \in 1 .. Len(s), s[k] # e
                 PROVE  s[k] \in Range(r)
      BY <1>1, Zenon DEF Range
    <3>1. PICK i \in 1 .. Len(s) - 1 : at2(i) = k
      BY <2>1, <2>7, Zenon
    <3> QED
      BY <2>6, <2>8, <3>1, Zenon DEF Range
  <2> QED
    BY <2>6, <2>10, <2>11, <2>12 DEF r
<1> QED
  BY <1>2, <1>3

\* Taking the head off what is in order leaves what comes after it.
LEMMA OrderTail ==
  ASSUME NEW S, NEW s, NEW t \in Seq(S), t # <<>>, InOrder(s, t)
  PROVE  InOrder(s, Tail(t)) /\ Ahead(s, {Head(t)}, Range(Tail(t)))
<1>1. /\ Head(t) = t[1] /\ Len(t) \in Nat \ {0}
      /\ DOMAIN t = 1 .. Len(t) /\ DOMAIN Tail(t) = 1 .. Len(t) - 1
      /\ \A i \in 1 .. Len(t) - 1 : Tail(t)[i] = t[i + 1]
  BY HeadTailProperties, LenProperties, EmptySeq
<1>2. \A i, j \in 1 .. Len(t) : i < j => Precedes(s, t[i], t[j])
  BY <1>1 DEF InOrder
<1>3. ASSUME NEW i \in 1 .. Len(t) - 1
      PROVE  /\ Precedes(s, Head(t), Tail(t)[i])
             /\ \A j \in 1 .. Len(t) - 1 : i < j => Precedes(s, Tail(t)[i], Tail(t)[j])
  <2>1. 1 \in 1 .. Len(t) /\ i + 1 \in 1 .. Len(t) /\ 1 < i + 1
    BY <1>1
  <2>2. ASSUME NEW j \in 1 .. Len(t) - 1, i < j
        PROVE  Precedes(s, Tail(t)[i], Tail(t)[j])
    <3>1. j + 1 \in 1 .. Len(t) /\ i + 1 < j + 1
      BY <1>1, <2>2
    <3>2. Precedes(s, t[i + 1], t[j + 1])
      BY <1>2, <2>1, <3>1
    <3> QED
      BY <1>1, <3>2
  <2>3. Precedes(s, t[1], t[i + 1])
    BY <1>2, <2>1
  <2> QED
    BY <1>1, <2>2, <2>3
<1> QED
  BY <1>1, <1>3, Zenon DEF InOrder, Ahead, Range

\* What comes after everything may be appended.
LEMMA OrderAppend ==
  ASSUME NEW S, NEW s, NEW t \in Seq(S), NEW e \in S,
         InOrder(s, t), Ahead(s, Range(t), {e})
  PROVE  InOrder(s, Append(t, e))
<1>1. /\ Len(t) \in Nat /\ DOMAIN t = 1 .. Len(t)
      /\ DOMAIN Append(t, e) = 1 .. Len(t) + 1
      /\ \A i \in 1 .. Len(t) : Append(t, e)[i] = t[i]
      /\ Append(t, e)[Len(t) + 1] = e
  BY AppendProperties, LenProperties
<1>2. ASSUME NEW i \in 1 .. Len(t) + 1, NEW j \in 1 .. Len(t) + 1, i < j
      PROVE  Precedes(s, Append(t, e)[i], Append(t, e)[j])
  <2>1. i \in 1 .. Len(t)
    BY <1>1, <1>2
  <2>2. CASE j \in 1 .. Len(t)
    <3>1. Precedes(s, t[i], t[j])
      BY <1>1, <1>2, <2>1, <2>2 DEF InOrder
    <3> QED
      BY <1>1, <2>1, <2>2, <3>1
  <2>3. CASE j = Len(t) + 1
    <3>1. t[i] \in Range(t)
      BY <1>1, <2>1 DEF Range
    <3>2. Precedes(s, t[i], e)
      BY <3>1 DEF Ahead
    <3> QED
      BY <1>1, <2>1, <2>3, <3>2
  <2> QED
    BY <1>1, <2>2, <2>3
<1> QED
  BY <1>1, <1>2, Zenon DEF InOrder

\* The snapshot is in its own order.
LEMMA OrderSelf ==
  ASSUME NEW s PROVE InOrder(s, s)
BY Zenon DEF InOrder, Precedes

\* Order in an injective sequence is transitive and strict.
LEMMA OrderTrans ==
  ASSUME NEW S, NEW s \in Seq(S), IsInjective(s)
  PROVE  /\ \A a, b, c : Precedes(s, a, b) /\ Precedes(s, b, c) => Precedes(s, a, c)
         /\ \A a, b : Precedes(s, a, b) => a # b
<1>1. Len(s) \in Nat /\ DOMAIN s = 1 .. Len(s)
  BY LenProperties
<1>2. ASSUME NEW a, NEW b, NEW c, Precedes(s, a, b), Precedes(s, b, c)
      PROVE  Precedes(s, a, c)
  <2>1. PICK p, q \in 1 .. Len(s) : p < q /\ s[p] = a /\ s[q] = b
    BY <1>1, <1>2, Zenon DEF Precedes
  <2>2. PICK m, n \in 1 .. Len(s) : m < n /\ s[m] = b /\ s[n] = c
    BY <1>1, <1>2, Zenon DEF Precedes
  <2>3. q = m
    BY <1>1, <2>1, <2>2, Zenon DEF IsInjective
  <2>4. p < n
    BY <1>1, <2>1, <2>2, <2>3
  <2> QED
    BY <1>1, <2>1, <2>2, <2>4, Zenon DEF Precedes
<1>3. ASSUME NEW a, NEW b, Precedes(s, a, b), a = b PROVE FALSE
  <2>1. PICK p, q \in 1 .. Len(s) : p < q /\ s[p] = a /\ s[q] = b
    BY <1>1, <1>3, Zenon DEF Precedes
  <2>2. p = q
    BY <1>1, <1>3, <2>1, Zenon DEF IsInjective
  <2> QED
    BY <1>1, <2>1, <2>2
<1> QED
  BY <1>2, <1>3

\* What is in order is there once.
LEMMA OrderInjective ==
  ASSUME NEW S, NEW s \in Seq(S), IsInjective(s), NEW t \in Seq(S), InOrder(s, t)
  PROVE  IsInjective(t)
<1>1. Len(t) \in Nat /\ DOMAIN t = 1 .. Len(t)
  BY LenProperties
<1>2. ASSUME NEW i \in 1 .. Len(t), NEW j \in 1 .. Len(t), t[i] = t[j], i # j
      PROVE  FALSE
  <2>1. i < j \/ j < i
    BY <1>1, <1>2
  <2>2. Precedes(s, t[i], t[j]) \/ Precedes(s, t[j], t[i])
    BY <1>1, <2>1, Zenon DEF InOrder
  <2> QED
    BY <1>2, <2>2, OrderTrans
<1> QED
  BY <1>1, <1>2, Zenon DEF IsInjective

\* The rest of a sequence behind one of its places.
LEMMA SuffixFacts ==
  ASSUME NEW S, NEW s \in Seq(S), NEW n \in 1 .. Len(s), NEW t,
         t = SubSeq(s, n + 1, Len(s))
  PROVE  /\ t \in Seq(S) /\ Range(t) \subseteq Range(s)
         /\ InOrder(s, t) /\ Ahead(s, {s[n]}, Range(t))
<1>3. Len(s) \in Nat /\ DOMAIN s = 1 .. Len(s) /\ s \in [1 .. Len(s) -> S]
  BY LenProperties
<1>4. \A i \in n + 1 .. Len(s) : s[i] \in S
  BY <1>3
<1>5. /\ t \in Seq(S)
      /\ Len(t) = IF n + 1 <= Len(s) THEN Len(s) - (n + 1) + 1 ELSE 0
      /\ \A i \in 1 .. Len(s) - (n + 1) + 1 : t[i] = s[(n + 1) + i - 1]
  BY <1>3, <1>4, SubSeqProperties
<1>6. Len(t) = Len(s) - n /\ DOMAIN t = 1 .. Len(s) - n
  <2>1. Len(t) = Len(s) - n
    <3>1. n \in Nat /\ n <= Len(s) /\ Len(s) \in Nat
      BY <1>3
    <3>2. n + 1 <= Len(s) => Len(s) - (n + 1) + 1 = Len(s) - n
      BY <3>1
    <3>3. ~(n + 1 <= Len(s)) => 0 = Len(s) - n
      BY <3>1
    <3> QED
      BY <1>5, <3>2, <3>3, Zenon
  <2> QED
    BY <1>5, <2>1, LenProperties
<1>7. ASSUME NEW i \in 1 .. Len(s) - n
      PROVE  t[i] = s[n + i] /\ n + i \in 1 .. Len(s) /\ n < n + i
  <2>1. i \in 1 .. Len(s) - (n + 1) + 1 /\ (n + 1) + i - 1 = n + i
    BY <1>3
  <2>2. t[i] = s[n + i]
    BY <1>5, <2>1
  <2> QED
    BY <1>3, <2>2
<1>8. ASSUME NEW i \in 1 .. Len(s) - n, NEW j \in 1 .. Len(s) - n, i < j
      PROVE  Precedes(s, t[i], t[j])
  <2>1. n + i < n + j
    BY <1>8
  <2>2. /\ t[i] = s[n + i] /\ n + i \in 1 .. Len(s)
        /\ t[j] = s[n + j] /\ n + j \in 1 .. Len(s)
    BY <1>7
  <2> QED
    BY <1>3, <2>1, <2>2, Zenon DEF Precedes
<1>9. ASSUME NEW i \in 1 .. Len(s) - n
      PROVE  t[i] \in Range(s) /\ Precedes(s, s[n], t[i])
  BY <1>3, <1>7, Zenon DEF Precedes, Range
<1> QED
  BY <1>5, <1>6, <1>8, <1>9, Zenon DEF InOrder, Ahead, Range

\* The rest of the snapshot behind one of its listeners.
LEMMA AfterFacts ==
  ASSUME NEW S, NEW s \in Seq(S), IsInjective(s), NEW e \in Range(s), NEW t,
         t = SubSeq(s, SelectInSeq(s, LAMBDA u : u = e) + 1, Len(s))
  PROVE  /\ t \in Seq(S) /\ Range(t) \subseteq Range(s)
         /\ InOrder(s, t) /\ Ahead(s, {e}, Range(t))
<1> DEFINE n == SelectInSeq(s, LAMBDA u : u = e)
<1>1. n \in 1 .. Len(s) /\ s[n] = e
  BY PlaceFacts
<1>2. t = SubSeq(s, n + 1, Len(s))
  OBVIOUS
<1> HIDE DEF n
<1> QED
  BY <1>1, <1>2, SuffixFacts, Zenon

-----------------------------------------------------------------------------
(***************************************************************************)
(* The initial state, and the steps that leave the dispatches alone        *)
(***************************************************************************)
\* A bus without listeners satisfies the invariant.
LEMMA InitEIInv == EInit => EIInv
<1> SUFFICES ASSUME EInit PROVE EIInv
  OBVIOUS
<1> USE EmptyFacts, EventAssumption DEF EInit
<1>1. Tokens = {}
  <2>1. DOMAIN listeners = 1 .. 0
    BY LenProperties
  <2> QED
    BY <2>1 DEF Tokens
<1>2. ETypeOK
  BY DEF ETypeOK, NoReg, Modes
<1>3. RegInv
  BY DEF RegInv, NoReg
<1>4. OwnInv
  BY DEF OwnInv
<1>5. HoldInv
  BY <1>1 DEF HoldInv
<1>6. ASSUME NEW d \in Dispatchers PROVE DispatchInv(d)
  BY DEF DispatchInv, StageInv, SnapInv, OrderInv, CoverInv, CountInv, SilentInv,
     Scanning, Choosing, InTurn
<1> QED
  BY <1>2, <1>3, <1>4, <1>5, <1>6 DEF EIInv

\* What a dispatch holds is a token.
LEMMA HeldIsToken ==
  ASSUME EIInv, NEW d \in Dispatchers, NEW t, Holds(d, t)
  PROVE  t \in Tokens
<1>1. /\ todo[d] \in Seq(Tokens) /\ called[d] \in Seq(Tokens) /\ futures[d] \in Seq(Tokens)
      /\ at[d] \in {"unlist", "call"} => todo[d] # <<>>
  BY DEF EIInv, ETypeOK, DispatchInv, StageInv
<1>2. Range(called[d]) \subseteq Tokens /\ Range(futures[d]) \subseteq Tokens
  BY <1>1, RangeOfSeq
<1>3. at[d] \in {"unlist", "call"} => Head(todo[d]) \in Tokens
  BY <1>1, TailFacts
<1> QED
  BY <1>2, <1>3 DEF Holds

\* What registration, removal and disposal do to the dispatches under way:
\* nothing, since tokens keep their meaning and owners stay closed.
LEMMA BusKeeps ==
  ASSUME EIInv,
         UNCHANGED <<claimed, at, todo, runVars, callVars>>,
         Tokens \subseteq Tokens', \A t \in Tokens : listeners'[t] = listeners[t],
         \A o \in Owners : scope[o] # "Active" => scope'[o] # "Active",
         scope' \in [Owners -> {"Active", "Disposing", "Disposed"}],
         effects' \in [Owners -> Seq(Tokens')],
         listeners' \in Seq(Offered), Len(listeners') <= MaxListeners,
         entries' \in Seq(Tokens'), IsInjective(entries'),
         reg' \in [Registrars -> [at : {"idle", "insert", "own"}, token : {0} \cup Tokens']],
         RegInv', OwnInv'
  PROVE  EIInv'
<1> USE DEF runVars, callVars
<1>1. \A s \in Seq(Tokens) : s \in Seq(Tokens')
  BY SeqMonotonic
<1>2. /\ todo' \in [Dispatchers -> Seq(Tokens')] /\ snap' \in [Dispatchers -> Seq(Tokens')]
      /\ futures' \in [Dispatchers -> Seq(Tokens')] /\ called' \in [Dispatchers -> Seq(Tokens')]
  BY <1>1 DEF EIInv, ETypeOK
<1>3. /\ running' \in [Dispatchers -> SUBSET Tokens'] /\ fresh' \in [Dispatchers -> SUBSET Tokens']
      /\ claimed' \subseteq Tokens' /\ refused' \subseteq Tokens'
      /\ \A d \in Dispatchers : running'[d] \cup fresh'[d] \subseteq Range(called'[d])
  BY DEF EIInv, ETypeOK
<1>4. ETypeOK'
  BY <1>2, <1>3 DEF EIInv, ETypeOK
<1>5. \A d \in Dispatchers : \A t : Holds(d, t)' <=> Holds(d, t)
  BY DEF Holds
<1>6. HoldInv'
  <2>1. \A d, e \in Dispatchers, t \in Tokens :
          listeners'[t].once /\ Holds(d, t)' => t \in claimed' /\ (Holds(e, t)' => d = e)
    BY <1>5, Zenon DEF EIInv, HoldInv
  <2>2. \A d \in Dispatchers, t \in Tokens' : Holds(d, t)' => t \in Tokens
    BY <1>5, HeldIsToken
  <2>3. \A t \in claimed' : t \in refused' \/ \E d \in Dispatchers : Holds(d, t)'
    BY <1>5, Zenon DEF EIInv, HoldInv
  <2> QED
    BY <2>1, <2>2, <2>3, Zenon DEF HoldInv
<1>7. ASSUME NEW d \in Dispatchers PROVE DispatchInv(d)'
  <2>1. DispatchInv(d) /\ todo[d] \in Seq(Tokens) /\ snap[d] \in Seq(Tokens) /\ gone[d] \subseteq Owners
    BY DEF EIInv, ETypeOK
  <2>2. at[d] = "unlist" => listeners'[Head(todo[d])].once
    <3>1. at[d] = "unlist" => Head(todo[d]) \in Tokens
      BY <2>1, TailFacts DEF DispatchInv, StageInv
    <3> QED
      BY <2>1, <3>1 DEF DispatchInv, StageInv
  <2>3. StageInv(d)'
    BY <2>1, <2>2 DEF DispatchInv, StageInv, Scanning, Choosing, InTurn
  <2>4. SnapInv(d)' /\ OrderInv(d)' /\ CoverInv(d)' /\ CountInv(d)'
    BY <2>1 DEF DispatchInv, SnapInv, OrderInv, CoverInv, CountInv, Scanning, Choosing, InTurn
  <2>5. Range(snap[d]) \subseteq Tokens
    BY <2>1, RangeOfSeq
  <2>6. SilentInv(d)'
    BY <2>1, <2>5 DEF DispatchInv, SilentInv
  <2> QED
    BY <2>3, <2>4, <2>6 DEF DispatchInv
<1> QED
  BY <1>4, <1>6, <1>7 DEF EIInv

\* register takes a token.
LEMMA RegisterKeeps ==
  ASSUME EIInv, NEW r \in Registrars, NEW l \in Offered, Register(r, l)
  PROVE  EIInv'
<1> USE EventAssumption
<1>1. /\ listeners \in Seq(Offered) /\ Len(listeners) \in Nat /\ Len(listeners) < MaxListeners
      /\ listeners' = Append(listeners, l) /\ Tokens = 1 .. Len(listeners)
  BY LenProperties DEF Register, EIInv, ETypeOK, Tokens
<1>2. /\ listeners' \in Seq(Offered) /\ Len(listeners') = Len(listeners) + 1
      /\ \A t \in Tokens : listeners'[t] = listeners[t]
      /\ Tokens' = 1 .. Len(listeners) + 1
  BY <1>1, AppendProperties, LenProperties DEF Tokens
<1>3. Tokens \subseteq Tokens' /\ Len(listeners) + 1 \in Tokens'
      /\ Len(listeners) + 1 \notin Tokens /\ Len(listeners) + 1 # 0 /\ 0 \notin Tokens
  BY <1>1, <1>2
<1>4. /\ reg[r].at = "idle" /\ reg[r].token = 0
      /\ reg'[r] = [at |-> "insert", token |-> Len(listeners) + 1]
      /\ \A q \in Registrars \ {r} : reg'[q] = reg[q]
      /\ UNCHANGED <<scope, effects, entries, claimed, at, todo, runVars, callVars>>
  BY DEF Register, EIInv, ETypeOK, RegInv
<1>5. /\ effects' \in [Owners -> Seq(Tokens')] /\ entries' \in Seq(Tokens')
      /\ Range(entries) \subseteq Tokens
  <2>1. \A s \in Seq(Tokens) : s \in Seq(Tokens')
    BY <1>3, SeqMonotonic
  <2>2. entries \in Seq(Tokens) /\ effects \in [Owners -> Seq(Tokens)]
    BY DEF EIInv, ETypeOK
  <2>3. Range(entries) \subseteq Tokens
    BY <2>2, RangeOfSeq
  <2> QED
    BY <1>4, <2>1, <2>2, <2>3
<1>6. reg' \in [Registrars -> [at : {"idle", "insert", "own"}, token : {0} \cup Tokens']]
  BY <1>3 DEF Register, EIInv, ETypeOK
<1>7. RegInv'
  <2>1. \A q \in Registrars : reg[q].token \in {0} \cup Tokens
    BY DEF EIInv, ETypeOK
  <2>2. reg'[r].at = "insert" /\ reg'[r].token = Len(listeners) + 1
    BY <1>4
  <2>3. \A q \in Registrars \ {r} : reg[q].token # Len(listeners) + 1
    BY <1>3, <2>1
  <2>4. ASSUME NEW q \in Registrars
        PROVE  /\ reg'[q].at = "idle" <=> reg'[q].token = 0
               /\ reg'[q].at = "insert" => reg'[q].token \notin Range(entries')
    <3>1. CASE q = r
      BY <1>3, <1>4, <1>5, <2>2, <3>1
    <3>2. CASE q # r
      BY <1>4, <3>2, Zenon DEF EIInv, RegInv
    <3> QED
      BY <3>1, <3>2
  <2>5. ASSUME NEW q \in Registrars, NEW p \in Registrars, reg'[q].token = reg'[p].token
        PROVE  q = p \/ reg'[q].token = 0
    <3>1. CASE q # r /\ p # r
      BY <1>4, <2>5, <3>1, Zenon DEF EIInv, RegInv
    <3>2. CASE q = r \/ p = r
      BY <1>4, <2>2, <2>3, <2>5, <3>2
    <3> QED
      BY <3>1, <3>2
  <2> QED
    BY <2>4, <2>5, Zenon DEF RegInv
<1>8. OwnInv'
  <2>1. \A q \in Registrars : reg[q].token # 0 => reg'[q].token = reg[q].token
    BY <1>4
  <2>2. ASSUME NEW t \in Range(entries)
        PROVE  \/ t \in Range(effects[listeners'[t].owner])
               \/ \E q \in Registrars : reg'[q].token = t
    <3>1. t \in Tokens /\ t # 0 /\ listeners'[t] = listeners[t]
      BY <1>2, <1>3, <1>5
    <3>2. \/ t \in Range(effects[listeners[t].owner])
          \/ \E q \in Registrars : reg[q].token = t
      BY Zenon DEF EIInv, OwnInv
    <3> QED
      BY <2>1, <3>1, <3>2
  <2>3. \A o \in Owners : scope[o] = "Disposed" => effects[o] = <<>>
    BY Zenon DEF EIInv, OwnInv
  <2> QED
    BY <1>4, <2>2, <2>3, Zenon DEF OwnInv
<1>9. /\ scope' \in [Owners -> {"Active", "Disposing", "Disposed"}] /\ IsInjective(entries')
      /\ \A o \in Owners : scope[o] # "Active" => scope'[o] # "Active"
      /\ Len(listeners') <= MaxListeners
  BY <1>1, <1>2, <1>4 DEF EIInv, ETypeOK
<1> QED
  BY <1>2, <1>3, <1>4, <1>5, <1>6, <1>7, <1>8, <1>9, BusKeeps

\* A step that keeps the listeners and the dispatches.
LEMMA ListKeeps ==
  ASSUME EIInv,
         UNCHANGED <<listeners, claimed, at, todo, runVars, callVars>>,
         \A o \in Owners : scope[o] # "Active" => scope'[o] # "Active",
         scope' \in [Owners -> {"Active", "Disposing", "Disposed"}],
         effects' \in [Owners -> Seq(Tokens)],
         entries' \in Seq(Tokens), IsInjective(entries'),
         reg' \in [Registrars -> [at : {"idle", "insert", "own"}, token : {0} \cup Tokens]],
         RegInv', OwnInv'
  PROVE  EIInv'
<1>1. Tokens' = Tokens
  BY DEF Tokens
<1>2. listeners' \in Seq(Offered) /\ Len(listeners') <= MaxListeners
  BY DEF EIInv, ETypeOK
<1> QED
  BY <1>1, <1>2, BusKeeps

\* register inserts at either end.
LEMMA InsertKeeps ==
  ASSUME EIInv, NEW r \in Registrars, Insert(r)
  PROVE  EIInv'
<1> DEFINE t == reg[r].token
<1>1. /\ reg[r].at = "insert" /\ entries' = Inserted(t)
      /\ reg'[r].at = "own" /\ reg'[r].token = t
      /\ \A q \in Registrars \ {r} : reg'[q] = reg[q]
      /\ UNCHANGED <<scope, effects, listeners, claimed, at, todo, runVars, callVars>>
      /\ reg' \in [Registrars -> [at : {"idle", "insert", "own"}, token : {0} \cup Tokens]]
  BY ZenonT(40) DEF Insert, EIInv, ETypeOK
<1>2. t \in Tokens /\ t \notin Range(entries) /\ t # 0
  BY <1>1 DEF EIInv, ETypeOK, RegInv
<1>3. entries \in Seq(Tokens) /\ IsInjective(entries)
  BY DEF EIInv, ETypeOK
<1> HIDE DEF t
<1>4. entries' \in Seq(Tokens) /\ IsInjective(entries') /\ Range(entries') = Range(entries) \cup {t}
  <2>1. CASE entries' = Append(entries, t)
    BY <1>2, <1>3, <2>1, AppendFacts
  <2>2. CASE entries' = <<t>> \o entries
    BY <1>2, <1>3, <2>2, PrependFacts
  <2> QED
    BY <1>1, <2>1, <2>2 DEF Inserted
<1>5. RegInv'
  <2>1. \A q \in Registrars : reg'[q].token = reg[q].token
    BY <1>1 DEF t
  <2>2. \A q \in Registrars \ {r} : reg[q].token # t
    BY <1>2 DEF t, EIInv, RegInv
  <2>3. \A q \in Registrars : reg'[q].at = "insert" => q # r
    BY <1>1
  <2> QED
    BY <1>1, <1>2, <1>4, <2>1, <2>2, <2>3, SMTT(30) DEF EIInv, RegInv
<1>6. OwnInv'
  BY <1>1, <1>4 DEF EIInv, OwnInv, t
<1> QED
  BY <1>1, <1>4, <1>5, <1>6, ListKeeps DEF EIInv, ETypeOK

\* The owner takes the listener over.
LEMMA OwnKeeps ==
  ASSUME EIInv, NEW r \in Registrars, Own(r)
  PROVE  EIInv'
<1> DEFINE t == reg[r].token
           o == listeners[t].owner
<1>1. /\ reg[r].at = "own" /\ scope[o] = "Active"
      /\ effects' = [effects EXCEPT ![o] = Append(@, t)]
      /\ reg'[r] = NoReg
      /\ \A q \in Registrars \ {r} : reg'[q] = reg[q]
      /\ UNCHANGED <<scope, listeners, entries, claimed, at, todo, runVars, callVars>>
      /\ reg' \in [Registrars -> [at : {"idle", "insert", "own"}, token : {0} \cup Tokens]]
  BY DEF Own, EIInv, ETypeOK, NoReg
<1>2. t \in Tokens /\ t # 0
  BY <1>1 DEF EIInv, ETypeOK, RegInv
<1>3. o \in Owners
  <2>1. listeners[t] \in Offered
    BY <1>2, ElementOfSeq, LenProperties DEF EIInv, ETypeOK, Tokens
  <2> QED
    BY <2>1, EventAssumption DEF Listeners
<1> HIDE DEF t, o
<1>4. /\ effects' \in [Owners -> Seq(Tokens)]
      /\ Range(effects'[o]) = Range(effects[o]) \cup {t}
      /\ \A p \in Owners \ {o} : effects'[p] = effects[p]
  <2>1. effects[o] \in Seq(Tokens) /\ effects \in [Owners -> Seq(Tokens)]
    BY <1>3 DEF EIInv, ETypeOK
  <2>2. /\ Append(effects[o], t) \in Seq(Tokens)
        /\ Range(Append(effects[o], t)) = Range(effects[o]) \cup {t}
    BY <1>2, <2>1, AppendFacts
  <2> QED
    BY <1>1, <1>3, <2>1, <2>2
<1>5. RegInv'
  <2>1. \A q \in Registrars \ {r} : reg[q].token # t
    BY <1>2 DEF t, EIInv, RegInv
  <2> QED
    BY <1>1, <2>1 DEF EIInv, RegInv, NoReg
<1>6. OwnInv'
  <2>1. ASSUME NEW u \in Range(entries)
        PROVE  \/ u \in Range(effects'[listeners[u].owner])
               \/ \E q \in Registrars : reg'[q].token = u
    <3>1. CASE u = t
      BY <1>4, <3>1 DEF o
    <3>2. CASE u # t /\ u \in Range(effects[listeners[u].owner])
      <4>1. listeners[u] \in Offered
        <5>1. u \in Tokens
          BY RangeOfSeq DEF EIInv, ETypeOK
        <5> QED
          BY <5>1, ElementOfSeq, LenProperties DEF EIInv, ETypeOK, Tokens
      <4>2. listeners[u].owner \in Owners
        BY <4>1, EventAssumption DEF Listeners
      <4> QED
        BY <1>4, <3>2, <4>2
    <3>3. CASE u # t /\ \E q \in Registrars : reg[q].token = u
      BY <1>1, <3>3 DEF t
    <3> QED
      BY <3>1, <3>2, <3>3 DEF EIInv, OwnInv
  <2>2. \A p \in Owners : scope'[p] = "Disposed" => effects'[p] = <<>>
    <3>1. scope[o] # "Disposed"
      BY <1>1
    <3> QED
      BY <1>1, <1>4, <3>1 DEF EIInv, OwnInv
  <2> QED
    BY <1>1, <2>1, <2>2 DEF OwnInv
<1> QED
  BY <1>1, <1>4, <1>5, <1>6, ListKeeps DEF EIInv, ETypeOK

\* The registration is rolled back.
LEMMA DisownKeeps ==
  ASSUME EIInv, NEW r \in Registrars, Disown(r)
  PROVE  EIInv'
<1> DEFINE t == reg[r].token
<1>1. /\ reg[r].at = "own" /\ entries' = RemoveFirst(entries, t)
      /\ reg'[r] = NoReg
      /\ \A q \in Registrars \ {r} : reg'[q] = reg[q]
      /\ UNCHANGED <<scope, effects, listeners, claimed, at, todo, runVars, callVars>>
      /\ reg' \in [Registrars -> [at : {"idle", "insert", "own"}, token : {0} \cup Tokens]]
  BY DEF Disown, RollBack, RemoveListener, EIInv, ETypeOK, NoReg
<1>2. t # 0
  BY <1>1 DEF EIInv, RegInv
<1> HIDE DEF t
<1>3. entries' \in Seq(Tokens) /\ IsInjective(entries') /\ Range(entries') = Range(entries) \ {t}
  BY <1>1, RemoveFacts DEF EIInv, ETypeOK
<1>4. RegInv'
  <2>1. \A q \in Registrars \ {r} : reg[q].token # t
    BY <1>2 DEF t, EIInv, RegInv
  <2> QED
    BY <1>1, <1>3, <2>1 DEF EIInv, RegInv, NoReg
<1>5. OwnInv'
  BY <1>1, <1>3 DEF EIInv, OwnInv, t
<1> QED
  BY <1>1, <1>3, <1>4, <1>5, ListKeeps DEF EIInv, ETypeOK

\* A handle removes its listener; the effect of the owner stays behind.
LEMMA RemoveHandleKeeps ==
  ASSUME EIInv, NEW t \in Tokens, RemoveHandle(t)
  PROVE  EIInv'
<1>1. /\ entries' = RemoveFirst(entries, t)
      /\ UNCHANGED <<scope, effects, listeners, claimed, reg, at, todo, runVars, callVars>>
  BY DEF RemoveHandle, RemoveListener
<1>2. entries' \in Seq(Tokens) /\ IsInjective(entries') /\ Range(entries') = Range(entries) \ {t}
  BY <1>1, RemoveFacts DEF EIInv, ETypeOK
<1>3. RegInv' /\ OwnInv'
  BY <1>1, <1>2 DEF EIInv, RegInv, OwnInv
<1> QED
  BY <1>1, <1>2, <1>3, ListKeeps DEF EIInv, ETypeOK

\* An owner is closed.
LEMMA CloseKeeps ==
  ASSUME EIInv, NEW o \in Owners, Close(o)
  PROVE  EIInv'
<1>1. /\ scope[o] = "Active" /\ scope' = [scope EXCEPT ![o] = "Disposing"]
      /\ UNCHANGED <<effects, listeners, entries, claimed, reg, at, todo, runVars, callVars>>
  BY DEF Close
<1>2. /\ scope' \in [Owners -> {"Active", "Disposing", "Disposed"}]
      /\ \A p \in Owners : scope[p] # "Active" => scope'[p] # "Active"
      /\ \A p \in Owners : scope'[p] = "Disposed" => scope[p] = "Disposed"
  BY <1>1 DEF EIInv, ETypeOK
<1>3. RegInv' /\ OwnInv'
  BY <1>1, <1>2 DEF EIInv, RegInv, OwnInv
<1> QED
  BY <1>1, <1>2, <1>3, ListKeeps DEF EIInv, ETypeOK

\* A disposer of a listener runs, or the disposal is over.
LEMMA DisposeKeeps ==
  ASSUME EIInv, NEW o \in Owners, Dispose(o)
  PROVE  EIInv'
<1>1. /\ scope[o] = "Disposing"
      /\ UNCHANGED <<listeners, claimed, reg, at, todo, runVars, callVars>>
  BY DEF Dispose
<1>2. CASE effects[o] = <<>>
  <2>1. /\ scope' = [scope EXCEPT ![o] = "Disposed"] /\ UNCHANGED <<effects, entries>>
    BY <1>2 DEF Dispose
  <2>2. /\ scope' \in [Owners -> {"Active", "Disposing", "Disposed"}]
        /\ \A p \in Owners : scope[p] # "Active" => scope'[p] # "Active"
        /\ \A p \in Owners : scope'[p] = "Disposed" => p = o \/ scope[p] = "Disposed"
    BY <2>1 DEF EIInv, ETypeOK
  <2>3. RegInv' /\ OwnInv'
    BY <1>1, <1>2, <2>1, <2>2 DEF EIInv, RegInv, OwnInv
  <2> QED
    BY <1>1, <2>1, <2>2, <2>3, ListKeeps DEF EIInv, ETypeOK
<1>3. CASE effects[o] # <<>>
  <2> DEFINE t == Last(effects[o])
  <2>1. /\ entries' = RemoveFirst(entries, t)
        /\ effects' = [effects EXCEPT ![o] = Front(@)] /\ scope' = scope
    BY <1>3 DEF Dispose, RemoveListener
  <2>2. /\ Front(effects[o]) \in Seq(Tokens)
        /\ Range(effects[o]) \subseteq Range(Front(effects[o])) \cup {t}
    BY <1>3, FrontFacts DEF EIInv, ETypeOK
  <2> HIDE DEF t
  <2>3. entries' \in Seq(Tokens) /\ IsInjective(entries') /\ Range(entries') = Range(entries) \ {t}
    BY <2>1, RemoveFacts DEF EIInv, ETypeOK
  <2>4. /\ effects' \in [Owners -> Seq(Tokens)]
        /\ effects'[o] = Front(effects[o])
        /\ \A p \in Owners \ {o} : effects'[p] = effects[p]
    BY <2>1, <2>2 DEF EIInv, ETypeOK
  <2>5. RegInv'
    BY <1>1, <2>3 DEF EIInv, RegInv
  <2>6. OwnInv'
    <3>1. ASSUME NEW u \in Range(entries), u # t, u \in Range(effects[listeners[u].owner])
          PROVE  u \in Range(effects'[listeners[u].owner])
      <4>1. listeners[u] \in Offered
        <5>1. u \in Tokens
          BY RangeOfSeq DEF EIInv, ETypeOK
        <5> QED
          BY <5>1, ElementOfSeq, LenProperties DEF EIInv, ETypeOK, Tokens
      <4>2. listeners[u].owner \in Owners
        BY <4>1, EventAssumption DEF Listeners
      <4> QED
        BY <2>2, <2>4, <3>1, <4>2
    <3>2. \A p \in Owners : scope'[p] = "Disposed" => effects'[p] = <<>>
      BY <1>1, <2>1, <2>4 DEF EIInv, OwnInv
    <3> QED
      BY <1>1, <2>3, <3>1, <3>2 DEF EIInv, OwnInv
  <2> QED
    BY <1>1, <2>1, <2>3, <2>4, <2>5, <2>6, ListKeeps DEF EIInv, ETypeOK
<1> QED
  BY <1>2, <1>3

-----------------------------------------------------------------------------
(***************************************************************************)
(* The steps of a dispatch                                                 *)
(***************************************************************************)
\* The other dispatches stay where they are.
Others(d) ==
  \A e \in Dispatchers \ {d} :
    /\ at'[e] = at[e] /\ mode'[e] = mode[e] /\ todo'[e] = todo[e] /\ snap'[e] = snap[e]
    /\ futures'[e] = futures[e] /\ called'[e] = called[e] /\ running'[e] = running[e]
    /\ fresh'[e] = fresh[e] /\ fails'[e] = fails[e] /\ outcome'[e] = outcome[e]
    /\ gone'[e] = gone[e]

\* What the step of d does to the claims: a once listener it takes was free,
\* and what it lets go of was refused.
Claims(d) ==
  /\ claimed \subseteq claimed' /\ refused \subseteq refused'
  /\ \A t \in Tokens :
       listeners[t].once /\ Holds(d, t)' => Holds(d, t) \/ (t \notin claimed /\ t \in claimed')
  /\ \A t \in claimed' : t \in claimed \/ Holds(d, t)'
  /\ \A t \in claimed : Holds(d, t) => Holds(d, t)' \/ t \in refused'

\* A step of one dispatch preserves the invariant if it does so for that
\* dispatch and treats the claims as it should.
LEMMA RunKeeps ==
  ASSUME EIInv, NEW d \in Dispatchers, Others(d),
         UNCHANGED <<scope, effects, listeners, reg>>, Range(entries') \subseteq Range(entries),
         ETypeOK', Claims(d), DispatchInv(d)'
  PROVE  EIInv'
<1>1. RegInv' /\ OwnInv'
  BY DEF EIInv, RegInv, OwnInv
<1>2. \A e \in Dispatchers \ {d} : \A t : Holds(e, t)' <=> Holds(e, t)
  BY DEF Others, Holds
<1>3. Tokens' = Tokens
  BY DEF Tokens
<1>4. ASSUME NEW e \in Dispatchers, NEW f \in Dispatchers, NEW t \in Tokens,
             listeners[t].once, Holds(e, t)'
      PROVE  t \in claimed' /\ (Holds(f, t)' => e = f)
  <2>1. \A g, h \in Dispatchers :
          Holds(g, t) => t \in claimed /\ (Holds(h, t) => g = h)
    BY <1>4 DEF EIInv, HoldInv
  <2>2. CASE e # d /\ f # d
    BY <1>2, <1>4, <2>1, <2>2 DEF Claims
  <2>3. CASE e = d
    BY <1>2, <1>4, <2>1, <2>3 DEF Claims
  <2>4. CASE f = d
    BY <1>2, <1>4, <2>1, <2>4 DEF Claims
  <2> QED
    BY <2>2, <2>3, <2>4
<1>5. ASSUME NEW t \in claimed' PROVE t \in refused' \/ \E e \in Dispatchers : Holds(e, t)'
  <2>1. CASE t \notin claimed
    BY <1>5, <2>1 DEF Claims
  <2>2. CASE t \in claimed
    <3>1. t \in refused \/ \E e \in Dispatchers : Holds(e, t)
      BY <2>2 DEF EIInv, HoldInv
    <3>2. CASE t \in refused
      BY <3>2 DEF Claims
    <3>3. ASSUME NEW e \in Dispatchers, Holds(e, t)
          PROVE  t \in refused' \/ \E f \in Dispatchers : Holds(f, t)'
      <4>1. CASE e = d
        BY <2>2, <3>3, <4>1 DEF Claims
      <4>2. CASE e # d
        BY <1>2, <3>3, <4>2
      <4> QED
        BY <4>1, <4>2
    <3> QED
      BY <3>1, <3>2, <3>3
  <2> QED
    BY <2>1, <2>2
<1>6. HoldInv'
  BY <1>3, <1>4, <1>5, Zenon DEF HoldInv
<1>7. ASSUME NEW e \in Dispatchers, e # d PROVE DispatchInv(e)'
  <2>1. /\ DispatchInv(e)
        /\ at'[e] = at[e] /\ mode'[e] = mode[e] /\ todo'[e] = todo[e] /\ snap'[e] = snap[e]
        /\ futures'[e] = futures[e] /\ called'[e] = called[e] /\ running'[e] = running[e]
        /\ fresh'[e] = fresh[e] /\ fails'[e] = fails[e] /\ outcome'[e] = outcome[e]
        /\ gone'[e] = gone[e]
    BY <1>7 DEF EIInv, Others
  <2>2. StageInv(e)' /\ SnapInv(e)' /\ CountInv(e)' /\ SilentInv(e)'
    BY <2>1 DEF DispatchInv, StageInv, SnapInv, CountInv, SilentInv, Scanning, Choosing, InTurn
  <2>3. OrderInv(e)'
    BY <2>1 DEF DispatchInv, OrderInv, Scanning, Choosing, InTurn
  <2>4. CoverInv(e)'
    BY <2>1 DEF DispatchInv, CoverInv, Scanning, Claims
  <2> QED
    BY <2>2, <2>3, <2>4 DEF DispatchInv
<1> QED
  BY <1>1, <1>6, <1>7, Zenon DEF EIInv

\* The types of a dispatch, and the parts of its invariant.
LEMMA DispatchTypes ==
  ASSUME EIInv, NEW d \in Dispatchers
  PROVE  /\ todo[d] \in Seq(Tokens) /\ snap[d] \in Seq(Tokens)
         /\ futures[d] \in Seq(Tokens) /\ called[d] \in Seq(Tokens)
         /\ running[d] \subseteq Range(called[d]) /\ fresh[d] \subseteq Range(called[d])
         /\ fails[d] \in Nat /\ mode[d] \in Modes
         /\ StageInv(d) /\ SnapInv(d) /\ OrderInv(d) /\ CoverInv(d) /\ CountInv(d)
         /\ SilentInv(d)
BY EventAssumption DEF EIInv, ETypeOK, DispatchInv

\* Only finitely many listeners run.
LEMMA RunningIsFinite ==
  ASSUME EIInv, NEW d \in Dispatchers
  PROVE  IsFiniteSet(running[d]) /\ Cardinality(running[d]) \in Nat
<1>1. /\ called[d] \in Seq(Tokens) /\ listeners \in Seq(Offered)
      /\ running[d] \subseteq Range(called[d])
  BY DEF EIInv, ETypeOK
<1>2. running[d] \subseteq 1 .. Len(listeners) /\ Len(listeners) \in Nat
  <2>1. Range(called[d]) \subseteq Tokens
    BY <1>1, RangeOfSeq
  <2> QED
    BY <1>1, <2>1, LenProperties DEF Tokens
<1>3. IsFiniteSet(1 .. Len(listeners))
  <2>1. 1 \in Int /\ Len(listeners) \in Int
    BY <1>2
  <2> QED
    BY <2>1, FS_Interval
<1>4. IsFiniteSet(running[d])
  BY <1>2, <1>3, FS_Subset
<1> QED
  BY <1>4, FS_CardinalityType

\* The bus starts to look for listeners.
LEMMA BeginKeeps ==
  ASSUME EIInv, NEW d \in Dispatchers, NEW m \in Modes, NEW v \in Views, Begin(d, m, v)
  PROVE  EIInv'
<1> USE EmptyFacts
<1>1. /\ at[d] = "idle" /\ at'[d] = "scan" /\ todo'[d] = entries
      /\ mode'[d] = m /\ gone'[d] = {o \in Owners : scope[o] # "Active"}
      /\ snap' = snap /\ futures' = futures /\ called' = called /\ running' = running
      /\ fresh' = fresh /\ fails' = fails /\ outcome' = outcome /\ refused' = refused
      /\ UNCHANGED busVars
  BY DEF Begin, EIInv, ETypeOK, callVars
<1>2. Others(d)
  BY DEF Begin, EIInv, ETypeOK, callVars, Others
<1>3. ETypeOK'
  <2>1. Tokens' = Tokens
    BY <1>1 DEF Tokens, busVars
  <2>2. entries \in Seq(Tokens)
    BY DEF EIInv, ETypeOK
  <2>3. todo' \in [Dispatchers -> Seq(Tokens)]
    BY <2>2 DEF Begin, EIInv, ETypeOK
  <2> QED
    BY <1>1, <2>1, <2>3 DEF Begin, EIInv, ETypeOK, busVars
<1>4. Claims(d)
  BY <1>1 DEF Claims, Holds, busVars
<1>5. /\ futures[d] = <<>> /\ called[d] = <<>> /\ running[d] = {} /\ snap[d] = <<>>
      /\ fresh[d] = {} /\ fails[d] = 0 /\ outcome[d] = "none"
  BY <1>1, DispatchTypes DEF StageInv, Scanning
<1>6. StageInv(d)'
  BY <1>1, <1>5 DEF StageInv, Scanning, Choosing, InTurn
<1>7. SnapInv(d)' /\ SilentInv(d)'
  BY <1>1, <1>5 DEF SnapInv, SilentInv, EIInv, ETypeOK, busVars
<1>8. OrderInv(d)' /\ CoverInv(d)' /\ CountInv(d)'
  BY <1>1 DEF OrderInv, CoverInv, CountInv, Scanning
<1> QED
  BY <1>1, <1>2, <1>3, <1>4, <1>6, <1>7, <1>8, RunKeeps DEF DispatchInv, busVars

\* The snapshot looks at one listener.
LEMMA ScanKeeps ==
  ASSUME EIInv, NEW d \in Dispatchers, Scan(d)
  PROVE  EIInv'
<1> USE DispatchTypes
<1> DEFINE t == Head(todo[d])
<1>1. /\ at[d] = "scan" /\ todo[d] # <<>> /\ todo'[d] = Tail(todo[d])
      /\ snap'[d] = IF Matches(t, view[d]) THEN Append(snap[d], t) ELSE snap[d]
      /\ UNCHANGED <<busVars, at, mode, view, gone, callVars>>
  BY DEF Scan, EIInv, ETypeOK
<1>2. Others(d)
  BY DEF Scan, EIInv, ETypeOK, callVars, Others
<1>3. /\ Tail(todo[d]) \in Seq(Tokens) /\ t \in Tokens
      /\ Range(todo[d]) = Range(Tail(todo[d])) \cup {t}
      /\ IsInjective(Tail(todo[d])) /\ t \notin Range(Tail(todo[d]))
  BY <1>1, TailFacts DEF SnapInv
<1> HIDE DEF t
<1>4. /\ snap'[d] \in Seq(Tokens) /\ IsInjective(snap'[d])
      /\ Range(snap'[d]) \subseteq Range(snap[d]) \cup {t}
      /\ t \in Range(snap'[d]) => Matches(t, view[d])
  <2>1. t \notin Range(snap[d]) /\ IsInjective(snap[d])
    BY <1>1, <1>3 DEF SnapInv
  <2>2. CASE Matches(t, view[d])
    BY <1>1, <1>3, <2>1, <2>2, AppendFacts
  <2>3. CASE ~Matches(t, view[d])
    BY <1>1, <2>1, <2>3
  <2> QED
    BY <2>2, <2>3
<1>5. ETypeOK'
  <2>1. Tokens' = Tokens
    BY <1>1 DEF Tokens, busVars
  <2>2. todo' \in [Dispatchers -> Seq(Tokens)] /\ snap' \in [Dispatchers -> Seq(Tokens)]
    BY <1>1, <1>3, <1>4 DEF Scan, EIInv, ETypeOK
  <2> QED
    BY <1>1, <2>1, <2>2 DEF EIInv, ETypeOK, busVars, callVars
<1>6. Claims(d)
  BY <1>1 DEF Claims, Holds, busVars, callVars
<1>7. StageInv(d)'
  BY <1>1 DEF StageInv, Scanning, Choosing, InTurn, callVars
<1>8. SnapInv(d)'
  BY <1>1, <1>3, <1>4 DEF SnapInv
<1>9. SilentInv(d)'
  BY <1>1, <1>4 DEF SilentInv, Matches, busVars
<1>10. OrderInv(d)' /\ CoverInv(d)' /\ CountInv(d)'
  BY <1>1 DEF OrderInv, CoverInv, CountInv, Scanning
<1> QED
  BY <1>1, <1>2, <1>5, <1>6, <1>7, <1>8, <1>9, <1>10, RunKeeps DEF DispatchInv, busVars

\* The snapshot is complete, and all of it is to be called.
LEMMA SnapshotKeeps ==
  ASSUME EIInv, NEW d \in Dispatchers, Snapshot(d)
  PROVE  EIInv'
<1> USE DispatchTypes, EmptyFacts
<1>1. /\ at[d] = "scan" /\ at'[d] = "claim" /\ todo'[d] = snap[d]
      /\ UNCHANGED <<busVars, mode, snap, gone, callVars>>
  BY DEF Snapshot, EIInv, ETypeOK
<1>2. Others(d)
  BY DEF Snapshot, EIInv, ETypeOK, callVars, Others
<1>3. ETypeOK'
  <2>1. Tokens' = Tokens
    BY <1>1 DEF Tokens, busVars
  <2>2. todo' \in [Dispatchers -> Seq(Tokens)]
    BY DEF Snapshot, EIInv, ETypeOK
  <2> QED
    BY <1>1, <2>1, <2>2 DEF Snapshot, EIInv, ETypeOK, busVars, callVars
<1>4. Claims(d)
  BY <1>1 DEF Claims, Holds, busVars, callVars
<1>5. /\ futures[d] = <<>> /\ called[d] = <<>> /\ running[d] = {}
      /\ fresh[d] = {} /\ fails[d] = 0 /\ outcome[d] = "none"
  BY <1>1 DEF StageInv, Scanning
<1>6. StageInv(d)'
  BY <1>1, <1>5 DEF StageInv, Scanning, Choosing, InTurn, callVars
<1>7. SnapInv(d)' /\ SilentInv(d)'
  BY <1>1 DEF SnapInv, SilentInv, busVars
<1>8. OrderInv(d)'
  BY <1>1, <1>5, OrderSelf DEF OrderInv, Scanning, Choosing, callVars, Ahead
<1>9. CoverInv(d)'
  BY <1>1 DEF CoverInv
<1>10. CountInv(d)'
  <2>1. Len(snap[d]) \in Nat /\ Cardinality({}) = 0
    BY LenProperties, FS_EmptySet
  <2> QED
    BY <1>1, <1>5, <2>1 DEF CountInv, callVars
<1> QED
  BY <1>1, <1>2, <1>3, <1>4, <1>6, <1>7, <1>8, <1>9, <1>10, RunKeeps DEF DispatchInv, busVars

\* One listener moves from the rest to the futures.
LEMMA CountShift ==
  \A a, b, c, e, n \in Nat :
    e # 0 /\ a + b + c + e <= n => a + b + (c + 1) + (e - 1) <= n
OBVIOUS

\* A step behind the snapshot leaves what was said of the snapshot.
LEMMA SnapStays ==
  ASSUME EIInv, NEW d \in Dispatchers, UNCHANGED <<scope, listeners, snap, gone>>,
         ~Scanning(d)'
  PROVE  SnapInv(d)' /\ SilentInv(d)'
BY DispatchTypes DEF SnapInv, SilentInv, Scanning

\* The listener at the head may be called: what it does to the dispatch.
LEMMA ReadyKeeps ==
  ASSUME EIInv, NEW d \in Dispatchers, at[d] \in {"claim", "unlist"}, todo[d] # <<>>,
         outcome[d] = "none" \/ mode[d] = "waterfall",
         Ready(d), claimed \subseteq claimed',
         UNCHANGED <<scope, effects, listeners, reg, runVars, called, running, fresh, fails,
                     outcome, refused>>
  PROVE  /\ Others(d)
         /\ at' \in [Dispatchers -> {"idle", "scan", "claim", "unlist", "call", "wait"}]
         /\ todo' \in [Dispatchers -> Seq(Tokens)] /\ futures' \in [Dispatchers -> Seq(Tokens)]
         /\ \A t : Holds(d, t)' <=> t = Head(todo[d]) \/ Holds(d, t)
         /\ DispatchInv(d)'
<1> USE DispatchTypes, EmptyFacts DEF runVars
<1> DEFINE h == Head(todo[d])
<1>1. /\ Tail(todo[d]) \in Seq(Tokens) /\ h \in Tokens
      /\ Len(Tail(todo[d])) = Len(todo[d]) - 1 /\ Len(todo[d]) \in Nat \ {0}
      /\ Range(todo[d]) = Range(Tail(todo[d])) \cup {h}
  BY TailFacts
<1>2. InOrder(snap[d], Tail(todo[d])) /\ Ahead(snap[d], {h}, Range(Tail(todo[d])))
  BY OrderTail DEF OrderInv, Scanning
<1>3. CASE mode[d] = "parallel"
  <2>1. /\ futures' = [futures EXCEPT ![d] = Append(@, h)]
        /\ todo' = [todo EXCEPT ![d] = Tail(@)]
        /\ at' = [at EXCEPT ![d] = "claim"]
    BY <1>3 DEF Ready, ClaimsFirst
  <2> HIDE DEF h
  <2>2. /\ Append(futures[d], h) \in Seq(Tokens)
        /\ Len(Append(futures[d], h)) = Len(futures[d]) + 1 /\ Len(futures[d]) \in Nat
        /\ Range(Append(futures[d], h)) = Range(futures[d]) \cup {h}
    BY <1>1, AppendFacts
  <2>3. /\ futures'[d] = Append(futures[d], h) /\ todo'[d] = Tail(todo[d]) /\ at'[d] = "claim"
        /\ Others(d)
        /\ at' \in [Dispatchers -> {"idle", "scan", "claim", "unlist", "call", "wait"}]
        /\ todo' \in [Dispatchers -> Seq(Tokens)] /\ futures' \in [Dispatchers -> Seq(Tokens)]
    BY <1>1, <2>1, <2>2 DEF EIInv, ETypeOK, Others
  <2>4. \A t : Holds(d, t)' <=> t = h \/ Holds(d, t)
    BY <2>2, <2>3 DEF Holds, h
  <2>5. StageInv(d)'
    BY <1>3, <2>3 DEF StageInv, Scanning, Choosing, InTurn
  <2>6. OrderInv(d)'
    <3>1. /\ Range(called[d]) \cup Range(futures[d]) \cup Range(todo[d]) \subseteq Range(snap[d])
          /\ InOrder(snap[d], called[d]) /\ InOrder(snap[d], futures[d])
          /\ Ahead(snap[d], Range(called[d]), Range(futures[d]))
          /\ Ahead(snap[d], Range(called[d]) \cup Range(futures[d]), Range(todo[d]))
          /\ \A t \in fresh[d], u \in Range(called[d]) : u = t \/ Precedes(snap[d], u, t)
      BY DEF OrderInv, Scanning, Choosing
    <3>2. InOrder(snap[d], futures'[d])
      <4>1. Ahead(snap[d], Range(futures[d]), {h})
        BY <1>1, <3>1 DEF Ahead
      <4> QED
        BY <1>1, <2>3, <3>1, <4>1, OrderAppend
    <3>3. Ahead(snap[d], Range(called[d]), Range(futures'[d]))
      BY <1>1, <2>2, <2>3, <3>1 DEF Ahead
    <3>4. Ahead(snap[d], Range(called[d]) \cup Range(futures'[d]), Range(todo'[d]))
      BY <1>1, <1>2, <2>2, <2>3, <3>1 DEF Ahead
    <3>5. Range(called[d]) \cup Range(futures'[d]) \cup Range(todo'[d]) \subseteq Range(snap[d])
      BY <1>1, <2>2, <2>3, <3>1
    <3>6. ~InTurn(d)'
      BY <1>3 DEF InTurn
    <3> QED
      BY <1>2, <2>3, <3>1, <3>2, <3>3, <3>4, <3>5, <3>6 DEF OrderInv
  <2>7. CoverInv(d)'
    BY <1>1, <2>2, <2>3 DEF CoverInv, Scanning
  <2>8. CountInv(d)'
    <3>1. fails[d] + Cardinality(running[d]) + Len(futures[d]) + Len(todo[d]) <= Len(snap[d])
      BY <1>3 DEF CountInv, Scanning
    <3>2. Cardinality(running[d]) \in Nat
      BY RunningIsFinite
    <3>3. Len(snap[d]) \in Nat
      BY LenProperties
    <3>4. fails[d] + Cardinality(running[d]) + (Len(futures[d]) + 1) + (Len(todo[d]) - 1)
            <= Len(snap[d])
      BY <1>1, <2>2, <3>1, <3>2, <3>3, CountShift
    <3>5. /\ Len(futures'[d]) = Len(futures[d]) + 1 /\ Len(todo'[d]) = Len(todo[d]) - 1
          /\ fails'[d] = fails[d] /\ running'[d] = running[d] /\ snap'[d] = snap[d]
      BY <1>1, <2>2, <2>3
    <3> QED
      BY <3>4, <3>5, Zenon DEF CountInv
  <2>9. SnapInv(d)' /\ SilentInv(d)'
    BY <2>3, SnapStays DEF Scanning
  <2> QED
    BY <2>3, <2>4, <2>5, <2>6, <2>7, <2>8, <2>9 DEF DispatchInv, h
<1>4. CASE mode[d] # "parallel"
  <2>1. /\ futures' = futures /\ todo' = todo /\ at' = [at EXCEPT ![d] = "call"]
    BY <1>4 DEF Ready, ClaimsFirst
  <2>2. /\ at'[d] = "call" /\ Others(d)
        /\ at' \in [Dispatchers -> {"idle", "scan", "claim", "unlist", "call", "wait"}]
        /\ todo' \in [Dispatchers -> Seq(Tokens)] /\ futures' \in [Dispatchers -> Seq(Tokens)]
    BY <2>1 DEF EIInv, ETypeOK, Others
  <2>3. \A t : Holds(d, t)' <=> t = h \/ Holds(d, t)
    BY <2>1, <2>2 DEF Holds
  <2>4. StageInv(d)'
    BY <1>4, <2>1, <2>2 DEF StageInv, Scanning, Choosing, InTurn
  <2>5. OrderInv(d)'
    BY <2>1, <2>2 DEF OrderInv, Scanning, Choosing, InTurn
  <2>6. CoverInv(d)' /\ CountInv(d)'
    BY <1>4, <2>1, <2>2 DEF CoverInv, CountInv, Scanning
  <2>7. SnapInv(d)' /\ SilentInv(d)'
    BY <2>2, SnapStays DEF Scanning
  <2> QED
    BY <2>1, <2>2, <2>3, <2>4, <2>5, <2>6, <2>7 DEF DispatchInv
<1> QED
  BY <1>3, <1>4

\* A dispatch that still has listeners to try has no outcome, unless the rest
\* of a chain runs behind it.
LEMMA StillOpen ==
  ASSUME EIInv, NEW d \in Dispatchers, Choosing(d), todo[d] # <<>>
  PROVE  outcome[d] = "none" \/ mode[d] = "waterfall"
BY DispatchTypes DEF StageInv, InTurn, Modes

\* A plain listener needs no claim.
LEMMA ClaimPlainKeeps ==
  ASSUME EIInv, NEW d \in Dispatchers, ClaimPlain(d)
  PROVE  EIInv'
<1>1. /\ at[d] = "claim" /\ todo[d] # <<>> /\ ~listeners[Head(todo[d])].once /\ Ready(d)
      /\ UNCHANGED <<busVars, runVars, called, running, fresh, fails, outcome, refused>>
  BY DEF ClaimPlain
<1>2. outcome[d] = "none" \/ mode[d] = "waterfall"
  BY <1>1, StillOpen DEF Choosing
<1>3. /\ Others(d)
      /\ at' \in [Dispatchers -> {"idle", "scan", "claim", "unlist", "call", "wait"}]
      /\ todo' \in [Dispatchers -> Seq(Tokens)] /\ futures' \in [Dispatchers -> Seq(Tokens)]
      /\ \A t : Holds(d, t)' <=> t = Head(todo[d]) \/ Holds(d, t)
      /\ DispatchInv(d)'
  BY <1>1, <1>2, ReadyKeeps DEF busVars
<1>4. ETypeOK'
  <2>1. Tokens' = Tokens
    BY <1>1 DEF Tokens, busVars
  <2> QED
    BY <1>1, <1>3, <2>1 DEF EIInv, ETypeOK, busVars, runVars
<1>5. Claims(d)
  BY <1>1, <1>3 DEF Claims, busVars
<1> QED
  BY <1>1, <1>3, <1>4, <1>5, RunKeeps DEF busVars

\* The flag of a once listener is set.
LEMMA ClaimOnceKeeps ==
  ASSUME EIInv, NEW d \in Dispatchers, ClaimOnce(d)
  PROVE  EIInv'
<1> USE DispatchTypes
<1> DEFINE h == Head(todo[d])
<1>1. /\ at[d] = "claim" /\ todo[d] # <<>> /\ listeners[h].once /\ h \notin claimed
      /\ claimed' = claimed \cup {h} /\ at' = [at EXCEPT ![d] = "unlist"] /\ at'[d] = "unlist"
      /\ UNCHANGED <<scope, effects, listeners, entries, reg, todo, runVars, callVars>>
  BY DEF ClaimOnce, Free, EIInv, ETypeOK
<1>2. Others(d)
  BY <1>1 DEF EIInv, ETypeOK, runVars, callVars, Others
<1>3. h \in Tokens
  BY <1>1, TailFacts
<1>4. ETypeOK'
  <2>1. Tokens' = Tokens
    BY <1>1 DEF Tokens
  <2> QED
    BY <1>1, <1>3, <2>1 DEF EIInv, ETypeOK, runVars, callVars
<1>5. Claims(d)
  BY <1>1 DEF Claims, Holds, callVars
<1>6. StageInv(d)'
  BY <1>1 DEF StageInv, Scanning, Choosing, InTurn, runVars, callVars
<1>7. OrderInv(d)'
  BY <1>1 DEF OrderInv, Scanning, Choosing, InTurn, runVars, callVars
<1>8. CoverInv(d)' /\ CountInv(d)'
  BY <1>1 DEF CoverInv, CountInv, Scanning, runVars, callVars
<1>9. SnapInv(d)' /\ SilentInv(d)'
  BY <1>1, SnapStays DEF Scanning, runVars
<1> QED
  BY <1>1, <1>2, <1>4, <1>5, <1>6, <1>7, <1>8, <1>9, RunKeeps DEF DispatchInv

\* The once listener is removed, and may be called.
LEMMA UnlistKeeps ==
  ASSUME EIInv, NEW d \in Dispatchers, Unlist(d)
  PROVE  EIInv'
<1>1. /\ at[d] = "unlist" /\ entries' = RemoveFirst(entries, Head(todo[d])) /\ Ready(d)
      /\ UNCHANGED <<scope, effects, listeners, claimed, reg, runVars, called, running,
                     fresh, fails, outcome, refused>>
  BY DEF Unlist, RemoveListener
<1>2. todo[d] # <<>>
  BY <1>1, DispatchTypes DEF StageInv
<1>3. outcome[d] = "none" \/ mode[d] = "waterfall"
  BY <1>1, <1>2, StillOpen DEF Choosing
<1>4. /\ Others(d)
      /\ at' \in [Dispatchers -> {"idle", "scan", "claim", "unlist", "call", "wait"}]
      /\ todo' \in [Dispatchers -> Seq(Tokens)] /\ futures' \in [Dispatchers -> Seq(Tokens)]
      /\ \A t : Holds(d, t)' <=> t = Head(todo[d]) \/ Holds(d, t)
      /\ DispatchInv(d)'
  BY <1>1, <1>2, <1>3, ReadyKeeps
<1>5. entries' \in Seq(Tokens) /\ IsInjective(entries') /\ Range(entries') \subseteq Range(entries)
  BY <1>1, RemoveFacts DEF EIInv, ETypeOK
<1>6. ETypeOK'
  <2>1. Tokens' = Tokens
    BY <1>1 DEF Tokens
  <2> QED
    BY <1>1, <1>4, <1>5, <2>1 DEF EIInv, ETypeOK, runVars
<1>7. Claims(d)
  <2>1. Holds(d, Head(todo[d]))
    BY <1>1 DEF Holds
  <2> QED
    BY <1>1, <1>4, <2>1 DEF Claims
<1> QED
  BY <1>1, <1>4, <1>5, <1>6, <1>7, RunKeeps

\* Another dispatch was first.
LEMMA SkipKeeps ==
  ASSUME EIInv, NEW d \in Dispatchers, Skip(d)
  PROVE  EIInv'
<1> USE DispatchTypes
<1> DEFINE h == Head(todo[d])
<1>1. /\ at[d] = "claim" /\ todo[d] # <<>> /\ h \in claimed
      /\ todo' = [todo EXCEPT ![d] = Tail(@)] /\ todo'[d] = Tail(todo[d])
      /\ UNCHANGED <<busVars, at, runVars, callVars>>
  BY DEF Skip, Free, EIInv, ETypeOK
<1>2. Others(d)
  BY <1>1 DEF EIInv, ETypeOK, runVars, callVars, Others
<1>3. /\ Tail(todo[d]) \in Seq(Tokens) /\ h \in Tokens
      /\ Len(Tail(todo[d])) = Len(todo[d]) - 1 /\ Len(todo[d]) \in Nat \ {0}
      /\ Range(todo[d]) = Range(Tail(todo[d])) \cup {h}
  BY <1>1, TailFacts
<1>4. InOrder(snap[d], Tail(todo[d]))
  BY <1>1, OrderTail DEF OrderInv, Scanning
<1> HIDE DEF h
<1>5. ETypeOK'
  <2>1. Tokens' = Tokens
    BY <1>1 DEF Tokens, busVars
  <2>2. todo' \in [Dispatchers -> Seq(Tokens)]
    BY <1>1, <1>3 DEF EIInv, ETypeOK
  <2> QED
    BY <1>1, <2>1, <2>2 DEF EIInv, ETypeOK, busVars, runVars, callVars
<1>6. Claims(d)
  BY <1>1 DEF Claims, Holds, busVars, callVars
<1>7. StageInv(d)'
  <2>1. outcome[d] = "none" \/ mode[d] = "waterfall"
    BY <1>1, StillOpen DEF Choosing
  <2> QED
    BY <1>1, <2>1 DEF StageInv, Scanning, Choosing, InTurn, runVars, callVars
<1>8. OrderInv(d)'
  BY <1>1, <1>3, <1>4 DEF OrderInv, Scanning, Choosing, InTurn, Ahead, StageInv, runVars, callVars
<1>9. CoverInv(d)'
  BY <1>1, <1>3 DEF CoverInv, Scanning, busVars, runVars, callVars
<1>10. CountInv(d)'
  <2>1. Cardinality(running[d]) \in Nat /\ Len(snap[d]) \in Nat /\ Len(futures[d]) \in Nat
    BY RunningIsFinite, LenProperties
  <2> QED
    BY <1>1, <1>3, <2>1, SMTT(30) DEF CountInv, Scanning, runVars, callVars
<1>11. SnapInv(d)' /\ SilentInv(d)'
  BY <1>1, SnapStays DEF Scanning, busVars, runVars
<1> QED
  BY <1>1, <1>2, <1>5, <1>6, <1>7, <1>8, <1>9, <1>10, <1>11, RunKeeps DEF DispatchInv, busVars

\* No listener is in a snapshot twice, so a snapshot is not longer than the
\* list of registrations.
LEMMA SnapBound ==
  ASSUME EIInv, NEW d \in Dispatchers
  PROVE  Len(snap[d]) \in Nat /\ Len(snap[d]) <= MaxListeners
<1>1. /\ snap[d] \in Seq(Tokens) /\ IsInjective(snap[d])
      /\ listeners \in Seq(Offered) /\ Len(listeners) <= MaxListeners /\ MaxListeners \in Nat
  BY DispatchTypes, EventAssumption DEF SnapInv, EIInv, ETypeOK
<1>2. /\ Len(snap[d]) \in Nat /\ Len(listeners) \in Nat /\ Tokens = 1 .. Len(listeners)
      /\ snap[d] \in [1 .. Len(snap[d]) -> Tokens]
  BY <1>1, LenProperties DEF Tokens
<1>3. ExistsInjection(1 .. Len(snap[d]), 1 .. Len(listeners))
  BY <1>1, <1>2 DEF ExistsInjection, Injection
<1>4. Len(snap[d]) <= Len(listeners)
  BY <1>2, <1>3, Fun_NatInjLeq
<1> QED
  BY <1>1, <1>2, <1>4

\* A listener is called in a mode other than parallel.
LEMMA CallKeeps ==
  ASSUME EIInv, NEW d \in Dispatchers, Call(d)
  PROVE  EIInv'
<1> USE DispatchTypes, EmptyFacts
<1> DEFINE h == Head(todo[d])
<1>1. /\ at[d] = "call" /\ at' = [at EXCEPT ![d] = "wait"] /\ at'[d] = "wait"
      /\ called' = [called EXCEPT ![d] = Append(@, h)] /\ called'[d] = Append(called[d], h)
      /\ running' = [running EXCEPT ![d] = @ \cup {h}] /\ running'[d] = running[d] \cup {h}
      /\ fresh' = IF mode[d] = "waterfall" THEN [fresh EXCEPT ![d] = @ \cup {h}] ELSE fresh
      /\ fresh'[d] = IF mode[d] = "waterfall" THEN fresh[d] \cup {h} ELSE fresh[d]
      /\ UNCHANGED <<busVars, todo, runVars, futures, fails, outcome, refused>>
  BY DEF Call, Enter, EIInv, ETypeOK
<1>2. Others(d)
  BY <1>1 DEF EIInv, ETypeOK, runVars, Others
<1>3. /\ todo[d] # <<>> /\ mode[d] # "parallel" /\ futures[d] = <<>> /\ fresh[d] = {}
      /\ fails[d] = 0
      /\ InTurn(d) => running[d] = {} /\ outcome[d] = "none"
  BY <1>1 DEF StageInv, Choosing
<1>4. /\ h \in Tokens /\ Range(todo[d]) = Range(Tail(todo[d])) \cup {h}
      /\ Ahead(snap[d], {h}, Range(Tail(todo[d])))
  <2>1. InOrder(snap[d], todo[d])
    BY <1>1 DEF OrderInv, Scanning
  <2> QED
    BY <1>3, <2>1, TailFacts, OrderTail
<1>5. /\ Append(called[d], h) \in Seq(Tokens)
      /\ Range(called'[d]) = Range(called[d]) \cup {h}
  BY <1>1, <1>4, AppendFacts
<1> HIDE DEF h
<1>6. ETypeOK'
  <2>1. Tokens' = Tokens
    BY <1>1 DEF Tokens, busVars
  <2>2. called' \in [Dispatchers -> Seq(Tokens)]
    BY <1>1, <1>5 DEF EIInv, ETypeOK
  <2>3. running' \in [Dispatchers -> SUBSET Tokens] /\ fresh' \in [Dispatchers -> SUBSET Tokens]
    BY <1>1, <1>4 DEF EIInv, ETypeOK
  <2>4. \A e \in Dispatchers : running'[e] \cup fresh'[e] \subseteq Range(called'[e])
    <3>1. running'[d] \cup fresh'[d] \subseteq Range(called'[d])
      BY <1>1, <1>5
    <3>2. \A e \in Dispatchers \ {d} : running'[e] \cup fresh'[e] \subseteq Range(called'[e])
      BY <1>2 DEF Others, EIInv, ETypeOK
    <3> QED
      BY <3>1, <3>2
  <2> QED
    BY <1>1, <2>1, <2>2, <2>3, <2>4 DEF EIInv, ETypeOK, busVars, runVars
<1>7. Claims(d)
  BY <1>1, <1>5 DEF Claims, Holds, busVars, h
<1>8. StageInv(d)'
  <2>1. InTurn(d) => running'[d] = {h}
    BY <1>1, <1>3
  <2> QED
    BY <1>1, <1>3, <2>1 DEF StageInv, Scanning, Choosing, InTurn, Modes, runVars, h
<1>9. OrderInv(d)'
  <2>1. /\ Range(called[d]) \cup Range(futures[d]) \cup Range(todo[d]) \subseteq Range(snap[d])
        /\ InOrder(snap[d], called[d]) /\ InOrder(snap[d], todo[d])
        /\ Ahead(snap[d], Range(called[d]) \cup Range(futures[d]), Range(todo[d]))
    BY <1>1 DEF OrderInv, Scanning, Choosing
  <2>2. Ahead(snap[d], Range(called[d]), {h})
    BY <1>4, <2>1 DEF Ahead
  <2>3. InOrder(snap[d], called'[d])
    BY <1>1, <1>4, <2>1, <2>2, OrderAppend
  <2>4. Ahead(snap[d], Range(called'[d]), Range(Tail(todo[d])))
    BY <1>4, <1>5, <2>1 DEF Ahead
  <2>5. \A t \in fresh'[d], u \in Range(called'[d]) : u = t \/ Precedes(snap[d], u, t)
    BY <1>1, <1>3, <1>5, <2>2 DEF Ahead
  <2>6. Range(called'[d]) \cup Range(futures[d]) \cup Range(todo[d]) \subseteq Range(snap[d])
    BY <1>4, <1>5, <2>1
  <2>7. Ahead(snap[d], Range(called'[d]), Range(futures[d]))
    BY <1>3 DEF Ahead
  <2>8. InOrder(snap[d], futures[d])
    BY <1>3
  <2> QED
    BY <1>1, <2>1, <2>3, <2>4, <2>5, <2>6, <2>7, <2>8 DEF OrderInv, Choosing, runVars
<1>10. CoverInv(d)'
  BY <1>1, <1>5 DEF CoverInv, Scanning, busVars, runVars
<1>11. CountInv(d)'
  BY <1>1, <1>3 DEF CountInv, runVars
<1>12. SnapInv(d)' /\ SilentInv(d)'
  BY <1>1, SnapStays DEF Scanning, busVars, runVars
<1> QED
  BY <1>1, <1>2, <1>6, <1>7, <1>8, <1>9, <1>10, <1>11, <1>12, RunKeeps DEF DispatchInv, busVars

\* A listener that the mode cannot call.
LEMMA RefuseKeeps ==
  ASSUME EIInv, NEW d \in Dispatchers, Refuse(d)
  PROVE  EIInv'
<1> USE DispatchTypes
<1> DEFINE h == Head(todo[d])
<1>1. /\ at[d] = "call" /\ at' = [at EXCEPT ![d] = "wait"] /\ at'[d] = "wait"
      /\ outcome' \in {outcome, [outcome EXCEPT ![d] = "Failed"]}
      /\ InTurn(d) => outcome'[d] = "Failed"
      /\ refused' = refused \cup {h}
      /\ UNCHANGED <<busVars, todo, runVars, futures, called, running, fresh, fails>>
  BY DEF Refuse, Record, EIInv, ETypeOK
<1>2. Others(d) /\ outcome'[d] \in {outcome[d], "Failed"}
  BY <1>1 DEF EIInv, ETypeOK, runVars, Others
<1>3. /\ todo[d] # <<>> /\ mode[d] # "parallel" /\ fresh[d] = {}
      /\ InTurn(d) => running[d] = {}
  BY <1>1 DEF StageInv, Choosing
<1>4. h \in Tokens
  BY <1>3, TailFacts
<1>5. ETypeOK'
  <2>1. Tokens' = Tokens
    BY <1>1 DEF Tokens, busVars
  <2> QED
    BY <1>1, <1>4, <2>1, ZenonT(60) DEF EIInv, ETypeOK, busVars, runVars
<1>6. Claims(d)
  BY <1>1 DEF Claims, Holds, busVars
<1>7. StageInv(d)'
  BY <1>1, <1>2, <1>3 DEF StageInv, Scanning, Choosing, InTurn, Modes, runVars
<1>8. OrderInv(d)'
  BY <1>1, <1>3 DEF OrderInv, Scanning, Choosing, InTurn, runVars
<1>9. CoverInv(d)' /\ CountInv(d)'
  BY <1>1, <1>3 DEF CoverInv, CountInv, Scanning, busVars, runVars
<1>10. SnapInv(d)' /\ SilentInv(d)'
  BY <1>1, SnapStays DEF Scanning, busVars, runVars
<1> QED
  BY <1>1, <1>2, <1>5, <1>6, <1>7, <1>8, <1>9, <1>10, RunKeeps DEF DispatchInv, busVars

\* A listener of emit, bail or serial returns.
LEMMA ReturnInTurnKeeps ==
  ASSUME EIInv, NEW d \in Dispatchers, NEW t, NEW result, ReturnInTurn(d, t, result)
  PROVE  EIInv'
<1> USE DispatchTypes
<1>1. /\ InTurn(d) /\ t \in running[d]
      /\ running' = [running EXCEPT ![d] = {}] /\ running'[d] = {}
      /\ UNCHANGED <<busVars, runVars, futures, called, fresh, fails, refused>>
  BY DEF ReturnInTurn, EIInv, ETypeOK
<1>2. /\ at[d] = "wait" /\ outcome[d] = "none" /\ todo[d] # <<>> /\ running[d] = {Head(todo[d])}
      /\ fresh[d] = {} /\ futures[d] = <<>> /\ fails[d] = 0 /\ mode[d] # "parallel"
      /\ mode[d] # "waterfall"
  BY <1>1 DEF StageInv, InTurn
<1>3. Tokens' = Tokens
  BY <1>1 DEF Tokens, busVars
<1>4. CASE Stops(d, result)
  <2>1. /\ outcome' = [outcome EXCEPT ![d] = IF result = "error" THEN "Failed" ELSE "Bailed"]
        /\ at' = at /\ todo' = todo /\ outcome'[d] \in {"Failed", "Bailed"}
    BY <1>4 DEF ReturnInTurn, Record, EIInv, ETypeOK
  <2>2. Others(d)
    BY <1>1, <2>1 DEF EIInv, ETypeOK, runVars, Others
  <2>3. ETypeOK'
    <3>1. outcome' \in [Dispatchers -> {"none", "Completed", "Bailed", "Failed", "Dropped"}]
      BY <2>1 DEF EIInv, ETypeOK
    <3>2. /\ running' \in [Dispatchers -> SUBSET Tokens]
          /\ \A e \in Dispatchers : running'[e] \cup fresh'[e] \subseteq Range(called'[e])
      BY <1>1 DEF EIInv, ETypeOK
    <3> QED
      BY <1>1, <1>3, <2>1, <3>1, <3>2 DEF EIInv, ETypeOK, busVars, runVars
  <2>4. Claims(d)
    BY <1>1, <2>1 DEF Claims, Holds, busVars
  <2>5. StageInv(d)'
    BY <1>1, <1>2, <2>1 DEF StageInv, Scanning, Choosing, InTurn, runVars
  <2>6. OrderInv(d)'
    BY <1>1, <1>2, <2>1 DEF OrderInv, Scanning, Choosing, InTurn, runVars
  <2>7. CoverInv(d)' /\ CountInv(d)'
    BY <1>1, <1>2, <2>1 DEF CoverInv, CountInv, Scanning, busVars, runVars
  <2>8. SnapInv(d)' /\ SilentInv(d)'
    BY <1>1, <1>2, <2>1, SnapStays DEF Scanning, busVars, runVars
  <2> QED
    BY <1>1, <2>2, <2>3, <2>4, <2>5, <2>6, <2>7, <2>8, RunKeeps DEF DispatchInv, busVars
<1>5. CASE ~Stops(d, result)
  <2>1. /\ at' = [at EXCEPT ![d] = "claim"] /\ at'[d] = "claim"
        /\ todo' = [todo EXCEPT ![d] = Tail(@)] /\ todo'[d] = Tail(todo[d])
        /\ outcome' = outcome
    BY <1>5 DEF ReturnInTurn, EIInv, ETypeOK
  <2>2. Others(d)
    BY <1>1, <2>1 DEF EIInv, ETypeOK, runVars, Others
  <2>3. /\ Tail(todo[d]) \in Seq(Tokens) /\ Head(todo[d]) \in Range(called[d])
        /\ Range(todo[d]) = Range(Tail(todo[d])) \cup {Head(todo[d])}
        /\ InOrder(snap[d], Tail(todo[d]))
    <3>1. InOrder(snap[d], todo[d])
      BY <1>2 DEF OrderInv, Scanning
    <3> QED
      BY <1>1, <1>2, <3>1, TailFacts, OrderTail
  <2>4. ETypeOK'
    <3>1. todo' \in [Dispatchers -> Seq(Tokens)]
      BY <2>1, <2>3 DEF EIInv, ETypeOK
    <3>2. /\ running' \in [Dispatchers -> SUBSET Tokens]
          /\ \A e \in Dispatchers : running'[e] \cup fresh'[e] \subseteq Range(called'[e])
      BY <1>1 DEF EIInv, ETypeOK
    <3> QED
      BY <1>1, <1>3, <2>1, <3>1, <3>2 DEF EIInv, ETypeOK, busVars, runVars
  <2>5. Claims(d)
    BY <1>1, <1>2, <2>1 DEF Claims, Holds, busVars
  <2>6. StageInv(d)'
    BY <1>1, <1>2, <2>1 DEF StageInv, Scanning, Choosing, InTurn, runVars
  <2>7. OrderInv(d)'
    <3>1. /\ Range(called[d]) \cup Range(futures[d]) \cup Range(todo[d]) \subseteq Range(snap[d])
          /\ InOrder(snap[d], called[d]) /\ InOrder(snap[d], futures[d])
          /\ Ahead(snap[d], Range(called[d]), Range(futures[d]))
          /\ Ahead(snap[d], Range(called[d]), Range(Tail(todo[d])))
      BY <1>1, <1>2 DEF OrderInv, Scanning
    <3>2. Range(futures[d]) = {}
      BY <1>2, EmptyFacts
    <3> QED
      BY <1>1, <1>2, <2>1, <2>3, <3>1, <3>2 DEF OrderInv, InTurn, runVars
  <2>8. CoverInv(d)' /\ CountInv(d)'
    BY <1>1, <1>2, <2>1, <2>3 DEF CoverInv, CountInv, Scanning, busVars, runVars
  <2>9. SnapInv(d)' /\ SilentInv(d)'
    BY <1>1, <2>1, SnapStays DEF Scanning, busVars, runVars
  <2> QED
    BY <1>1, <2>2, <2>4, <2>5, <2>6, <2>7, <2>8, <2>9, RunKeeps DEF DispatchInv, busVars
<1> QED
  BY <1>4, <1>5

\* No listener is left.
LEMMA ExhaustedKeeps ==
  ASSUME EIInv, NEW d \in Dispatchers, Exhausted(d)
  PROVE  EIInv'
<1> USE DispatchTypes
<1>1. /\ at[d] = "claim" /\ todo[d] = <<>> /\ mode[d] # "parallel"
      /\ at' = [at EXCEPT ![d] = "wait"] /\ at'[d] = "wait"
      /\ outcome' \in {outcome, [outcome EXCEPT ![d] = "Completed"]}
      /\ UNCHANGED <<busVars, todo, runVars, futures, called, running, fresh, fails, refused>>
  BY DEF Exhausted, Record, EIInv, ETypeOK
<1>2. Others(d) /\ outcome'[d] \in {outcome[d], "Completed"}
  BY <1>1 DEF EIInv, ETypeOK, runVars, Others
<1>3. /\ futures[d] = <<>> /\ fails[d] = 0 /\ fresh[d] = {}
      /\ InTurn(d) => running[d] = {}
  BY <1>1 DEF StageInv, Choosing
<1>4. ETypeOK'
  <2>1. Tokens' = Tokens
    BY <1>1 DEF Tokens, busVars
  <2>2. outcome' \in [Dispatchers -> {"none", "Completed", "Bailed", "Failed", "Dropped"}]
    BY <1>1 DEF EIInv, ETypeOK
  <2> QED
    BY <1>1, <2>1, <2>2 DEF EIInv, ETypeOK, busVars, runVars
<1>5. Claims(d)
  BY <1>1 DEF Claims, Holds, busVars
<1>6. StageInv(d)'
  BY <1>1, <1>2, <1>3 DEF StageInv, Scanning, Choosing, InTurn, Modes, runVars
<1>7. OrderInv(d)'
  BY <1>1, <1>3 DEF OrderInv, Scanning, Choosing, InTurn, runVars
<1>8. CoverInv(d)' /\ CountInv(d)'
  BY <1>1 DEF CoverInv, CountInv, Scanning, busVars, runVars
<1>9. SnapInv(d)' /\ SilentInv(d)'
  BY <1>1, SnapStays DEF Scanning, busVars, runVars
<1> QED
  BY <1>1, <1>2, <1>4, <1>5, <1>6, <1>7, <1>8, <1>9, RunKeeps DEF DispatchInv, busVars

\* One future leaves the queue: as an error, or to run.
LEMMA CountPoll ==
  /\ \A a, b, c, e, n \in Nat :
       c # 0 /\ a + b + c + e <= n => (a + 1) + b + (c - 1) + e <= n /\ a + 1 <= n
  /\ \A a, b, c, e, n, k \in Nat :
       c # 0 /\ a + b + c + e <= n /\ k <= b + 1 => a + k + (c - 1) + e <= n
OBVIOUS

\* join_all polls a future for the first time.
LEMMA FirstPollKeeps ==
  ASSUME EIInv, NEW d \in Dispatchers, FirstPoll(d)
  PROVE  EIInv'
<1> USE DispatchTypes, EmptyFacts
<1> DEFINE h == Head(futures[d])
<1>1. /\ mode[d] = "parallel" /\ at[d] = "claim" /\ todo[d] = <<>> /\ outcome[d] = "none"
      /\ futures[d] # <<>>
      /\ futures' = [futures EXCEPT ![d] = Tail(@)] /\ futures'[d] = Tail(futures[d])
      /\ UNCHANGED <<busVars, at, todo, runVars, fresh, outcome>>
  BY DEF FirstPoll, Joining, EIInv, ETypeOK
<1>2. /\ Tail(futures[d]) \in Seq(Tokens) /\ h \in Tokens
      /\ Len(Tail(futures[d])) = Len(futures[d]) - 1 /\ Len(futures[d]) \in Nat \ {0}
      /\ Range(futures[d]) = Range(Tail(futures[d])) \cup {h}
  BY <1>1, TailFacts
<1>3. /\ Range(called[d]) \cup Range(futures[d]) \cup Range(todo[d]) \subseteq Range(snap[d])
      /\ InOrder(snap[d], called[d]) /\ InOrder(snap[d], futures[d])
      /\ Ahead(snap[d], Range(called[d]), Range(futures[d]))
  BY <1>1 DEF OrderInv, Scanning
<1>4. InOrder(snap[d], Tail(futures[d])) /\ Ahead(snap[d], {h}, Range(Tail(futures[d])))
  BY <1>1, <1>3, OrderTail
<1>5. fresh[d] = {} /\ Range(todo[d]) = {} /\ Len(todo[d]) = 0 /\ ~InTurn(d)
  BY <1>1 DEF StageInv, Choosing, InTurn
<1>6. /\ fails[d] + Cardinality(running[d]) + Len(futures[d]) + Len(todo[d]) <= Len(snap[d])
      /\ Cardinality(running[d]) \in Nat /\ IsFiniteSet(running[d])
      /\ Len(snap[d]) \in Nat /\ Len(snap[d]) <= MaxListeners /\ MaxListeners \in Nat
  BY <1>1, SnapBound, RunningIsFinite, EventAssumption DEF CountInv, Scanning
<1>7. Tokens' = Tokens
  BY <1>1 DEF Tokens, busVars
<1>8. futures' \in [Dispatchers -> Seq(Tokens)]
  BY <1>1, <1>2 DEF EIInv, ETypeOK
<1>9. SnapInv(d)' /\ SilentInv(d)'
  BY <1>1, SnapStays DEF Scanning, busVars, runVars
<1>10. CASE Refuses(d, h)
  <2>1. /\ fails' = [fails EXCEPT ![d] = @ + 1] /\ fails'[d] = fails[d] + 1
        /\ refused' = refused \cup {h} /\ called' = called /\ running' = running
    BY <1>10 DEF FirstPoll, EIInv, ETypeOK
  <2> HIDE DEF h
  <2>2. Others(d)
    BY <1>1, <2>1 DEF EIInv, ETypeOK, runVars, Others
  <2>3. /\ fails'[d] + Cardinality(running[d]) + Len(futures'[d]) + Len(todo[d]) <= Len(snap[d])
        /\ fails[d] + 1 <= Len(snap[d])
    <3>1. /\ (fails[d] + 1) + Cardinality(running[d]) + (Len(futures[d]) - 1) + Len(todo[d])
               <= Len(snap[d])
          /\ fails[d] + 1 <= Len(snap[d])
      BY <1>2, <1>5, <1>6, CountPoll
    <3>2. fails'[d] = fails[d] + 1 /\ Len(futures'[d]) = Len(futures[d]) - 1
      BY <1>1, <1>2, <2>1
    <3> QED
      BY <3>1, <3>2, Zenon
  <2>4. ETypeOK'
    <3>1. fails[d] + 1 \in 0 .. MaxListeners
      BY <1>6, <2>3
    <3>2. fails' \in [Dispatchers -> 0 .. MaxListeners]
      BY <2>1, <3>1 DEF EIInv, ETypeOK
    <3> QED
      BY <1>1, <1>2, <1>7, <1>8, <2>1, <3>2 DEF EIInv, ETypeOK, busVars, runVars
  <2>5. Claims(d)
    BY <1>1, <1>2, <2>1 DEF Claims, Holds, busVars
  <2>6. StageInv(d)'
    BY <1>1, <2>1 DEF StageInv, Scanning, Choosing, InTurn, runVars
  <2>7. OrderInv(d)'
    <3>1. /\ Ahead(snap[d], Range(called[d]), Range(futures'[d]))
          /\ Range(called[d]) \cup Range(futures'[d]) \cup Range(todo[d]) \subseteq Range(snap[d])
      BY <1>1, <1>2, <1>3 DEF Ahead
    <3>2. Ahead(snap[d], Range(called[d]) \cup Range(futures'[d]), Range(todo[d]))
      BY <1>5 DEF Ahead
    <3>3. InOrder(snap[d], todo[d])
      BY <1>1
    <3> QED
      BY <1>1, <1>3, <1>4, <1>5, <2>1, <3>1, <3>2, <3>3 DEF OrderInv, InTurn, runVars
  <2>8. CoverInv(d)'
    BY <2>1 DEF CoverInv
  <2>9. CountInv(d)'
    BY <1>1, <2>1, <2>3 DEF CountInv, runVars
  <2> QED
    BY <1>1, <1>9, <2>2, <2>4, <2>5, <2>6, <2>7, <2>8, <2>9, RunKeeps DEF DispatchInv, busVars
<1>11. CASE ~Refuses(d, h)
  <2>1. /\ called' = [called EXCEPT ![d] = Append(@, h)] /\ called'[d] = Append(called[d], h)
        /\ running' = [running EXCEPT ![d] = @ \cup {h}] /\ running'[d] = running[d] \cup {h}
        /\ fails' = fails /\ refused' = refused
    BY <1>11 DEF FirstPoll, Enter, EIInv, ETypeOK
  <2> HIDE DEF h
  <2>2. Others(d)
    BY <1>1, <2>1 DEF EIInv, ETypeOK, runVars, Others
  <2>3. /\ Append(called[d], h) \in Seq(Tokens)
        /\ Range(called'[d]) = Range(called[d]) \cup {h}
    BY <1>2, <2>1, AppendFacts
  <2>4. ETypeOK'
    <3>1. called' \in [Dispatchers -> Seq(Tokens)] /\ running' \in [Dispatchers -> SUBSET Tokens]
      BY <1>2, <2>1, <2>3 DEF EIInv, ETypeOK
    <3>2. \A e \in Dispatchers : running'[e] \cup fresh'[e] \subseteq Range(called'[e])
      <4>1. running'[d] \cup fresh'[d] \subseteq Range(called'[d])
        BY <1>1, <1>5, <2>1, <2>3
      <4>2. \A e \in Dispatchers \ {d} : running'[e] \cup fresh'[e] \subseteq Range(called'[e])
        BY <2>2 DEF Others, EIInv, ETypeOK
      <4> QED
        BY <4>1, <4>2
    <3> QED
      BY <1>1, <1>7, <1>8, <2>1, <3>1, <3>2 DEF EIInv, ETypeOK, busVars, runVars
  <2>5. Claims(d)
    BY <1>1, <1>2, <2>1, <2>3 DEF Claims, Holds, busVars
  <2>6. StageInv(d)'
    BY <1>1, <2>1 DEF StageInv, Scanning, Choosing, InTurn, runVars
  <2>7. OrderInv(d)'
    <3>1. Ahead(snap[d], Range(called[d]), {h})
      BY <1>2, <1>3 DEF Ahead
    <3>2. InOrder(snap[d], called'[d])
      BY <1>2, <1>3, <2>1, <3>1, OrderAppend
    <3>3. /\ Ahead(snap[d], Range(called'[d]), Range(futures'[d]))
          /\ Range(called'[d]) \cup Range(futures'[d]) \cup Range(todo[d]) \subseteq Range(snap[d])
      BY <1>1, <1>2, <1>3, <1>4, <2>3 DEF Ahead
    <3>4. Ahead(snap[d], Range(called'[d]) \cup Range(futures'[d]), Range(todo[d]))
      BY <1>5 DEF Ahead
    <3>5. InOrder(snap[d], todo[d])
      BY <1>1
    <3> QED
      BY <1>1, <1>4, <1>5, <3>2, <3>3, <3>4, <3>5 DEF OrderInv, InTurn, runVars
  <2>8. CoverInv(d)'
    BY <1>1, <1>2, <2>1, <2>3 DEF CoverInv, Scanning, busVars, runVars
  <2>9. CountInv(d)'
    <3>1. /\ Cardinality(running'[d]) \in Nat
          /\ Cardinality(running'[d]) <= Cardinality(running[d]) + 1
      <4>1. Cardinality(running[d] \cup {h}) =
              IF h \in running[d] THEN Cardinality(running[d]) ELSE Cardinality(running[d]) + 1
        BY <1>6, FS_AddElement
      <4>2. Cardinality(running'[d]) \in {Cardinality(running[d]), Cardinality(running[d]) + 1}
        BY <2>1, <4>1
      <4> QED
        BY <1>6, <4>2
    <3>2. fails[d] + Cardinality(running'[d]) + (Len(futures[d]) - 1) + Len(todo[d]) <= Len(snap[d])
      BY <1>2, <1>5, <1>6, <3>1, CountPoll
    <3> QED
      BY <1>1, <1>2, <2>1, <3>2 DEF CountInv, runVars
  <2> QED
    BY <1>1, <1>9, <2>2, <2>4, <2>5, <2>6, <2>7, <2>8, <2>9, RunKeeps DEF DispatchInv, busVars
<1> QED
  BY <1>10, <1>11

\* One listener returns, perhaps with an error.
LEMMA CountReady ==
  \A a, b, c, e, n, x \in Nat :
    b # 0 /\ a + b + c + e <= n /\ x \in {a, a + 1} =>
      x + (b - 1) + c + e <= n /\ x <= n
OBVIOUS

\* A future of parallel is done.
LEMMA FutureReadyKeeps ==
  ASSUME EIInv, NEW d \in Dispatchers, NEW t, NEW result, FutureReady(d, t, result)
  PROVE  EIInv'
<1> USE DispatchTypes, EmptyFacts
<1>1. /\ mode[d] = "parallel" /\ at[d] = "claim" /\ todo[d] = <<>> /\ outcome[d] = "none"
      /\ t \in running[d]
      /\ running' = [running EXCEPT ![d] = @ \ {t}] /\ running'[d] = running[d] \ {t}
      /\ fails' = [fails EXCEPT ![d] = IF result = "error" THEN @ + 1 ELSE @]
      /\ fails'[d] \in {fails[d], fails[d] + 1}
      /\ UNCHANGED <<busVars, at, todo, runVars, futures, called, fresh, outcome, refused>>
  BY DEF FutureReady, Joining, EIInv, ETypeOK
<1>2. Others(d)
  BY <1>1 DEF EIInv, ETypeOK, runVars, Others
<1>3. /\ fails[d] + Cardinality(running[d]) + Len(futures[d]) + Len(todo[d]) <= Len(snap[d])
      /\ Cardinality(running[d]) \in Nat /\ IsFiniteSet(running[d])
      /\ Len(snap[d]) \in Nat /\ Len(snap[d]) <= MaxListeners /\ MaxListeners \in Nat
      /\ Len(futures[d]) \in Nat /\ Len(todo[d]) \in Nat
  BY <1>1, SnapBound, RunningIsFinite, LenProperties, EventAssumption DEF CountInv, Scanning
<1>4. Cardinality(running'[d]) = Cardinality(running[d]) - 1 /\ Cardinality(running[d]) # 0
  <2>1. Cardinality(running[d] \ {t}) = Cardinality(running[d]) - 1
    BY <1>1, <1>3, FS_RemoveElement, Zenon
  <2>2. running[d] # {}
    BY <1>1
  <2>3. Cardinality(running[d]) # 0
    BY <1>3, <2>2, FS_EmptySet, Zenon
  <2> QED
    BY <1>1, <2>1, <2>3
<1>5. fails'[d] \in Nat
  BY <1>1
<1>6. /\ fails'[d] + Cardinality(running'[d]) + Len(futures[d]) + Len(todo[d]) <= Len(snap[d])
      /\ fails'[d] <= Len(snap[d])
  <2>1. /\ fails'[d] + (Cardinality(running[d]) - 1) + Len(futures[d]) + Len(todo[d]) <= Len(snap[d])
        /\ fails'[d] <= Len(snap[d])
    BY <1>1, <1>3, <1>4, <1>5, CountReady, ZenonT(60)
  <2> QED
    BY <1>4, <2>1
<1>7. ETypeOK'
  <2>1. Tokens' = Tokens
    BY <1>1 DEF Tokens, busVars
  <2>2. fails'[d] \in 0 .. MaxListeners
    BY <1>3, <1>5, <1>6
  <2>3. fails' \in [Dispatchers -> 0 .. MaxListeners]
    BY <1>1, <2>2 DEF EIInv, ETypeOK
  <2>4. /\ running' \in [Dispatchers -> SUBSET Tokens]
        /\ \A e \in Dispatchers : running'[e] \cup fresh'[e] \subseteq Range(called'[e])
    BY <1>1 DEF EIInv, ETypeOK
  <2> QED
    BY <1>1, <2>1, <2>3, <2>4 DEF EIInv, ETypeOK, busVars, runVars
<1>8. Claims(d)
  BY <1>1 DEF Claims, Holds, busVars
<1>9. StageInv(d)'
  BY <1>1 DEF StageInv, Scanning, Choosing, InTurn, runVars
<1>10. OrderInv(d)'
  BY <1>1 DEF OrderInv, Scanning, Choosing, InTurn, runVars
<1>11. CoverInv(d)'
  BY <1>1 DEF CoverInv, Scanning, busVars, runVars
<1>12. CountInv(d)'
  BY <1>1, <1>6 DEF CountInv, runVars
<1>13. SnapInv(d)' /\ SilentInv(d)'
  BY <1>1, SnapStays DEF Scanning, busVars, runVars
<1> QED
  BY <1>1, <1>2, <1>7, <1>8, <1>9, <1>10, <1>11, <1>12, <1>13, RunKeeps DEF DispatchInv, busVars

\* Fewer listeners run.
LEMMA CountLess ==
  \A a, b, c, e, n, k \in Nat : a + b + c + e <= n /\ k <= b => a + k + c + e <= n
OBVIOUS

\* A step that only ends a dispatch, or calls some listeners finished.
LEMMA EndKeeps ==
  ASSUME EIInv, NEW d \in Dispatchers, ~Scanning(d),
         UNCHANGED <<busVars, at, todo, runVars, futures, called, fresh, fails, refused>>,
         outcome' \in [Dispatchers -> {"none", "Completed", "Bailed", "Failed", "Dropped"}],
         running' \in [Dispatchers -> SUBSET Tokens], running'[d] \subseteq running[d],
         \A e \in Dispatchers \ {d} : outcome'[e] = outcome[e] /\ running'[e] = running[e],
         StageInv(d)'
  PROVE  EIInv'
<1> USE DispatchTypes DEF runVars
<1>1. Others(d)
  BY DEF Others
<1>2. ETypeOK'
  <2>1. Tokens' = Tokens
    BY DEF Tokens, busVars
  <2>2. \A e \in Dispatchers : running'[e] \cup fresh'[e] \subseteq Range(called'[e])
    BY DEF EIInv, ETypeOK
  <2> QED
    BY <2>1, <2>2 DEF EIInv, ETypeOK, busVars
<1>3. Claims(d)
  BY DEF Claims, Holds, busVars
<1>4. OrderInv(d)'
  BY DEF OrderInv, Scanning, Choosing, InTurn
<1>5. CoverInv(d)'
  BY DEF CoverInv, Scanning, busVars
<1>6. CountInv(d)'
  <2>1. ASSUME mode[d] = "parallel"
        PROVE  fails[d] + Cardinality(running'[d]) + Len(futures[d]) + Len(todo[d]) <= Len(snap[d])
    <3>1. /\ fails[d] + Cardinality(running[d]) + Len(futures[d]) + Len(todo[d]) <= Len(snap[d])
          /\ Cardinality(running[d]) \in Nat /\ IsFiniteSet(running[d])
          /\ Len(snap[d]) \in Nat /\ Len(futures[d]) \in Nat /\ Len(todo[d]) \in Nat
      BY <2>1, RunningIsFinite, LenProperties DEF CountInv
    <3>2. Cardinality(running'[d]) <= Cardinality(running[d]) /\ Cardinality(running'[d]) \in Nat
      BY <3>1, FS_Subset, FS_CardinalityType
    <3> QED
      BY <3>1, <3>2, CountLess
  <2> QED
    BY <2>1 DEF CountInv, Scanning
<1>7. SnapInv(d)' /\ SilentInv(d)'
  BY SnapStays DEF Scanning, busVars
<1> QED
  BY <1>1, <1>2, <1>3, <1>4, <1>5, <1>6, <1>7, RunKeeps DEF DispatchInv, busVars

\* parallel records its outcome.
LEMMA JoinedKeeps ==
  ASSUME EIInv, NEW d \in Dispatchers, Joined(d)
  PROVE  EIInv'
<1>1. /\ mode[d] = "parallel" /\ at[d] = "claim" /\ todo[d] = <<>>
      /\ futures[d] = <<>> /\ running[d] = {}
      /\ outcome' = [outcome EXCEPT ![d] = IF fails[d] = 0 THEN "Completed" ELSE "Failed"]
      /\ outcome'[d] = IF fails[d] = 0 THEN "Completed" ELSE "Failed"
      /\ UNCHANGED <<busVars, at, todo, runVars, futures, called, running, fresh, fails, refused>>
  BY DEF Joined, Joining, AllReady, Record, EIInv, ETypeOK
<1>2. StageInv(d)'
  BY <1>1, DispatchTypes DEF StageInv, Scanning, Choosing, InTurn, runVars
<1>3. /\ outcome' \in [Dispatchers -> {"none", "Completed", "Bailed", "Failed", "Dropped"}]
      /\ \A e \in Dispatchers \ {d} : outcome'[e] = outcome[e]
      /\ running' \in [Dispatchers -> SUBSET Tokens]
  BY <1>1 DEF EIInv, ETypeOK
<1> QED
  BY <1>1, <1>2, <1>3, EndKeeps DEF Scanning

\* A listener of a chain returns.
LEMMA ReturnFromChainKeeps ==
  ASSUME EIInv, NEW d \in Dispatchers, NEW t, NEW result, ReturnFromChain(d, t, result)
  PROVE  EIInv'
<1>1. /\ mode[d] = "waterfall" /\ t \in running[d]
      /\ running' = [running EXCEPT ![d] = @ \ {t}] /\ running'[d] = running[d] \ {t}
      /\ \/ outcome' = outcome
         \/ outcome' = [outcome EXCEPT ![d] = IF result = "error" THEN "Failed" ELSE "Completed"]
      /\ UNCHANGED <<busVars, at, todo, runVars, futures, called, fresh, fails, refused>>
  BY DEF ReturnFromChain, Record, EIInv, ETypeOK
<1>2. ~Scanning(d)
  BY <1>1, DispatchTypes DEF StageInv
<1>3. StageInv(d)'
  BY <1>1, <1>2, DispatchTypes DEF StageInv, Scanning, Choosing, InTurn, busVars, runVars
<1>4. /\ outcome' \in [Dispatchers -> {"none", "Completed", "Bailed", "Failed", "Dropped"}]
      /\ \A e \in Dispatchers \ {d} : outcome'[e] = outcome[e] /\ running'[e] = running[e]
      /\ running' \in [Dispatchers -> SUBSET Tokens]
  BY <1>1 DEF EIInv, ETypeOK
<1> QED
  BY <1>1, <1>2, <1>3, <1>4, EndKeeps

\* The future of a dispatch is dropped.
LEMMA AbandonKeeps ==
  ASSUME EIInv, NEW d \in Dispatchers, Abandon(d)
  PROVE  EIInv'
<1>1. /\ at[d] = "wait" \/ (mode[d] = "parallel" /\ at[d] = "claim" /\ todo[d] = <<>>)
      /\ outcome' = [outcome EXCEPT ![d] = "Dropped"] /\ outcome'[d] = "Dropped"
      /\ futures[d] = <<>>
      /\ running' = [running EXCEPT ![d] = {}] /\ running'[d] = {}
      /\ UNCHANGED <<busVars, at, todo, runVars, futures, called, fresh, fails, refused>>
  BY DEF Abandon, Joining, Record, EIInv, ETypeOK
<1>2. StageInv(d)'
  BY <1>1, DispatchTypes DEF StageInv, Scanning, Choosing, InTurn, runVars
<1>3. /\ outcome' \in [Dispatchers -> {"none", "Completed", "Bailed", "Failed", "Dropped"}]
      /\ \A e \in Dispatchers \ {d} : outcome'[e] = outcome[e] /\ running'[e] = running[e]
      /\ running' \in [Dispatchers -> SUBSET Tokens]
  BY <1>1 DEF EIInv, ETypeOK
<1> QED
  BY <1>1, <1>2, <1>3, EndKeeps DEF Scanning

\* A listener of a chain calls next.
LEMMA CallNextKeeps ==
  ASSUME EIInv, NEW d \in Dispatchers, NEW t \in fresh[d], CallNext(d, t)
  PROVE  EIInv'
<1> USE DispatchTypes, EmptyFacts
<1>1. /\ mode[d] = "waterfall" /\ at[d] = "wait"
      /\ fresh' = [fresh EXCEPT ![d] = @ \ {t}] /\ fresh'[d] = fresh[d] \ {t}
      /\ todo' = [todo EXCEPT ![d] = After(d, t)] /\ todo'[d] = After(d, t)
      /\ at' = [at EXCEPT ![d] = "claim"] /\ at'[d] = "claim"
      /\ UNCHANGED <<busVars, runVars, futures, called, running, fails, outcome, refused>>
  BY DEF CallNext, Take, EIInv, ETypeOK
<1>2. Others(d)
  BY <1>1 DEF EIInv, ETypeOK, runVars, Others
<1>3. /\ Range(called[d]) \cup Range(futures[d]) \cup Range(todo[d]) \subseteq Range(snap[d])
      /\ InOrder(snap[d], called[d]) /\ InOrder(snap[d], futures[d])
      /\ Ahead(snap[d], Range(called[d]), Range(futures[d]))
      /\ \A u \in fresh[d], w \in Range(called[d]) : w = u \/ Precedes(snap[d], w, u)
  BY <1>1 DEF OrderInv, Scanning
<1>4. IsInjective(snap[d]) /\ t \in Range(snap[d])
  BY <1>3 DEF SnapInv
<1>5. /\ todo'[d] \in Seq(Tokens) /\ Range(todo'[d]) \subseteq Range(snap[d])
      /\ InOrder(snap[d], todo'[d]) /\ Ahead(snap[d], {t}, Range(todo'[d]))
  <2>1. todo'[d] = SubSeq(snap[d], SelectInSeq(snap[d], LAMBDA u : u = t) + 1, Len(snap[d]))
    BY <1>1, Zenon DEF After
  <2> QED
    BY <1>4, <2>1, AfterFacts, Zenon
<1>6. /\ \A a, b, c : Precedes(snap[d], a, b) /\ Precedes(snap[d], b, c) => Precedes(snap[d], a, c)
      /\ \A a, b : Precedes(snap[d], a, b) => a # b
  BY <1>4, OrderTrans, Zenon
<1>7. fresh'[d] = {}
  <2>1. ASSUME NEW u \in fresh[d], u # t PROVE FALSE
    <3>1. Precedes(snap[d], u, t) /\ Precedes(snap[d], t, u)
      BY <1>3, <2>1
    <3> QED
      BY <1>6, <3>1
  <2> QED
    BY <1>1, <2>1
<1>8. futures[d] = <<>> /\ fails[d] = 0
  BY <1>1 DEF StageInv
<1>9. ETypeOK'
  <2>1. Tokens' = Tokens
    BY <1>1 DEF Tokens, busVars
  <2>2. todo' \in [Dispatchers -> Seq(Tokens)]
    BY <1>1, <1>5 DEF EIInv, ETypeOK
  <2>3. /\ fresh' \in [Dispatchers -> SUBSET Tokens]
        /\ \A e \in Dispatchers : running'[e] \cup fresh'[e] \subseteq Range(called'[e])
    BY <1>1 DEF EIInv, ETypeOK
  <2> QED
    BY <1>1, <2>1, <2>2, <2>3 DEF EIInv, ETypeOK, busVars, runVars
<1>10. Claims(d)
  BY <1>1 DEF Claims, Holds, busVars
<1>11. StageInv(d)'
  BY <1>1, <1>7, <1>8 DEF StageInv, Scanning, Choosing, InTurn, runVars
<1>12. OrderInv(d)'
  <2>1. Ahead(snap[d], Range(called[d]) \cup Range(futures[d]), Range(todo'[d]))
    <3>1. Range(futures[d]) = {}
      BY <1>8
    <3>2. ASSUME NEW a \in Range(called[d]), NEW b \in Range(todo'[d])
          PROVE  Precedes(snap[d], a, b)
      <4>1. Precedes(snap[d], t, b)
        BY <1>5 DEF Ahead
      <4>2. a = t \/ Precedes(snap[d], a, t)
        BY <1>3
      <4> QED
        BY <1>6, <4>1, <4>2
    <3> QED
      BY <3>1, <3>2 DEF Ahead
  <2>2. ~InTurn(d)'
    BY <1>1 DEF InTurn, runVars
  <2> QED
    BY <1>1, <1>3, <1>5, <1>7, <2>1, <2>2 DEF OrderInv, runVars
<1>13. CoverInv(d)' /\ CountInv(d)'
  BY <1>1 DEF CoverInv, CountInv, runVars
<1>14. SnapInv(d)' /\ SilentInv(d)'
  BY <1>1, SnapStays DEF Scanning, busVars, runVars
<1> QED
  BY <1>1, <1>2, <1>9, <1>10, <1>11, <1>12, <1>13, <1>14, RunKeeps DEF DispatchInv, busVars

-----------------------------------------------------------------------------
(***************************************************************************)
(* The theorems                                                            *)
(***************************************************************************)
\* Every step of the bus preserves the invariant.
LEMMA NextEIInv ==
  ASSUME EIInv, ENext
  PROVE  EIInv'
<1>1. ASSUME NEW r \in Registrars,
             (\E l \in Offered : Register(r, l)) \/ Insert(r) \/ Own(r) \/ Disown(r)
      PROVE  EIInv'
  BY <1>1, RegisterKeeps, InsertKeeps, OwnKeeps, DisownKeeps
<1>2. ASSUME NEW t \in DOMAIN listeners, RemoveHandle(t) PROVE EIInv'
  BY <1>2, RemoveHandleKeeps DEF Tokens
<1>3. ASSUME NEW o \in Owners, Close(o) \/ Dispose(o) PROVE EIInv'
  BY <1>3, CloseKeeps, DisposeKeeps
<1>4. ASSUME NEW d \in Dispatchers, \E m \in Modes, v \in Views : Begin(d, m, v) PROVE EIInv'
  BY <1>4, BeginKeeps
<1>5. ASSUME NEW d \in Dispatchers, DispatchStep(d) PROVE EIInv'
  <2>1. CASE Scan(d) \/ Snapshot(d) \/ ClaimPlain(d) \/ ClaimOnce(d) \/ Unlist(d) \/ Skip(d)
    BY <2>1, ScanKeeps, SnapshotKeeps, ClaimPlainKeeps, ClaimOnceKeeps, UnlistKeeps, SkipKeeps
  <2>2. CASE Call(d) \/ Refuse(d) \/ Exhausted(d) \/ FirstPoll(d) \/ Joined(d)
    BY <2>2, CallKeeps, RefuseKeeps, ExhaustedKeeps, FirstPollKeeps, JoinedKeeps
  <2>3. ASSUME NEW t \in running[d], NEW result \in Results,
               ReturnInTurn(d, t, result) \/ FutureReady(d, t, result)
               \/ ReturnFromChain(d, t, result)
        PROVE  EIInv'
    BY <2>3, ReturnInTurnKeeps, FutureReadyKeeps, ReturnFromChainKeeps
  <2> QED
    BY <1>5, <2>1, <2>2, <2>3, Zenon DEF DispatchStep
<1>6. ASSUME NEW d \in Dispatchers, (\E t \in fresh[d] : CallNext(d, t)) \/ Abandon(d)
      PROVE  EIInv'
  BY <1>6, CallNextKeeps, AbandonKeeps
<1> QED
  BY <1>1, <1>2, <1>3, <1>4, <1>5, <1>6, Zenon DEF ENext

\* A step that changes nothing preserves the invariant.
LEMMA StutterEIInv ==
  ASSUME EIInv, UNCHANGED evars
  PROVE  EIInv'
<1> USE DEF evars, busVars
<1>1. Tokens' = Tokens
  BY DEF Tokens
<1>2. RegInv' /\ OwnInv'
  BY DEF EIInv, RegInv, OwnInv
<1> QED
  BY <1>1, <1>2, ListKeeps DEF EIInv, ETypeOK

\* The inductive invariant holds in every reachable state, for any listeners,
\* owners, registrars and dispatchers.
THEOREM EventInvariance == ESpec => []EIInv
BY InitEIInv, NextEIInv, StutterEIInv, PTL DEF ESpec

\* A dispatch calls no listener twice.
LEMMA CalledOnce ==
  ASSUME EIInv, NEW d \in Dispatchers
  PROVE  IsInjective(called[d])
<1>1. CASE Scanning(d)
  BY <1>1, DispatchTypes, EmptyFacts DEF StageInv
<1>2. CASE ~Scanning(d)
  <2>1. InOrder(snap[d], called[d]) /\ IsInjective(snap[d])
    BY <1>2, DispatchTypes DEF OrderInv, SnapInv
  <2> QED
    BY <2>1, DispatchTypes, OrderInjective
<1> QED
  BY <1>1, <1>2

\* For any number of threads: listeners are well listed, none outlives its
\* owner, and a once listener is claimed by one dispatch, which calls it at
\* most once and does not forget it (register, remove_listener, claim_once).
THEOREM BusIsConsistent == ESpec => []EventInv
<1>1. EIInv => EventInv
  <2> SUFFICES ASSUME EIInv PROVE EventInv
    OBVIOUS
  <2>1. NoStrayListener
    <3> SUFFICES ASSUME NEW t \in Range(entries), scope[listeners[t].owner] = "Disposed",
                        \A r \in Registrars : reg[r].token # t
                 PROVE  FALSE
      BY DEF NoStrayListener
    <3>1. t \in Tokens
      BY RangeOfSeq DEF EIInv, ETypeOK
    <3>2. listeners[t] \in Offered
      BY <3>1, ElementOfSeq, LenProperties DEF EIInv, ETypeOK, Tokens
    <3>3. listeners[t].owner \in Owners
      BY <3>2, EventAssumption DEF Listeners
    <3>4. effects[listeners[t].owner] = <<>> /\ t \in Range(effects[listeners[t].owner])
      BY <3>3 DEF EIInv, OwnInv
    <3> QED
      BY <3>4, EmptyFacts
  <2>2. OnceIsOnce
    <3> SUFFICES ASSUME NEW t \in Tokens, listeners[t].once
                 PROVE  /\ \A d \in Dispatchers : \A i, j \in DOMAIN called[d] :
                             called[d][i] = t /\ called[d][j] = t => i = j
                        /\ \A d1, d2 \in Dispatchers :
                             t \in Range(called[d1]) /\ t \in Range(called[d2]) => d1 = d2
      BY DEF OnceIsOnce
    <3>1. ASSUME NEW d \in Dispatchers PROVE IsInjective(called[d])
      BY CalledOnce
    <3>2. \A d1, d2 \in Dispatchers :
            t \in Range(called[d1]) /\ t \in Range(called[d2]) => d1 = d2
      BY DEF EIInv, HoldInv, Holds
    <3> QED
      BY <3>1, <3>2, Zenon DEF IsInjective
  <2>3. OnceIsSpent
    <3> SUFFICES ASSUME NEW t \in claimed, t \notin refused
                 PROVE  \E d \in Dispatchers : t \in Range(called[d]) \/ AboutToCall(d, t)
      BY DEF OnceIsSpent
    <3>1. PICK d \in Dispatchers : Holds(d, t)
      BY DEF EIInv, HoldInv
    <3>2. t \in Range(futures[d]) => outcome[d] = "none"
      <4>1. Range(<<>>) = {}
        BY EmptyFacts
      <4> QED
        BY <4>1, DispatchTypes DEF StageInv
    <3> QED
      BY <3>1, <3>2 DEF Holds, AboutToCall
  <2> QED
    BY <2>1, <2>2, <2>3 DEF EventInv, EIInv
<1> QED
  BY <1>1, EventInvariance, PTL

\* For any owners and dispatches: a listener is not called by a dispatch that
\* began after the disposal of its owner did (Listener::matches, snapshot).
THEOREM TheClosedAreSilent == ESpec => []ClosedOwnersAreSilent
<1>1. EIInv => ClosedOwnersAreSilent
  <2> SUFFICES ASSUME EIInv, NEW d \in Dispatchers, NEW t \in Range(called[d])
               PROVE  listeners[t].owner \notin gone[d]
    BY DEF ClosedOwnersAreSilent
  <2>1. t \in Range(snap[d])
    BY DispatchTypes, EmptyFacts DEF OrderInv, StageInv
  <2> QED
    BY <2>1, DispatchTypes DEF SilentInv
<1> QED
  BY <1>1, EventInvariance, PTL

\* For any snapshot, in every mode: listeners are called in its order, and
\* none is called twice, however the continuations of a chain are used.
THEOREM CallsAreInOrder == ESpec => []CallsFollowSnapshot
<1>1. EIInv => CallsFollowSnapshot
  <2> SUFFICES ASSUME EIInv, NEW d \in Dispatchers
               PROVE  \A i, j \in DOMAIN called[d] :
                        i < j => Precedes(snap[d], called[d][i], called[d][j])
    BY Zenon DEF CallsFollowSnapshot, Precedes
  <2>1. InOrder(snap[d], called[d])
    BY DispatchTypes, EmptyFacts DEF OrderInv, StageInv
  <2> QED
    BY <2>1 DEF InOrder
<1> QED
  BY <1>1, EventInvariance, PTL

\* For any snapshot: parallel has no listener running when it records its
\* outcome, and a completed dispatch has called everybody it had to.
THEOREM CompletionIsComplete == ESpec => []CompletedMeansAll
<1>1. EIInv => CompletedMeansAll
  <2> SUFFICES ASSUME EIInv, NEW d \in Dispatchers
               PROVE  /\ mode[d] = "parallel" /\ outcome[d] \in {"Completed", "Failed"} =>
                           running[d] = {} /\ futures[d] = <<>>
                      /\ mode[d] # "waterfall" /\ outcome[d] = "Completed" =>
                           \A t \in Range(snap[d]) : t \in Range(called[d]) \cup claimed
    BY DEF CompletedMeansAll
  <2>1. mode[d] = "parallel" /\ outcome[d] \in {"Completed", "Failed"} =>
          running[d] = {} /\ futures[d] = <<>>
    BY DispatchTypes DEF StageInv
  <2>2. ASSUME mode[d] # "waterfall", outcome[d] = "Completed", NEW t \in Range(snap[d])
        PROVE  t \in Range(called[d]) \cup claimed
    <3>1. todo[d] = <<>> /\ futures[d] = <<>> /\ fails[d] = 0 /\ ~Scanning(d)
      BY <2>2, DispatchTypes DEF StageInv
    <3>2. Range(todo[d]) = {} /\ Range(futures[d]) = {}
      BY <3>1, EmptyFacts
    <3> QED
      BY <2>2, <3>1, <3>2, DispatchTypes DEF CoverInv
  <2> QED
    BY <2>1, <2>2
<1> QED
  BY <1>1, EventInvariance, PTL
=============================================================================

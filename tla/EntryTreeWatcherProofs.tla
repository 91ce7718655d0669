------------------------ MODULE EntryTreeWatcherProofs ------------------------
(***************************************************************************)
(* Proofs about EntryTree, Loader and EntryTreeWatcher, for any trees,     *)
(* lists of patches, requirements between entries and contents of the      *)
(* watched file.                                                           *)
(***************************************************************************)
EXTENDS EntryTreeWatcher, SequenceTheorems, WellFoundedInduction, TLAPS

-----------------------------------------------------------------------------
(***************************************************************************)
(* Induction, as facts about sets                                          *)
(***************************************************************************)
\* A set of naturals has a least element.
LEMMA LeastNat ==
  ASSUME NEW S, S \subseteq Nat, S # {}
  PROVE  \E n \in S : \A m \in S : n <= m
<1>1. PICK n \in S : \A m \in S : ~(<<m, n>> \in OpToRel(<, Nat))
  BY NatLessThanWellFounded, WFMin
<1>2. ASSUME NEW m \in S PROVE n <= m
  <2>1. ~(m < n)
    BY <1>1, <1>2 DEF OpToRel
  <2> QED
    BY <2>1
<1> QED
  BY <1>2

\* A set that has 0 and the successor of what it has, has all naturals.
LEMMA InductiveSet ==
  ASSUME NEW S, 0 \in S, \A n \in Nat : n \in S => n + 1 \in S
  PROVE  Nat \subseteq S
<1> SUFFICES ASSUME NEW n \in Nat, n \notin S PROVE FALSE
  OBVIOUS
<1> DEFINE B == Nat \ S
<1>1. B \subseteq Nat /\ B # {}
  OBVIOUS
<1>2. PICK m \in B : \A k \in B : m <= k
  <2> HIDE DEF B
  <2> QED
    BY <1>1, LeastNat
<1>3. m # 0 /\ m - 1 \in Nat /\ (m - 1) + 1 = m
  OBVIOUS
<1>4. m - 1 \notin B
  BY <1>2, <1>3
<1> QED
  BY <1>3, <1>4

\* A set that has the empty sequence and every extension of what it has by one
\* element, has all sequences.
LEMMA InductiveSeqs ==
  ASSUME NEW X, NEW P, <<>> \in P,
         \A s \in Seq(X), e \in X : s \in P => Append(s, e) \in P
  PROVE  Seq(X) \subseteq P
<1> DEFINE N == {n \in Nat : \A s \in Seq(X) : Len(s) = n => s \in P}
<1>1. 0 \in N
  <2>1. \A s \in Seq(X) : Len(s) = 0 => s = <<>>
    BY EmptySeq
  <2> QED
    BY <2>1
<1>2. ASSUME NEW n \in Nat, n \in N PROVE n + 1 \in N
  <2> SUFFICES ASSUME NEW s \in Seq(X), Len(s) = n + 1 PROVE s \in P
    OBVIOUS
  <2>1. s # <<>>
    BY EmptySeq
  <2>2. PICK r \in Seq(X), e \in X : s = Append(r, e)
    BY <2>1, SequenceEmptyOrAppend
  <2>3. Len(r) \in Nat /\ Len(s) = Len(r) + 1
    BY <2>2, AppendProperties, LenProperties
  <2>4. Len(r) = n
    BY <2>3
  <2> QED
    BY <1>2, <2>2, <2>4
<1>3. Nat \subseteq N
  <2> HIDE DEF N
  <2> QED
    BY <1>1, <1>2, InductiveSet
<1> QED
  BY <1>3, LenProperties

-----------------------------------------------------------------------------
(***************************************************************************)
(* FlattenSeq and Keep                                                     *)
(***************************************************************************)
\* The concatenation of the first i elements of ss, for each i in 1 .. n
Flattens(f, ss, n) ==
  f = [i \in 1 .. n |-> IF i = 1 THEN ss[i] ELSE f[i - 1] \o ss[i]]

\* Such a function exists: a prefix can be extended by one.
LEMMA FlattensExists ==
  ASSUME NEW ss PROVE \A n \in Nat : \E f : Flattens(f, ss, n)
<1> DEFINE N == {n \in Nat : \E f : Flattens(f, ss, n)}
<1>1. 0 \in N
  <2> DEFINE f == [i \in 1 .. 0 |-> ss[i]]
  <2>1. Flattens(f, ss, 0)
    BY DEF Flattens
  <2> QED
    BY <2>1
<1>2. ASSUME NEW n \in Nat, n \in N PROVE n + 1 \in N
  <2>1. PICK f : Flattens(f, ss, n)
    BY <1>2
  <2>2. /\ DOMAIN f = 1 .. n
        /\ \A i \in 1 .. n : f[i] = IF i = 1 THEN ss[i] ELSE f[i - 1] \o ss[i]
    BY <2>1 DEF Flattens
  <2> DEFINE g == [i \in 1 .. n + 1 |->
                     IF i = 1 THEN ss[i] ELSE f[i - 1] \o ss[i]]
  <2>3. ASSUME NEW i \in 1 .. n PROVE g[i] = f[i]
    <3>1. i \in 1 .. n + 1
      OBVIOUS
    <3>2. g[i] = IF i = 1 THEN ss[i] ELSE f[i - 1] \o ss[i]
      BY <3>1
    <3> QED
      BY <2>2, <3>2
  <2>4. \A i \in 1 .. n + 1 : i # 1 => i - 1 \in 1 .. n
    OBVIOUS
  <2>5. \A i \in 1 .. n + 1 : g[i] = IF i = 1 THEN ss[i] ELSE g[i - 1] \o ss[i]
    BY <2>3, <2>4
  <2>6. DOMAIN g = 1 .. n + 1 /\ g = [i \in DOMAIN g |-> g[i]]
    OBVIOUS
  <2> HIDE DEF g
  <2>7. Flattens(g, ss, n + 1)
    BY <2>5, <2>6 DEF Flattens
  <2> QED
    BY <2>7
<1> QED
  <2> HIDE DEF N
  <2>1. Nat \subseteq N
    BY <1>1, <1>2, InductiveSet
  <2> QED
    BY <2>1 DEF N

\* FlattenSeq is the last value of that function.
LEMMA FlattenByFunction ==
  ASSUME NEW X, NEW ss \in Seq(X), ss # <<>>
  PROVE  \E f : Flattens(f, ss, Len(ss)) /\ FlattenSeq(ss) = f[Len(ss)]
<1>1. Len(ss) \in Nat /\ Len(ss) # 0
  BY EmptySeq, LenProperties
<1> DEFINE f == CHOOSE f : Flattens(f, ss, Len(ss))
<1>2. Flattens(f, ss, Len(ss))
  BY <1>1, FlattensExists
<1>3. FlattenSeq(ss) = f[Len(ss)]
  BY <1>1 DEF FlattenSeq, Flattens
<1> QED
  BY <1>2, <1>3

\* t is the beginning of r.
Begins(t, r) == Len(t) <= Len(r) /\ \A i \in 1 .. Len(t) : t[i] = r[i]

\* The function for a sequence extends the functions for its prefixes.
LEMMA FlattensAgree ==
  ASSUME NEW X, NEW t \in Seq(Seq(X)), NEW r \in Seq(Seq(X)), Begins(t, r),
         NEW f, Flattens(f, t, Len(t)), NEW g, Flattens(g, r, Len(r))
  PROVE  \A i \in 1 .. Len(t) : f[i] = g[i] /\ f[i] \in Seq(X)
<1> DEFINE n == Len(t)
           k == Len(r)
<1>0. n \in Nat /\ k \in Nat
  BY LenProperties
<1> USE DEF Begins
<1>1. /\ \A i \in 1 .. n : f[i] = IF i = 1 THEN t[i] ELSE f[i - 1] \o t[i]
      /\ \A i \in 1 .. k : g[i] = IF i = 1 THEN r[i] ELSE g[i - 1] \o r[i]
  BY DEF Flattens
<1>2. \A i \in 1 .. n : r[i] \in Seq(X)
  BY ElementOfSeq
<1> DEFINE N == {m \in Nat : m + 1 \in 1 .. n => f[m + 1] = g[m + 1] /\ f[m + 1] \in Seq(X)}
<1>3. 0 \in N
  <2> SUFFICES ASSUME 1 \in 1 .. n PROVE f[1] = g[1] /\ f[1] \in Seq(X)
    OBVIOUS
  <2>1. 1 \in 1 .. k
    OBVIOUS
  <2>2. f[1] = t[1] /\ g[1] = r[1]
    BY <1>1, <2>1
  <2> QED
    BY <1>2, <2>2
<1>4. ASSUME NEW m \in Nat, m \in N PROVE m + 1 \in N
  <2> SUFFICES ASSUME m + 2 \in 1 .. n
               PROVE  f[m + 2] = g[m + 2] /\ f[m + 2] \in Seq(X)
    OBVIOUS
  <2>1. m + 1 \in 1 .. n /\ m + 2 # 1 /\ (m + 2) - 1 = m + 1 /\ m + 2 \in 1 .. k
    OBVIOUS
  <2>2. f[m + 1] = g[m + 1] /\ f[m + 1] \in Seq(X)
    BY <1>4, <2>1
  <2>3. f[m + 2] = f[m + 1] \o t[m + 2] /\ g[m + 2] = g[m + 1] \o r[m + 2]
    BY <1>1, <2>1
  <2>4. t[m + 2] = r[m + 2] /\ r[m + 2] \in Seq(X)
    BY <1>2
  <2>5. f[m + 1] \o r[m + 2] \in Seq(X)
    BY <2>2, <2>4, ConcatProperties
  <2> QED
    BY <2>2, <2>3, <2>4, <2>5
<1>5. Nat \subseteq N
  <2> HIDE DEF N
  <2> QED
    BY <1>3, <1>4, InductiveSet
<1>6. ASSUME NEW i \in 1 .. n PROVE f[i] = g[i] /\ f[i] \in Seq(X)
  <2>1. i - 1 \in Nat /\ (i - 1) + 1 = i
    OBVIOUS
  <2>2. i - 1 \in N
    BY <1>5, <2>1
  <2> QED
    BY <2>1, <2>2
<1> QED
  BY <1>6

\* What FlattenSeq does with one more sequence.
LEMMA FlattenAppend ==
  ASSUME NEW X, NEW ss \in Seq(Seq(X)), NEW s \in Seq(X)
  PROVE  /\ FlattenSeq(<<>>) = <<>>
         /\ FlattenSeq(ss) \in Seq(X)
         /\ FlattenSeq(Append(ss, s)) = FlattenSeq(ss) \o s
<1>1. FlattenSeq(<<>>) = <<>>
  BY EmptySeq DEF FlattenSeq
<1>3. Len(ss) \in Nat /\ (ss = <<>> <=> Len(ss) = 0)
  BY EmptySeq, LenProperties
<1>4. FlattenSeq(ss) \in Seq(X)
  <2>1. CASE ss = <<>>
    BY <1>1, <2>1, EmptySeq
  <2>2. CASE ss # <<>>
    <3>1. PICK f : Flattens(f, ss, Len(ss)) /\ FlattenSeq(ss) = f[Len(ss)]
      BY <2>2, FlattenByFunction
    <3>2. \A i \in 1 .. Len(ss) : f[i] \in Seq(X)
      <4>1. Begins(ss, ss)
        BY <1>3 DEF Begins
      <4> QED
        BY <3>1, <4>1, FlattensAgree, Zenon
    <3>3. Len(ss) \in 1 .. Len(ss)
      BY <1>3, <2>2
    <3> QED
      BY <3>1, <3>2, <3>3
  <2> QED
    BY <2>1, <2>2
<1>5. FlattenSeq(Append(ss, s)) = FlattenSeq(ss) \o s
  <2>1. PICK r \in Seq(Seq(X)) :
          /\ r = Append(ss, s) /\ Len(r) = Len(ss) + 1 /\ r # <<>>
          /\ \A i \in 1 .. Len(ss) : r[i] = ss[i]
          /\ r[Len(ss) + 1] = s
    BY AppendProperties
  <2>2. PICK g : Flattens(g, r, Len(r)) /\ FlattenSeq(r) = g[Len(r)]
    BY <2>1, FlattenByFunction
  <2>3. \A i \in 1 .. Len(r) : g[i] = IF i = 1 THEN r[i] ELSE g[i - 1] \o r[i]
    BY <2>2 DEF Flattens
  <2>4. CASE ss = <<>>
    <3>1. Len(r) = 1 /\ g[1] = s
      BY <1>3, <2>1, <2>3, <2>4
    <3>2. <<>> \o s = s
      BY ConcatEmptySeq
    <3> QED
      BY <1>1, <2>1, <2>2, <2>4, <3>1, <3>2
  <2>5. CASE ss # <<>>
    <3>1. PICK f : Flattens(f, ss, Len(ss)) /\ FlattenSeq(ss) = f[Len(ss)]
      BY <2>5, FlattenByFunction
    <3>2. \A i \in 1 .. Len(ss) : f[i] = g[i]
      <4>1. Begins(ss, r)
        BY <1>3, <2>1 DEF Begins
      <4>2. \A i \in 1 .. Len(ss) : f[i] = g[i] /\ f[i] \in Seq(X)
        BY <2>2, <3>1, <4>1, FlattensAgree, Zenon
      <4> QED
        BY <4>2
    <3>3. Len(ss) \in 1 .. Len(ss) /\ Len(r) \in 1 .. Len(r) /\ Len(r) # 1 /\ Len(r) - 1 = Len(ss)
      BY <1>3, <2>1, <2>5
    <3>4. g[Len(r)] = g[Len(r) - 1] \o r[Len(r)]
      BY <2>3, <3>3
    <3>5. g[Len(r)] = g[Len(ss)] \o s
      BY <2>1, <3>3, <3>4
    <3> QED
      BY <2>1, <2>2, <3>1, <3>2, <3>3, <3>5
  <2> QED
    BY <2>4, <2>5
<1> QED
  BY <1>1, <1>4, <1>5

\* The pieces that Keep puts together
Piece(e, K) == IF e \in K THEN <<e>> ELSE <<>>
Pieces(s, K) == [i \in DOMAIN s |-> Piece(s[i], K)]

\* They are a sequence of sequences.
LEMMA PiecesType ==
  ASSUME NEW X, NEW s \in Seq(X), NEW K
  PROVE  /\ Pieces(s, K) \in Seq(Seq(X)) /\ Len(Pieces(s, K)) = Len(s)
         /\ \A i \in 1 .. Len(s) : Pieces(s, K)[i] = Piece(s[i], K)
         /\ \A e \in X : Piece(e, K) \in Seq(X)
<1>1. Len(s) \in Nat /\ DOMAIN s = 1 .. Len(s) /\ \A i \in 1 .. Len(s) : s[i] \in X
  BY LenProperties, ElementOfSeq
<1>2. \A e \in X : Piece(e, K) \in Seq(X)
  BY DEF Piece
<1>3. Pieces(s, K) \in [1 .. Len(s) -> Seq(X)]
  BY <1>1, <1>2 DEF Pieces
<1>4. Pieces(s, K) \in Seq(Seq(X)) /\ Len(Pieces(s, K)) = Len(s)
  BY <1>1, <1>3
<1> QED
  BY <1>1, <1>2, <1>4 DEF Pieces

\* There is one more for one more element.
LEMMA PiecesAppend ==
  ASSUME NEW X, NEW s \in Seq(X), NEW e \in X, NEW K
  PROVE  Pieces(Append(s, e), K) = Append(Pieces(s, K), Piece(e, K))
<1>1. PICK t \in Seq(X) :
        /\ t = Append(s, e) /\ Len(t) = Len(s) + 1
        /\ \A i \in 1 .. Len(s) : t[i] = s[i]
        /\ t[Len(s) + 1] = e
  BY AppendProperties
<1>2. Len(s) \in Nat
  BY LenProperties
<1>3. /\ Pieces(s, K) \in Seq(Seq(X)) /\ Len(Pieces(s, K)) = Len(s)
      /\ \A i \in 1 .. Len(s) : Pieces(s, K)[i] = Piece(s[i], K)
      /\ Piece(e, K) \in Seq(X)
  BY PiecesType
<1>4. PICK u \in Seq(Seq(X)) :
        /\ u = Append(Pieces(s, K), Piece(e, K)) /\ Len(u) = Len(s) + 1
        /\ \A i \in 1 .. Len(s) : u[i] = Pieces(s, K)[i]
        /\ u[Len(s) + 1] = Piece(e, K)
  <2>1. PICK p \in Seq(Seq(X)), x \in Seq(X) : p = Pieces(s, K) /\ x = Piece(e, K)
    BY <1>3
  <2>2. /\ Append(p, x) \in Seq(Seq(X)) /\ Len(Append(p, x)) = Len(p) + 1
        /\ \A i \in 1 .. Len(p) : Append(p, x)[i] = p[i]
        /\ Append(p, x)[Len(p) + 1] = x
    BY AppendProperties
  <2> QED
    BY <1>3, <2>1, <2>2
<1>5. /\ Pieces(t, K) \in Seq(Seq(X)) /\ Len(Pieces(t, K)) = Len(t)
      /\ \A i \in 1 .. Len(t) : Pieces(t, K)[i] = Piece(t[i], K)
  BY PiecesType
<1>6. ASSUME NEW i \in 1 .. Len(s) + 1 PROVE Pieces(t, K)[i] = u[i]
  <2>1. CASE i = Len(s) + 1
    BY <1>1, <1>4, <1>5, <2>1
  <2>2. CASE i # Len(s) + 1
    <3>1. i \in 1 .. Len(s) /\ i \in 1 .. Len(t)
      BY <1>1, <1>2, <2>2
    <3> QED
      BY <1>1, <1>3, <1>4, <1>5, <3>1
  <2> QED
    BY <2>1, <2>2
<1>7. Pieces(t, K) = u
  BY <1>1, <1>4, <1>5, <1>6, SeqEqual
<1> QED
  BY <1>1, <1>4, <1>7

\* Keep gives a sequence.
LEMMA KeepType ==
  ASSUME NEW X, NEW s \in Seq(X), NEW K
  PROVE  Keep(s, K) \in Seq(X) /\ Keep(<<>>, K) = <<>>
<1>1. Keep(s, K) = FlattenSeq(Pieces(s, K))
  BY DEF Keep, Pieces, Piece
<1>2. Keep(<<>>, K) = FlattenSeq(<<>>)
  BY DEF Keep
<1>3. Pieces(s, K) \in Seq(Seq(X)) /\ <<>> \in Seq(X)
  BY PiecesType
<1>4. FlattenSeq(Pieces(s, K)) \in Seq(X) /\ FlattenSeq(<<>>) = <<>>
  BY <1>3, FlattenAppend
<1> QED
  BY <1>1, <1>2, <1>4

\* What Keep does with one more element.
LEMMA KeepAppend ==
  ASSUME NEW X, NEW s \in Seq(X), NEW e \in X, NEW K
  PROVE  Keep(Append(s, e), K) = Keep(s, K) \o Piece(e, K)
<1>1. /\ Keep(s, K) = FlattenSeq(Pieces(s, K))
      /\ Keep(Append(s, e), K) = FlattenSeq(Pieces(Append(s, e), K))
  BY DEF Keep, Pieces, Piece
<1>2. Pieces(s, K) \in Seq(Seq(X)) /\ Piece(e, K) \in Seq(X)
  BY PiecesType
<1>3. Pieces(Append(s, e), K) = Append(Pieces(s, K), Piece(e, K))
  BY PiecesAppend
<1>4. FlattenSeq(Append(Pieces(s, K), Piece(e, K))) = FlattenSeq(Pieces(s, K)) \o Piece(e, K)
  BY <1>2, FlattenAppend
<1> QED
  BY <1>1, <1>3, <1>4

\* Keep of one element.
LEMMA KeepOne ==
  ASSUME NEW X, NEW e \in X, NEW K PROVE Keep(<<e>>, K) = Piece(e, K)
<1>1. <<>> \in Seq(X) /\ <<e>> = Append(<<>>, e)
  OBVIOUS
<1>2. Piece(e, K) \in Seq(X)
  BY <1>1, PiecesType
<1>3. <<>> \o Piece(e, K) = Piece(e, K)
  BY <1>2, ConcatEmptySeq
<1>4. Keep(<<>>, K) = <<>>
  BY <1>1, KeepType
<1>5. Keep(Append(<<>>, e), K) = Keep(<<>>, K) \o Piece(e, K)
  BY <1>1, KeepAppend
<1> QED
  BY <1>1, <1>3, <1>4, <1>5

\* Keep distributes over concatenation.
LEMMA KeepConcat ==
  ASSUME NEW X, NEW s \in Seq(X), NEW t \in Seq(X), NEW K
  PROVE  Keep(s \o t, K) = Keep(s, K) \o Keep(t, K)
<1> DEFINE P == {r \in Seq(X) : Keep(s \o r, K) = Keep(s, K) \o Keep(r, K)}
<1>0. \A r \in Seq(X) : Keep(r, K) \in Seq(X) /\ Keep(<<>>, K) = <<>>
  BY KeepType
<1>1. <<>> \in P
  <2>1. <<>> \in Seq(X)
    OBVIOUS
  <2>2. s \o <<>> = s /\ Keep(s, K) \o <<>> = Keep(s, K)
    BY <1>0, ConcatEmptySeq
  <2> QED
    BY <1>0, <2>1, <2>2
<1>2. ASSUME NEW r \in Seq(X), NEW e \in X, r \in P PROVE Append(r, e) \in P
  <2> DEFINE x == Piece(e, K)
  <2>1. Append(r, e) \in Seq(X) /\ <<e>> \in Seq(X) /\ x \in Seq(X)
    BY AppendProperties, PiecesType
  <2>2. s \o Append(r, e) = Append(s \o r, e) /\ s \o r \in Seq(X)
    <3>1. s \o r \in Seq(X)
      BY ConcatProperties
    <3>2. Append(r, e) = r \o <<e>> /\ Append(s \o r, e) = (s \o r) \o <<e>>
      BY <3>1, AppendIsConcat
    <3>3. (s \o r) \o <<e>> = s \o (r \o <<e>>)
      BY <2>1, ConcatAssociative, SMTT(30)
    <3> QED
      BY <3>1, <3>2, <3>3
  <2>3. /\ Keep(Append(s \o r, e), K) = Keep(s \o r, K) \o x
        /\ Keep(Append(r, e), K) = Keep(r, K) \o x
    BY <2>2, KeepAppend
  <2> HIDE DEF x
  <2>4. (Keep(s, K) \o Keep(r, K)) \o x = Keep(s, K) \o (Keep(r, K) \o x)
    BY <1>0, <2>1, ConcatAssociative, SMTT(30)
  <2>5. Keep(s \o Append(r, e), K) = Keep(s, K) \o Keep(Append(r, e), K)
    BY <1>2, <2>2, <2>3, <2>4
  <2> QED
    BY <2>1, <2>5
<1>3. Seq(X) \subseteq P
  <2> HIDE DEF P
  <2> QED
    BY <1>1, <1>2, InductiveSeqs
<1> QED
  BY <1>3

-----------------------------------------------------------------------------
(***************************************************************************)
(* Patches: what they leave alone                                          *)
(***************************************************************************)
\* A sequence around one of its elements.
LEMMA SplitAt ==
  ASSUME NEW X, NEW s \in Seq(X), NEW i \in 1 .. Len(s)
  PROVE  /\ SubSeq(s, 1, i - 1) \in Seq(X) /\ SubSeq(s, i + 1, Len(s)) \in Seq(X)
         /\ SubSeq(s, i, Len(s)) \in Seq(X) /\ <<s[i]>> \in Seq(X)
         /\ s = SubSeq(s, 1, i - 1) \o SubSeq(s, i, Len(s))
         /\ SubSeq(s, i, Len(s)) = <<s[i]>> \o SubSeq(s, i + 1, Len(s))
<1>1. Len(s) \in Nat /\ \A j \in 1 .. Len(s) : s[j] \in X
  BY LenProperties, ElementOfSeq
<1>2. /\ \A j \in 1 .. i - 1 : s[j] \in X
      /\ \A j \in i .. Len(s) : s[j] \in X
      /\ \A j \in i + 1 .. Len(s) : s[j] \in X
      /\ i - 1 \in Int /\ i + 1 \in Int /\ Len(s) \in Int
  BY <1>1
<1>3. SubSeq(s, 1, i - 1) \in Seq(X)
  BY <1>2, SubSeqProperties
<1>4. SubSeq(s, i, Len(s)) \in Seq(X) /\ SubSeq(s, i + 1, Len(s)) \in Seq(X)
  BY <1>2, SubSeqProperties
<1>5. SubSeq(s, i, Len(s)) = <<s[i]>> \o SubSeq(s, i + 1, Len(s))
  <2>1. Len(s) \in i .. Len(s)
    BY <1>1
  <2> QED
    BY <2>1, SubSeqRecursiveFirst
<1>6. s = SubSeq(s, 1, i - 1) \o SubSeq(s, i, Len(s))
  <2>1. /\ 1 \in 1 .. Len(s) + 1 /\ i - 1 \in 1 - 1 .. Len(s)
        /\ Len(s) \in i - 1 .. Len(s) /\ (i - 1) + 1 = i
    BY <1>1
  <2>2. SubSeq(s, 1, i - 1) \o SubSeq(s, (i - 1) + 1, Len(s)) = SubSeq(s, 1, Len(s))
    BY <2>1, ConcatAdjacentSubSeq
  <2>3. SubSeq(s, 1, Len(s)) = s
    BY SubSeqFull
  <2> QED
    BY <2>1, <2>2, <2>3
<1>7. <<s[i]>> \in Seq(X)
  BY <1>1
<1> QED
  BY <1>3, <1>4, <1>5, <1>6, <1>7

\* The parts of a sequence that Keep is applied to.
LEMMA KeepSplit ==
  ASSUME NEW X, NEW s \in Seq(X), NEW i \in 1 .. Len(s), NEW K
  PROVE  Keep(s, K) = Keep(SubSeq(s, 1, i - 1), K)
                      \o (Piece(s[i], K) \o Keep(SubSeq(s, i + 1, Len(s)), K))
<1>0. /\ SubSeq(s, 1, i - 1) \in Seq(X) /\ SubSeq(s, i + 1, Len(s)) \in Seq(X)
      /\ SubSeq(s, i, Len(s)) \in Seq(X) /\ <<s[i]>> \in Seq(X)
      /\ s = SubSeq(s, 1, i - 1) \o SubSeq(s, i, Len(s))
      /\ SubSeq(s, i, Len(s)) = <<s[i]>> \o SubSeq(s, i + 1, Len(s))
  BY SplitAt
<1>1. ASSUME NEW u \in Seq(X), NEW v \in Seq(X)
      PROVE  Keep(u \o v, K) = Keep(u, K) \o Keep(v, K)
  BY KeepConcat, SMTT(30)
<1>2. PICK a \in Seq(X), b \in Seq(X), c \in Seq(X), d \in Seq(X) :
        /\ a = SubSeq(s, 1, i - 1) /\ b = <<s[i]>> /\ c = SubSeq(s, i + 1, Len(s))
        /\ d = b \o c /\ s = a \o d
  BY <1>0, Zenon
<1>3. Keep(a \o d, K) = Keep(a, K) \o Keep(d, K)
  BY <1>1, Zenon
<1>4. Keep(b \o c, K) = Keep(b, K) \o Keep(c, K)
  BY <1>1, Zenon
<1>5. s[i] \in X
  BY ElementOfSeq
<1>6. Keep(b, K) = Piece(s[i], K)
  BY <1>2, <1>5, KeepOne
<1> QED
  BY <1>2, <1>3, <1>4, <1>6

\* An element that is not kept may be replaced, ...
LEMMA KeepReplaced ==
  ASSUME NEW X, NEW s \in Seq(X), NEW i \in 1 .. Len(s), NEW K, NEW e \in X,
         e \notin K, s[i] \notin K
  PROVE  /\ [s EXCEPT ![i] = e] \in Seq(X)
         /\ Keep([s EXCEPT ![i] = e], K) = Keep(s, K)
<1>1. PICK t \in Seq(X) : /\ t = [s EXCEPT ![i] = e] /\ Len(t) = Len(s)
                          /\ \A j \in 1 .. Len(s) : t[j] = IF j = i THEN e ELSE s[j]
  <2>1. /\ [s EXCEPT ![i] = e] \in Seq(X)
        /\ Len([s EXCEPT ![i] = e]) = Len(s)
        /\ \A j \in 1 .. Len(s) : [s EXCEPT ![i] = e][j] = IF j = i THEN e ELSE s[j]
    BY ExceptSeq
  <2> QED
    BY <2>1, Zenon
<1>2. Len(s) \in Nat /\ \A j \in 1 .. Len(s) : s[j] \in X
  BY LenProperties, ElementOfSeq
<1>3. SubSeq(t, 1, i - 1) = SubSeq(s, 1, i - 1)
  <2>1. \A j \in 1 .. i - 1 : t[j] = s[j] /\ s[j] \in X
    BY <1>1, <1>2
  <2> QED
    BY <2>1, <1>2
<1>4. SubSeq(t, i + 1, Len(t)) = SubSeq(s, i + 1, Len(s))
  <2>1. \A j \in i + 1 .. Len(s) : t[j] = s[j] /\ s[j] \in X
    BY <1>1, <1>2
  <2> QED
    BY <1>1, <2>1, <1>2
<1>5. Piece(t[i], K) = <<>> /\ Piece(s[i], K) = <<>>
  BY <1>1 DEF Piece
<1>6. Keep(t, K) = Keep(SubSeq(t, 1, i - 1), K)
                   \o (Piece(t[i], K) \o Keep(SubSeq(t, i + 1, Len(t)), K))
  <2>1. i \in 1 .. Len(t)
    BY <1>1
  <2> QED
    BY <2>1, KeepSplit
<1>7. Keep(s, K) = Keep(SubSeq(s, 1, i - 1), K)
                   \o (Piece(s[i], K) \o Keep(SubSeq(s, i + 1, Len(s)), K))
  BY KeepSplit
<1>8. Keep(t, K) = Keep(s, K)
  BY <1>3, <1>4, <1>5, <1>6, <1>7
<1> QED
  BY <1>1, <1>8

\* ... removed, ...
LEMMA KeepRemoved ==
  ASSUME NEW X, NEW s \in Seq(X), NEW i \in 1 .. Len(s), NEW K, s[i] \notin K
  PROVE  RemoveAt(s, i) \in Seq(X) /\ Keep(RemoveAt(s, i), K) = Keep(s, K)
<1>1. PICK a \in Seq(X), c \in Seq(X) :
        a = SubSeq(s, 1, i - 1) /\ c = SubSeq(s, i + 1, Len(s))
  BY SplitAt
<1>2. RemoveAt(s, i) = a \o c
  BY <1>1 DEF RemoveAt
<1>3. a \o c \in Seq(X)
  BY ConcatProperties
<1>4. Keep(a \o c, K) = Keep(a, K) \o Keep(c, K)
  BY KeepConcat
<1>5. Keep(s, K) = Keep(a, K) \o (Piece(s[i], K) \o Keep(c, K))
  BY <1>1, KeepSplit
<1>6. Piece(s[i], K) = <<>>
  BY DEF Piece
<1>7. Keep(c, K) \in Seq(X)
  BY KeepType
<1>8. <<>> \o Keep(c, K) = Keep(c, K)
  BY <1>7, ConcatEmptySeq
<1> QED
  BY <1>2, <1>3, <1>4, <1>5, <1>6, <1>8

\* ... or inserted.
LEMMA KeepInserted ==
  ASSUME NEW X, NEW s \in Seq(X), NEW i \in 1 .. Len(s), NEW K, NEW e \in X,
         e \notin K
  PROVE  /\ InsertAt(s, i, e) \in Seq(X) /\ Keep(InsertAt(s, i, e), K) = Keep(s, K)
<1>0. /\ SubSeq(s, 1, i - 1) \in Seq(X) /\ SubSeq(s, i + 1, Len(s)) \in Seq(X)
      /\ SubSeq(s, i, Len(s)) \in Seq(X) /\ <<s[i]>> \in Seq(X)
      /\ s = SubSeq(s, 1, i - 1) \o SubSeq(s, i, Len(s))
      /\ SubSeq(s, i, Len(s)) = <<s[i]>> \o SubSeq(s, i + 1, Len(s))
  BY SplitAt
<1>1. ASSUME NEW u \in Seq(X), NEW v \in Seq(X)
       PROVE  Keep(u \o v, K) = Keep(u, K) \o Keep(v, K)
  BY KeepConcat
<1>2. PICK a \in Seq(X), c \in Seq(X) :
        a = SubSeq(s, 1, i - 1) /\ c = SubSeq(s, i, Len(s)) /\ s = a \o c
  BY <1>0, Zenon
<1>3. <<e>> \in Seq(X)
  OBVIOUS
<1>4. PICK b \in Seq(X), d \in Seq(X) : b = <<e>> /\ d = a \o b
  BY <1>3, ConcatProperties
<1>5. InsertAt(s, i, e) = d \o c
  BY <1>2, <1>4 DEF InsertAt
<1>6. d \o c \in Seq(X)
  BY ConcatProperties
<1>7. Keep(d \o c, K) = Keep(d, K) \o Keep(c, K)
  BY <1>1
<1>8. Keep(a \o b, K) = Keep(a, K) \o Keep(b, K)
  BY <1>1
<1>9. Keep(b, K) = <<>>
  BY <1>4, KeepOne DEF Piece
<1>10. Keep(a, K) \in Seq(X)
  BY KeepType
<1>11. Keep(a, K) \o <<>> = Keep(a, K)
  BY <1>10, ConcatEmptySeq
<1>12. Keep(a \o c, K) = Keep(a, K) \o Keep(c, K)
  BY <1>1
<1> QED
  BY <1>2, <1>4, <1>5, <1>6, <1>7, <1>8, <1>9, <1>11, <1>12

\* The same at the end.
LEMMA KeepAppended ==
  ASSUME NEW X, NEW s \in Seq(X), NEW K, NEW e \in X, e \notin K
  PROVE  Append(s, e) \in Seq(X) /\ Keep(Append(s, e), K) = Keep(s, K)
<1>1. Append(s, e) \in Seq(X) /\ Keep(Append(s, e), K) = Keep(s, K) \o Piece(e, K)
  BY AppendProperties, KeepAppend
<1>2. Piece(e, K) = <<>> /\ Keep(s, K) \in Seq(X)
  BY KeepType DEF Piece
<1>3. Keep(s, K) \o <<>> = Keep(s, K)
  BY <1>2, ConcatEmptySeq
<1> QED
  BY <1>1, <1>2, <1>3

\* Min is a member.
LEMMA MinMember ==
  ASSUME NEW S, S \subseteq Nat, S # {} PROVE Min(S) \in S
<1>1. \E n \in S : \A m \in S : n <= m
  BY LeastNat
<1> QED
  BY <1>1 DEF Min

\* An entry that is found has the id that was looked for.
LEMMA InEntriesFacts ==
  ASSUME NEW Ids, NEW es \in Seq(Entries(Ids)), NEW id, InEntries(es, id) # 0
  PROVE  InEntries(es, id) \in 1 .. Len(es) /\ es[InEntries(es, id)].id = id
<1> DEFINE I == {i \in 1 .. Len(es) : es[i].id = id}
<1>1. Len(es) \in Nat
  BY LenProperties
<1>2. InEntries(es, id) = IF I # {} THEN Min(I) ELSE 0
  BY DEF InEntries, SelectInSeq
<1>3. I \subseteq Nat
  BY <1>1
<1>4. I # {} => Min(I) \in I
  <2> HIDE DEF I
  <2> QED
    BY <1>3, MinMember
<1>5. InEntries(es, id) \in I
  BY <1>2, <1>4
<1> QED
  BY <1>5

\* A section that is found has an entry with the id.
LEMMA SectionOfFacts ==
  ASSUME NEW Ids, NEW t \in Seq(Sections(Ids)), NEW id, SectionOf(t, id) # 0
  PROVE  /\ SectionOf(t, id) \in 1 .. Len(t)
         /\ InEntries(t[SectionOf(t, id)].entries, id) # 0
<1> DEFINE I == {i \in 1 .. Len(t) : InEntries(t[i].entries, id) # 0}
<1>1. Len(t) \in Nat
  BY LenProperties
<1>2. SectionOf(t, id) = IF I # {} THEN Min(I) ELSE 0
  BY DEF SectionOf, SelectInSeq
<1>3. I \subseteq Nat
  BY <1>1
<1>4. I # {} => Min(I) \in I
  <2> HIDE DEF I
  <2> QED
    BY <1>3, MinMember
<1>5. SectionOf(t, id) \in I
  BY <1>2, <1>4
<1> QED
  BY <1>5

\* The entries outside the ids N, as a set that does not depend on the section
Outside(Ids, N) == {e \in Entries(Ids) : e.id \notin N}

\* Others is Keep of that set.
LEMMA OthersIsKeep ==
  ASSUME NEW Ids, NEW es \in Seq(Entries(Ids)), NEW N
  PROVE  Others(es, N) = Keep(es, Outside(Ids, N))
<1>1. DOMAIN es = 1 .. Len(es) /\ \A i \in 1 .. Len(es) : es[i] \in Entries(Ids)
  BY LenProperties, ElementOfSeq
<1> DEFINE K == {e \in Range(es) : e.id \notin N}
<1>2. \A i \in DOMAIN es : es[i] \in K <=> es[i] \in Outside(Ids, N)
  BY <1>1 DEF Outside, Range
<1> HIDE DEF K
<1>3. Pieces(es, K) = Pieces(es, Outside(Ids, N))
  BY <1>2 DEF Pieces, Piece
<1>4. Keep(es, K) = Keep(es, Outside(Ids, N))
  BY <1>3 DEF Keep, Pieces, Piece
<1> QED
  BY <1>4 DEF Others, K

\* A tree with another list of entries in one section.
LEMMA SectionChanged ==
  ASSUME NEW Ids, NEW t \in Trees(Ids), NEW s \in 1 .. Len(t),
         NEW es \in Seq(Entries(Ids)), NEW N,
         Keep(es, Outside(Ids, N)) = Keep(t[s].entries, Outside(Ids, N))
  PROVE  /\ [t EXCEPT ![s].entries = es] \in Trees(Ids)
         /\ SameOutside(N, t, [t EXCEPT ![s].entries = es])
<1>1. t \in Seq(Sections(Ids)) /\ t # <<>>
  BY DEF Trees, NoTree
<1>2. /\ Len(t) \in Nat /\ DOMAIN t = 1 .. Len(t)
      /\ \A i \in 1 .. Len(t) : t[i] \in Sections(Ids)
  BY <1>1, LenProperties, ElementOfSeq
<1>3. PICK x \in Sections(Ids) : x = [t[s] EXCEPT !.entries = es]
  BY <1>2 DEF Sections
<1>4. PICK u \in Seq(Sections(Ids)) :
        /\ u = [t EXCEPT ![s] = x] /\ Len(u) = Len(t)
        /\ \A i \in 1 .. Len(t) : u[i] = IF i = s THEN x ELSE t[i]
  <2>1. /\ [t EXCEPT ![s] = x] \in Seq(Sections(Ids))
        /\ Len([t EXCEPT ![s] = x]) = Len(t)
        /\ \A i \in 1 .. Len(t) : [t EXCEPT ![s] = x][i] = IF i = s THEN x ELSE t[i]
    BY <1>1, ExceptSeq
  <2> QED
    BY <2>1, Zenon
<1>5. u = [t EXCEPT ![s].entries = es]
  BY <1>3, <1>4
<1>6. u # <<>> /\ DOMAIN u = DOMAIN t
  BY <1>1, <1>2, <1>4, LenProperties, EmptySeq
<1>7. t[s].entries \in Seq(Entries(Ids))
  BY <1>2 DEF Sections
<1>8. Others(es, N) = Others(t[s].entries, N)
  BY <1>7, OthersIsKeep
<1>9. [x EXCEPT !.entries = Others(@, N)] = [t[s] EXCEPT !.entries = Others(@, N)]
  BY <1>2, <1>3, <1>8 DEF Sections
<1>10. ASSUME NEW i \in DOMAIN t
       PROVE  [t[i] EXCEPT !.entries = Others(@, N)] = [u[i] EXCEPT !.entries = Others(@, N)]
  BY <1>2, <1>4, <1>9
<1>11. SameOutside(N, t, u)
  BY <1>6, <1>10 DEF SameOutside
<1>12. u \in Trees(Ids)
  BY <1>6 DEF Trees, NoTree
<1> QED
  BY <1>5, <1>11, <1>12

\* What stays the same from tree to tree stays the same in the end.
LEMMA SameOutsideTransitive ==
  ASSUME NEW N, NEW t, NEW u, NEW v, SameOutside(N, t, u), SameOutside(N, u, v)
  PROVE  SameOutside(N, t, v) /\ SameOutside(N, t, t)
BY DEF SameOutside

\* The first section that has the entry, with the entry in it.
LEMMA FoundEntry ==
  ASSUME NEW Ids, NEW t \in Trees(Ids), NEW id, SectionOf(t, id) # 0
  PROVE  /\ SectionOf(t, id) \in 1 .. Len(t)
         /\ t[SectionOf(t, id)].entries \in Seq(Entries(Ids))
         /\ InEntries(t[SectionOf(t, id)].entries, id)
              \in 1 .. Len(t[SectionOf(t, id)].entries)
         /\ FindEntry(t, id) \in Entries(Ids) /\ FindEntry(t, id).id = id
<1>1. t \in Seq(Sections(Ids))
  BY DEF Trees
<1>2. SectionOf(t, id) \in 1 .. Len(t) /\ InEntries(t[SectionOf(t, id)].entries, id) # 0
  BY <1>1, SectionOfFacts, Zenon
<1>3. t[SectionOf(t, id)] \in Sections(Ids)
  BY <1>1, <1>2, ElementOfSeq
<1>4. PICK es \in Seq(Entries(Ids)) : es = t[SectionOf(t, id)].entries
  BY <1>3 DEF Sections
<1>5. InEntries(es, id) \in 1 .. Len(es) /\ es[InEntries(es, id)].id = id
  BY <1>2, <1>4, InEntriesFacts, Zenon
<1>6. es[InEntries(es, id)] \in Entries(Ids)
  BY <1>5, ElementOfSeq
<1> QED
  BY <1>2, <1>4, <1>5, <1>6, Zenon DEF FindEntry

\* Setting, removing and inserting an entry leaves the other ids alone.
LEMMA SetEntryFacts ==
  ASSUME NEW Ids, NEW t \in Trees(Ids), NEW id, NEW e \in Entries(Ids), NEW N,
         id \in N, e.id \in N, SectionOf(t, id) # 0
  PROVE  SetEntry(t, id, e) \in Trees(Ids) /\ SameOutside(N, t, SetEntry(t, id, e))
<1>1. PICK s \in 1 .. Len(t), es \in Seq(Entries(Ids)) :
        /\ s = SectionOf(t, id) /\ es = t[s].entries
        /\ InEntries(es, id) \in 1 .. Len(es) /\ es[InEntries(es, id)].id = id
  <2>1. /\ SectionOf(t, id) \in 1 .. Len(t)
        /\ t[SectionOf(t, id)].entries \in Seq(Entries(Ids))
        /\ InEntries(t[SectionOf(t, id)].entries, id)
             \in 1 .. Len(t[SectionOf(t, id)].entries)
        /\ FindEntry(t, id) \in Entries(Ids) /\ FindEntry(t, id).id = id
    BY FoundEntry, Zenon
  <2> QED
    BY <2>1, Zenon DEF FindEntry
<1>2. PICK i \in 1 .. Len(es) : i = InEntries(es, id)
  BY <1>1
<1> DEFINE K == Outside(Ids, N)
<1>3. e \notin K /\ es[i] \notin K
  BY <1>1, <1>2 DEF Outside
<1> HIDE DEF K
<1>4. [es EXCEPT ![i] = e] \in Seq(Entries(Ids)) /\ Keep([es EXCEPT ![i] = e], K) = Keep(es, K)
  BY <1>3, KeepReplaced, SMTT(30)
<1>5. PICK fs \in Seq(Entries(Ids)) : fs = [es EXCEPT ![i] = e] /\ Keep(fs, K) = Keep(es, K)
  BY <1>4
<1>6. Keep(fs, Outside(Ids, N)) = Keep(t[s].entries, Outside(Ids, N))
  BY <1>1, <1>5, Zenon DEF K
<1>7. [t EXCEPT ![s].entries = fs] \in Trees(Ids) /\ SameOutside(N, t, [t EXCEPT ![s].entries = fs])
  BY <1>6, SectionChanged, Zenon
<1>8. SetEntry(t, id, e) = [t EXCEPT ![s].entries[i] = e]
  BY <1>1, <1>2 DEF SetEntry
<1>9. [t EXCEPT ![s].entries[i] = e] = [t EXCEPT ![s].entries = fs]
  BY <1>1, <1>5 
<1> QED
  BY <1>7, <1>8, <1>9, Zenon

\* The same for remove_entry, ...
LEMMA RemoveEntryFacts ==
  ASSUME NEW Ids, NEW t \in Trees(Ids), NEW id, NEW N, id \in N, SectionOf(t, id) # 0
  PROVE  RemoveEntry(t, id) \in Trees(Ids) /\ SameOutside(N, t, RemoveEntry(t, id))
<1>1. PICK s \in 1 .. Len(t), es \in Seq(Entries(Ids)) :
        /\ s = SectionOf(t, id) /\ es = t[s].entries
        /\ InEntries(es, id) \in 1 .. Len(es) /\ es[InEntries(es, id)].id = id
  <2>1. /\ SectionOf(t, id) \in 1 .. Len(t)
        /\ t[SectionOf(t, id)].entries \in Seq(Entries(Ids))
        /\ InEntries(t[SectionOf(t, id)].entries, id)
             \in 1 .. Len(t[SectionOf(t, id)].entries)
        /\ FindEntry(t, id) \in Entries(Ids) /\ FindEntry(t, id).id = id
    BY FoundEntry, Zenon
  <2> QED
    BY <2>1, Zenon DEF FindEntry
<1>2. PICK i \in 1 .. Len(es) : i = InEntries(es, id)
  BY <1>1
<1> DEFINE K == Outside(Ids, N)
<1>3. es[i] \notin K
  BY <1>1, <1>2 DEF Outside
<1> HIDE DEF K
<1>4. RemoveAt(es, i) \in Seq(Entries(Ids)) /\ Keep(RemoveAt(es, i), K) = Keep(es, K)
  BY <1>3, KeepRemoved, Zenon
<1>5. PICK fs \in Seq(Entries(Ids)) : fs = RemoveAt(es, i) /\ Keep(fs, K) = Keep(es, K)
  BY <1>4
<1>6. Keep(fs, Outside(Ids, N)) = Keep(t[s].entries, Outside(Ids, N))
  BY <1>1, <1>5, Zenon DEF K
<1>7. [t EXCEPT ![s].entries = fs] \in Trees(Ids) /\ SameOutside(N, t, [t EXCEPT ![s].entries = fs])
  BY <1>6, SectionChanged, Zenon
<1>8. RemoveEntry(t, id) = [t EXCEPT ![s].entries = RemoveAt(@, InEntries(@, id))]
  BY <1>1 DEF RemoveEntry
<1>9. [t EXCEPT ![s].entries = RemoveAt(@, InEntries(@, id))] = [t EXCEPT ![s].entries = fs]
  BY <1>1, <1>2, <1>5
<1> QED
  BY <1>7, <1>8, <1>9, Zenon

\* ... and for insert_entry.
LEMMA InsertEntryFacts ==
  ASSUME NEW Ids, NEW t \in Trees(Ids), NEW e \in Entries(Ids), NEW before, NEW N, e.id \in N
  PROVE  \/ InsertEntry(t, e, before) = NoTree
         \/ /\ InsertEntry(t, e, before) \in Trees(Ids)
            /\ SameOutside(N, t, InsertEntry(t, e, before))
<1> DEFINE K == Outside(Ids, N)
<1>1. e \notin K
  BY DEF Outside
<1> HIDE DEF K
<1>2. ASSUME NEW s \in 1 .. Len(t), NEW fs \in Seq(Entries(Ids)),
             Keep(fs, K) = Keep(t[s].entries, K)
      PROVE  [t EXCEPT ![s].entries = fs] \in Trees(Ids) /\ SameOutside(N, t, [t EXCEPT ![s].entries = fs])
  <2>1. Keep(fs, Outside(Ids, N)) = Keep(t[s].entries, Outside(Ids, N))
    BY <1>2, Zenon DEF K
  <2> QED
    BY <2>1, SectionChanged, Zenon
<1>3. CASE before = ""
  <2>1. t \in Seq(Sections(Ids)) /\ t # <<>>
    BY DEF Trees, NoTree
  <2>2. 1 \in 1 .. Len(t) /\ t[1] \in Sections(Ids)
    BY <2>1, EmptySeq, ElementOfSeq, LenProperties
  <2>3. PICK es \in Seq(Entries(Ids)) : es = t[1].entries
    BY <2>2 DEF Sections
  <2>4. Append(es, e) \in Seq(Entries(Ids)) /\ Keep(Append(es, e), K) = Keep(es, K)
    BY <1>1, KeepAppended, SMTT(30)
  <2>5. PICK fs \in Seq(Entries(Ids)) : fs = Append(es, e) /\ Keep(fs, K) = Keep(es, K)
    BY <2>4
  <2>6. InsertEntry(t, e, before) = [t EXCEPT ![1].entries = Append(@, e)]
    BY <1>3 DEF InsertEntry
  <2>7. [t EXCEPT ![1].entries = Append(@, e)] = [t EXCEPT ![1].entries = fs]
    BY <2>3, <2>5
  <2>8. [t EXCEPT ![1].entries = fs] \in Trees(Ids) /\ SameOutside(N, t, [t EXCEPT ![1].entries = fs])
    BY <2>2, <2>3, <2>5, <1>2, Zenon
  <2> QED
    BY <2>6, <2>7, <2>8, Zenon
<1>4. CASE before # "" /\ SectionOf(t, before) = 0
  BY <1>4 DEF InsertEntry
<1>5. CASE before # "" /\ SectionOf(t, before) # 0
  <2>1. PICK s \in 1 .. Len(t), es \in Seq(Entries(Ids)) :
          /\ s = SectionOf(t, before) /\ es = t[s].entries
          /\ InEntries(es, before) \in 1 .. Len(es)
    <3>1. /\ SectionOf(t, before) \in 1 .. Len(t)
          /\ t[SectionOf(t, before)].entries \in Seq(Entries(Ids))
          /\ InEntries(t[SectionOf(t, before)].entries, before)
               \in 1 .. Len(t[SectionOf(t, before)].entries)
          /\ FindEntry(t, before) \in Entries(Ids) /\ FindEntry(t, before).id = before
      BY <1>5, FoundEntry, Zenon
    <3> QED
      BY <3>1, Zenon
  <2>2. PICK i \in 1 .. Len(es) : i = InEntries(es, before)
    BY <2>1
  <2>3. InsertAt(es, i, e) \in Seq(Entries(Ids)) /\ Keep(InsertAt(es, i, e), K) = Keep(es, K)
    BY <1>1, KeepInserted, SMTT(30)
  <2>4. PICK fs \in Seq(Entries(Ids)) : fs = Place(es, i, e) /\ Keep(fs, K) = Keep(es, K)
    BY <2>3 DEF Place
  <2>5. InsertEntry(t, e, before) = [t EXCEPT ![s].entries = Place(@, InEntries(@, before), e)]
    BY <1>5, <2>1 DEF InsertEntry
  <2>6. [t EXCEPT ![s].entries = Place(@, InEntries(@, before), e)] = [t EXCEPT ![s].entries = fs]
    BY <2>1, <2>2, <2>4
  <2>7. [t EXCEPT ![s].entries = fs] \in Trees(Ids) /\ SameOutside(N, t, [t EXCEPT ![s].entries = fs])
    BY <2>1, <2>4, <1>2, Zenon
  <2> QED
    BY <2>5, <2>6, <2>7, Zenon
<1> QED
  BY <1>3, <1>4, <1>5

\* Patch::apply_to changes nothing outside the ids the patch names.
LEMMA ApplyPatchFacts ==
  ASSUME NEW Ids, NEW t \in Trees(Ids), NEW p \in Patches(Ids), NEW N,
         p.id \in N, p.entry.id \in N
  PROVE  \/ ApplyPatch(t, p) = NoTree
         \/ ApplyPatch(t, p) \in Trees(Ids) /\ SameOutside(N, t, ApplyPatch(t, p))
<1>0. p.entry \in Entries(Ids) /\ t # NoTree
  BY DEF Patches, Trees
<1>1. CASE p.op = "insert"
  <2>1. ApplyPatch(t, p) = InsertEntry(t, p.entry, p.before)
    BY <1>0, <1>1 DEF ApplyPatch
  <2>2. \/ InsertEntry(t, p.entry, p.before) = NoTree
        \/ /\ InsertEntry(t, p.entry, p.before) \in Trees(Ids)
           /\ SameOutside(N, t, InsertEntry(t, p.entry, p.before))
    BY <1>0, InsertEntryFacts, Zenon
  <2> QED
    BY <2>1, <2>2, Zenon
<1>2. CASE p.op = "update"
  <2>1. CASE p.entry.id # p.id \/ SectionOf(t, p.id) = 0
    BY <1>0, <1>2, <2>1 DEF ApplyPatch, SetEntry
  <2>2. CASE p.entry.id = p.id /\ SectionOf(t, p.id) # 0
    <3>1. ApplyPatch(t, p) = SetEntry(t, p.id, p.entry)
      BY <1>0, <1>2, <2>2 DEF ApplyPatch
    <3>2. /\ SetEntry(t, p.id, p.entry) \in Trees(Ids)
          /\ SameOutside(N, t, SetEntry(t, p.id, p.entry))
      BY <1>0, <2>2, SetEntryFacts, Zenon
    <3> QED
      BY <3>1, <3>2, Zenon
  <2> QED
    BY <2>1, <2>2
<1>3. CASE p.op = "update-config"
  <2>1. CASE SectionOf(t, p.id) = 0
    BY <1>0, <1>3, <2>1 DEF ApplyPatch
  <2>2. CASE SectionOf(t, p.id) # 0
    <3>1. FindEntry(t, p.id) \in Entries(Ids) /\ FindEntry(t, p.id).id = p.id
      BY <2>2, FoundEntry, Zenon
    <3>2. PICK e \in Entries(Ids) :
            e = [FindEntry(t, p.id) EXCEPT !.version = p.entry.version] /\ e.id = p.id
      <4>1. PICK f \in Entries(Ids) : f = FindEntry(t, p.id) /\ f.id = p.id
        BY <3>1
      <4>2. p.entry.version \in Nat
        BY <1>0 DEF Entries
      <4>3. [f EXCEPT !.version = p.entry.version] \in Entries(Ids)
        BY <4>2 DEF Entries
      <4>4. [f EXCEPT !.version = p.entry.version].id = p.id
        BY <4>1 DEF Entries
      <4> QED
        BY <4>1, <4>3, <4>4
    <3>3. ApplyPatch(t, p) = SetEntry(t, p.id, e)
      BY <1>0, <1>3, <2>2, <3>2 DEF ApplyPatch
    <3>4. SetEntry(t, p.id, e) \in Trees(Ids) /\ SameOutside(N, t, SetEntry(t, p.id, e))
      BY <3>2, <2>2, SetEntryFacts, Zenon
    <3> QED
      BY <3>3, <3>4, Zenon
  <2> QED
    BY <2>1, <2>2
<1>4. CASE p.op = "remove"
  <2>1. ApplyPatch(t, p) = RemoveEntry(t, p.id)
    BY <1>0, <1>4 DEF ApplyPatch
  <2>2. CASE SectionOf(t, p.id) = 0
    BY <2>1, <2>2 DEF RemoveEntry
  <2>3. CASE SectionOf(t, p.id) # 0
    <3>1. RemoveEntry(t, p.id) \in Trees(Ids) /\ SameOutside(N, t, RemoveEntry(t, p.id))
      BY <2>3, RemoveEntryFacts, Zenon
    <3> QED
      BY <2>1, <3>1, Zenon
  <2> QED
    BY <2>2, <2>3
<1>5. CASE p.op = "move"
  <2>1. CASE p.before = p.id \/ SectionOf(t, p.id) = 0
    BY <1>0, <1>5, <2>1 DEF ApplyPatch
  <2>2. CASE p.before # p.id /\ SectionOf(t, p.id) # 0
    <3>1. FindEntry(t, p.id) \in Entries(Ids) /\ FindEntry(t, p.id).id = p.id
      BY <2>2, FoundEntry, Zenon
    <3>2. RemoveEntry(t, p.id) \in Trees(Ids) /\ SameOutside(N, t, RemoveEntry(t, p.id))
      BY <2>2, RemoveEntryFacts, Zenon
    <3>3. PICK u \in Trees(Ids), e \in Entries(Ids) :
            /\ u = RemoveEntry(t, p.id) /\ SameOutside(N, t, u)
            /\ e = FindEntry(t, p.id) /\ e.id = p.id
      BY <3>1, <3>2
    <3>4. \/ InsertEntry(u, e, p.before) = NoTree
          \/ /\ InsertEntry(u, e, p.before) \in Trees(Ids)
             /\ SameOutside(N, u, InsertEntry(u, e, p.before))
      BY <3>3, InsertEntryFacts, Zenon
    <3>5. ApplyPatch(t, p) = InsertEntry(u, e, p.before)
      BY <1>0, <1>5, <2>2, <3>3 DEF ApplyPatch
    <3>6. SameOutside(N, u, InsertEntry(u, e, p.before)) => SameOutside(N, t, InsertEntry(u, e, p.before))
      BY <3>3, SameOutsideTransitive, SMTT(30)
    <3> QED
      BY <3>4, <3>5, <3>6, Zenon
  <2> QED
    BY <2>1, <2>2
<1> QED
  BY <1>1, <1>2, <1>3, <1>4, <1>5 DEF Patches

\* The trees after the first i of the patches ps, for each i in 0 .. n
Patched(f, t, ps, n) ==
  f = [i \in 0 .. n |-> IF i = 0 THEN t ELSE ApplyPatch(f[i - 1], ps[i])]

\* Such a function exists.
LEMMA PatchedExists ==
  ASSUME NEW t, NEW ps PROVE \A n \in Nat : \E f : Patched(f, t, ps, n)
<1> DEFINE N == {n \in Nat : \E f : Patched(f, t, ps, n)}
<1>1. 0 \in N
  <2> DEFINE f == [i \in 0 .. 0 |-> t]
  <2>1. Patched(f, t, ps, 0)
    BY DEF Patched
  <2> QED
    BY <2>1
<1>2. ASSUME NEW n \in Nat, n \in N PROVE n + 1 \in N
  <2>1. PICK f : Patched(f, t, ps, n)
    BY <1>2
  <2>2. /\ DOMAIN f = 0 .. n
        /\ \A i \in 0 .. n : f[i] = IF i = 0 THEN t ELSE ApplyPatch(f[i - 1], ps[i])
    BY <2>1 DEF Patched
  <2> DEFINE g == [i \in 0 .. n + 1 |-> IF i = 0 THEN t ELSE ApplyPatch(f[i - 1], ps[i])]
  <2>3. ASSUME NEW i \in 0 .. n PROVE g[i] = f[i]
    <3>1. i \in 0 .. n + 1
      OBVIOUS
    <3>2. g[i] = IF i = 0 THEN t ELSE ApplyPatch(f[i - 1], ps[i])
      BY <3>1
    <3> QED
      BY <2>2, <3>2
  <2>4. \A i \in 0 .. n + 1 : i # 0 => i - 1 \in 0 .. n
    OBVIOUS
  <2>5. \A i \in 0 .. n + 1 : g[i] = IF i = 0 THEN t ELSE ApplyPatch(g[i - 1], ps[i])
    BY <2>3, <2>4
  <2>6. DOMAIN g = 0 .. n + 1 /\ g = [i \in DOMAIN g |-> g[i]]
    OBVIOUS
  <2> HIDE DEF g
  <2>7. Patched(g, t, ps, n + 1)
    BY <2>5, <2>6 DEF Patched
  <2> QED
    BY <2>7
<1> QED
  <2> HIDE DEF N
  <2>1. Nat \subseteq N
    BY <1>1, <1>2, InductiveSet
  <2> QED
    BY <2>1 DEF N

\* EntryTree::apply_all: a tree it gives is valid, and is the same as before
\* outside the ids the patches name.
LEMMA ApplyAllFacts ==
  ASSUME NEW Ids, NEW t \in Trees(Ids), NEW ps \in Seq(Patches(Ids)),
         ApplyAll(t, ps) # NoTree
  PROVE  /\ ApplyAll(t, ps) \in Trees(Ids) /\ Valid(ApplyAll(t, ps))
         /\ SameOutside(Named(ps), t, ApplyAll(t, ps))
<1>1. PICK n \in Nat : n = Len(ps)
  BY LenProperties
<1> DEFINE f == AfterPatches(t, ps)
<1>2. Patched(f, t, ps, n)
  <2>1. f = CHOOSE g : Patched(g, t, ps, n)
    BY <1>1 DEF AfterPatches, Patched
  <2>2. \E g : Patched(g, t, ps, n)
    BY PatchedExists, Zenon
  <2> HIDE DEF f
  <2> QED
    BY <2>1, <2>2, Zenon
<1>3. ApplyAll(t, ps) = f[n] /\ Valid(f[n]) /\ f[n] # NoTree
  BY <1>1 DEF ApplyAll
<1> HIDE DEF f
<1>4. \A i \in 0 .. n : f[i] = IF i = 0 THEN t ELSE ApplyPatch(f[i - 1], ps[i])
  BY <1>2 DEF Patched
<1>5. PICK S : S = Named(ps)
  OBVIOUS
<1>6. ASSUME NEW i \in 1 .. n
      PROVE  ps[i] \in Patches(Ids) /\ ps[i].id \in S /\ ps[i].entry.id \in S
  <2>1. i \in 1 .. Len(ps) /\ ps[i] \in Patches(Ids)
    BY <1>1, ElementOfSeq
  <2>2. ps[i] \in Range(ps)
    BY <2>1, LenProperties DEF Range
  <2> QED
    BY <2>1, <2>2, <1>5, Zenon DEF Named
<1> DEFINE N == {m \in Nat : m <= n => f[m] = NoTree \/ (f[m] \in Trees(Ids) /\ SameOutside(S, t, f[m]))}
<1>7. 0 \in N
  BY <1>4, SameOutsideTransitive DEF SameOutside
<1>8. ASSUME NEW m \in Nat, m \in N PROVE m + 1 \in N
  <2> SUFFICES ASSUME m + 1 <= n
               PROVE  f[m + 1] = NoTree \/ (f[m + 1] \in Trees(Ids) /\ SameOutside(S, t, f[m + 1]))
    OBVIOUS
  <2>1. f[m + 1] = ApplyPatch(f[m], ps[m + 1])
    BY <1>4
  <2>2. CASE f[m] = NoTree
    BY <2>1, <2>2 DEF ApplyPatch
  <2>3. CASE f[m] # NoTree
    <3>1. PICK u \in Trees(Ids) : u = f[m] /\ SameOutside(S, t, u)
      BY <1>8, <2>3
    <3>2. PICK p \in Patches(Ids) : p = ps[m + 1] /\ p.id \in S /\ p.entry.id \in S
      BY <1>6
    <3>3. \/ ApplyPatch(u, p) = NoTree
          \/ ApplyPatch(u, p) \in Trees(Ids) /\ SameOutside(S, u, ApplyPatch(u, p))
      BY <3>2, ApplyPatchFacts, Zenon
    <3>4. f[m + 1] = ApplyPatch(u, p)
      BY <2>1, <3>1, <3>2, Zenon
    <3>5. SameOutside(S, u, f[m + 1]) => SameOutside(S, t, f[m + 1])
      BY <3>1, SameOutsideTransitive, Zenon
    <3> QED
      BY <3>3, <3>4, <3>5, Zenon
  <2> QED
    BY <2>2, <2>3
<1> HIDE DEF N
<1>9. n \in N
  BY <1>7, <1>8, InductiveSet
<1> QED
  BY <1>9, <1>3, <1>5 DEF N

-----------------------------------------------------------------------------
(***************************************************************************)
(* The entries of trees, and handles for them                              *)
(***************************************************************************)
\* What Keep gives has what was kept.
LEMMA KeepRange ==
  ASSUME NEW X, NEW s \in Seq(X), NEW K, NEW A, \A e \in X : e \in K => e \in A
  PROVE  Keep(s, K) \in Seq(A)
<1>1. Len(s) \in Nat /\ DOMAIN s = 1 .. Len(s) /\ \A i \in 1 .. Len(s) : s[i] \in X
  BY LenProperties, ElementOfSeq
<1>2. ASSUME NEW e \in X PROVE Piece(e, K) \in Seq(A)
  BY DEF Piece
<1>3. Pieces(s, K) \in [1 .. Len(s) -> Seq(A)]
  BY <1>1, <1>2 DEF Pieces
<1>4. Pieces(s, K) \in Seq(Seq(A))
  BY <1>1, <1>3, SeqDef
<1>5. <<>> \in Seq(A)
  OBVIOUS
<1>6. FlattenSeq(Pieces(s, K)) \in Seq(A)
  BY <1>4, <1>5, FlattenAppend, Zenon
<1>7. Keep(s, K) = FlattenSeq(Pieces(s, K))
  BY DEF Keep, Pieces, Piece
<1> QED
  BY <1>6, <1>7, Zenon

\* Entries that are not disabled
EnabledEntries(Ids) == [id : Ids, version : Nat, disabled : {FALSE}]

\* The active entries of a tree are such entries.
LEMMA ActiveEntriesType ==
  ASSUME NEW Ids, NEW t \in Trees(Ids)
  PROVE  ActiveEntries(t) \in Seq(EnabledEntries(Ids))
<1>0. t \in Seq(Sections(Ids))
  BY DEF Trees
<1>1. /\ Len(t) \in Nat /\ DOMAIN t = 1 .. Len(t)
      /\ \A i \in 1 .. Len(t) : t[i] \in Sections(Ids)
  BY <1>0, LenProperties, ElementOfSeq
<1>2. ASSUME NEW es \in Seq(Entries(Ids)) PROVE EnabledIn(es) \in Seq(EnabledEntries(Ids))
  <2> DEFINE K == {e \in Range(es) : ~e.disabled}
  <2>1. \A e \in Entries(Ids) : e \in K => e \in EnabledEntries(Ids)
    BY DEF Entries, EnabledEntries
  <2> HIDE DEF K
  <2>2. Keep(es, K) \in Seq(EnabledEntries(Ids))
    BY <2>1, KeepRange, Zenon
  <2> QED
    BY <2>2, Zenon DEF EnabledIn, K
<1> DEFINE ss == [i \in DOMAIN t |-> IF Off(t)[i] THEN <<>> ELSE EnabledIn(t[i].entries)]
<1>3. ASSUME NEW i \in 1 .. Len(t) PROVE ss[i] \in Seq(EnabledEntries(Ids))
  <2>1. t[i].entries \in Seq(Entries(Ids))
    BY <1>1 DEF Sections
  <2>2. EnabledIn(t[i].entries) \in Seq(EnabledEntries(Ids)) /\ <<>> \in Seq(EnabledEntries(Ids))
    BY <1>2, <2>1
  <2> QED
    BY <1>1, <2>2
<1>4. ss \in [1 .. Len(t) -> Seq(EnabledEntries(Ids))]
  BY <1>1, <1>3
<1>5. ss \in Seq(Seq(EnabledEntries(Ids)))
  BY <1>1, <1>4, SeqDef
<1>6. <<>> \in Seq(EnabledEntries(Ids))
  OBVIOUS
<1>7. ActiveEntries(t) = FlattenSeq(ss)
  BY DEF ActiveEntries
<1> HIDE DEF ss
<1>8. FlattenSeq(ss) \in Seq(EnabledEntries(Ids))
  BY <1>5, <1>6, FlattenAppend, Zenon
<1> QED
  BY <1>7, <1>8, Zenon

\* One handle for each active entry, in order.
LEMMA HandlesFacts ==
  ASSUME NEW t \in Trees(DOMAIN Needs)
  PROVE  /\ Handles(t) \in Seq(HandleRecords)
         /\ Len(Handles(t)) = Len(ActiveEntries(t))
         /\ \A i \in 1 .. Len(Handles(t)) :
              Handles(t)[i].entry = ActiveEntries(t)[i] /\ Handles(t)[i].st = "new"
<1>1. PICK es \in Seq(EnabledEntries(DOMAIN Needs)) : es = ActiveEntries(t)
  BY ActiveEntriesType, Zenon
<1>2. /\ Len(es) \in Nat /\ DOMAIN es = 1 .. Len(es)
      /\ \A i \in 1 .. Len(es) : es[i] \in EnabledEntries(DOMAIN Needs)
  BY LenProperties, ElementOfSeq
<1> DEFINE hs == [i \in 1 .. Len(es) |-> [entry |-> es[i], st |-> "new"]]
<1>3. Handles(t) = hs
  BY <1>1, <1>2, Zenon DEF Handles
<1>4. ASSUME NEW e \in EnabledEntries(DOMAIN Needs)
      PROVE  [entry |-> e, st |-> "new"] \in HandleRecords
  BY DEF HandleRecords, EnabledEntries, States
<1>5. hs \in [1 .. Len(es) -> HandleRecords]
  BY <1>2, <1>4
<1>6. hs \in Seq(HandleRecords) /\ Len(hs) = Len(es)
  BY <1>2, <1>5, SeqDef
<1>7. \A i \in 1 .. Len(es) : hs[i].entry = es[i] /\ hs[i].st = "new"
  OBVIOUS
<1> HIDE DEF hs
<1> QED
  BY <1>1, <1>3, <1>6, <1>7

\* FlattenSeq of one sequence.
LEMMA FlattenOne ==
  ASSUME NEW X, NEW s \in Seq(X) PROVE FlattenSeq(<<s>>) = s
<1>1. <<>> \in Seq(Seq(X)) /\ Append(<<>>, s) = <<s>>
  OBVIOUS
<1>2. /\ FlattenSeq(<<>>) = <<>>
      /\ FlattenSeq(<<>>) \in Seq(X)
      /\ FlattenSeq(Append(<<>>, s)) = FlattenSeq(<<>>) \o s
  BY <1>1, FlattenAppend, Zenon
<1>3. <<>> \o s = s
  BY ConcatEmptySeq
<1> QED
  BY <1>1, <1>2, <1>3, Zenon

\* The entries of a tree that is only a root.
LEMMA RootEntries ==
  ASSUME NEW X, NEW es \in Seq(X) PROVE AllEntries(<<Root(es)>>) = es
<1>1. [i \in DOMAIN <<Root(es)>> |-> <<Root(es)>>[i].entries] = <<es>>
  BY DEF Root
<1>2. FlattenSeq(<<es>>) = es
  BY FlattenOne, Zenon
<1> QED
  BY <1>1, <1>2, Zenon DEF AllEntries

\* The empty tree is valid and has no entries.
LEMMA EmptyTreeFacts ==
  /\ EmptyTree # NoTree /\ Valid(EmptyTree)
  /\ \A Ids : EmptyTree \in Trees(Ids)
  /\ ActiveEntries(EmptyTree) = <<>>
<1>1. ASSUME NEW Ids PROVE EmptyTree \in Trees(Ids)
  <2>1. Root(<<>>) \in Sections(Ids)
    BY DEF Root, Sections
  <2>2. <<Root(<<>>)>> \in Seq(Sections(Ids)) /\ <<Root(<<>>)>> # <<>>
    BY <2>1
  <2> QED
    BY <2>2 DEF Trees, NoTree, EmptyTree
<1>2. AllEntries(EmptyTree) = <<>>
  <2>1. <<>> \in Seq({})
    OBVIOUS
  <2> QED
    BY <2>1, RootEntries, Zenon DEF EmptyTree
<1>3. DOMAIN Qualified(EmptyTree) = {1}
  <2> DEFINE P(f) == f = [i \in DOMAIN EmptyTree |->
                IF EmptyTree[i].parent = 0 THEN <<>>
                ELSE LET p == f[EmptyTree[i].parent] IN
                     IF p = <<>> \/ IsStrictPrefix(p, EmptyTree[i].group)
                     THEN EmptyTree[i].group ELSE p \o EmptyTree[i].group]
  <2>1. DOMAIN EmptyTree = {1} /\ EmptyTree[1].parent = 0
    BY DEF EmptyTree, Root
  <2> DEFINE g == [i \in DOMAIN EmptyTree |-> <<>>]
  <2>2. P(g)
    BY <2>1
  <2>3. Qualified(EmptyTree) = CHOOSE f : P(f)
    BY DEF Qualified
  <2>4. P(CHOOSE f : P(f))
    BY <2>2, Zenon
  <2>5. P(Qualified(EmptyTree))
    BY <2>3, <2>4, Zenon
  <2> QED
    BY <2>1, <2>5
<1>4. IsInjective(Qualified(EmptyTree))
  BY <1>3 DEF IsInjective
<1>5. UniqueIds(EmptyTree) /\ Range(AllEntries(EmptyTree)) = {}
  BY <1>2 DEF UniqueIds, Range
<1>6. ActiveEntries(EmptyTree) = <<>>
  <2> DEFINE ss == [i \in DOMAIN EmptyTree |->
                IF Off(EmptyTree)[i] THEN <<>> ELSE EnabledIn(EmptyTree[i].entries)]
  <2>1. DOMAIN EmptyTree = {1} /\ EmptyTree[1].entries = <<>>
    BY DEF EmptyTree, Root
  <2>2. EnabledIn(<<>>) = <<>>
    <3>1. <<>> \in Seq({})
      OBVIOUS
    <3> QED
      BY <3>1, KeepType, Zenon DEF EnabledIn
  <2>3. ss = << <<>> >>
    BY <2>1, <2>2
  <2>4. ActiveEntries(EmptyTree) = FlattenSeq(<< <<>> >>)
    BY <2>3, Zenon DEF ActiveEntries
  <2>5. <<>> \in Seq({})
    OBVIOUS
  <2> QED
    BY <2>4, <2>5, FlattenOne, Zenon
<1> QED
  BY <1>1, <1>4, <1>5, <1>6 DEF Valid, EmptyTree, NoTree

\* A document that is cut short is not valid.
LEMMA HalfIsNotValid == ~Valid(Half)
<1> DEFINE e == Entry("half", 0, FALSE)
<1>1. <<e>> \in Seq({e})
  OBVIOUS
<1>2. AllEntries(Half) = <<e>>
  <2> HIDE DEF e
  <2>1. AllEntries(<<Root(<<e>>)>>) = <<e>>
    BY <1>1, RootEntries, Zenon
  <2> QED
    BY <2>1, Zenon DEF Half, e
<1>3. e.version = 0
  BY DEF Entry
<1>4. e \in Range(<<e>>)
  <2> HIDE DEF e
  <2>1. 1 \in DOMAIN <<e>> /\ <<e>>[1] = e
    OBVIOUS
  <2> QED
    BY <2>1, Zenon DEF Range
<1> HIDE DEF e
<1> QED
  BY <1>2, <1>3, <1>4, Zenon DEF Valid

-----------------------------------------------------------------------------
(***************************************************************************)
(* The inductive invariant of the loader                                   *)
(***************************************************************************)
Dead == {"Disposed", "Broken"}
Fresh == {"new", "refused", "imported"}

AllIn(handles, S) == \A i \in DOMAIN handles : handles[i].st \in S

\* The handles from p on have been disposed of.
DeadFrom(handles, p) == \A i \in DOMAIN handles : i > p => handles[i].st \in Dead

\* One handle for each active entry of t, in order
Matches(handles, t) ==
  /\ Len(handles) = Len(ActiveEntries(t))
  /\ \A i \in DOMAIN handles : handles[i].entry = ActiveEntries(t)[i]

\* The tree that the handles in cand are for
Goal == IF restoring THEN tree ELSE job

Between == phase \in {"idle", "persist"}

\* The trees, the file and the flags of a call
TreesOK ==
  /\ tree \in Trees(DOMAIN Needs) /\ Valid(tree)
  /\ Between <=> job = NoTree
  /\ ~Between => job \in Trees(DOMAIN Needs) /\ Valid(job)
  /\ PatchesAreLocal
  /\ phase = "unload" => job = EmptyTree
  /\ restoring => phase \in {"import", "activate", "discard-import", "discard-activate"}
  /\ phase \notin {"activate", "discard-activate"} => todo = {} /\ later = {}
  /\ FileIsWhole /\ NoHandleDropped

\* What is live: everything between two calls and during an import, nothing
\* from the moment the candidate is started, and less and less in between
LiveOK ==
  /\ live # <<>> => Matches(live, tree)
  /\ (Between \/ phase \in {"import", "discard-import"}) /\ ~restoring /\ ~outage =>
       Matches(live, tree) /\ AllIn(live, Following)
  /\ restoring \/ phase \in {"activate", "discard-activate"} => live = <<>>
  /\ phase \in {"retire", "unload"} => DeadFrom(live, pos)
  /\ phase = "discard-retire" => AllIn(live, Dead)

\* Who is not in todo has answered, and follows its providers since.
Answered(hs, asked) == \A i \in DOMAIN hs : i \in asked \/ hs[i].st \in Following

\* What the candidate is
CandOK ==
  /\ Between \/ phase = "unload" => cand = <<>>
  /\ phase \in {"import", "retire", "activate"} => Matches(cand, Goal)
  /\ phase = "import" => AllIn(cand, Fresh)
  /\ phase = "import" /\ ~failed => AllIn(cand, {"new", "imported"})
  /\ phase = "retire" => AllIn(cand, {"imported"})
  /\ phase \in {"discard-import", "discard-retire"} => AllIn(cand, {"imported"} \cup Dead)
  /\ Discarding => DeadFrom(cand, pos)
  /\ phase = "activate" =>
       AllIn(cand, {"imported"} \cup Following) /\ Answered(cand, todo)

\* The handles whose providers are all in the tree, as are the providers of these
Sheltered(hs) == {i \in DOMAIN hs : ~IsExposed(hs[i])}

\* A round of activate_all.  As long as nothing has failed, and as far as it is
\* up to the tree, handles that were started have their providers; every handle
\* that is not active is still to be asked, now or in the next round; and a round
\* in which nothing became active yet has either left nobody behind who could be,
\* or one to ask who can.
RoundOK ==
  phase = "activate" /\ ~failed =>
    /\ \A i \in Sheltered(cand) : cand[i].st \in WithProviders => Satisfied(cand, cand[i])
    /\ \A i \in Sheltered(cand) : cand[i].st # "Active" =>
         i \in todo \/ i \in later
    /\ \A i \in Sheltered(cand) : cand[i].st # "StopFailed"
    /\ ~progressed =>
         \/ \A i \in Sheltered(cand) : i \in later => ~Satisfied(cand, cand[i])
         \/ \E i \in Sheltered(cand) : i \in todo /\ Satisfied(cand, cand[i])

LInv == LTypeOK /\ TreesOK /\ LiveOK /\ CandOK /\ RoundOK

(***************************************************************************)
(* ... and of the watcher                                                  *)
(***************************************************************************)
\* A client has no watcher; the worker of a watcher is the only caller.
OwnerOK ==
  /\ owner = "client" => wpc = "observe" /\ opc = "starting"
  /\ owner = "watcher" /\ wpc \notin {"replacing", "unloading"} => phase = "idle"
  /\ wpc = "replacing" => phase \notin {"persist", "unload"}
  /\ wpc = "unloading" => phase \in {"idle", "unload"}

\* The snapshot shows the tree, except when a call has just succeeded.
ShownOK ==
  /\ shown \in [tree : Trees(DOMAIN Needs), committed : Nat, rejected : Nat, running : BOOLEAN]
  /\ owner = "watcher" =>
       /\ wpc # "unloading" /\ ~(wpc = "replacing" /\ phase = "idle" /\ ok) => shown.tree = tree
       /\ opc # "starting" => shown.committed + shown.rejected > 0
  /\ wpc = "unloading" /\ phase = "idle" => AllIn(live, Dead)
  /\ wpc = "done" => AllIn(live, Dead)

\* Every source that was applied or refused, or is about to be, was written; if
\* it is the last one, it is the source.
Seen == IF fresh # NoTree THEN fresh ELSE observed
Handled == shown.committed + shown.rejected + (IF fresh # NoTree THEN 1 ELSE 0)

SeenOK ==
  /\ fresh # NoTree <=> wpc \in {"apply", "replacing"}
  /\ Handled <= writes + 1
  /\ Handled = writes + 1 => Seen = source

WTypes ==
  /\ owner \in {"client", "watcher"}
  /\ source \in Sources /\ writes \in 0 .. MaxWrites
  /\ observed \in Sources \cup {NoTree} /\ fresh \in Sources \cup {NoTree}
  /\ wpc \in {"observe", "apply", "replacing", "loop", "wait", "awake", "unload",
              "unloading", "done"}
  /\ stopping \in BOOLEAN /\ permit \in BOOLEAN
  /\ opc \in {"starting", "running", "notifying", "joining", "stopped"}

WInv == LInv /\ WTypes /\ OwnerOK /\ ShownOK /\ SeenOK

-----------------------------------------------------------------------------
(***************************************************************************)
(* The steps of the loader keep it                                         *)
(***************************************************************************)
\* The handles of a sequence, by index.
LEMMA HandleFacts ==
  ASSUME NEW hs \in Seq(HandleRecords)
  PROVE  /\ Len(hs) \in Nat /\ DOMAIN hs = 1 .. Len(hs)
         /\ \A i \in DOMAIN hs : hs[i] \in HandleRecords /\ hs[i].st \in States
         /\ hs = <<>> <=> Len(hs) = 0
<1>1. Len(hs) \in Nat /\ DOMAIN hs = 1 .. Len(hs) /\ \A i \in 1 .. Len(hs) : hs[i] \in HandleRecords
  BY LenProperties, ElementOfSeq
<1>2. hs = <<>> <=> Len(hs) = 0
  BY EmptySeq
<1> QED
  BY <1>1, <1>2 DEF HandleRecords

\* The state of one handle is set.
LEMMA SetState ==
  ASSUME NEW hs \in Seq(HandleRecords), NEW i \in DOMAIN hs, NEW v \in States,
         NEW us, us = [hs EXCEPT ![i].st = v]
  PROVE  /\ us \in Seq(HandleRecords) /\ Len(us) = Len(hs) /\ DOMAIN us = DOMAIN hs
         /\ us[i].st = v
         /\ \A j \in DOMAIN hs : j # i => us[j] = hs[j]
         /\ \A j \in DOMAIN hs : us[j].entry = hs[j].entry
<1>1. /\ Len(hs) \in Nat /\ DOMAIN hs = 1 .. Len(hs)
      /\ \A j \in DOMAIN hs : hs[j] \in HandleRecords
  BY HandleFacts
<1>2. PICK x \in HandleRecords : x = [hs[i] EXCEPT !.st = v] /\ x.st = v /\ x.entry = hs[i].entry
  <2>1. PICK h \in HandleRecords : h = hs[i]
    BY <1>1
  <2>2. [h EXCEPT !.st = v] \in HandleRecords
    BY DEF HandleRecords
  <2>3. [h EXCEPT !.st = v].st = v /\ [h EXCEPT !.st = v].entry = h.entry
    BY DEF HandleRecords
  <2> QED
    BY <2>1, <2>2, <2>3
<1>3. us = [hs EXCEPT ![i] = x]
  BY <1>1, <1>2
<1>4. us \in [1 .. Len(hs) -> HandleRecords]
  BY <1>1, <1>3
<1>5. us \in Seq(HandleRecords) /\ Len(us) = Len(hs) /\ DOMAIN us = DOMAIN hs
  BY <1>1, <1>4, SeqDef
<1>6. us[i] = x /\ \A j \in DOMAIN hs : j # i => us[j] = hs[j]
  BY <1>1, <1>3
<1> QED
  BY <1>2, <1>5, <1>6

\* Matching depends on the entries only.
LEMMA StillMatches ==
  ASSUME NEW hs, NEW us, NEW t, Len(us) = Len(hs), DOMAIN us = DOMAIN hs,
         \A j \in DOMAIN hs : us[j].entry = hs[j].entry, Matches(hs, t)
  PROVE  Matches(us, t)
BY DEF Matches

\* The handles for a tree match it.
LEMMA NewHandles ==
  ASSUME NEW t \in Trees(DOMAIN Needs), NEW hs, hs = Handles(t)
  PROVE  hs \in Seq(HandleRecords) /\ Matches(hs, t) /\ AllIn(hs, {"new"})
<1>1. /\ hs \in Seq(HandleRecords)
      /\ Len(hs) = Len(ActiveEntries(t))
      /\ \A i \in 1 .. Len(hs) : hs[i].entry = ActiveEntries(t)[i] /\ hs[i].st = "new"
  BY HandlesFacts, Zenon
<1>2. DOMAIN hs = 1 .. Len(hs)
  BY <1>1, HandleFacts
<1> QED
  BY <1>1, <1>2 DEF Matches, AllIn

\* In the beginning everything is empty.
LEMMA LoaderStarts == LInit => LInv
<1> SUFFICES ASSUME LInit PROVE LInv
  OBVIOUS
<1>0. /\ EmptyTree # NoTree /\ Valid(EmptyTree) /\ EmptyTree \in Trees(DOMAIN Needs)
      /\ ActiveEntries(EmptyTree) = <<>> /\ NoTree # Half
  BY EmptyTreeFacts DEF NoTree, Half
<1>1. LTypeOK
  <2>1. MaxCalls \in Nat
    BY LoaderAssumption
  <2>2. live \in Seq(HandleRecords) /\ cand \in Seq(HandleRecords) /\ Range(live) = {}
    BY DEF LInit, Range
  <2>3. Len(live) = 0 /\ 0 \in 0 .. 0
    BY DEF LInit
  <2>4. pos \in 0 .. (IF Discarding THEN Len(cand) ELSE Len(live))
    BY <2>3 DEF LInit, Discarding
  <2>5. calls \in 0 .. MaxCalls
    BY <2>1 DEF LInit
  <2> QED
    BY <2>2, <2>4, <2>5 DEF LInit, LTypeOK
<1>2. TreesOK
  BY <1>0 DEF LInit, TreesOK, Between, PatchesAreLocal, FileIsWhole, NoHandleDropped
<1>3. LiveOK
  BY <1>0 DEF LInit, LiveOK, Between, Matches, AllIn
<1>4. CandOK /\ RoundOK
  BY DEF LInit, CandOK, RoundOK, Between, Discarding
<1> QED
  BY <1>1, <1>2, <1>3, <1>4 DEF LInv

\* A call begins with the import of a valid tree.
LEMMA ImportStarts ==
  ASSUME LInv, NEW t \in Trees(DOMAIN Needs), Valid(t), phase = "idle", calls < MaxCalls,
         job' = t, StartImport(t), calls' = calls + 1,
         named' # {} => SameOutside(named', tree, t),
         UNCHANGED <<treeVars, restoring, ok, outage, dropped, fileVars>>
  PROVE  LInv'
<1>1. cand' \in Seq(HandleRecords) /\ Matches(cand', t) /\ AllIn(cand', {"new"})
  BY NewHandles, Zenon DEF StartImport
<1>2. LTypeOK'
  <2>1. MaxCalls \in Nat
    BY LoaderAssumption
  <2>2. Len(live) \in Nat
    BY HandleFacts DEF LInv, LTypeOK
  <2>3. 0 \in 0 .. Len(live)
    BY <2>2
  <2>4. calls' \in 0 .. MaxCalls
    BY <2>1 DEF LInv, LTypeOK
  <2> QED
    BY <1>1, <2>3, <2>4 DEF LInv, LTypeOK, StartImport, treeVars, Discarding
<1>3. TreesOK'
  BY DEF LInv, TreesOK, StartImport, treeVars, fileVars, Between, PatchesAreLocal, FileIsWhole,
         NoHandleDropped, Trees
<1>4. LiveOK'
  BY DEF LInv, TreesOK, LiveOK, StartImport, treeVars, Between
<1>5. CandOK'
  BY <1>1 DEF LInv, TreesOK, CandOK, StartImport, treeVars, Between, Goal, AllIn, Fresh, Discarding
<1>6. RoundOK'
  BY DEF RoundOK, StartImport
<1> QED
  BY <1>2, <1>3, <1>4, <1>5, <1>6 DEF LInv

\* Loader::load and replace.
LEMMA ReplaceKeeps ==
  ASSUME LInv, NEW t \in Trees(DOMAIN Needs), Replace(t) PROVE LInv'
BY ImportStarts DEF Replace

\* Loader::update.
LEMMA UpdateKeeps ==
  ASSUME LInv, NEW p \in PatchLists, Update(p) PROVE LInv'
<1>1. PICK t \in Trees(DOMAIN Needs), ps \in Seq(Patches(DOMAIN Needs)) : t = tree /\ ps = p
  BY LoaderAssumption DEF LInv, TreesOK
<1>2. ApplyAll(t, ps) # NoTree
  BY <1>1 DEF Update
<1>3. /\ ApplyAll(t, ps) \in Trees(DOMAIN Needs) /\ Valid(ApplyAll(t, ps))
      /\ SameOutside(Named(ps), t, ApplyAll(t, ps))
  BY <1>2, ApplyAllFacts, Zenon
<1>4. /\ job' \in Trees(DOMAIN Needs) /\ Valid(job')
      /\ SameOutside(named', tree, job') /\ StartImport(job')
      /\ phase = "idle" /\ calls < MaxCalls /\ calls' = calls + 1
      /\ UNCHANGED <<treeVars, restoring, ok, outage, dropped, fileVars>>
  BY <1>1, <1>3, Zenon DEF Update
<1> QED
  BY <1>4, ImportStarts, Zenon

\* Loader::unload.
LEMMA UnloadKeeps ==
  ASSUME LInv, Unload PROVE LInv'
<1>0. EmptyTree # NoTree /\ Valid(EmptyTree) /\ EmptyTree \in Trees(DOMAIN Needs)
  BY EmptyTreeFacts
<1>1. Len(live) \in Nat /\ DOMAIN live = 1 .. Len(live)
  BY HandleFacts DEF LInv, LTypeOK
<1>2. LTypeOK'
  <2>1. Len(live) \in 0 .. Len(live)
    BY <1>1
  <2> QED
    BY <2>1 DEF LInv, LTypeOK, Unload, StartDispose, treeVars, Discarding
<1>3. TreesOK'
  BY <1>0 DEF LInv, TreesOK, Unload, treeVars, fileVars, Between, PatchesAreLocal, FileIsWhole,
         NoHandleDropped
<1>4. LiveOK'
  BY <1>1 DEF LInv, TreesOK, LiveOK, Unload, StartDispose, treeVars, Between, DeadFrom
<1>5. CandOK' /\ RoundOK'
  BY DEF LInv, CandOK, RoundOK, Unload, Between, Discarding
<1> QED
  BY <1>2, <1>3, <1>4, <1>5 DEF LInv

\* import_entry returns.
LEMMA ImportKeeps ==
  ASSUME LInv, NEW i \in DOMAIN cand, NEW error \in BOOLEAN, Import(i, error) PROVE LInv'
<1> DEFINE v == IF error THEN "refused" ELSE "imported"
<1>0. v \in States /\ cand' = [cand EXCEPT ![i].st = v] /\ cand \in Seq(HandleRecords)
  BY DEF States, Import, LInv, LTypeOK
<1> HIDE DEF v
<1>1. /\ cand' \in Seq(HandleRecords) /\ Len(cand') = Len(cand) /\ DOMAIN cand' = DOMAIN cand
      /\ cand'[i].st = v
      /\ \A j \in DOMAIN cand : j # i => cand'[j] = cand[j]
      /\ \A j \in DOMAIN cand : cand'[j].entry = cand[j].entry
  BY <1>0, SetState
<1>2. LTypeOK'
  BY <1>1 DEF LInv, LTypeOK, Import, treeVars, histVars, Discarding
<1>3. TreesOK'
  BY DEF LInv, TreesOK, Import, treeVars, histVars, fileVars, Between, PatchesAreLocal, FileIsWhole,
         NoHandleDropped
<1>4. LiveOK'
  BY DEF LInv, TreesOK, LiveOK, Import, treeVars, histVars, Between
<1>5. CandOK'
  <2>1. Matches(cand', Goal')
    <3>1. Matches(cand, Goal)
      BY DEF LInv, CandOK, Import
    <3>2. Matches(cand', Goal)
      BY <1>1, <3>1, StillMatches, Zenon
    <3> QED
      BY <3>2 DEF Goal, Import, treeVars
  <2>2. AllIn(cand', Fresh)
    BY <1>1 DEF LInv, CandOK, Import, AllIn, Fresh, v
  <2>3. ~failed' => AllIn(cand', {"new", "imported"})
    BY <1>1 DEF LInv, CandOK, Import, AllIn, v
  <2> QED
    BY <2>1, <2>2, <2>3 DEF CandOK, Import, Between, Discarding
<1>6. RoundOK'
  BY DEF RoundOK, Import
<1> QED
  BY <1>2, <1>3, <1>4, <1>5, <1>6 DEF LInv

\* An import has failed: what was imported is to be disposed of.
LEMMA ImportFailsKeeps ==
  ASSUME LInv, ImportFails PROVE LInv'
<1> DEFINE K == {h \in Range(cand) : h.st = "imported"}
           A == {h \in HandleRecords : h.st = "imported"}
<1>1. cand \in Seq(HandleRecords) /\ cand' = Keep(cand, K)
  BY DEF LInv, LTypeOK, ImportFails, DiscardImported
<1>2. \A h \in HandleRecords : h \in K => h \in A
  OBVIOUS
<1>3. Keep(cand, K) \in Seq(A)
  <2> HIDE DEF K, A
  <2> QED
    BY <1>1, <1>2, KeepRange, Zenon
<1>4. \A i \in 1 .. Len(cand') : cand'[i] \in A
  BY <1>1, <1>3, ElementOfSeq
<1>5. cand' \in Seq(HandleRecords)
  <2>1. cand' \in [1 .. Len(cand') -> A] /\ Len(cand') \in Nat
    BY <1>1, <1>3, LenProperties
  <2>2. cand' \in [1 .. Len(cand') -> HandleRecords]
    BY <2>1
  <2> QED
    BY <2>1, <2>2, SeqDef
<1>6. Len(cand') \in Nat /\ DOMAIN cand' = 1 .. Len(cand') /\ Len(cand') \in 0 .. Len(cand')
  BY <1>5, HandleFacts
<1>7. AllIn(cand', {"imported"})
  BY <1>4, <1>6 DEF AllIn
<1> HIDE DEF K, A
<1>8. LTypeOK'
  BY <1>5, <1>6 DEF LInv, LTypeOK, TreesOK, ImportFails, Settled, DiscardImported, StartDispose,
     treeVars, Discarding
<1>9. TreesOK'
  BY DEF LInv, TreesOK, ImportFails, Settled, DiscardImported, treeVars, fileVars, Between,
     PatchesAreLocal, FileIsWhole, NoHandleDropped
<1>10. LiveOK'
  BY DEF LInv, LiveOK, ImportFails, Settled, DiscardImported, treeVars, Between
<1>11. CandOK' /\ RoundOK'
  BY <1>6, <1>7 DEF CandOK, RoundOK, ImportFails, DiscardImported, StartDispose, Between, AllIn, DeadFrom
<1> QED
  BY <1>8, <1>9, <1>10, <1>11 DEF LInv

\* Everything is imported: the old tree is retired, or the restored one started.
LEMMA ImportedKeeps ==
  ASSUME LInv, Imported PROVE LInv'
<1>1. AllIn(cand, {"imported"})
  BY DEF LInv, CandOK, Imported, Settled, AllIn
<1>2. Len(live) \in Nat /\ DOMAIN live = 1 .. Len(live) /\ Len(live) \in 0 .. Len(live)
      /\ 0 \in 0 .. Len(live)
  BY HandleFacts DEF LInv, LTypeOK
<1>3. LTypeOK'
  BY <1>2 DEF LInv, LTypeOK, TreesOK, Imported, Settled, AfterImport, StartActivate, StartDispose,
     treeVars, histVars, Discarding
<1>4. TreesOK'
  BY DEF LInv, TreesOK, Imported, Settled, AfterImport, StartActivate, treeVars, histVars, fileVars,
     Between, PatchesAreLocal, FileIsWhole, NoHandleDropped
<1>5. LiveOK'
  BY <1>2 DEF LInv, LiveOK, Imported, Settled, AfterImport, StartActivate, StartDispose, treeVars,
     histVars, Between, DeadFrom
<1>6. CandOK'
  BY <1>1 DEF LInv, CandOK, Imported, Settled, AfterImport, StartActivate, treeVars, Between, Goal,
     AllIn, Answered, Discarding
<1>7. RoundOK'
  BY <1>1 DEF RoundOK, Imported, AfterImport, StartActivate, AllIn, Sheltered, WithProviders
<1> QED
  BY <1>3, <1>4, <1>5, <1>6, <1>7 DEF LInv

\* dispose of a live handle returns.
LEMMA DisposeLiveKeeps ==
  ASSUME LInv, NEW error \in BOOLEAN, DisposeLive(error) PROVE LInv'
<1> DEFINE v == Disposed(live[pos].st, error)
<1>0. /\ live \in Seq(HandleRecords) /\ Len(live) \in Nat /\ DOMAIN live = 1 .. Len(live)
      /\ pos \in DOMAIN live /\ pos - 1 \in 0 .. Len(live)
  BY HandleFacts DEF LInv, LTypeOK, DisposeLive, Discarding
<1>1. v \in States /\ v \in Dead /\ live' = [live EXCEPT ![pos].st = v]
  BY <1>0 DEF States, Dead, Disposed, DisposeLive
<1> HIDE DEF v
<1>2. /\ live' \in Seq(HandleRecords) /\ Len(live') = Len(live) /\ DOMAIN live' = DOMAIN live
      /\ live'[pos].st = v
      /\ \A j \in DOMAIN live : j # pos => live'[j] = live[j]
      /\ \A j \in DOMAIN live : live'[j].entry = live[j].entry
  BY <1>0, <1>1, SetState, SMTT(30)
<1>3. AllIn(live', States \ Fresh)
  BY <1>0, <1>1, <1>2, HandleFacts DEF LInv, LTypeOK, AllIn, Fresh, Dead, Range
<1>4. LTypeOK'
  <2>1. \A h \in Range(live)' : h.st \notin {"new", "refused", "imported"}
    BY <1>3 DEF AllIn, Fresh, Range
  <2> QED
    BY <1>0, <1>2, <2>1 DEF LInv, LTypeOK, DisposeLive, HandlesLeft, histVars, Discarding
<1>5. TreesOK'
  BY DEF LInv, TreesOK, DisposeLive, histVars, fileVars, Between, PatchesAreLocal, FileIsWhole,
     NoHandleDropped
<1>6. LiveOK'
  <2>1. DeadFrom(live', pos')
    BY <1>0, <1>1, <1>2 DEF LInv, LiveOK, DisposeLive, HandlesLeft, DeadFrom
  <2>2. Matches(live', tree)
    <3>1. Matches(live, tree)
      BY <1>0 DEF LInv, LiveOK
    <3> QED
      BY <1>2, <3>1, StillMatches, Zenon
  <2> QED
    BY <2>1, <2>2 DEF LInv, TreesOK, LiveOK, DisposeLive, histVars, Between
<1>7. CandOK' /\ RoundOK'
  BY DEF LInv, CandOK, RoundOK, DisposeLive, Between, Goal, Discarding
<1> QED
  BY <1>4, <1>5, <1>6, <1>7 DEF LInv

\* dispose of a candidate returns.
LEMMA DisposeCandidateKeeps ==
  ASSUME LInv, NEW error \in BOOLEAN, DisposeCandidate(error) PROVE LInv'
<1> DEFINE v == Disposed(cand[pos].st, error)
<1>0. /\ cand \in Seq(HandleRecords) /\ Len(cand) \in Nat /\ DOMAIN cand = 1 .. Len(cand)
      /\ pos \in DOMAIN cand /\ pos - 1 \in 0 .. Len(cand)
  BY HandleFacts DEF LInv, LTypeOK, DisposeCandidate
<1>1. v \in States /\ v \in Dead /\ cand' = [cand EXCEPT ![pos].st = v]
  BY <1>0 DEF States, Dead, Disposed, DisposeCandidate
<1> HIDE DEF v
<1>2. /\ cand' \in Seq(HandleRecords) /\ Len(cand') = Len(cand) /\ DOMAIN cand' = DOMAIN cand
      /\ cand'[pos].st = v
      /\ \A j \in DOMAIN cand : j # pos => cand'[j] = cand[j]
      /\ \A j \in DOMAIN cand : cand'[j].entry = cand[j].entry
  BY <1>0, <1>1, SetState, SMTT(30)
<1>3. LTypeOK'
  BY <1>0, <1>2 DEF LInv, LTypeOK, DisposeCandidate, HandlesLeft, treeVars, histVars, Discarding
<1>4. TreesOK'
  BY DEF LInv, TreesOK, DisposeCandidate, treeVars, histVars, fileVars, Between, PatchesAreLocal,
     FileIsWhole, NoHandleDropped
<1>5. LiveOK'
  BY DEF LInv, LiveOK, DisposeCandidate, treeVars, histVars, Between, Discarding
<1>6. CandOK'
  <2>1. DeadFrom(cand', pos')
    BY <1>0, <1>1, <1>2 DEF LInv, CandOK, DisposeCandidate, HandlesLeft, DeadFrom
  <2>2. AllIn(cand, {"imported"} \cup Dead) => AllIn(cand', {"imported"} \cup Dead)
    BY <1>1, <1>2 DEF AllIn
  <2> QED
    BY <2>1, <2>2 DEF LInv, CandOK, DisposeCandidate, Between, Discarding
<1>7. RoundOK'
  BY DEF RoundOK, DisposeCandidate, Discarding
<1> QED
  BY <1>3, <1>4, <1>5, <1>6, <1>7 DEF LInv

\* What is dropped with live.clear() was disposed of.
LEMMA DroppedDead ==
  ASSUME NEW hs, NEW D, AllIn(hs, Dead), D \subseteq Dead
  PROVE  D \cup {h.st : h \in Range(hs)} \subseteq Dead
BY DEF AllIn, Range

\* Once they are all disposed of, all are dead.
LEMMA AllDead ==
  ASSUME NEW hs \in Seq(HandleRecords), DeadFrom(hs, 0) PROVE AllIn(hs, Dead)
BY HandleFacts DEF DeadFrom, AllIn

\* The old tree is retired.
LEMMA RetiredKeeps ==
  ASSUME LInv, Retired PROVE LInv'
<1>1. AllIn(live, Dead)
  BY AllDead DEF LInv, LTypeOK, LiveOK, Retired
<1>2. dropped' \subseteq Dead
  BY <1>1, DroppedDead DEF LInv, TreesOK, NoHandleDropped, Retired, ClearLive, Dead
<1>3. live' \in Seq(HandleRecords) /\ Range(live') = {} /\ 0 \in 0 .. Len(live')
  BY DEF Retired, ClearLive, Range
<1>4. LTypeOK'
  BY <1>2, <1>3 DEF LInv, LTypeOK, Retired, StartActivate, Discarding, Dead, States
<1>5. TreesOK'
  BY <1>2 DEF LInv, TreesOK, Retired, StartActivate, fileVars, Between, PatchesAreLocal,
     FileIsWhole, NoHandleDropped, Dead
<1>6. LiveOK'
  BY DEF LInv, TreesOK, LiveOK, Retired, ClearLive, StartActivate, Between
<1>7. CandOK'
  BY DEF LInv, CandOK, Retired, StartActivate, Between, Goal, Discarding, AllIn, Answered
<1>8. RoundOK'
  BY DEF LInv, CandOK, RoundOK, Retired, StartActivate, AllIn, Sheltered, WithProviders
<1> QED
  BY <1>4, <1>5, <1>6, <1>7, <1>8 DEF LInv

\* The old tree could not be retired: the candidates are disposed of.
LEMMA RetireFailsKeeps ==
  ASSUME LInv, RetireFails PROVE LInv'
<1>1. AllIn(live, Dead)
  BY AllDead DEF LInv, LTypeOK, LiveOK, RetireFails
<1>2. Len(cand) \in Nat /\ DOMAIN cand = 1 .. Len(cand) /\ Len(cand) \in 0 .. Len(cand)
  BY HandleFacts DEF LInv, LTypeOK
<1>3. LTypeOK'
  BY <1>2 DEF LInv, LTypeOK, RetireFails, StartDispose, treeVars, histVars, Discarding
<1>4. TreesOK'
  BY DEF LInv, TreesOK, RetireFails, treeVars, histVars, fileVars, Between, PatchesAreLocal,
     FileIsWhole, NoHandleDropped
<1>5. LiveOK'
  BY <1>1 DEF LInv, TreesOK, LiveOK, RetireFails, treeVars, histVars, Between
<1>6. CandOK' /\ RoundOK'
  BY <1>2 DEF LInv, CandOK, RoundOK, RetireFails, StartDispose, Between, Discarding, AllIn, DeadFrom
<1> QED
  BY <1>3, <1>4, <1>5, <1>6 DEF LInv

\* The candidates are gone: the call ends, or the committed tree comes back.
LEMMA DiscardedKeeps ==
  ASSUME LInv, Discarded PROVE LInv'
<1>0. /\ live \in Seq(HandleRecords) /\ Len(live) \in Nat /\ 0 \in 0 .. Len(live)
      /\ AllIn(cand, Dead) /\ dropped \subseteq Dead
  BY HandleFacts, AllDead DEF LInv, LTypeOK, TreesOK, CandOK, Discarded, NoHandleDropped, Dead
<1>1. CASE restoring \/ phase = "discard-import"
  <2>0. /\ EndCall(FALSE) /\ outage' = (outage \/ restoring)
        /\ dropped' = dropped \cup {h.st : h \in Range(cand)}
        /\ UNCHANGED <<tree, live, calls, named, file, temp>> /\ Discarding
    BY <1>1 DEF Discarded, fileVars
  <2>1. dropped' \subseteq Dead
    BY <1>0, <2>0, DroppedDead
  <2>2. LTypeOK'
    <3>1. ok' \in BOOLEAN /\ outage' \in BOOLEAN
      BY <2>0, Zenon DEF LInv, LTypeOK, EndCall
    <3>2. cand' \in Seq(HandleRecords)
      BY <2>0 DEF EndCall
    <3> QED
      BY <1>0, <2>0, <2>1, <3>1, <3>2 DEF LInv, LTypeOK, EndCall, Discarding, Dead, States
  <2>3. TreesOK'
    BY <2>0, <2>1 DEF LInv, TreesOK, EndCall, Between, PatchesAreLocal, FileIsWhole,
       NoHandleDropped, Dead
  <2>4. LiveOK'
    BY <1>1, <2>0 DEF LInv, LTypeOK, LiveOK, EndCall, Between, Discarding
  <2>5. CandOK' /\ RoundOK'
    BY <2>0 DEF CandOK, RoundOK, EndCall, Between, Discarding
  <2> QED
    BY <2>2, <2>3, <2>4, <2>5 DEF LInv
<1>2. CASE ~(restoring \/ phase = "discard-import")
  <2>0. /\ Restore /\ UNCHANGED <<outage, tree, calls, named, file, temp>>
        /\ phase \in {"discard-retire", "discard-activate"}
    BY <1>2 DEF Discarded, Discarding, fileVars
  <2>1. AllIn(live, Dead)
    BY <2>0 DEF LInv, LiveOK, AllIn
  <2>2. dropped' \subseteq Dead
    BY <1>0, <2>0, <2>1, DroppedDead DEF Restore, ClearLive
  <2>3. tree \in Trees(DOMAIN Needs) /\ cand' = Handles(tree)
    BY <2>0 DEF LInv, TreesOK, Restore, StartImport
  <2>4. cand' \in Seq(HandleRecords) /\ Matches(cand', tree) /\ AllIn(cand', {"new"})
    BY <2>3, NewHandles, Zenon
  <2>5. live' \in Seq(HandleRecords) /\ Range(live') = {} /\ 0 \in 0 .. Len(live') /\ live' = <<>>
    BY <2>0 DEF Restore, ClearLive, Range
  <2>6. LTypeOK'
    BY <2>0, <2>2, <2>4, <2>5 DEF LInv, LTypeOK, Restore, StartImport, Discarding, Dead, States
  <2>7. TreesOK'
    BY <2>0, <2>2 DEF LInv, TreesOK, Restore, StartImport, Between, PatchesAreLocal, FileIsWhole,
       NoHandleDropped, Dead
  <2>8. LiveOK'
    BY <2>0, <2>5 DEF LiveOK, Restore, StartImport, Between
  <2>9. CandOK' /\ RoundOK'
    BY <2>0, <2>4 DEF CandOK, RoundOK, Restore, StartImport, Between, Goal, Discarding, AllIn, Fresh
  <2> QED
    BY <2>6, <2>7, <2>8, <2>9 DEF LInv
<1> QED
  BY <1>1, <1>2

\* unload has gone through the live handles.
LEMMA UnloadedKeeps ==
  ASSUME LInv, Unloaded PROVE LInv' /\ AllIn(live', Dead)
<1>0. /\ live \in Seq(HandleRecords) /\ Len(live) \in Nat /\ 0 \in 0 .. Len(live)
      /\ AllIn(live, Dead) /\ dropped \subseteq Dead
  BY HandleFacts, AllDead DEF LInv, LTypeOK, TreesOK, LiveOK, Unloaded, NoHandleDropped, Dead
<1>1. dropped' \subseteq Dead
  BY <1>0, DroppedDead DEF Unloaded, ClearLive
<1>2. CASE failed
  <2>1. LTypeOK'
    <3>1. ok' \in BOOLEAN /\ outage' \in BOOLEAN
      BY Zenon DEF LInv, LTypeOK, Unloaded, EndCall
    <3>2. cand' \in Seq(HandleRecords)
      BY DEF Unloaded, EndCall
    <3> QED
      BY <1>0, <1>2, <3>1, <3>2 DEF LInv, LTypeOK, Unloaded, EndCall, Discarding
  <2>2. TreesOK'
    BY <1>2 DEF LInv, TreesOK, Unloaded, EndCall, fileVars, Between, PatchesAreLocal, FileIsWhole,
       NoHandleDropped
  <2>3. LiveOK'
    BY <1>2 DEF LInv, LiveOK, Unloaded, EndCall, Between
  <2>4. CandOK' /\ RoundOK' /\ AllIn(live', Dead)
    BY <1>0, <1>2 DEF CandOK, RoundOK, Unloaded, EndCall, Between, Discarding
  <2> QED
    BY <2>1, <2>2, <2>3, <2>4 DEF LInv
<1>3. CASE ~failed
  <2>0. Valid(EmptyTree) /\ EmptyTree \in Trees(DOMAIN Needs) /\ ActiveEntries(EmptyTree) = <<>>
    BY EmptyTreeFacts
  <2>1. /\ live' \in Seq(HandleRecords) /\ Range(live') = {} /\ 0 \in 0 .. Len(live')
        /\ live' = <<>> /\ tree' = EmptyTree
    BY <1>3 DEF Unloaded, ClearLive, Range
  <2>2. LTypeOK'
    BY <1>1, <1>3, <2>1 DEF LInv, LTypeOK, Unloaded, EndCall, Discarding, Dead, States
  <2>3. TreesOK'
    BY <1>1, <2>0, <2>1 DEF LInv, TreesOK, Unloaded, EndCall, fileVars, Between, PatchesAreLocal,
       FileIsWhole, NoHandleDropped, Dead
  <2>4. LiveOK'
    BY <2>0, <2>1 DEF LiveOK, Unloaded, EndCall, Between, Matches, AllIn
  <2>5. CandOK' /\ RoundOK' /\ AllIn(live', Dead)
    BY <2>1 DEF CandOK, RoundOK, Unloaded, EndCall, Between, Discarding, AllIn
  <2> QED
    BY <2>2, <2>3, <2>4, <2>5 DEF LInv
<1> QED
  BY <1>2, <1>3 DEF LInv, LTypeOK

\* A sheltered handle that has its providers keeps them when no sheltered handle
\* stops being active.
LEMMA StillSatisfied ==
  ASSUME NEW hs \in Seq(HandleRecords), NEW us, DOMAIN us = DOMAIN hs,
         \A j \in DOMAIN hs : us[j].entry = hs[j].entry,
         \A j \in Sheltered(hs) : hs[j].st = "Active" => us[j].st = "Active",
         NEW k \in Sheltered(hs), Satisfied(hs, hs[k])
  PROVE  Satisfied(us, us[k])
<1>0. k \in DOMAIN hs /\ hs[k].entry.id \in DOMAIN Needs /\ hs[k].entry.id \notin Exposed
  BY HandleFacts DEF Sheltered, IsExposed, HandleRecords
<1>1. Needs[hs[k].entry.id] \cap Exposed = {}
  BY <1>0, LoaderAssumption
<1> SUFFICES ASSUME NEW id \in Needs[us[k].entry.id]
             PROVE  \E g \in Range(us) : g.entry.id = id /\ g.st = "Active"
  BY DEF Satisfied
<1>2. id \in Needs[hs[k].entry.id]
  BY <1>0
<1>3. PICK j \in DOMAIN hs : hs[j].entry.id = id /\ hs[j].st = "Active"
  BY <1>2 DEF Satisfied, Range
<1>4. j \in Sheltered(hs)
  BY <1>1, <1>2, <1>3 DEF Sheltered, IsExposed
<1>5. us[j] \in Range(us) /\ us[j].entry.id = id /\ us[j].st = "Active"
  BY <1>3, <1>4 DEF Range
<1> QED
  BY <1>5

\* The sheltered handles are the same when the entries are.
LEMMA StillSheltered ==
  ASSUME NEW hs, NEW us, DOMAIN us = DOMAIN hs,
         \A j \in DOMAIN hs : us[j].entry = hs[j].entry
  PROVE  Sheltered(us) = Sheltered(hs)
BY DEF Sheltered, IsExposed

\* A handle answers.
LEMMA AnswerKeeps ==
  ASSUME LInv, NEW i \in DOMAIN cand, NEW v \in Following, Answer(i, v) PROVE LInv'
<1>0. /\ cand \in Seq(HandleRecords) /\ cand' = [cand EXCEPT ![i].st = v] /\ v \in States
      /\ phase = "activate" /\ i \in todo /\ todo' = todo \ {i}
      /\ failed' = (failed \/ v \in HasFailed)
      /\ progressed' = (progressed \/ v = "Active")
      /\ later' = IF v = "Pending" THEN later \cup {i} ELSE later
      /\ UNCHANGED <<treeVars, job, phase, restoring, pos, histVars, fileVars>>
  BY DEF LInv, LTypeOK, Answer, States
<1>1. v \notin HasFailed /\ ~IsExposed(cand[i]) => (v = "Active" <=> Satisfied(cand, cand[i]))
  BY DEF Answer, Answers, CaughtUp, Following, HasFailed, WithProviders
<1>2. /\ cand' \in Seq(HandleRecords) /\ Len(cand') = Len(cand) /\ DOMAIN cand' = DOMAIN cand
      /\ cand'[i].st = v
      /\ \A j \in DOMAIN cand : j # i => cand'[j] = cand[j]
      /\ \A j \in DOMAIN cand : cand'[j].entry = cand[j].entry
  <2>1. cand \in Seq(HandleRecords) /\ v \in States /\ cand' = [cand EXCEPT ![i].st = v]
    BY <1>0
  <2> HIDE DEF LInv
  <2> QED
    BY <2>1, SetState
<1>3. LTypeOK'
  BY <1>0, <1>2 DEF LInv, LTypeOK, treeVars, histVars, Discarding
<1>4. TreesOK'
  BY <1>0 DEF LInv, TreesOK, treeVars, histVars, fileVars, Between, PatchesAreLocal, FileIsWhole,
     NoHandleDropped
<1>5. LiveOK'
  BY <1>0 DEF LInv, LiveOK, treeVars, histVars, Between
<1>6. CandOK'
  <2>1. Matches(cand', Goal')
    <3>1. Matches(cand, Goal)
      BY <1>0 DEF LInv, CandOK
    <3>2. Matches(cand', Goal)
      BY <1>2, <3>1, StillMatches, Zenon
    <3> QED
      BY <1>0, <3>2 DEF Goal, treeVars
  <2>2. AllIn(cand', {"imported"} \cup Following) /\ Answered(cand', todo')
    BY <1>0, <1>2 DEF LInv, CandOK, AllIn, Answered
  <2> QED
    BY <1>0, <2>1, <2>2 DEF CandOK, Between, Discarding
<1>7. RoundOK'
  <2>0. Sheltered(cand') = Sheltered(cand)
    BY <1>2, StillSheltered, Zenon
  <2> SUFFICES ASSUME ~failed' PROVE
         /\ \A j \in Sheltered(cand) :
              cand'[j].st \in WithProviders => Satisfied(cand', cand'[j])
         /\ \A j \in Sheltered(cand) : cand'[j].st # "Active" => j \in todo' \/ j \in later'
         /\ \A j \in Sheltered(cand) : cand'[j].st # "StopFailed"
         /\ ~progressed' =>
              \/ \A j \in Sheltered(cand) : j \in later' => ~Satisfied(cand', cand'[j])
              \/ \E j \in Sheltered(cand) : j \in todo' /\ Satisfied(cand', cand'[j])
    <3>1. ASSUME NEW j PROVE Satisfied(cand, cand[j])' <=> Satisfied(cand', cand'[j])
      BY Zenon DEF Satisfied
    <3> QED
      BY <2>0, <3>1 DEF RoundOK
  <2>1. /\ ~failed /\ v \in {"Active", "Pending"}
        /\ \A j \in Sheltered(cand) :
              cand[j].st \in WithProviders => Satisfied(cand, cand[j])
        /\ \A j \in Sheltered(cand) : cand[j].st # "Active" => j \in todo \/ j \in later
        /\ \A j \in Sheltered(cand) : cand[j].st # "StopFailed"
        /\ ~progressed =>
              \/ \A j \in Sheltered(cand) : j \in later => ~Satisfied(cand, cand[j])
              \/ \E j \in Sheltered(cand) : j \in todo /\ Satisfied(cand, cand[j])
    BY <1>0 DEF LInv, RoundOK, Following, HasFailed
  <2>2. i \in Sheltered(cand) => (v = "Active" <=> Satisfied(cand, cand[i]))
    BY <1>1, <2>1 DEF Sheltered, HasFailed
  <2>3. \A j \in Sheltered(cand) : j \in DOMAIN cand
    BY DEF Sheltered
  <2>4. \A j \in Sheltered(cand) : cand[j].st = "Active" => cand'[j].st = "Active"
    BY <1>2, <2>1, <2>2, <2>3 DEF WithProviders
  <2>5. ASSUME NEW k \in Sheltered(cand), Satisfied(cand, cand[k]) PROVE Satisfied(cand', cand'[k])
    BY <1>0, <1>2, <2>4, <2>5, StillSatisfied, Zenon
  <2>6. ASSUME v = "Pending", NEW k \in Sheltered(cand), Satisfied(cand', cand'[k])
        PROVE  Satisfied(cand, cand[k])
    <3>1. \A j \in Sheltered(cand') : cand'[j].st = "Active" => cand[j].st = "Active"
      BY <1>2, <2>0, <2>3, <2>6
    <3>2. DOMAIN cand = DOMAIN cand' /\ (\A j \in DOMAIN cand' : cand[j].entry = cand'[j].entry)
          /\ k \in Sheltered(cand')
      BY <1>2, <2>0
    <3> QED
      BY <1>2, <3>1, <3>2, <2>6, StillSatisfied, Zenon
  <2>7. ASSUME NEW j \in Sheltered(cand), cand'[j].st \in WithProviders
        PROVE  Satisfied(cand', cand'[j])
    BY <1>2, <2>1, <2>2, <2>3, <2>5, <2>7 DEF WithProviders
  <2>8. ASSUME NEW j \in Sheltered(cand), cand'[j].st # "Active"
        PROVE  j \in todo' \/ j \in later'
    BY <1>0, <1>2, <2>1, <2>3, <2>8
  <2>9. ASSUME NEW j \in Sheltered(cand) PROVE cand'[j].st # "StopFailed"
    BY <1>2, <2>1, <2>3
  <2>10. ASSUME ~progressed'
         PROVE  \/ \A j \in Sheltered(cand) : j \in later' => ~Satisfied(cand', cand'[j])
                \/ \E j \in Sheltered(cand) : j \in todo' /\ Satisfied(cand', cand'[j])
    <3>1. ~progressed /\ v = "Pending" /\ later' = later \cup {i}
          /\ (i \in Sheltered(cand) => ~Satisfied(cand, cand[i]))
      BY <1>0, <2>1, <2>2, <2>10
    <3>2. CASE \A j \in Sheltered(cand) : j \in later => ~Satisfied(cand, cand[j])
      BY <2>6, <3>1, <3>2
    <3>3. CASE \E j \in Sheltered(cand) : j \in todo /\ Satisfied(cand, cand[j])
      <4>1. PICK j \in Sheltered(cand) : j \in todo /\ Satisfied(cand, cand[j])
        BY <3>3
      <4>2. j \in todo'
        BY <1>0, <3>1, <4>1
      <4> QED
        BY <2>5, <4>1, <4>2
    <3> QED
      BY <2>1, <3>1, <3>2, <3>3
  <2> QED
    BY <2>7, <2>8, <2>9, <2>10
<1> QED
  BY <1>3, <1>4, <1>5, <1>6, <1>7 DEF LInv

\* activate_all starts another round.
LEMMA NextRoundKeeps ==
  ASSUME LInv, NextRound PROVE LInv'
<1>1. LTypeOK' /\ LiveOK'
  BY DEF LInv, LTypeOK, LiveOK, NextRound, treeVars, histVars, Discarding, Between
<1>2. TreesOK'
  BY DEF LInv, TreesOK, NextRound, treeVars, histVars, fileVars, Between, PatchesAreLocal,
     FileIsWhole, NoHandleDropped
<1>3. CandOK'
  BY DEF LInv, CandOK, NextRound, treeVars, Between, Goal, Discarding, Answered
<1>4. RoundOK'
  BY DEF LInv, RoundOK, NextRound, MoreRounds, Satisfied
<1> QED
  BY <1>1, <1>2, <1>3, <1>4 DEF LInv

\* An activation has failed: the candidates are disposed of.
LEMMA ActivateFailsKeeps ==
  ASSUME LInv, ActivateFails PROVE LInv'
<1>1. Len(cand) \in Nat /\ DOMAIN cand = 1 .. Len(cand) /\ Len(cand) \in 0 .. Len(cand)
  BY HandleFacts DEF LInv, LTypeOK
<1>2. LTypeOK'
  BY <1>1 DEF LInv, LTypeOK, ActivateFails, StartDispose, treeVars, histVars, Discarding
<1>3. TreesOK'
  BY DEF LInv, TreesOK, ActivateFails, treeVars, histVars, fileVars, Between, PatchesAreLocal,
     FileIsWhole, NoHandleDropped
<1>4. LiveOK'
  BY DEF LInv, LiveOK, ActivateFails, treeVars, histVars, Between
<1>5. CandOK' /\ RoundOK'
  BY <1>1 DEF CandOK, RoundOK, ActivateFails, StartDispose, Between, Discarding, DeadFrom
<1> QED
  BY <1>2, <1>3, <1>4, <1>5 DEF LInv

\* When activate_all is through, every sheltered handle is active or waits for a
\* provider that is missing.
LEMMA ActivationComplete ==
  ASSUME LInv PROVE ActivationIsComplete
<1> SUFFICES ASSUME phase = "activate", todo = {}, ~failed, ~MoreRounds, NEW i \in DOMAIN cand,
                    ~IsExposed(cand[i]), cand[i].st # "Active"
             PROVE  cand[i].st = "Pending" /\ ~Satisfied(cand, cand[i])
  BY DEF ActivationIsComplete, Range
<1>1. i \in Sheltered(cand)
  BY DEF Sheltered
<1>2. i \in later /\ ~progressed
  BY <1>1 DEF LInv, RoundOK, MoreRounds
<1>3. ~Satisfied(cand, cand[i])
  BY <1>1, <1>2 DEF LInv, RoundOK
<1>4. cand[i].st \in Following
  BY DEF LInv, CandOK, Answered
<1> QED
  BY <1>1, <1>3, <1>4 DEF LInv, RoundOK, Following, WithProviders

\* The candidate is committed, or the committed tree is live again.
LEMMA CommitKeeps ==
  ASSUME LInv, Commit
  PROVE  LInv' /\ Matches(live', tree') /\ AllIn(live', Following)
<1>1. \A i \in DOMAIN cand : cand[i].st \in Following
  BY DEF LInv, CandOK, Answered, Commit
<1>2. /\ live' = cand /\ tree' = Goal /\ phase' = "idle" /\ ~restoring'
      /\ cand \in Seq(HandleRecords) /\ Len(cand) \in Nat /\ 0 \in 0 .. Len(cand)
  BY HandleFacts DEF LInv, LTypeOK, Commit, KeepTree, EndCall, Goal
<1>3. \A h \in Range(live') : h.st \notin {"new", "refused", "imported"}
  BY <1>1, <1>2 DEF Range, Following
<1>4. LTypeOK'
  <2>1. ok' \in BOOLEAN /\ outage' \in BOOLEAN
    BY Zenon DEF Commit, EndCall
  <2>2. cand' \in Seq(HandleRecords)
    BY DEF Commit, EndCall
  <2> QED
    BY <1>2, <1>3, <2>1, <2>2 DEF LInv, LTypeOK, Commit, EndCall, Discarding
<1>5. TreesOK'
  BY <1>2 DEF LInv, TreesOK, Commit, EndCall, fileVars, Between, Goal, PatchesAreLocal, FileIsWhole,
     NoHandleDropped
<1>6. Matches(live', tree') /\ AllIn(live', Following)
  BY <1>1, <1>2 DEF LInv, CandOK, Commit, AllIn, Following
<1>7. LiveOK'
  BY <1>2, <1>6 DEF LiveOK
<1>8. CandOK' /\ RoundOK'
  BY DEF CandOK, RoundOK, Commit, EndCall, Between, Discarding
<1> QED
  BY <1>4, <1>5, <1>6, <1>7, <1>8 DEF LInv

\* persist_entry_tree writes the temporary file, ...
LEMMA PersistBeginKeeps ==
  ASSUME LInv, PersistBegin PROVE LInv'
<1>1. LTypeOK' /\ LiveOK'
  BY DEF LInv, LTypeOK, LiveOK, PersistBegin, treeVars, histVars, Discarding, Between
<1>2. TreesOK'
  BY DEF LInv, TreesOK, PersistBegin, WriteTemp, treeVars, histVars, Between, PatchesAreLocal,
     FileIsWhole, NoHandleDropped
<1>3. CandOK' /\ RoundOK'
  BY DEF LInv, CandOK, RoundOK, PersistBegin, Between, Discarding
<1> QED
  BY <1>1, <1>2, <1>3 DEF LInv

\* ... and renames it.
LEMMA PersistEndKeeps ==
  ASSUME LInv, NEW error \in BOOLEAN, PersistEnd(error) PROVE LInv'
<1>1. LTypeOK' /\ LiveOK'
  BY DEF LInv, LTypeOK, LiveOK, PersistEnd, treeVars, histVars, Discarding, Between
<1>2. TreesOK'
  BY HalfIsNotValid DEF LInv, TreesOK, PersistEnd, treeVars, histVars, Between, PatchesAreLocal,
     FileIsWhole, NoHandleDropped
<1>3. CandOK' /\ RoundOK'
  BY DEF LInv, CandOK, RoundOK, PersistEnd, Between, Discarding
<1> QED
  BY <1>1, <1>2, <1>3 DEF LInv

\* A managed handle that is told of a provider follows it, or fails to.
LEMMA NoticedFacts ==
  ASSUME NEW hs \in Seq(HandleRecords), NEW i \in DOMAIN hs, NEW v \in Following,
         Noticed(hs, i, v), NEW us, us = [hs EXCEPT ![i].st = v]
  PROVE  /\ us \in Seq(HandleRecords) /\ Len(us) = Len(hs) /\ DOMAIN us = DOMAIN hs
         /\ hs[i].st \in Following /\ us[i].st = v
         /\ \A j \in DOMAIN hs : j # i => us[j] = hs[j]
         /\ \A j \in DOMAIN hs : us[j].entry = hs[j].entry
<1>1. v \in States /\ hs[i].st \in Following
  BY DEF Noticed, States
<1>2. /\ us \in Seq(HandleRecords) /\ Len(us) = Len(hs) /\ DOMAIN us = DOMAIN hs
      /\ us[i].st = v
      /\ \A j \in DOMAIN hs : j # i => us[j] = hs[j]
      /\ \A j \in DOMAIN hs : us[j].entry = hs[j].entry
  BY <1>1, SetState, SMTT(30)
<1> QED
  BY <1>1, <1>2

\* Providers come and go while the tree is live, while it is retired, ...
LEMMA NoticeLiveKeeps ==
  ASSUME LInv, NEW i \in DOMAIN live, NEW v \in Following, Noticed(live, i, v),
         live' = [live EXCEPT ![i].st = v],
         UNCHANGED <<tree, cand, job, phase, restoring, failed, todo, later, progressed, pos,
                     histVars, fileVars>>
  PROVE  LInv' /\ ~AllIn(live, Dead) /\ (AllIn(live, Following) => AllIn(live', Following))
<1>0. live \in Seq(HandleRecords)
  BY DEF LInv, LTypeOK
<1>1. /\ live' \in Seq(HandleRecords) /\ Len(live') = Len(live) /\ DOMAIN live' = DOMAIN live
      /\ live[i].st \in Following /\ live'[i].st = v
      /\ \A j \in DOMAIN live : j # i => live'[j] = live[j]
      /\ \A j \in DOMAIN live : live'[j].entry = live[j].entry
  BY <1>0, NoticedFacts
<1>2. LTypeOK'
  <2>1. \A h \in Range(live)' : h.st \notin {"new", "refused", "imported"}
    BY <1>1, SMTT(30) DEF LInv, LTypeOK, Range, Following
  <2> QED
    BY <1>1, <2>1 DEF LInv, LTypeOK, histVars, Discarding
<1>3. TreesOK'
  BY DEF LInv, TreesOK, histVars, fileVars, Between, PatchesAreLocal, FileIsWhole, NoHandleDropped
<1>4. ~AllIn(live, Dead) /\ (AllIn(live, Following) => AllIn(live', Following))
  BY <1>1 DEF AllIn, Following, Dead
<1>5. LiveOK'
  <2>1. Matches(live, tree) => Matches(live', tree)
    BY <1>1 DEF Matches
  <2>2. live # <<>>
    OBVIOUS
  <2>3. DeadFrom(live, pos) => DeadFrom(live', pos)
    BY <1>1 DEF DeadFrom, Following, Dead
  <2> QED
    BY <1>4, <2>1, <2>2, <2>3 DEF LInv, LiveOK, histVars, Between
<1>6. CandOK' /\ RoundOK'
  BY DEF LInv, CandOK, RoundOK, Between, Goal, Discarding, Satisfied
<1> QED
  BY <1>2, <1>3, <1>4, <1>5, <1>6 DEF LInv

\* ... and while the candidate is activated or discarded.
LEMMA NoticeCandKeeps ==
  ASSUME LInv, NEW i \in DOMAIN cand, NEW v \in Following, Noticed(cand, i, v),
         cand' = [cand EXCEPT ![i].st = v],
         UNCHANGED <<tree, live, job, phase, restoring, failed, todo, later, progressed, pos,
                     histVars, fileVars>>
  PROVE  LInv'
<1>0. cand \in Seq(HandleRecords)
  BY DEF LInv, LTypeOK
<1>1. /\ cand' \in Seq(HandleRecords) /\ Len(cand') = Len(cand) /\ DOMAIN cand' = DOMAIN cand
      /\ cand[i].st \in Following /\ cand'[i].st = v
      /\ \A j \in DOMAIN cand : j # i => cand'[j] = cand[j]
      /\ \A j \in DOMAIN cand : cand'[j].entry = cand[j].entry
  BY <1>0, NoticedFacts
<1>2. phase \in {"activate", "discard-activate"}
  <2>1. cand # <<>>
    OBVIOUS
  <2> QED
    BY <1>1, <2>1 DEF LInv, LTypeOK, CandOK, Between, AllIn, Fresh, Following, Dead
<1>3. LTypeOK' /\ LiveOK'
  BY <1>1 DEF LInv, LTypeOK, LiveOK, histVars, Discarding, Between
<1>4. TreesOK'
  BY DEF LInv, TreesOK, histVars, fileVars, Between, PatchesAreLocal, FileIsWhole, NoHandleDropped
<1>5. CandOK'
  <2>1. Matches(cand, Goal) => Matches(cand', Goal')
    <3>1. Matches(cand, Goal) => Matches(cand', Goal)
      BY <1>1 DEF Matches
    <3> QED
      BY <3>1 DEF Goal
  <2>2. /\ AllIn(cand, {"imported"} \cup Following) => AllIn(cand', {"imported"} \cup Following)
        /\ Answered(cand, todo) => Answered(cand', todo')
    BY <1>1 DEF AllIn, Answered
  <2>3. DeadFrom(cand, pos) => DeadFrom(cand', pos)
    BY <1>1 DEF DeadFrom, Following, Dead
  <2> QED
    BY <1>2, <2>1, <2>2, <2>3 DEF LInv, CandOK, Between, Discarding
<1>6. RoundOK'
  <2>0. Sheltered(cand') = Sheltered(cand)
    BY <1>1, StillSheltered, Zenon
  <2> SUFFICES ASSUME phase = "activate", ~failed PROVE
         /\ \A j \in Sheltered(cand) :
              cand'[j].st \in WithProviders => Satisfied(cand', cand'[j])
         /\ \A j \in Sheltered(cand) : cand'[j].st # "Active" => j \in todo \/ j \in later
         /\ \A j \in Sheltered(cand) : cand'[j].st # "StopFailed"
         /\ ~progressed =>
              \/ \A j \in Sheltered(cand) : j \in later => ~Satisfied(cand', cand'[j])
              \/ \E j \in Sheltered(cand) : j \in todo /\ Satisfied(cand', cand'[j])
    <3>1. ASSUME NEW j PROVE Satisfied(cand, cand[j])' <=> Satisfied(cand', cand'[j])
      BY Zenon DEF Satisfied
    <3> QED
      BY <2>0, <3>1 DEF RoundOK
  <2>1. /\ \A j \in Sheltered(cand) :
              cand[j].st \in WithProviders => Satisfied(cand, cand[j])
        /\ \A j \in Sheltered(cand) : cand[j].st # "Active" => j \in todo \/ j \in later
        /\ \A j \in Sheltered(cand) : cand[j].st # "StopFailed"
        /\ ~progressed =>
              \/ \A j \in Sheltered(cand) : j \in later => ~Satisfied(cand, cand[j])
              \/ \E j \in Sheltered(cand) : j \in todo /\ Satisfied(cand, cand[j])
    BY DEF LInv, RoundOK
  <2>2. i \in Sheltered(cand) =>
           Satisfied(cand, cand[i]) /\ cand[i].st = "Pending" /\ v \in WithProviders
    <3>1. Stale(cand, cand[i]) /\ v \in CaughtUp(cand, cand[i])
      BY DEF Noticed
    <3> QED
      BY <1>1, <2>1, <3>1 DEF Sheltered, Stale, CaughtUp, Following, WithProviders
  <2>3. \A j \in Sheltered(cand) : j \in DOMAIN cand
    BY DEF Sheltered
  <2>4. \A j \in Sheltered(cand) : cand[j].st = "Active" => cand'[j].st = "Active"
    BY <1>1, <2>2, <2>3
  <2>5. ASSUME NEW k \in Sheltered(cand), Satisfied(cand, cand[k]) PROVE Satisfied(cand', cand'[k])
    BY <1>0, <1>1, <2>4, <2>5, StillSatisfied, Zenon
  <2>6. ASSUME NEW j \in Sheltered(cand), cand'[j].st \in WithProviders
        PROVE  Satisfied(cand', cand'[j])
    BY <1>1, <2>1, <2>2, <2>3, <2>5, <2>6
  <2>7. ASSUME NEW j \in Sheltered(cand), cand'[j].st # "Active"
        PROVE  j \in todo \/ j \in later
    BY <1>1, <2>1, <2>2, <2>3, <2>7
  <2>8. ASSUME NEW j \in Sheltered(cand) PROVE cand'[j].st # "StopFailed"
    BY <1>1, <2>1, <2>2, <2>3 DEF WithProviders
  <2>9. ASSUME ~progressed
        PROVE  \/ \A j \in Sheltered(cand) : j \in later => ~Satisfied(cand', cand'[j])
               \/ \E j \in Sheltered(cand) : j \in todo /\ Satisfied(cand', cand'[j])
    <3>1. CASE i \in Sheltered(cand)
      <4>1. \E j \in Sheltered(cand) : j \in todo /\ Satisfied(cand, cand[j])
        BY <2>1, <2>2, <2>9, <3>1
      <4> QED
        BY <2>5, <4>1
    <3>2. CASE i \notin Sheltered(cand)
      <4>1. ASSUME NEW k \in Sheltered(cand), Satisfied(cand', cand'[k])
            PROVE  Satisfied(cand, cand[k])
        <5>1. \A j \in Sheltered(cand') : cand'[j].st = "Active" => cand[j].st = "Active"
          BY <1>1, <2>0, <2>3, <3>2
        <5>2. DOMAIN cand = DOMAIN cand' /\ k \in Sheltered(cand')
              /\ (\A j \in DOMAIN cand' : cand[j].entry = cand'[j].entry)
          BY <1>1, <2>0
        <5> QED
          BY <1>1, <5>1, <5>2, <4>1, StillSatisfied, Zenon
      <4>2. CASE \A j \in Sheltered(cand) : j \in later => ~Satisfied(cand, cand[j])
        BY <4>1, <4>2
      <4>3. CASE \E j \in Sheltered(cand) : j \in todo /\ Satisfied(cand, cand[j])
        BY <2>5, <4>3
      <4> QED
        BY <2>1, <2>9, <4>2, <4>3
    <3> QED
      BY <3>1, <3>2
  <2> QED
    BY <2>6, <2>7, <2>8, <2>9
<1> QED
  BY <1>3, <1>4, <1>5, <1>6 DEF LInv

\* Both.
LEMMA NoticeKeeps ==
  ASSUME LInv, Notice PROVE LInv' /\ (AllIn(live, Dead) => AllIn(live', Dead))
<1>1. CASE \E i \in DOMAIN live, st \in Following :
             Noticed(live, i, st) /\ live' = [live EXCEPT ![i].st = st] /\ UNCHANGED cand
  <2>1. LInv' /\ ~AllIn(live, Dead) /\ (AllIn(live, Following) => AllIn(live', Following))
    BY <1>1, NoticeLiveKeeps DEF Notice
  <2> QED
    BY <2>1
<1>2. CASE \E i \in DOMAIN cand, st \in Following :
             Noticed(cand, i, st) /\ cand' = [cand EXCEPT ![i].st = st] /\ UNCHANGED live
  <2>1. LInv'
    BY <1>2, NoticeCandKeeps DEF Notice
  <2> QED
    BY <1>2, <2>1 DEF AllIn
<1> QED
  BY <1>1, <1>2 DEF Notice

\* Every call, ...
LEMMA LoaderCallKeeps ==
  ASSUME LInv, LoaderCall PROVE LInv'
<1>1. ASSUME NEW t \in Requests, Replace(t) PROVE LInv'
  <2>1. t \in Trees(DOMAIN Needs)
    BY LoaderAssumption
  <2> QED
    BY <1>1, <2>1, ReplaceKeeps
<1>2. ASSUME NEW p \in PatchLists, Update(p) PROVE LInv'
  BY <1>2, UpdateKeeps
<1> QED
  BY <1>1, <1>2, UnloadKeeps, PersistBeginKeeps DEF LoaderCall

\* ... and every step of a call keeps the invariant.
LEMMA LoaderStepKeeps ==
  ASSUME LInv, LoaderStep PROVE LInv'
<1>1. ASSUME NEW i \in DOMAIN cand, NEW error \in BOOLEAN, Import(i, error) PROVE LInv'
  BY <1>1, ImportKeeps
<1>3. ASSUME NEW i \in DOMAIN cand, NEW st \in Following, Answer(i, st) PROVE LInv'
  BY <1>3, AnswerKeeps
<1>2. ASSUME NEW error \in BOOLEAN,
             DisposeLive(error) \/ DisposeCandidate(error) \/ PersistEnd(error)
      PROVE  LInv'
  BY <1>2, DisposeLiveKeeps, DisposeCandidateKeeps, PersistEndKeeps
<1> QED
  BY <1>1, <1>2, <1>3, ImportFailsKeeps, ImportedKeeps, RetiredKeeps, RetireFailsKeeps, DiscardedKeeps,
     UnloadedKeeps, NextRoundKeeps, ActivateFailsKeeps, CommitKeeps DEF LoaderStep

\* What the invariant says about the properties of the loader.
LEMMA LoaderIsInOrder ==
  ASSUME LInv PROVE LoaderInv /\ CommittedTreeIsLive /\ FileIsWhole
<1>1. CommittedTreeIsValid
  BY DEF LInv, TreesOK, CommittedTreeIsValid, Valid, UniqueIds
<1>2. OldStopsFirst
  BY DEF LInv, LTypeOK, LiveOK, CandOK, Between, OldStopsFirst, AllIn, Fresh, Dead, Following, Range
<1>3. CommittedTreeIsLive
  <2> SUFFICES ASSUME phase = "idle", ~outage
               PROVE  /\ [i \in DOMAIN live |-> live[i].entry] = ActiveEntries(tree)
                      /\ \A h \in Range(live) : h.st \in Following
    BY DEF CommittedTreeIsLive
  <2>1. Matches(live, tree) /\ AllIn(live, Following) /\ tree \in Trees(DOMAIN Needs)
    BY DEF LInv, TreesOK, LiveOK, Between
  <2>2. PICK es \in Seq(EnabledEntries(DOMAIN Needs)) : es = ActiveEntries(tree)
    BY <2>1, ActiveEntriesType, Zenon
  <2>3. es = [i \in 1 .. Len(es) |-> es[i]] /\ Len(live) = Len(es) /\ DOMAIN live = 1 .. Len(live)
        /\ \A i \in DOMAIN live : live[i].entry = es[i]
    BY <2>1, <2>2, LenProperties, HandleFacts DEF Matches, LInv, LTypeOK
  <2>4. [i \in DOMAIN live |-> live[i].entry] = es
    BY <2>3
  <2> QED
    BY <2>1, <2>2, <2>4 DEF AllIn, Following, Range
<1>4. PatchesAreLocal /\ NoHandleDropped /\ FileIsWhole
  BY DEF LInv, TreesOK
<1> QED
  BY <1>1, <1>2, <1>3, <1>4, ActivationComplete DEF LoaderInv

-----------------------------------------------------------------------------
(***************************************************************************)
(* The loader is a register of trees                                       *)
(***************************************************************************)
\* The entries of handles of which none is disposed of
LEMMA ServedEntries ==
  ASSUME NEW hs \in Seq(HandleRecords), NEW t \in Trees(DOMAIN Needs), Matches(hs, t)
  PROVE  /\ {h.entry : h \in {g \in Range(hs) : g.st \notin {"Disposed", "Broken"}}}
              \subseteq Content(t)
         /\ AllIn(hs, Following) =>
              {h.entry : h \in {g \in Range(hs) : g.st \notin {"Disposed", "Broken"}}} = Content(t)
<1>1. PICK es \in Seq(EnabledEntries(DOMAIN Needs)) : es = ActiveEntries(t)
  BY ActiveEntriesType, Zenon
<1>2. DOMAIN es = DOMAIN hs /\ \A i \in DOMAIN hs : hs[i].entry = es[i]
  BY <1>1, LenProperties, HandleFacts DEF Matches
<1>3. Content(t) = {es[i] : i \in DOMAIN hs}
  BY <1>1, <1>2 DEF Content, Range
<1>4. Range(hs) = {hs[i] : i \in DOMAIN hs}
  BY DEF Range
<1>5. ASSUME NEW x \in {h.entry : h \in {g \in Range(hs) : g.st \notin {"Disposed", "Broken"}}}
      PROVE  x \in Content(t)
  BY <1>2, <1>3, <1>4
<1>6. ASSUME AllIn(hs, Following), NEW x \in Content(t)
      PROVE  x \in {h.entry : h \in {g \in Range(hs) : g.st \notin {"Disposed", "Broken"}}}
  <2>1. PICK i \in DOMAIN hs : x = hs[i].entry
    BY <1>2, <1>3
  <2>2. hs[i] \in Range(hs) /\ hs[i].st \notin {"Disposed", "Broken"}
    BY <1>4, <1>6 DEF AllIn, Following
  <2> QED
    BY <2>1, <2>2
<1> QED
  BY <1>5, <1>6

\* A call is asked for.
LEMMA CallAsks ==
  ASSUME LInv, Between, UNCHANGED tree, job' # NoTree PROVE Register!Ask
BY DEF LInv, TreesOK, Served, Register!Ask

\* Nothing is seen of what happens during a call.
LEMMA CallIsHidden ==
  ASSUME LInv, ~Between, UNCHANGED <<tree, job>> PROVE UNCHANGED <<tree, job, Served>>
BY DEF LInv, TreesOK, Served

\* A call that ends without having succeeded leaves part of the tree in service.
LEMMA EndDenies ==
  ASSUME LInv, ~Between, LInv', Between', UNCHANGED tree PROVE Register!Deny
<1>1. job # NoTree /\ job' = NoTree
  BY DEF LInv, TreesOK
<1>2. live' \in Seq(HandleRecords) /\ tree' \in Trees(DOMAIN Needs) /\ (live' # <<>> => Matches(live', tree'))
  BY DEF LInv, LTypeOK, TreesOK, LiveOK
<1>3. Served' \subseteq Content(tree)
  <2>1. Served' = {h.entry : h \in {g \in Range(live') : g.st \notin {"Disposed", "Broken"}}}
    BY <1>1 DEF Served
  <2>2. CASE live' = <<>>
    BY <2>1, <2>2 DEF Range
  <2>3. CASE live' # <<>>
    <3>1. {h.entry : h \in {g \in Range(live') : g.st \notin {"Disposed", "Broken"}}}
              \subseteq Content(tree')
      BY <1>2, <2>3, ServedEntries, Zenon
    <3> QED
      BY <2>1, <3>1
  <2> QED
    BY <2>2, <2>3
<1> QED
  BY <1>1, <1>3 DEF Register!Deny

\* A call that succeeds has put all of the tree it was for in service.
LEMMA EndGrants ==
  ASSUME LInv, ~Between, LInv', Between', tree' = job, Matches(live', tree'), AllIn(live', Following)
  PROVE  Register!Grant
<1>1. job # NoTree /\ job' = NoTree /\ Valid(job)
  BY DEF LInv, TreesOK
<1>2. live' \in Seq(HandleRecords) /\ tree' \in Trees(DOMAIN Needs)
  BY DEF LInv, LTypeOK, TreesOK
<1>3. {h.entry : h \in {g \in Range(live') : g.st \notin {"Disposed", "Broken"}}} = Content(tree')
  BY <1>2, ServedEntries, Zenon
<1>4. Served' = Content(job)
  BY <1>1, <1>3 DEF Served
<1> QED
  BY <1>1, <1>4 DEF Register!Grant

\* A step of the register, or none
RegisterStep == Register!RNext \/ UNCHANGED <<tree, job, Served>>

\* What a step of a call does: where it goes, that it changes the tree only when
\* it commits or unloads, and what the register sees of it.
LEMMA LoaderStepFacts ==
  ASSUME LInv, LInv', LoaderStep
  PROVE  /\ phase # "idle" /\ phase' # "persist"
         /\ (phase = "unload" => phase' \in {"unload", "idle"})
         /\ (phase' = "unload" => phase = "unload")
         /\ (phase = "unload" /\ phase' = "idle" => AllIn(live', Dead))
         /\ (tree' # tree => phase = "unload" \/ (phase' = "idle" /\ ok'))
         /\ RegisterStep
<1>1. ASSUME NEW i \in DOMAIN cand, NEW error \in BOOLEAN, Import(i, error)
      PROVE  /\ phase = "import" /\ phase' = "import" /\ UNCHANGED <<tree, job, Served>>
  <2>1. /\ phase = "import" /\ phase' = "import" /\ UNCHANGED <<tree, job>>
    BY <1>1 DEF Import, treeVars
  <2> QED
    BY <2>1, CallIsHidden DEF Between
<1>2. ASSUME NEW i \in DOMAIN cand, NEW st \in Following, Answer(i, st)
      PROVE  /\ phase = "activate" /\ phase' = "activate" /\ UNCHANGED <<tree, job, Served>>
  <2>1. /\ phase = "activate" /\ phase' = "activate" /\ UNCHANGED <<tree, job>>
    BY <1>2 DEF Answer, treeVars
  <2> QED
    BY <2>1, CallIsHidden DEF Between
<1>3. ASSUME ImportFails \/ Imported \/ Retired \/ RetireFails \/ NextRound \/ ActivateFails
      PROVE  /\ phase \in {"import", "retire", "activate"}
             /\ phase' \notin {"idle", "persist", "unload"}
             /\ UNCHANGED <<tree, job, Served>>
  <2>1. /\ phase \in {"import", "retire", "activate"}
        /\ phase' \notin {"idle", "persist", "unload"} /\ UNCHANGED <<tree, job>>
    BY <1>3 DEF ImportFails, DiscardImported, Settled, Imported, AfterImport, StartActivate, Retired,
       ClearLive, RetireFails, NextRound, ActivateFails, treeVars
  <2> QED
    BY <2>1, CallIsHidden DEF Between
<1>4. ASSUME NEW error \in BOOLEAN, DisposeLive(error) \/ DisposeCandidate(error)
      PROVE  /\ phase \notin {"idle", "persist"} /\ phase' = phase /\ UNCHANGED <<tree, job, Served>>
  <2>1. phase \notin {"idle", "persist"} /\ phase' = phase /\ UNCHANGED <<tree, job>>
    BY <1>4 DEF DisposeLive, DisposeCandidate, Discarding, treeVars
  <2> QED
    BY <2>1, CallIsHidden DEF Between
<1>5. ASSUME NEW error \in BOOLEAN, PersistEnd(error)
      PROVE  phase = "persist" /\ phase' = "idle" /\ UNCHANGED <<tree, job, Served>>
  BY <1>5 DEF PersistEnd, treeVars, Served
<1>6. ASSUME Discarded
      PROVE  phase \notin {"idle", "persist", "unload"} /\ phase' \notin {"persist", "unload"}
             /\ UNCHANGED tree /\ RegisterStep
  <2>1. phase \notin {"idle", "persist", "unload"} /\ UNCHANGED tree
    BY <1>6 DEF Discarded, Discarding
  <2>2. CASE restoring \/ phase = "discard-import"
    <3>1. phase' = "idle"
      BY <1>6, <2>2 DEF Discarded, EndCall
    <3>2. Register!Deny
      BY <2>1, <3>1, EndDenies DEF Between
    <3> QED
      BY <2>1, <3>1, <3>2 DEF RegisterStep, Register!RNext
  <2>3. CASE ~(restoring \/ phase = "discard-import")
    <3>1. phase' = "import" /\ UNCHANGED job
      BY <1>6, <2>3 DEF Discarded, Restore, StartImport
    <3> QED
      BY <2>1, <3>1, CallIsHidden DEF Between, RegisterStep
  <2> QED
    BY <2>2, <2>3
<1>7. ASSUME Unloaded
      PROVE  phase = "unload" /\ phase' = "idle" /\ AllIn(live', Dead) /\ RegisterStep
  <2>1. phase = "unload" /\ phase' = "idle" /\ AllIn(live', Dead)
    BY <1>7, UnloadedKeeps DEF Unloaded, EndCall
  <2>2. CASE failed
    <3>1. UNCHANGED tree
      BY <1>7, <2>2 DEF Unloaded
    <3>2. Register!Deny
      BY <2>1, <3>1, EndDenies DEF Between
    <3> QED
      BY <2>1, <3>2 DEF RegisterStep, Register!RNext
  <2>3. CASE ~failed
    <3>1. tree' = job /\ live' = <<>> /\ tree' = EmptyTree
      BY <1>7, <2>3 DEF LInv, TreesOK, Unloaded, ClearLive
    <3>2. Matches(live', tree') /\ AllIn(live', Following)
      BY <3>1, EmptyTreeFacts DEF Matches, AllIn
    <3>3. Register!Grant
      BY <2>1, <3>1, <3>2, EndGrants DEF Between
    <3> QED
      BY <2>1, <3>3 DEF RegisterStep, Register!RNext
  <2> QED
    BY <2>2, <2>3 DEF LInv, LTypeOK
<1>8. ASSUME Commit
      PROVE  phase = "activate" /\ phase' = "idle" /\ (tree' # tree => ok') /\ RegisterStep
  <2>1. phase = "activate" /\ phase' = "idle" /\ Matches(live', tree') /\ AllIn(live', Following)
    BY <1>8, CommitKeeps DEF Commit, EndCall
  <2>2. CASE restoring
    <3>1. UNCHANGED tree
      BY <1>8, <2>2 DEF Commit, KeepTree
    <3>2. Register!Deny
      BY <2>1, <3>1, EndDenies DEF Between
    <3> QED
      BY <2>1, <3>1, <3>2 DEF RegisterStep, Register!RNext
  <2>3. CASE ~restoring
    <3>1. tree' = job /\ ok'
      BY <1>8, <2>3 DEF Commit, KeepTree, EndCall
    <3>2. Register!Grant
      BY <2>1, <3>1, EndGrants DEF Between
    <3> QED
      BY <2>1, <3>1, <3>2 DEF RegisterStep, Register!RNext
  <2> QED
    BY <2>2, <2>3 DEF LInv, LTypeOK
<1> QED
  BY <1>1, <1>2, <1>3, <1>4, <1>5, <1>6, <1>7, <1>8 DEF LoaderStep, RegisterStep

\* A call is a request to the register; persist is not.
LEMMA LoaderCallFacts ==
  ASSUME LInv, LInv', LoaderCall PROVE RegisterStep
<1>1. CASE PersistBegin
  BY <1>1 DEF PersistBegin, treeVars, Served, RegisterStep
<1>2. CASE Unload \/ (\E t \in Requests : Replace(t)) \/ (\E p \in PatchLists : Update(p))
  <2>1. Between /\ UNCHANGED tree /\ phase' \in {"import", "unload"}
    BY <1>2 DEF Unload, Replace, Update, StartImport, treeVars, Between
  <2>2. job' # NoTree
    BY <2>1 DEF LInv, TreesOK, Between
  <2> QED
    BY <2>1, <2>2, CallAsks DEF RegisterStep, Register!RNext
<1> QED
  BY <1>1, <1>2 DEF LoaderCall

\* The register does not see the providers come and go.
LEMMA NoticeFacts ==
  ASSUME LInv, Notice PROVE UNCHANGED <<tree, job, Served>>
<1>1. UNCHANGED <<tree, job>>
  BY DEF Notice
<1>2. CASE \E i \in DOMAIN live, st \in Following :
             Noticed(live, i, st) /\ live' = [live EXCEPT ![i].st = st] /\ UNCHANGED cand
  <2>1. PICK i \in DOMAIN live, v \in Following :
          Noticed(live, i, v) /\ live' = [live EXCEPT ![i].st = v]
    BY <1>2
  <2>2. live \in Seq(HandleRecords)
    BY DEF LInv, LTypeOK
  <2>3. /\ live' \in Seq(HandleRecords) /\ Len(live') = Len(live) /\ DOMAIN live' = DOMAIN live
        /\ live[i].st \in Following /\ live'[i].st = v
        /\ \A j \in DOMAIN live : j # i => live'[j] = live[j]
        /\ \A j \in DOMAIN live : live'[j].entry = live[j].entry
    BY <2>1, <2>2, NoticedFacts
  <2>4. \A j \in DOMAIN live : /\ live'[j].entry = live[j].entry
                               /\ live'[j].st \in Dead <=> live[j].st \in Dead
    BY <2>3 DEF Following, Dead
  <2>5. ASSUME NEW hs, DOMAIN hs = DOMAIN live
        PROVE  {h.entry : h \in {g \in Range(hs) : g.st \notin {"Disposed", "Broken"}}}
                 = {hs[j].entry : j \in {k \in DOMAIN live : hs[k].st \notin Dead}}
    BY <2>5 DEF Range, Dead
  <2>6. {live'[j].entry : j \in {k \in DOMAIN live : live'[k].st \notin Dead}}
          = {live[j].entry : j \in {k \in DOMAIN live : live[k].st \notin Dead}}
    BY <2>4
  <2>7. {h.entry : h \in {g \in Range(live') : g.st \notin {"Disposed", "Broken"}}}
          = {h.entry : h \in {g \in Range(live) : g.st \notin {"Disposed", "Broken"}}}
    BY <2>3, <2>5, <2>6
  <2> QED
    BY <1>1, <2>7 DEF Served
<1>3. CASE UNCHANGED live
  BY <1>1, <1>3 DEF Served
<1> QED
  BY <1>2, <1>3 DEF Notice

-----------------------------------------------------------------------------
(***************************************************************************)
(* The watcher                                                             *)
(***************************************************************************)
\* In the beginning.
LEMMA WatcherStarts == WInit => WInv
<1> SUFFICES ASSUME WInit PROVE WInv
  OBVIOUS
<1>0. MaxWrites \in Nat /\ NoTree \notin Sources /\ EmptyTree \in Trees(DOMAIN Needs)
  BY WatcherAssumption, EmptyTreeFacts
<1>1. LInv
  BY LoaderStarts DEF WInit
<1>2. WTypes /\ OwnerOK
  <2>1. writes \in 0 .. MaxWrites
    BY <1>0 DEF WInit
  <2> QED
    BY <2>1 DEF WInit, LInit, WTypes, OwnerOK
<1>3. ShownOK
  BY <1>0 DEF WInit, LInit, ShownOK
<1>4. SeenOK
  BY DEF WInit, SeenOK, Handled, Seen
<1> QED
  BY <1>1, <1>2, <1>3, <1>4 DEF WInv

\* A client calls its loader.
LEMMA ClientKeeps ==
  ASSUME WInv, Client PROVE WInv' /\ RegisterStep
<1>1. LInv' /\ RegisterStep
  BY LoaderCallKeeps, LoaderCallFacts DEF WInv, Client
<1>2. UNCHANGED <<owner, fileSide, watchVars>> /\ owner = "client" /\ wpc = "observe"
  BY DEF Client, WInv, OwnerOK
<1>3. WTypes' /\ OwnerOK' /\ SeenOK'
  BY <1>2 DEF WInv, WTypes, OwnerOK, SeenOK, Seen, Handled, fileSide, watchVars
<1>4. ShownOK'
  BY <1>2 DEF WInv, ShownOK, watchVars
<1> QED
  BY <1>1, <1>3, <1>4 DEF WInv

\* A call goes on.
LEMMA WorkKeeps ==
  ASSUME WInv, Work PROVE WInv' /\ RegisterStep
<1>1. LInv'
  BY LoaderStepKeeps DEF WInv, Work
<1>2. /\ phase # "idle" /\ phase' # "persist"
      /\ (phase = "unload" => phase' \in {"unload", "idle"})
      /\ (phase' = "unload" => phase = "unload")
      /\ (phase = "unload" /\ phase' = "idle" => AllIn(live', Dead))
      /\ (tree' # tree => phase = "unload" \/ (phase' = "idle" /\ ok'))
      /\ RegisterStep
  BY <1>1, LoaderStepFacts, Zenon DEF WInv, Work
<1>3. UNCHANGED <<owner, fileSide, watchVars>>
  BY DEF Work
<1>4. WTypes' /\ SeenOK'
  BY <1>3 DEF WInv, WTypes, SeenOK, Seen, Handled, fileSide, watchVars
<1>5. OwnerOK'
  BY <1>2, <1>3 DEF WInv, WTypes, OwnerOK, watchVars
<1>6. ShownOK'
  BY <1>2, <1>3 DEF WInv, WTypes, OwnerOK, ShownOK, watchVars
<1> QED
  BY <1>1, <1>2, <1>4, <1>5, <1>6 DEF WInv

\* Providers come and go.
LEMMA WatcherNoticeKeeps ==
  ASSUME WInv, Notice, UNCHANGED <<owner, fileSide, watchVars>> PROVE WInv' /\ RegisterStep
<1>1. LInv' /\ (AllIn(live, Dead) => AllIn(live', Dead)) /\ UNCHANGED <<tree, job, Served>>
  BY NoticeKeeps, NoticeFacts DEF WInv
<1>2. UNCHANGED <<phase, ok>>
  BY DEF Notice, histVars
<1>3. WTypes' /\ SeenOK' /\ OwnerOK'
  BY <1>2 DEF WInv, WTypes, OwnerOK, SeenOK, Seen, Handled, fileSide, watchVars
<1>4. ShownOK'
  BY <1>1, <1>2 DEF WInv, ShownOK, watchVars
<1> QED
  BY <1>1, <1>3, <1>4 DEF WInv, RegisterStep

\* Nothing that is in the loader changes.
LEMMA LoaderIdle ==
  ASSUME LInv, UNCHANGED lvars PROVE LInv' /\ UNCHANGED <<tree, job, Served, phase, ok, live>>
<1>1. UNCHANGED <<tree, live, cand, job, phase, restoring, failed, todo, later, progressed, pos,
                  ok, calls, outage, dropped, named, file, temp>>
  BY DEF lvars, treeVars, callVars, histVars, fileVars
<1>2. LTypeOK' /\ TreesOK'
  BY <1>1 DEF LInv, LTypeOK, TreesOK, Discarding, Between, PatchesAreLocal, FileIsWhole, NoHandleDropped
<1>3. LiveOK' /\ CandOK'
  BY <1>1 DEF LInv, LiveOK, CandOK, Discarding, Between, Goal
<1>4. RoundOK'
  BY <1>1 DEF LInv, RoundOK, Satisfied
<1>5. UNCHANGED Served
  BY <1>1 DEF Served
<1> QED
  BY <1>1, <1>2, <1>3, <1>4, <1>5 DEF LInv

\* The source is written.
LEMMA WriteSourceKeeps ==
  ASSUME WInv, WriteSource PROVE WInv' /\ RegisterStep
<1>0. MaxWrites \in Nat
  BY WatcherAssumption
<1>1. LInv' /\ UNCHANGED <<tree, job, Served, phase, ok, live>>
  BY LoaderIdle DEF WInv, WriteSource
<1>2. WTypes' /\ OwnerOK'
  BY <1>0, <1>1 DEF WInv, WTypes, OwnerOK, WriteSource, watchVars
<1>3. ShownOK'
  BY <1>1 DEF WInv, ShownOK, WriteSource, watchVars
<1>4. SeenOK'
  BY DEF WInv, WTypes, ShownOK, SeenOK, Seen, Handled, WriteSource, watchVars
<1> QED
  BY <1>1, <1>2, <1>3, <1>4 DEF WInv, RegisterStep

\* The worker looks at the source.
LEMMA ObserveKeeps ==
  ASSUME WInv, Observe PROVE WInv' /\ RegisterStep
<1>0. NoTree \notin Sources
  BY WatcherAssumption
<1>1. LInv' /\ UNCHANGED <<tree, job, Served, phase, ok, live>>
  BY LoaderIdle DEF WInv, Observe
<1>2. WTypes' /\ OwnerOK'
  BY <1>1 DEF WInv, WTypes, OwnerOK, Observe, fileSide
<1>3. ShownOK'
  BY <1>1 DEF WInv, ShownOK, Observe
<1>4. SeenOK'
  <2>1. fresh = NoTree /\ source # NoTree
    BY <1>0 DEF WInv, WTypes, SeenOK, Observe
  <2> QED
    BY <2>1 DEF WInv, WTypes, ShownOK, SeenOK, Seen, Handled, Observe, Changed, fileSide
<1> QED
  BY <1>1, <1>2, <1>3, <1>4 DEF WInv, RegisterStep

\* The worker calls replace.
LEMMA ApplyReplaceKeeps ==
  ASSUME WInv, ApplyReplace PROVE WInv' /\ RegisterStep
<1>0. fresh \in Trees(DOMAIN Needs)
  BY WatcherAssumption DEF WInv, WTypes, SeenOK, ApplyReplace, Refused
<1>1. LInv'
  BY <1>0, ReplaceKeeps DEF WInv, ApplyReplace
<1>2. phase = "idle" /\ phase' = "import" /\ UNCHANGED tree /\ wpc = "apply" /\ wpc' = "replacing"
  BY DEF ApplyReplace, Replace, StartImport, treeVars
<1>3. RegisterStep
  <2>1. job' # NoTree
    BY <1>1, <1>2 DEF LInv, TreesOK, Between
  <2>2. Register!Ask
    BY <1>2, <2>1, CallAsks DEF WInv, Between
  <2> QED
    BY <2>2 DEF RegisterStep, Register!RNext
<1>4. WTypes' /\ OwnerOK' /\ SeenOK'
  BY <1>2 DEF WInv, WTypes, OwnerOK, SeenOK, Seen, Handled, ApplyReplace, fileSide
<1>5. ShownOK'
  BY <1>2 DEF WInv, ShownOK, ApplyReplace
<1> QED
  BY <1>1, <1>3, <1>4, <1>5 DEF WInv

\* The result is published.
LEMMA PublishKeeps ==
  ASSUME WInv, NEW result \in BOOLEAN, Publish(result), phase = "idle",
         wpc \in {"apply", "replacing"}, result \/ shown.tree = tree
  PROVE  WInv' /\ RegisterStep
<1>1. LInv' /\ UNCHANGED <<tree, job, Served, phase, ok, live>>
  BY LoaderIdle DEF WInv, Publish
<1>2. fresh # NoTree /\ fresh \in Sources /\ owner = "watcher"
  BY DEF WInv, WTypes, SeenOK, OwnerOK
<1>3. WTypes' /\ OwnerOK'
  BY <1>1, <1>2 DEF WInv, WTypes, OwnerOK, Publish, fileSide
<1>4. /\ shown' \in [tree : Trees(DOMAIN Needs), committed : Nat, rejected : Nat, running : BOOLEAN]
      /\ shown'.tree = tree
      /\ shown'.committed + shown'.rejected = shown.committed + shown.rejected + 1
  <2>1. /\ shown \in [tree : Trees(DOMAIN Needs), committed : Nat, rejected : Nat, running : BOOLEAN]
        /\ tree \in Trees(DOMAIN Needs)
    BY DEF WInv, ShownOK, LInv, TreesOK
  <2>2. CASE result
    <3>1. shown' = [shown EXCEPT !.tree = tree, !.committed = shown.committed + 1]
      BY <2>1, <2>2 DEF Publish, Shown
    <3>2. shown.committed \in Nat /\ shown.rejected \in Nat /\ shown.committed + 1 \in Nat
      BY <2>1
    <3>3. /\ shown' \in [tree : Trees(DOMAIN Needs), committed : Nat, rejected : Nat, running : BOOLEAN]
          /\ shown'.tree = tree /\ shown'.committed = shown.committed + 1
          /\ shown'.rejected = shown.rejected
      BY <2>1, <3>1, <3>2
    <3> QED
      BY <3>2, <3>3
  <2>3. CASE ~result
    BY <2>1, <2>3 DEF Publish, Shown
  <2> QED
    BY <2>2, <2>3
<1>5. ShownOK'
  <2>1. shown.committed \in Nat /\ shown.rejected \in Nat
    BY DEF WInv, ShownOK
  <2> QED
    BY <1>1, <1>4, <2>1 DEF ShownOK, Publish
<1>6. SeenOK'
  <2>1. shown.committed \in Nat /\ shown.rejected \in Nat
    BY DEF WInv, ShownOK
  <2> QED
    BY <1>2, <1>4, <2>1 DEF WInv, SeenOK, Seen, Handled, Publish, fileSide
<1> QED
  BY <1>1, <1>3, <1>5, <1>6 DEF WInv, RegisterStep

\* A source that is refused, and replace returns.
LEMMA AppliedKeeps ==
  ASSUME WInv, ApplyRefused \/ Applied PROVE WInv' /\ RegisterStep
<1>1. owner = "watcher" /\ phase = "idle"
  BY DEF WInv, WTypes, OwnerOK, ApplyRefused, Applied
<1>2. CASE ApplyRefused
  BY <1>1, <1>2, PublishKeeps DEF WInv, ShownOK, ApplyRefused
<1>3. CASE Applied
  <2>1. ok \in BOOLEAN
    BY DEF WInv, LInv, LTypeOK
  <2> QED
    BY <1>1, <1>3, <2>1, PublishKeeps DEF WInv, ShownOK, Applied
<1> QED
  BY <1>2, <1>3

\* The loop of the worker, and the thread in stop.
LEMMA QuietKeeps ==
  ASSUME WInv, Loop \/ Wait \/ Awake \/ Stop \/ Notify \/ Join PROVE WInv' /\ RegisterStep
<1>1. LInv' /\ UNCHANGED <<tree, job, Served, phase, ok, live>>
  BY LoaderIdle DEF WInv, Loop, Wait, Awake, Stop, Notify, Join
<1>2. /\ wpc' # wpc => wpc \in {"loop", "wait", "awake"} /\ wpc' \in {"wait", "awake", "unload", "observe"}
      /\ opc' # opc => opc # "starting" /\ opc' \in {"notifying", "joining", "stopped"}
      /\ stopping' \in BOOLEAN /\ permit' \in BOOLEAN
      /\ UNCHANGED <<owner, source, writes, observed, fresh, shown>>
  BY DEF WInv, WTypes, Loop, Wait, Awake, Stop, Notify, Join, fileSide
<1>3. WTypes' /\ OwnerOK'
  BY <1>1, <1>2 DEF WInv, WTypes, OwnerOK
<1>4. ShownOK'
  BY <1>1, <1>2 DEF WInv, ShownOK
<1>5. SeenOK'
  BY <1>2 DEF WInv, SeenOK, Seen, Handled
<1> QED
  BY <1>1, <1>3, <1>4, <1>5 DEF WInv, RegisterStep

\* The worker unloads the loader, ...
LEMMA StartUnloadKeeps ==
  ASSUME WInv, StartUnload PROVE WInv' /\ RegisterStep
<1>1. LInv'
  BY UnloadKeeps DEF WInv, StartUnload
<1>2. phase = "idle" /\ phase' = "unload" /\ UNCHANGED tree /\ wpc = "unload" /\ wpc' = "unloading"
  BY DEF StartUnload, Unload, treeVars
<1>3. RegisterStep
  <2>1. job' # NoTree
    BY <1>1, <1>2 DEF LInv, TreesOK, Between
  <2>2. Register!Ask
    BY <1>2, <2>1, CallAsks DEF WInv, Between
  <2> QED
    BY <2>2 DEF RegisterStep, Register!RNext
<1>4. WTypes' /\ OwnerOK' /\ SeenOK'
  BY <1>2 DEF WInv, WTypes, OwnerOK, SeenOK, Seen, Handled, StartUnload, fileSide
<1>5. ShownOK'
  BY <1>2 DEF WInv, ShownOK, StartUnload
<1> QED
  BY <1>1, <1>3, <1>4, <1>5 DEF WInv

\* ... and ends.
LEMMA FinishKeeps ==
  ASSUME WInv, Finish PROVE WInv' /\ RegisterStep
<1>1. LInv' /\ UNCHANGED <<tree, job, Served, phase, ok, live>>
  BY LoaderIdle DEF WInv, Finish
<1>2. WTypes' /\ OwnerOK'
  BY <1>1 DEF WInv, WTypes, OwnerOK, Finish, fileSide
<1>3. /\ shown' \in [tree : Trees(DOMAIN Needs), committed : Nat, rejected : Nat, running : BOOLEAN]
      /\ shown'.tree = tree
      /\ shown'.committed = shown.committed /\ shown'.rejected = shown.rejected
  <2>1. /\ shown \in [tree : Trees(DOMAIN Needs), committed : Nat, rejected : Nat, running : BOOLEAN]
        /\ tree \in Trees(DOMAIN Needs)
    BY DEF WInv, ShownOK, LInv, TreesOK
  <2> QED
    BY <2>1 DEF Finish
<1>4. ShownOK'
  BY <1>1, <1>3 DEF WInv, OwnerOK, ShownOK, Finish
<1>5. SeenOK'
  BY <1>3 DEF WInv, SeenOK, Seen, Handled, Finish, fileSide
<1> QED
  BY <1>1, <1>2, <1>4, <1>5 DEF WInv, RegisterStep

\* Every step keeps the invariant, and is a step of the register or none.
LEMMA WatcherKeeps ==
  ASSUME WInv, [WNext]_wvars PROVE WInv' /\ RegisterStep
<1>1. CASE UNCHANGED wvars
  <2>1. LInv' /\ UNCHANGED <<tree, job, Served, phase, ok, live>>
    BY <1>1, LoaderIdle DEF WInv, wvars
  <2>2. WTypes' /\ OwnerOK' /\ ShownOK' /\ SeenOK'
    BY <1>1, <2>1 DEF WInv, WTypes, OwnerOK, ShownOK, SeenOK, Seen, Handled, wvars, fileSide, watchVars
  <2> QED
    BY <2>1, <2>2 DEF WInv, RegisterStep
<1>2. CASE WNext
  BY <1>2, ClientKeeps, WorkKeeps, WatcherNoticeKeeps, WriteSourceKeeps, ObserveKeeps,
     ApplyReplaceKeeps, AppliedKeeps, QuietKeeps, StartUnloadKeeps, FinishKeeps
     DEF WNext, WorkerStep
<1> QED
  BY <1>1, <1>2

\* What the invariant says about the properties of the watcher.
LEMMA WatcherIsInOrder ==
  ASSUME WInv PROVE WatcherInv
<1>1. WTypeOK
  <2>1. MaxWrites \in Nat
    BY WatcherAssumption
  <2>2. shown.committed + shown.rejected <= MaxWrites + 1
    BY <2>1 DEF WInv, WTypes, ShownOK, SeenOK, Handled
  <2> QED
    BY <2>2 DEF WInv, LInv, WTypes, WTypeOK
<1>2. SnapshotIsTrue
  BY DEF WInv, ShownOK, SnapshotIsTrue
<1>3. StoppedMeansUnloaded
  BY DEF WInv, ShownOK, StoppedMeansUnloaded, AllIn, Dead, Range
<1> QED
  BY <1>1, <1>2, <1>3, LoaderIsInOrder DEF WInv, WatcherInv

\* The invariant holds in every state.
LEMMA WInvHolds == WSpec => []WInv
<1>1. WInv /\ [WNext]_wvars => WInv'
  BY WatcherKeeps
<1> QED
  BY <1>1, WatcherStarts, PTL DEF WSpec

\* EntryTreeWatcher and Loader: the committed tree is valid whatever patches made
\* it, patches leave alone what they do not name, no handle is dropped while it
\* may run, an entry never runs twice, activate_all leaves nobody behind, and the
\* snapshot of the watcher is the tree of its loader.
THEOREM WatcherSafety == WSpec => []WatcherInv
<1>1. WInv => WatcherInv
  BY WatcherIsInOrder
<1> QED
  BY <1>1, WInvHolds, PTL

\* Loader::update, replace and unload: between two calls what is live is the
\* committed tree, entry by entry, whatever step of a call has failed.
THEOREM LiveTreeIsCommitted == WSpec => []CommittedTreeIsLive
<1>1. WInv => CommittedTreeIsLive
  BY LoaderIsInOrder DEF WInv
<1> QED
  BY <1>1, WInvHolds, PTL

\* persist_entry_tree: the file is never half written.
THEOREM PersistedFileIsWhole == WSpec => []FileIsWhole
<1>1. WInv => FileIsWhole
  BY LoaderIsInOrder DEF WInv
<1> QED
  BY <1>1, WInvHolds, PTL

\* The loader implements TreeRegister: a call takes effect as a whole, with all
\* of the tree in service, or not at all.
THEOREM LoaderImplementsRegister == WSpec => ImplementsRegister
<1>1. WInit => Register!RInit
  BY DEF WInit, LInit, Register!RInit, Served, Range
<1>2. WInv /\ [WNext]_wvars => [Register!RNext]_(Register!rvars)
  BY WatcherKeeps DEF RegisterStep, Register!rvars
<1> QED
  BY <1>1, <1>2, WInvHolds, PTL DEF WSpec, ImplementsRegister, Register!RSpec
=============================================================================

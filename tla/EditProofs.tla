----------------------------- MODULE EditProofs -----------------------------
(***************************************************************************)
(* What is kept of the words and texts of a project, for any recording,    *)
(* any glossary, and any requests and runs: the segmenter's lines, the     *)
(* rows that people edit, and the terms a cached line was made with.       *)
(*                                                                         *)
(* The lines are put together by recursion over sequences.  The first      *)
(* section derives induction over the naturals, in the form of a theorem   *)
(* about sets, from the theorem that they are well-founded, and with it    *)
(* what FlattenSeq and a ranking return.                                   *)
(***************************************************************************)
EXTENDS Segments, Segmenter, Glossary, FiniteSetTheorems, SequenceTheorems, TLAPS

-----------------------------------------------------------------------------
(* Induction and recursion *)

Descending == {p \in Nat \X Nat : p[1] < p[2]}

\* A set that holds 0 and the successor of each number it holds, holds all.
LEMMA Induction ==
  ASSUME NEW T, 0 \in T, \A n \in Nat : n \in T => n + 1 \in T
  PROVE  \A n \in Nat : n \in T
<1> DEFINE U == {n \in Nat : n \notin T}
<1> SUFFICES ASSUME U # {} PROVE FALSE
  OBVIOUS
<1>1. IsWellFoundedOn(Descending, Nat)
  BY NatLessThanWellFounded DEF OpToRel, Descending
<1>2. PICK x \in U : \A y \in U : ~(<<y, x>> \in Descending)
  BY <1>1, WFMin
<1>3. x \in Nat /\ x # 0 /\ x - 1 \in Nat /\ x = (x - 1) + 1
  BY <1>2
<1>4. <<x - 1, x>> \in Descending
  BY <1>3 DEF Descending
<1> QED
  BY <1>2, <1>3, <1>4

\* A function on 0..m can be built from its first value, step by step.
BuiltFrom(g, V, base, step, m) ==
  g \in [0..m -> V] /\ g[0] = base /\ \A i \in 1..m : g[i] = step[i][g[i - 1]]

LEMMA RecursionExists ==
  ASSUME NEW V, NEW base \in V, NEW step \in [Nat -> [V -> V]], NEW m \in Nat
  PROVE  \E g : BuiltFrom(g, V, base, step, m)
<1> DEFINE Built(n, g) == g[0] = base /\ \A i \in 1..n : g[i] = step[i][g[i - 1]]
<1> DEFINE T == {n \in Nat : \E g \in [0..n -> V] : Built(n, g)}
<1>1. 0 \in T
  <2>1. [i \in 0..0 |-> base] \in [0..0 -> V] /\ Built(0, [i \in 0..0 |-> base])
    OBVIOUS
  <2> QED BY <2>1
<1>2. ASSUME NEW n \in Nat, n \in T PROVE n + 1 \in T
  <2>1. PICK g \in [0..n -> V] : Built(n, g)
    BY <1>2
  <2> DEFINE h == [i \in 0..(n + 1) |-> IF i = n + 1 THEN step[n + 1][g[n]] ELSE g[i]]
  <2>2. h \in [0..(n + 1) -> V]
    BY <2>1
  <2>3. h[0] = base
    BY <2>1
  <2>4. ASSUME NEW i \in 1..(n + 1) PROVE h[i] = step[i][h[i - 1]]
    <3>1. CASE i = n + 1
      <4>1. h[n + 1] = step[n + 1][g[n]]
        OBVIOUS
      <4>2. h[n] = g[n] /\ n = (n + 1) - 1
        OBVIOUS
      <4> QED BY <3>1, <4>1, <4>2
    <3>2. CASE i # n + 1
      <4>1. i \in 1..n /\ i - 1 \in 0..n /\ i - 1 # n + 1
        BY <3>2
      <4> QED BY <2>1, <4>1
    <3> QED BY <3>1, <3>2
  <2> HIDE DEF h
  <2>5. n + 1 \in Nat /\ Built(n + 1, h)
    BY <2>3, <2>4
  <2> QED BY <2>2, <2>5
<1>3. m \in T
  BY <1>1, <1>2, Induction
<1> QED
  BY <1>3 DEF BuiltFrom

-----------------------------------------------------------------------------
(* FlattenSeq *)

\* The beginnings of the concatenation of the sequences in s.
Beginnings(s, h) == h[0] = <<>> /\ \A i \in 1..Len(s) : h[i] = h[i - 1] \o s[i]

\* FlattenSeq is the last of its beginnings.
LEMMA FlattenIs ==
  ASSUME NEW S, NEW s \in Seq(Seq(S)), NEW h \in [0..Len(s) -> Seq(S)], Beginnings(s, h)
  PROVE  FlattenSeq(s) = h[Len(s)]
<1>1. Len(s) \in Nat /\ \A i \in 1..Len(s) : s[i] \in Seq(S)
  OBVIOUS
<1>2. CASE Len(s) = 0
  BY <1>2 DEF FlattenSeq, Beginnings
<1>3. CASE Len(s) # 0
  <2> DEFINE Eq(f) == f = [i \in 1..Len(s) |-> IF i = 1 THEN s[i] ELSE f[i - 1] \o s[i]]
  <2> DEFINE f == CHOOSE f : Eq(f)
  <2>1. FlattenSeq(s) = f[Len(s)]
    BY <1>3 DEF FlattenSeq
  <2>2. Eq([i \in 1..Len(s) |-> h[i]])
    <3> DEFINE g == [i \in 1..Len(s) |-> h[i]]
    <3>1. ASSUME NEW i \in 1..Len(s) PROVE h[i] = IF i = 1 THEN s[i] ELSE g[i - 1] \o s[i]
      <4>1. h[i] = h[i - 1] \o s[i] /\ h[0] = <<>>
        BY DEF Beginnings
      <4>2. CASE i = 1
        BY <1>1, <4>1, <4>2
      <4>3. CASE i # 1
        <5>1. i - 1 \in 1..Len(s)
          BY <1>1, <4>3
        <5> QED BY <4>1, <4>3, <5>1
      <4> QED BY <4>2, <4>3
    <3> QED BY <3>1
  <2>3. Eq(f)
    <3> HIDE DEF Eq
    <3> QED BY <2>2
  <2> HIDE DEF f
  <2> DEFINE T == {n \in Nat : n \in 1..Len(s) => f[n] = h[n]}
  <2>4. 0 \in T
    OBVIOUS
  <2>5. ASSUME NEW n \in Nat, n \in T PROVE n + 1 \in T
    <3> SUFFICES ASSUME n + 1 \in 1..Len(s) PROVE f[n + 1] = h[n + 1]
      OBVIOUS
    <3>1. (n + 1) - 1 = n
      OBVIOUS
    <3>2. h[n + 1] = h[n] \o s[n + 1] /\ h[0] = <<>>
      BY <3>1 DEF Beginnings
    <3>3. f[n + 1] = IF n = 0 THEN s[n + 1] ELSE f[n] \o s[n + 1]
      <4>1. f[n + 1] = IF n + 1 = 1 THEN s[n + 1] ELSE f[(n + 1) - 1] \o s[n + 1]
        BY <2>3
      <4>2. n + 1 = 1 <=> n = 0
        OBVIOUS
      <4> QED BY <3>1, <4>1, <4>2
    <3>4. CASE n = 0
      BY <1>1, <3>2, <3>3, <3>4
    <3>5. CASE n # 0
      <4>1. n \in 1..Len(s)
        BY <1>1, <3>5
      <4>2. f[n] = h[n]
        BY <2>5, <4>1
      <4> QED BY <3>1, <3>2, <3>3, <3>5, <4>2
    <3> QED BY <3>4, <3>5
  <2>6. \A n \in Nat : n \in T
    BY <2>4, <2>5, Induction
  <2> QED BY <1>1, <1>3, <2>1, <2>6
<1> QED
  BY <1>2, <1>3

LEMMA BeginningsExist ==
  ASSUME NEW S, NEW s \in Seq(Seq(S))
  PROVE  \E h \in [0..Len(s) -> Seq(S)] : Beginnings(s, h)
<1>1. PICK V : V = Seq(S)
  OBVIOUS
<1>2. PICK step : step = [i \in Nat |-> [v \in V |-> IF i \in 1..Len(s) THEN v \o s[i] ELSE v]]
  OBVIOUS
<1>3. PICK m \in Nat : m = Len(s)
  OBVIOUS
<1>4. <<>> \in V
  BY <1>1, EmptySeq
<1>5. step \in [Nat -> [V -> V]]
  BY <1>1, <1>2
<1>6. PICK h : BuiltFrom(h, V, <<>>, step, m)
  BY <1>4, <1>5, RecursionExists
<1>7. h \in [0..m -> V] /\ h[0] = <<>> /\ \A i \in 1..m : h[i] = step[i][h[i - 1]]
  BY <1>6 DEF BuiltFrom
<1>8. ASSUME NEW i \in 1..m PROVE h[i] = h[i - 1] \o s[i]
  <2>1. i \in Nat /\ i - 1 \in 0..m
    OBVIOUS
  <2>2. h[i - 1] \in V /\ h[i] = step[i][h[i - 1]]
    BY <1>7, <2>1
  <2> QED BY <1>2, <1>3, <2>1, <2>2
<1> QED
  BY <1>1, <1>3, <1>7, <1>8 DEF Beginnings

LEMMA FlattenAppend ==
  ASSUME NEW S, NEW s \in Seq(Seq(S)), NEW x \in Seq(S)
  PROVE  /\ FlattenSeq(s) \in Seq(S)
         /\ FlattenSeq(Append(s, x)) = FlattenSeq(s) \o x
<1>1. PICK h \in [0..Len(s) -> Seq(S)] : Beginnings(s, h)
  BY BeginningsExist
<1>2. Len(s) \in Nat /\ FlattenSeq(s) = h[Len(s)]
  BY <1>1, FlattenIs
<1> DEFINE t == Append(s, x)
<1>3. t \in Seq(Seq(S)) /\ Len(t) = Len(s) + 1 /\ t[Len(s) + 1] = x /\ \A i \in 1..Len(s) : t[i] = s[i]
  OBVIOUS
<1> HIDE DEF t
<1> DEFINE g == [i \in 0..Len(t) |-> IF i = Len(t) THEN h[Len(s)] \o x ELSE h[i]]
<1>4. g \in [0..Len(t) -> Seq(S)]
  BY <1>2, <1>3
<1>5. ASSUME NEW i \in 1..Len(t) PROVE g[i] = g[i - 1] \o t[i]
  <2>1. CASE i = Len(t)
    <3>1. g[Len(t)] = h[Len(s)] \o x /\ g[Len(s)] = h[Len(s)] /\ i - 1 = Len(s) /\ t[i] = x
      BY <1>2, <1>3, <2>1
    <3> QED BY <2>1, <3>1
  <2>2. CASE i # Len(t)
    <3>1. i \in 1..Len(s) /\ i - 1 \in 0..Len(s) /\ i - 1 # Len(t) /\ i \in 0..Len(t) /\ i - 1 \in 0..Len(t)
      BY <1>2, <1>3, <2>2
    <3>2. h[i] = h[i - 1] \o s[i] /\ t[i] = s[i]
      BY <1>1, <1>3, <3>1 DEF Beginnings
    <3>3. g[i] = h[i] /\ g[i - 1] = h[i - 1]
      BY <2>2, <3>1
    <3> QED BY <3>2, <3>3
  <2> QED BY <2>1, <2>2
<1>6. g[0] = <<>> /\ g[Len(t)] = h[Len(s)] \o x
  BY <1>1, <1>2, <1>3 DEF Beginnings
<1> HIDE DEF g
<1>7. FlattenSeq(t) = g[Len(t)]
  BY <1>3, <1>4, <1>5, <1>6, FlattenIs DEF Beginnings
<1>8. h[Len(s)] \in Seq(S)
  BY <1>1, <1>2
<1> QED
  BY <1>2, <1>6, <1>7, <1>8 DEF t

LEMMA FlattenEmpty == FlattenSeq(<<>>) = <<>>
BY DEF FlattenSeq

LEMMA FlattenOne ==
  ASSUME NEW S, NEW x \in Seq(S)
  PROVE  FlattenSeq(<<x>>) = x
<1>1. <<>> \in Seq(Seq(S)) /\ Append(<<>>, x) = <<x>>
  OBVIOUS
<1>2. FlattenSeq(Append(<<>>, x)) = FlattenSeq(<<>>) \o x
  BY <1>1, FlattenAppend
<1> QED
  BY <1>1, <1>2, FlattenEmpty

LEMMA FlattenConcat ==
  ASSUME NEW S, NEW s \in Seq(Seq(S)), NEW t \in Seq(Seq(S))
  PROVE  FlattenSeq(s \o t) = FlattenSeq(s) \o FlattenSeq(t)
<1> DEFINE Q == Seq(S)
<1> DEFINE T == {n \in Nat : \A u \in Seq(Q) : Len(u) = n => FlattenSeq(s \o u) = FlattenSeq(s) \o FlattenSeq(u)}
<1>1. FlattenSeq(s) \in Q /\ s \in Seq(Q)
  <2>1. <<>> \in Q
    OBVIOUS
  <2> QED BY <2>1, FlattenAppend
<1>2. 0 \in T
  <2> SUFFICES ASSUME NEW u \in Seq(Q), Len(u) = 0
               PROVE  FlattenSeq(s \o u) = FlattenSeq(s) \o FlattenSeq(u)
    OBVIOUS
  <2>1. u = <<>> /\ s \o u = s /\ FlattenSeq(s) \o <<>> = FlattenSeq(s)
    BY <1>1
  <2> QED BY <2>1, FlattenEmpty
<1>3. ASSUME NEW n \in Nat, n \in T PROVE n + 1 \in T
  <2> SUFFICES ASSUME NEW u \in Seq(Q), Len(u) = n + 1
               PROVE  FlattenSeq(s \o u) = FlattenSeq(s) \o FlattenSeq(u)
    OBVIOUS
  <2>1. PICK v \in Seq(Q), x \in Q : u = Append(v, x)
    <3>1. u # <<>>
      OBVIOUS
    <3> HIDE DEF Q
    <3> QED BY <3>1, SequenceEmptyOrAppend
  <2>2. Len(v) = n /\ s \o u = Append(s \o v, x) /\ s \o v \in Seq(Q)
    BY <2>1
  <2>3. FlattenSeq(s \o v) = FlattenSeq(s) \o FlattenSeq(v)
    BY <1>3, <2>2
  <2>4. FlattenSeq(u) = FlattenSeq(v) \o x /\ FlattenSeq(v) \in Q
    BY <2>1, FlattenAppend
  <2>5. FlattenSeq(s \o u) = FlattenSeq(s \o v) \o x
    BY <2>2, FlattenAppend
  <2>6. (FlattenSeq(s) \o FlattenSeq(v)) \o x = FlattenSeq(s) \o (FlattenSeq(v) \o x)
    BY <1>1, <2>1, <2>4, ConcatAssociative
  <2> HIDE DEF Q
  <2> QED
    BY <2>3, <2>4, <2>5, <2>6
<1>4. Len(t) \in T
  <2>1. Len(t) \in Nat
    OBVIOUS
  <2> HIDE DEF T
  <2> QED BY <1>2, <1>3, <2>1, Induction
<1> QED
  BY <1>4

-----------------------------------------------------------------------------
(* A finite set in the order of a relation *)

Orders(R, S) ==
  /\ \A a \in S : <<a, a>> \notin R
  /\ \A a, b \in S : a # b => <<a, b>> \in R \/ <<b, a>> \in R
  /\ \A a, b, c \in S : <<a, b>> \in R /\ <<b, c>> \in R => <<a, c>> \in R

Rank(R, S, e) == Cardinality({o \in S : <<o, e>> \in R})

\* As many elements of the set come before an element as its place says, and
\* every place is taken.
LEMMA Ranking ==
  ASSUME NEW S, IsFiniteSet(S), NEW R, Orders(R, S)
  PROVE  /\ Cardinality(S) \in Nat
         /\ \A e \in S : Rank(R, S, e) \in 0..(Cardinality(S) - 1)
         /\ \A e, f \in S : Rank(R, S, e) = Rank(R, S, f) => e = f
         /\ \A i \in 1..Cardinality(S) : \E e \in S : Rank(R, S, e) = i - 1
<1> DEFINE Before(e) == {o \in S : <<o, e>> \in R}
<1> DEFINE n == Cardinality(S)
<1>1. n \in Nat
  BY FS_CardinalityType
<1>2. ASSUME NEW e \in S PROVE IsFiniteSet(Before(e)) /\ Rank(R, S, e) \in 0..(n - 1)
  <2>1. Before(e) \in SUBSET S /\ e \notin Before(e)
    BY DEF Orders
  <2>2. IsFiniteSet(Before(e)) /\ Cardinality(Before(e)) <= n /\ Cardinality(Before(e)) # n
    <3> HIDE DEF Before
    <3> QED BY <2>1, FS_Subset
  <2>3. Cardinality(Before(e)) \in Nat
    BY <2>2, FS_CardinalityType
  <2> QED BY <1>1, <2>2, <2>3 DEF Rank
<1> HIDE DEF n
<1>3. \A e \in S : Rank(R, S, e) \in Int
  <2> SUFFICES ASSUME NEW e \in S PROVE Rank(R, S, e) \in Int
    OBVIOUS
  <2>1. Rank(R, S, e) \in 0..(n - 1)
    BY <1>2
  <2> QED BY <1>1, <2>1
<1>4. ASSUME NEW e \in S, NEW f \in S, <<e, f>> \in R PROVE Rank(R, S, e) < Rank(R, S, f)
  <2>1. Before(e) \in SUBSET Before(f) /\ e \in Before(f) /\ e \notin Before(e)
    BY <1>4 DEF Orders
  <2>2. Cardinality(Before(e)) <= Cardinality(Before(f)) /\ Cardinality(Before(e)) # Cardinality(Before(f))
    <3>1. IsFiniteSet(Before(f))
      BY <1>2
    <3> HIDE DEF Before
    <3> QED BY <2>1, <3>1, FS_Subset
  <2>3. Rank(R, S, e) = Cardinality(Before(e)) /\ Rank(R, S, f) = Cardinality(Before(f))
    BY DEF Rank
  <2>4. Rank(R, S, e) \in Int /\ Rank(R, S, f) \in Int
    BY <1>3
  <2> HIDE DEF Before
  <2> QED BY <2>2, <2>3, <2>4
<1>5. ASSUME NEW e \in S, NEW f \in S, Rank(R, S, e) = Rank(R, S, f) PROVE e = f
  <2>1. Rank(R, S, e) \in Int /\ Rank(R, S, f) \in Int
    BY <1>3
  <2>2. ~(Rank(R, S, e) < Rank(R, S, f)) /\ ~(Rank(R, S, f) < Rank(R, S, e))
    BY <1>5, <2>1
  <2> QED BY <1>4, <2>2 DEF Orders
<1>6. ASSUME NEW i \in 1..n PROVE \E e \in S : Rank(R, S, e) = i - 1
  <2> DEFINE rank == [e \in S |-> Rank(R, S, e)]
  <2>1. rank \in Injection(S, 0..(n - 1))
    <3>1. rank \in [S -> 0..(n - 1)]
      BY <1>2
    <3>2. \A e, f \in S : rank[e] = rank[f] => e = f
      BY <1>5
    <3> QED BY <3>1, <3>2 DEF Injection, IsInjective
  <2>2. IsFiniteSet(0..(n - 1)) /\ Cardinality(0..(n - 1)) = n
    <3>1. 0 \in Int /\ n - 1 \in Int /\ (IF 0 > n - 1 THEN 0 ELSE (n - 1) - 0 + 1) = n
      BY <1>1
    <3> QED BY <3>1, FS_Interval
  <2>3. rank \in Surjection(S, 0..(n - 1))
    <3> HIDE DEF rank
    <3> QED BY <2>1, <2>2, FS_Injection DEF n
  <2>4. i - 1 \in 0..(n - 1)
    BY <1>1
  <2>5. \E e \in S : rank[e] = i - 1
    <3> HIDE DEF rank
    <3> QED BY <2>3, <2>4 DEF Surjection
  <2> QED BY <2>5
<1> QED
  BY <1>1, <1>2, <1>5, <1>6 DEF n

-----------------------------------------------------------------------------
(* Sequences and their parts *)

\* FlattenSeq of a part of each element, of two sequences one after the other.
PartsOf(f, u) == [k \in 1..Len(u) |-> f[u[k]]]

\* A part of the elements of V is a sequence over S.
IsPart(f, V, S) == f \in [V -> Seq(S)]

\* The parts of two sequences, one after the other.
LEMMA FlattenParts ==
  ASSUME NEW S, NEW V, NEW f, IsPart(f, V, S), NEW p \in Seq(V), NEW q \in Seq(V)
  PROVE  /\ PartsOf(f, p) \in Seq(Seq(S)) /\ FlattenSeq(PartsOf(f, p)) \in Seq(S)
         /\ FlattenSeq(PartsOf(f, p \o q)) = FlattenSeq(PartsOf(f, p)) \o FlattenSeq(PartsOf(f, q))
<1> USE DEF IsPart
<1> DEFINE Q == Seq(S)
<1> DEFINE s == [k \in 1..Len(p) |-> f[p[k]]]
<1> DEFINE t == [k \in 1..Len(q) |-> f[q[k]]]
<1> DEFINE u == [k \in 1..Len(p \o q) |-> f[(p \o q)[k]]]
<1>1. s \in Seq(Q) /\ Len(s) = Len(p)
  <2>1. Len(p) \in Nat /\ \A k \in 1..Len(p) : f[p[k]] \in Q
    OBVIOUS
  <2> HIDE DEF Q
  <2> QED BY <2>1, IsASeq
<1>2. t \in Seq(Q) /\ Len(t) = Len(q)
  <2>1. Len(q) \in Nat /\ \A k \in 1..Len(q) : f[q[k]] \in Q
    OBVIOUS
  <2> HIDE DEF Q
  <2> QED BY <2>1, IsASeq
<1>3. u = s \o t
  <2>1. /\ Len(p) \in Nat /\ Len(q) \in Nat /\ Len(p \o q) = Len(p) + Len(q) /\ p \o q \in Seq(V)
        /\ \A k \in 1..(Len(p) + Len(q)) : (p \o q)[k] = IF k <= Len(p) THEN p[k] ELSE q[k - Len(p)]
    BY ConcatProperties
  <2>2. /\ Len(s \o t) = Len(p) + Len(q) /\ s \o t \in Seq(Q)
        /\ \A k \in 1..(Len(p) + Len(q)) : (s \o t)[k] = IF k <= Len(p) THEN s[k] ELSE t[k - Len(p)]
    <3> HIDE DEF Q, s, t
    <3>1. /\ Len(s \o t) = Len(s) + Len(t) /\ s \o t \in Seq(Q)
          /\ \A k \in 1..(Len(s) + Len(t)) : (s \o t)[k] = IF k <= Len(s) THEN s[k] ELSE t[k - Len(s)]
      BY <1>1, <1>2, ConcatProperties
    <3> QED BY <1>1, <1>2, <3>1, Zenon
  <2>3. \A k \in 1..(Len(p) + Len(q)) : u[k] = (s \o t)[k]
    <3> SUFFICES ASSUME NEW k \in 1..(Len(p) + Len(q)) PROVE u[k] = (s \o t)[k]
      OBVIOUS
    <3>1. u[k] = f[(p \o q)[k]]
      BY <2>1
    <3>2. CASE k <= Len(p)
      <4>1. k \in 1..Len(p) /\ s[k] = f[p[k]]
        BY <2>1, <3>2
      <4> HIDE DEF s, t, u
      <4> QED BY <2>1, <2>2, <3>1, <3>2, <4>1
    <3>3. CASE ~(k <= Len(p))
      <4>1. k - Len(p) \in 1..Len(q) /\ t[k - Len(p)] = f[q[k - Len(p)]]
        BY <2>1, <3>3
      <4> HIDE DEF s, t, u
      <4> QED BY <2>1, <2>2, <3>1, <3>3, <4>1
    <3> QED BY <3>2, <3>3
  <2>4. u \in Seq(Q) /\ Len(u) = Len(p) + Len(q)
    <3>1. Len(p \o q) \in Nat /\ \A k \in 1..Len(p \o q) : f[(p \o q)[k]] \in Q
      BY <2>1
    <3> HIDE DEF Q
    <3> QED BY <2>1, <3>1, IsASeq
  <2> HIDE DEF Q, s, t, u
  <2> QED BY <2>2, <2>3, <2>4, SeqEqual
<1>4. FlattenSeq(s) \in Q /\ FlattenSeq(s \o t) = FlattenSeq(s) \o FlattenSeq(t)
  <2>1. <<>> \in Q
    OBVIOUS
  <2> HIDE DEF s, t
  <2> QED BY <1>1, <1>2, <2>1, FlattenAppend, FlattenConcat
<1> QED
  BY <1>1, <1>3, <1>4 DEF PartsOf

\* Three sequences in a row, however they are grouped.
LEMMA ThreeInSeq ==
  ASSUME NEW V, NEW a \in Seq(V), NEW b \in Seq(V), NEW c \in Seq(V)
  PROVE  a \o (b \o c) = (a \o b) \o c
  BY ConcatAssociative

\* A sequence of at most one element.
LEMMA AloneInSeq ==
  ASSUME NEW S, NEW h \in Seq(S), Len(h) <= 1, h # <<>>
  PROVE  h[1] \in S /\ h = <<h[1]>>
<1>1. Len(h) = 1 /\ h[1] \in S
  <2>1. PICK n : n = Len(h)
    OBVIOUS
  <2>2. n \in Nat /\ n <= 1 /\ n # 0
    BY <2>1, EmptySeq
  <2>3. n = 1
    BY <2>2
  <2> QED BY <2>1, <2>3, ElementOfSeq
<1>2. <<h[1]>> \in Seq(S) /\ Len(<<h[1]>>) = 1 /\ <<h[1]>>[1] = h[1]
  BY <1>1
<1>3. h = <<h[1]>>
  <2>1. \A i \in 1..Len(h) : h[i] = <<h[1]>>[i]
    BY <1>1, <1>2
  <2> QED BY <1>1, <1>2, <2>1, SeqEqual
<1> QED BY <1>1, <1>3

\* A sequence is its first element and the rest.
LEMMA FirstInSeq ==
  ASSUME NEW S, NEW q \in Seq(S), q # <<>>
  PROVE  Head(q) \in S /\ Tail(q) \in Seq(S) /\ q = <<Head(q)>> \o Tail(q)
<1>1. Head(q) \in S /\ Tail(q) \in Seq(S)
  BY HeadTailProperties
<1>2. Len(q) \in Nat /\ Len(q) # 0 /\ Len(Tail(q)) = Len(q) - 1 /\ \A i \in 1..Len(Tail(q)) : Tail(q)[i] = q[i + 1]
  BY HeadTailProperties, EmptySeq
<1>3. PICK h \in Seq(S), t \in Seq(S) : h = <<Head(q)>> /\ t = Tail(q)
  <2>1. PICK e \in S : e = Head(q)
    BY <1>1
  <2>2. <<e>> \in Seq(S)
    OBVIOUS
  <2> QED BY <1>1, <2>1, <2>2
<1>4. Len(h) = 1 /\ h[1] = q[1]
  BY <1>3
<1>5. h \o t \in Seq(S) /\ Len(h \o t) = Len(q) /\ \A i \in 1..Len(q) : (h \o t)[i] = q[i]
  <2>1. PICK n \in Nat, m \in Nat : n = Len(q) /\ m = Len(t) /\ m = n - 1
    <3>1. Len(q) \in Nat /\ Len(t) \in Nat /\ Len(t) = Len(q) - 1
      BY <1>2, <1>3
    <3> QED BY <3>1
  <2>2. /\ h \o t \in Seq(S) /\ Len(h \o t) = Len(h) + m
        /\ \A i \in 1..(Len(h) + m) : (h \o t)[i] = IF i <= Len(h) THEN h[i] ELSE t[i - Len(h)]
    BY <2>1, ConcatProperties
  <2>3. Len(h \o t) = n /\ \A i \in 1..n : (h \o t)[i] = IF i <= 1 THEN h[i] ELSE t[i - 1]
    BY <1>4, <2>1, <2>2
  <2>4. ASSUME NEW i \in 1..n PROVE (h \o t)[i] = q[i]
    <3>1. CASE i = 1
      BY <1>4, <2>3, <3>1
    <3>2. CASE i # 1
      <4>1. i - 1 \in 1..m /\ (i - 1) + 1 = i /\ ~(i <= 1)
        BY <2>1, <3>2
      <4>2. t[i - 1] = q[(i - 1) + 1]
        BY <1>2, <1>3, <2>1, <4>1
      <4> QED BY <2>3, <4>1, <4>2
    <3> QED BY <3>1, <3>2
  <2> QED BY <2>1, <2>2, <2>3, <2>4
<1>6. h \o t = q
  BY <1>5, SeqEqual
<1> QED BY <1>1, <1>3, <1>6

\* A sequence is what comes before its last element, and that element.
LEMMA LastInSeq ==
  ASSUME NEW S, NEW q \in Seq(S), q # <<>>
  PROVE  Front(q) \in Seq(S) /\ Last(q) \in S /\ q = Front(q) \o <<Last(q)>>
<1>1. PICK p \in Seq(S), e \in S : q = Append(p, e)
  BY SequenceEmptyOrAppend
<1>2. Len(q) = Len(p) + 1 /\ Len(p) \in Nat /\ q[Len(p) + 1] = e
  BY <1>1
<1>3. Last(q) = e
  BY <1>2 DEF Last
<1>4. Front(q) = p
  <2>1. Front(q) = SubSeq(q, 1, Len(p))
    BY <1>2 DEF Front
  <2>2. SubSeq(Append(p, e), 1, Len(p)) = p
    OBVIOUS
  <2> QED BY <1>1, <2>1, <2>2
<1>5. Append(p, e) = p \o <<e>>
  OBVIOUS
<1> QED BY <1>1, <1>3, <1>4, <1>5

\* The ends of a sequence that has grown by an element.
LEMMA EndsOfAppend ==
  ASSUME NEW S, NEW s \in Seq(S), NEW w \in S
  PROVE  /\ Append(s, w) # <<>> /\ Append(s, w)[Len(Append(s, w))] = w
         /\ Append(s, w)[1] = IF s = <<>> THEN w ELSE s[1]
<1>1. Append(s, w) # <<>> /\ Append(s, w)[Len(Append(s, w))] = w
  OBVIOUS
<1>2. CASE s = <<>>
  BY <1>2
<1>3. CASE s # <<>>
  BY <1>3
<1> QED BY <1>1, <1>2, <1>3

\* Sequences of one and of two elements.
LEMMA SmallSeqs ==
  ASSUME NEW V, NEW a \in V, NEW b \in V
  PROVE  <<a>> \in Seq(V) /\ <<a, b>> \in Seq(V) /\ <<a>> \o <<b>> = <<a, b>>
<1>1. <<a>> \in Seq(V) /\ <<a, b>> \in Seq(V)
  OBVIOUS
<1>2. PICK x \in Seq(V), y \in Seq(V), z \in Seq(V) :
        x = <<a>> /\ y = <<b>> /\ z = <<a, b>> /\ Len(x) = 1 /\ Len(y) = 1 /\ Len(z) = 2
        /\ x[1] = a /\ y[1] = b /\ z[1] = a /\ z[2] = b
  <2>1. Len(<<a>>) = 1 /\ <<a>>[1] = a /\ Len(<<b>>) = 1 /\ <<b>>[1] = b
    OBVIOUS
  <2>2. Len(<<a, b>>) = 2 /\ <<a, b>>[1] = a /\ <<a, b>>[2] = b
    OBVIOUS
  <2>3. <<b>> \in Seq(V)
    OBVIOUS
  <2> QED BY <1>1, <2>1, <2>2, <2>3, Zenon
<1>3. PICK s : s = x \o y
  OBVIOUS
<1>4. s \in Seq(V) /\ Len(s) = 2 /\ s[1] = a /\ s[2] = b
  <2>1. s \in Seq(V) /\ Len(s) = Len(x) + Len(y) /\ \A i \in 1..(Len(x) + Len(y)) : s[i] = IF i <= Len(x) THEN x[i] ELSE y[i - Len(x)]
    BY <1>3, ConcatProperties
  <2>2. Len(s) = 1 + 1 /\ \A i \in 1..(1 + 1) : s[i] = IF i <= 1 THEN x[i] ELSE y[i - 1]
    BY <1>2, <2>1, Zenon
  <2>3. s[1] = x[1] /\ s[2] = y[2 - 1]
    BY <2>2
  <2> QED BY <1>2, <2>1, <2>2, <2>3
<1>5. s = z
  <2>1. Len(s) = Len(z) /\ \A i \in 1..Len(z) : s[i] = z[i]
    BY <1>2, <1>4
  <2> QED BY <1>4, <2>1, SeqEqual
<1> QED BY <1>1, <1>2, <1>3, <1>5

\* A part of a sequence that is one element.
LEMMA PartOfOne ==
  ASSUME NEW V, NEW q \in Seq(V), NEW o \in 1..Len(q)
  PROVE  SubSeq(q, o, o) = <<q[o]>>
<1>1. SubSeq(q, o, o) = [i \in 1..(o - o + 1) |-> q[o + i - 1]]
  OBVIOUS
<1>2. o - o + 1 = 1 /\ \A i \in 1..1 : o + i - 1 = o
  OBVIOUS
<1>3. <<q[o]>> = [i \in 1..1 |-> q[o]]
  OBVIOUS
<1> QED BY <1>1, <1>2, <1>3

\* A part of a sequence that is two elements.
LEMMA PartOfTwo ==
  ASSUME NEW V, NEW q \in Seq(V), NEW o \in 1..Len(q), NEW p \in 1..Len(q), p = o + 1
  PROVE  SubSeq(q, o, p) = <<q[o], q[p]>>
<1>1. SubSeq(q, o, p) = [i \in 1..(p - o + 1) |-> q[o + i - 1]]
  OBVIOUS
<1>2. p - o + 1 = 2 /\ o + 1 - 1 = o /\ o + 2 - 1 = p
  OBVIOUS
<1>3. \A i \in 1..2 : i = 1 \/ i = 2
  OBVIOUS
<1>4. <<q[o], q[p]>> = [i \in 1..2 |-> IF i = 1 THEN q[o] ELSE q[p]]
  OBVIOUS
<1>5. SubSeq(q, o, p) = [i \in 1..2 |-> q[o + i - 1]]
  BY <1>1, <1>2
<1>6. \A i \in 1..2 : q[o + i - 1] = IF i = 1 THEN q[o] ELSE q[p]
  BY <1>2, <1>3
<1> QED BY <1>4, <1>5, <1>6

\* A sequence is the words up to a cut and those after it.
LEMMA CutInTwo ==
  ASSUME NEW V, NEW w \in Seq(V), NEW c \in 1..Len(w), NEW d \in Nat, d = c + 1, NEW n \in Nat, n = Len(w)
  PROVE  /\ SubSeq(w, 1, c) \in Seq(V) /\ SubSeq(w, d, n) \in Seq(V) /\ SubSeq(w, 1, c) \o SubSeq(w, d, n) = w
         /\ Len(SubSeq(w, 1, c)) = c /\ Len(SubSeq(w, d, n)) = n - c
         /\ \A i \in 1..c : SubSeq(w, 1, c)[i] = w[i]
         /\ \A i \in 1..(n - c) : SubSeq(w, d, n)[i] = w[c + i]
<1>1. PICK a \in Seq(V) : a = SubSeq(w, 1, c)
  <2>1. c \in Nat /\ c <= n
    OBVIOUS
  <2>2. SubSeq(w, 1, c) \in Seq(V)
    BY <2>1
  <2> QED BY <2>2
<1>2. Len(a) = c /\ \A i \in 1..c : a[i] = w[i]
  BY <1>1
<1>3. SubSeq(w, d, n) = [i \in 1..(n - d + 1) |-> w[d + i - 1]]
  OBVIOUS
<1>4. n - d + 1 = n - c /\ n - c \in Nat /\ \A i \in 1..(n - c) : d + i - 1 = c + i
  OBVIOUS
<1>5. PICK b : b = [i \in 1..(n - c) |-> w[c + i]]
  OBVIOUS
<1>6. b = SubSeq(w, d, n)
  BY <1>3, <1>4, <1>5
<1>7. b \in Seq(V) /\ Len(b) = n - c /\ \A i \in 1..(n - c) : b[i] = w[c + i]
  <2>1. \A i \in 1..(n - c) : w[c + i] \in V
    OBVIOUS
  <2> QED BY <1>4, <1>5, <2>1
<1>8. PICK s : s = a \o b
  OBVIOUS
<1>9. s \in Seq(V) /\ Len(s) = n /\ \A i \in 1..n : s[i] = IF i <= c THEN a[i] ELSE b[i - c]
  <2>1. s \in Seq(V) /\ Len(s) = Len(a) + Len(b) /\ \A i \in 1..(Len(a) + Len(b)) : s[i] = IF i <= Len(a) THEN a[i] ELSE b[i - Len(a)]
    BY <1>7, <1>8, ConcatProperties
  <2>2. Len(a) + Len(b) = n
    BY <1>2, <1>7
  <2> QED BY <1>2, <2>1, <2>2, Zenon
<1>10. ASSUME NEW i \in 1..n PROVE s[i] = w[i]
  <2>1. CASE i <= c
    BY <1>2, <1>9, <2>1
  <2>2. CASE ~(i <= c)
    <3>1. i - c \in 1..(n - c) /\ c + (i - c) = i
      BY <2>2
    <3>2. b[i - c] = w[c + (i - c)]
      BY <1>7, <3>1
    <3> QED BY <1>9, <2>2, <3>1, <3>2
  <2> QED BY <2>1, <2>2
<1>11. s = w
  <2>1. Len(s) = Len(w) /\ \A i \in 1..Len(w) : s[i] = w[i]
    BY <1>9, <1>10
  <2> QED BY <1>9, <2>1, SeqEqual
<1> QED BY <1>1, <1>2, <1>6, <1>7, <1>8, <1>11

\* A sequence is what comes before a part of it, the part and the rest.
LEMMA CutInThree ==
  ASSUME NEW V, NEW q \in Seq(V), NEW from \in Nat, NEW to \in Nat, from \in 1..(to + 1), to \in 0..Len(q)
  PROVE  /\ q = (SubSeq(q, 1, from - 1) \o SubSeq(q, from, to)) \o SubSeq(q, to + 1, Len(q))
         /\ SubSeq(q, 1, from - 1) \in Seq(V) /\ SubSeq(q, from, to) \in Seq(V) /\ SubSeq(q, to + 1, Len(q)) \in Seq(V)
<1>1. PICK n \in Nat : n = Len(q)
  OBVIOUS
<1>2. 1 <= from /\ from <= to + 1 /\ to <= n
  BY <1>1
<1>3. PICK h \in Nat : h = from - 1 /\ h <= to
  <2>1. from - 1 \in Nat /\ from - 1 <= to
    OBVIOUS
  <2> QED BY <2>1
<1>4. DOMAIN q = 1..n /\ \A i \in 1..n : q[i] \in V
  BY <1>1
<1>5. PICK a : a = [i \in 1..h |-> q[i]]
  OBVIOUS
<1>6. PICK b : b = [i \in 1..(to - h) |-> q[h + i]]
  OBVIOUS
<1>7. PICK c : c = [i \in 1..(n - to) |-> q[to + i]]
  OBVIOUS
<1>8. a \in Seq(V) /\ Len(a) = h
  <2>1. \A i \in 1..h : q[i] \in V
    BY <1>3, <1>4
  <2> QED BY <1>5, <2>1
<1>9. b \in Seq(V) /\ Len(b) = to - h
  <2>1. to - h \in Nat /\ \A i \in 1..(to - h) : q[h + i] \in V
    BY <1>3, <1>4
  <2> QED BY <1>6, <2>1
<1>10. c \in Seq(V) /\ Len(c) = n - to
  <2>1. n - to \in Nat /\ \A i \in 1..(n - to) : q[to + i] \in V
    BY <1>4
  <2> QED BY <1>7, <2>1
<1>11. SubSeq(q, 1, from - 1) = a
  <2>1. SubSeq(q, 1, h) = [i \in 1..(h - 1 + 1) |-> q[1 + i - 1]]
    BY <1>3
  <2>2. h - 1 + 1 = h /\ \A i \in 1..h : 1 + i - 1 = i
    OBVIOUS
  <2> QED BY <1>3, <1>5, <2>1, <2>2
<1>12. SubSeq(q, from, to) = b
  <2>1. SubSeq(q, from, to) = [i \in 1..(to - from + 1) |-> q[from + i - 1]]
    OBVIOUS
  <2>2. to - from + 1 = to - h /\ \A i \in 1..(to - h) : from + i - 1 = h + i
    BY <1>3
  <2> QED BY <1>6, <2>1, <2>2
<1>13. SubSeq(q, to + 1, n) = c
  <2>1. SubSeq(q, to + 1, n) = [i \in 1..(n - (to + 1) + 1) |-> q[(to + 1) + i - 1]]
    OBVIOUS
  <2>2. n - (to + 1) + 1 = n - to /\ \A i \in 1..(n - to) : (to + 1) + i - 1 = to + i
    OBVIOUS
  <2> QED BY <1>7, <2>1, <2>2
<1>14. PICK x \in Seq(V), y \in Seq(V), z \in Seq(V) : x = a /\ y = b /\ z = c
  BY <1>8, <1>9, <1>10
<1>15. PICK ab : ab = x \o y
  OBVIOUS
<1>16. /\ ab \in Seq(V) /\ Len(ab) = to
       /\ \A i \in 1..to : ab[i] = IF i <= h THEN a[i] ELSE b[i - h]
  <2>1. /\ ab \in Seq(V) /\ Len(ab) = h + (to - h)
        /\ \A i \in 1..(h + (to - h)) : ab[i] = IF i <= h THEN a[i] ELSE b[i - h]
    <3>1. ab \in Seq(V) /\ Len(ab) = Len(x) + Len(y) /\ \A i \in 1..(Len(x) + Len(y)) : ab[i] = IF i <= Len(x) THEN x[i] ELSE y[i - Len(x)]
      BY <1>15, ConcatProperties
    <3> QED BY <1>8, <1>9, <1>14, <3>1, Zenon
  <2>2. h + (to - h) = to
    OBVIOUS
  <2> QED BY <2>1, <2>2
<1>17. PICK abc : abc = ab \o z
  OBVIOUS
<1>18. /\ abc \in Seq(V) /\ Len(abc) = n
       /\ \A i \in 1..n : abc[i] = IF i <= to THEN ab[i] ELSE c[i - to]
  <2>1. /\ abc \in Seq(V) /\ Len(abc) = to + (n - to)
        /\ \A i \in 1..(to + (n - to)) : abc[i] = IF i <= to THEN ab[i] ELSE c[i - to]
    BY <1>10, <1>14, <1>16, <1>17, ConcatProperties
  <2>2. to + (n - to) = n
    OBVIOUS
  <2> QED BY <2>1, <2>2
<1>19. ASSUME NEW i \in 1..n PROVE abc[i] = q[i]
  <2>1. CASE i <= h
    <3>1. i <= to /\ i \in 1..to /\ i \in 1..h
      BY <1>3, <2>1
    <3> QED BY <1>5, <1>16, <1>18, <2>1, <3>1
  <2>2. CASE ~(i <= h) /\ i <= to
    <3>1. i \in 1..to /\ i - h \in 1..(to - h) /\ h + (i - h) = i
      BY <1>3, <2>2
    <3>2. b[i - h] = q[h + (i - h)]
      BY <1>6, <3>1
    <3> QED BY <1>16, <1>18, <2>2, <3>1, <3>2
  <2>3. CASE ~(i <= to)
    <3>1. i - to \in 1..(n - to) /\ to + (i - to) = i
      BY <2>3
    <3>2. c[i - to] = q[to + (i - to)]
      BY <1>7, <3>1
    <3> QED BY <1>18, <2>3, <3>1, <3>2
  <2> QED BY <2>1, <2>2, <2>3
<1>20. abc = q
  <2>1. Len(abc) = Len(q) /\ \A i \in 1..Len(q) : abc[i] = q[i]
    BY <1>1, <1>18, <1>19
  <2> QED BY <1>18, <2>1, SeqEqual
<1> QED
  BY <1>1, <1>8, <1>9, <1>10, <1>11, <1>12, <1>13, <1>14, <1>17, <1>20, <1>15

\* An element of a sequence.
Holds(q, x) == \E i \in DOMAIN q : q[i] = x

\* What a sequence holds is what its parts hold.
LEMMA HoldsConcat ==
  ASSUME NEW V, NEW a \in Seq(V), NEW b \in Seq(V), NEW x
  PROVE  Holds(a \o b, x) <=> Holds(a, x) \/ Holds(b, x)
<1>1. PICK s : s = a \o b
  OBVIOUS
<1>2. PICK la \in Nat, lb \in Nat : la = Len(a) /\ lb = Len(b) /\ DOMAIN a = 1..la /\ DOMAIN b = 1..lb
  OBVIOUS
<1>3. /\ DOMAIN s = 1..(la + lb)
      /\ \A o \in 1..(la + lb) : s[o] = IF o <= la THEN a[o] ELSE b[o - la]
  <2>1. /\ s \in Seq(V) /\ Len(s) = la + lb
        /\ \A o \in 1..(la + lb) : s[o] = IF o <= la THEN a[o] ELSE b[o - la]
    BY <1>1, <1>2, ConcatProperties
  <2> QED BY <2>1
<1>4. ASSUME NEW o \in DOMAIN s PROVE (\E i \in DOMAIN a : s[o] = a[i]) \/ (\E i \in DOMAIN b : s[o] = b[i])
  <2>1. CASE o <= la
    <3>1. o \in DOMAIN a /\ s[o] = a[o]
      BY <1>2, <1>3, <2>1
    <3> QED BY <3>1
  <2>2. CASE ~(o <= la)
    <3>1. o - la \in DOMAIN b /\ s[o] = b[o - la]
      BY <1>2, <1>3, <2>2
    <3> QED BY <3>1
  <2> QED BY <2>1, <2>2
<1>5. ASSUME NEW i \in DOMAIN a PROVE \E o \in DOMAIN s : s[o] = a[i]
  <2>1. i \in DOMAIN s /\ s[i] = a[i]
    BY <1>2, <1>3
  <2> QED BY <2>1
<1>6. ASSUME NEW i \in DOMAIN b PROVE \E o \in DOMAIN s : s[o] = b[i]
  <2>1. i + la \in DOMAIN s /\ ~(i + la <= la) /\ (i + la) - la = i
    BY <1>2, <1>3
  <2>2. s[i + la] = b[i]
    BY <1>3, <2>1
  <2> QED BY <2>1, <2>2
<1>7. ASSUME Holds(s, x) PROVE Holds(a, x) \/ Holds(b, x)
  <2>1. PICK o \in DOMAIN s : s[o] = x
    BY <1>7 DEF Holds
  <2> QED BY <1>4, <2>1 DEF Holds
<1>8. ASSUME Holds(a, x) \/ Holds(b, x) PROVE Holds(s, x)
  <2>1. CASE Holds(a, x)
    BY <1>5, <2>1 DEF Holds
  <2>2. CASE Holds(b, x)
    BY <1>6, <2>2 DEF Holds
  <2> QED BY <1>8, <2>1, <2>2
<1> QED BY <1>1, <1>7, <1>8

\* A set of naturals with a bound has a largest element.
LEMMA MaxOfBounded ==
  ASSUME NEW n \in Nat, NEW T \in SUBSET (0..n), T # {}
  PROVE  Max(T) \in T
<1> DEFINE U == {i \in Nat : i > n \/ \A j \in 0..i : n - j \notin T}
<1>1. \E m \in T : \A i \in T : m >= i
  <2> SUFFICES ASSUME \A m \in T : \E i \in T : i > m PROVE FALSE
    <3>1. \A m \in T, i \in T : i > m <=> ~(m >= i)
      OBVIOUS
    <3> QED BY <3>1
  <2>1. 0 \in U
    <3>1. n \notin T
      OBVIOUS
    <3> QED BY <3>1
  <2>2. ASSUME NEW k \in Nat, k \in U PROVE k + 1 \in U
    <3> SUFFICES ASSUME k + 1 <= n PROVE n - (k + 1) \notin T
      BY <2>2
    <3> SUFFICES ASSUME n - (k + 1) \in T PROVE FALSE
      OBVIOUS
    <3>1. PICK i \in T : i > n - (k + 1)
      OBVIOUS
    <3>2. n - i \in 0..k /\ n - (n - i) = i
      BY <3>1
    <3> QED BY <2>2, <3>2
  <2>3. \A k \in Nat : k \in U
    <3> HIDE DEF U
    <3> QED BY <2>1, <2>2, Induction
  <2>4. PICK i \in T : TRUE
    OBVIOUS
  <2>5. n - i \in 0..n /\ n - (n - i) = i
    OBVIOUS
  <2> QED BY <2>3, <2>4, <2>5
<1> QED BY <1>1 DEF Max

\* The lesser and the greater of two times.
LEMMA LeastOfTwo ==
  ASSUME NEW a \in Int, NEW b \in Int
  PROVE  /\ Min({a, b}) \in Int /\ Min({a, b}) <= a /\ Min({a, b}) <= b
         /\ Max({a, b}) \in Int /\ Max({a, b}) >= a /\ Max({a, b}) >= b
<1>1. Min({a, b}) \in {a, b} /\ \A y \in {a, b} : Min({a, b}) <= y
  <2>1. \E x \in {a, b} : \A y \in {a, b} : x <= y
    OBVIOUS
  <2> QED BY <2>1 DEF Min
<1>2. Max({a, b}) \in {a, b} /\ \A y \in {a, b} : Max({a, b}) >= y
  <2>1. \E x \in {a, b} : \A y \in {a, b} : x >= y
    OBVIOUS
  <2> QED BY <2>1 DEF Max
<1> QED BY <1>1, <1>2

-----------------------------------------------------------------------------
(* Glossary: what a text is sent with *)

EntryRecords == [id : Nat, scope : Owners \cup {Everywhere}, source : Terms, target : Translations,
                 priority : Priorities, enabled : BOOLEAN]

\* What a pass of a project may read: an entry for each term and scope.
GlossaryOf(g, p) ==
  /\ IsFiniteSet(g) /\ g \subseteq EntryRecords
  /\ \A e \in g : e.scope \in {p, Everywhere}
  /\ \A e, o \in g : e.scope = o.scope /\ e.source = o.source => e = o

\* InForce for any entries.
InForceOf(g, text) ==
  {e \in g : e.source \in Occurring[text] /\
     \A o \in g : o.source = e.source => (o.scope # Everywhere => e.scope # Everywhere)}

LEMMA PartOfGlossary ==
  ASSUME NEW p \in Owners, NEW g, GlossaryOf(g, p), NEW h \in SUBSET g
  PROVE  GlossaryOf(h, p)
<1>1. IsFiniteSet(h)
  BY FS_Subset DEF GlossaryOf
<1> QED
  BY <1>1 DEF GlossaryOf

LEMMA OneWinner ==
  ASSUME NEW p \in Owners, NEW g, GlossaryOf(g, p), NEW texts
  PROVE  /\ Winners(g, texts) \in SUBSET g
         /\ \A e, o \in Winners(g, texts) : e.source = o.source => e = o
<1>1. Winners(g, texts) \in SUBSET g
  BY DEF Winners
<1> SUFFICES ASSUME NEW e \in Winners(g, texts), NEW o \in Winners(g, texts), e.source = o.source, e # o
             PROVE  FALSE
  BY <1>1
<1>2. MoreSpecific(e, o) /\ MoreSpecific(o, e)
  BY DEF Winners
<1>3. e \in EntryRecords /\ o \in EntryRecords
  BY <1>1 DEF GlossaryOf
<1>4. e.priority \in Nat /\ o.priority \in Nat /\ e.id \in Nat /\ o.id \in Nat
  BY <1>3, GlossaryAssumption DEF EntryRecords
<1> QED
  BY <1>2, <1>4 DEF MoreSpecific

\* The winners among the entries for one of the texts are those in force.
LEMMA WinnersAreInForce ==
  ASSUME NEW p \in Owners, NEW g, GlossaryOf(g, p), NEW texts, NEW text \in texts
  PROVE  {e \in Winners(g, texts) : e.source \in Occurring[text]} = InForceOf(g, text)
<1>1. ASSUME NEW e \in Winners(g, texts), e.source \in Occurring[text] PROVE e \in InForceOf(g, text)
  <2>1. e \in g
    BY OneWinner
  <2>2. ASSUME NEW o \in g, o.source = e.source, o.scope # Everywhere PROVE e.scope # Everywhere
    <3>1. CASE o = e
      BY <2>2, <3>1
    <3>2. CASE o # e
      <4>1. MoreSpecific(e, o)
        BY <1>1, <2>2, <3>2 DEF Winners
      <4> QED BY <2>2, <4>1 DEF MoreSpecific
    <3> QED BY <3>1, <3>2
  <2> QED BY <1>1, <2>1, <2>2 DEF InForceOf
<1>2. ASSUME NEW e \in InForceOf(g, text) PROVE e \in Winners(g, texts) /\ e.source \in Occurring[text]
  <2>1. e \in g /\ e.source \in Occurring[text]
    BY DEF InForceOf
  <2>2. ASSUME NEW o \in g, o # e, o.source = e.source PROVE MoreSpecific(e, o)
    <3>1. o.scope # e.scope /\ o.scope \in {p, Everywhere} /\ e.scope \in {p, Everywhere}
      BY <2>1, <2>2 DEF GlossaryOf
    <3>2. o.scope # Everywhere => e.scope # Everywhere
      BY <2>2 DEF InForceOf
    <3>3. o.scope = Everywhere /\ e.scope # Everywhere
      BY <3>1, <3>2
    <3> QED BY <3>3 DEF MoreSpecific
  <2> QED BY <2>1, <2>2 DEF Winners
<1> QED
  BY <1>1, <1>2

\* Match returns each winner once.
LEMMA MatchReturnsWinners ==
  ASSUME NEW p \in Owners, NEW g, GlossaryOf(g, p), NEW texts
  PROVE  /\ Match(g, texts) \in Seq(EntryRecords)
         /\ ToSet(Match(g, texts)) = Winners(g, texts)
<1> DEFINE W == Winners(g, texts)
<1> DEFINE R == {q \in W \X W : Precedes(q[1], q[2])}
<1>1. W \in SUBSET g /\ \A e, o \in W : e.source = o.source => e = o
  BY OneWinner
<1>2. IsFiniteSet(W) /\ W \subseteq EntryRecords
  <2>1. IsFiniteSet(g) /\ g \subseteq EntryRecords
    BY DEF GlossaryOf
  <2> HIDE DEF W
  <2> QED BY <1>1, <2>1, FS_Subset
<1> HIDE DEF W
<1>3. \A e \in W : e.priority \in Nat /\ e.source \in Nat
  BY <1>2, GlossaryAssumption DEF EntryRecords
<1>4. \A e, o \in W : <<e, o>> \in R <=> Precedes(e, o)
  OBVIOUS
<1> HIDE DEF R
<1>5. Orders(R, W)
  BY <1>1, <1>3, <1>4 DEF Orders, Precedes
<1>6. \A e \in W : Rank(R, W, e) = Cardinality({o \in W : Precedes(o, e)})
  <2> SUFFICES ASSUME NEW e \in W PROVE Rank(R, W, e) = Cardinality({o \in W : Precedes(o, e)})
    OBVIOUS
  <2>1. {o \in W : <<o, e>> \in R} = {o \in W : Precedes(o, e)}
    BY <1>4
  <2> QED BY <2>1 DEF Rank
<1> DEFINE n == Cardinality(W)
<1> DEFINE At(i) == CHOOSE e \in W : Cardinality({o \in W : Precedes(o, e)}) = i - 1
<1>7. n \in Nat
  BY <1>2, <1>5, Ranking
<1>8. ASSUME NEW i \in 1..n PROVE At(i) \in W /\ Rank(R, W, At(i)) = i - 1
  <2>1. \E e \in W : Rank(R, W, e) = i - 1
    BY <1>2, <1>5, Ranking
  <2>2. \E e \in W : Cardinality({o \in W : Precedes(o, e)}) = i - 1
    BY <1>6, <2>1
  <2>3. At(i) \in W /\ Cardinality({o \in W : Precedes(o, At(i))}) = i - 1
    BY <2>2
  <2> HIDE DEF At
  <2> QED BY <1>6, <2>3
<1>9. Match(g, texts) = [i \in 1..n |-> At(i)]
  BY DEF Match, W
<1> HIDE DEF At
<1>10. ASSUME NEW e \in W PROVE \E i \in 1..n : At(i) = e
  <2>1. Rank(R, W, e) \in 0..(n - 1)
    BY <1>2, <1>5, Ranking
  <2>2. PICK i \in 1..n : i - 1 = Rank(R, W, e)
    <3>1. Rank(R, W, e) + 1 \in 1..n /\ (Rank(R, W, e) + 1) - 1 = Rank(R, W, e)
      BY <1>7, <2>1
    <3> QED BY <3>1
  <2>3. Rank(R, W, At(i)) = Rank(R, W, e) /\ At(i) \in W
    BY <1>8, <2>2
  <2>4. At(i) = e
    BY <1>2, <1>5, <2>3, Ranking
  <2> QED BY <2>4
<1> HIDE DEF n
<1>11. Match(g, texts) \in Seq(EntryRecords)
  BY <1>2, <1>7, <1>8, <1>9
<1>12. ToSet(Match(g, texts)) = W
  BY <1>8, <1>9, <1>10 DEF ToSet
<1> QED
  BY <1>11, <1>12 DEF W

\* The terms of a text, as a prompt or a key names them.
TermsFor(terms, text) ==
  {<<term.source, term.target>> : term \in {t \in ToSet(terms) : t.source \in Occurring[text]}}
Pairs(es) == {<<e.source, e.target>> : e \in es}

LEMMA ShownTerms ==
  ASSUME NEW found \in Seq(EntryRecords), NEW text
  PROVE  /\ TermsFor(Shown(found), text) = Pairs({e \in ToSet(found) : e.source \in Occurring[text]})
         /\ Pairs(ToSet(Shown(found))) = Pairs(ToSet(found))
<1>1. ToSet(Shown(found)) = {[source |-> e.source, target |-> e.target] : e \in ToSet(found)}
  BY DEF ToSet, Shown
<1> DEFINE Sh == ToSet(Shown(found))
<1>2. \A t \in Sh : \E e \in ToSet(found) : t.source = e.source /\ t.target = e.target
  BY <1>1
<1>3. \A e \in ToSet(found) : \E t \in Sh : t.source = e.source /\ t.target = e.target
  <2> SUFFICES ASSUME NEW e \in ToSet(found) PROVE \E t \in Sh : t.source = e.source /\ t.target = e.target
    OBVIOUS
  <2> DEFINE t == [source |-> e.source, target |-> e.target]
  <2>1. t \in Sh /\ t.source = e.source /\ t.target = e.target
    BY <1>1
  <2> QED BY <2>1
<1> HIDE DEF Sh
<1>4. TermsFor(Shown(found), text) = {<<t.source, t.target>> : t \in {u \in Sh : u.source \in Occurring[text]}}
  BY DEF TermsFor, Sh
<1>5. Pairs(ToSet(Shown(found))) = {<<t.source, t.target>> : t \in Sh}
  BY DEF Pairs, Sh
<1> QED
  BY <1>2, <1>3, <1>4, <1>5 DEF Pairs

\* A prompt that is not cut names, of the terms of a line, those in force.
LEMMA PromptNamesTerms ==
  ASSUME NEW p \in Owners, GlossaryOf(pass[p].glossary, p), NEW lines, NEW i \in lines, Prompt(p, lines).whole
  PROVE  TermsFor(Prompt(p, lines).terms, Script[p][i]) = Pairs(InForceOf(pass[p].glossary, Script[p][i]))
<1> DEFINE texts == {Script[p][j] : j \in lines}
<1> DEFINE found == Match(pass[p].glossary, texts)
<1>1. found \in Seq(EntryRecords) /\ ToSet(found) = Winners(pass[p].glossary, texts) /\ Script[p][i] \in texts
  BY MatchReturnsWinners
<1>2. Len(found) <= MaxBlockEntries /\ Prompt(p, lines).terms = Block(found)
  BY DEF Prompt
<1> HIDE DEF found, texts
<1>3. Block(found) = Shown(found)
  <2>1. Len(found) \in Nat /\ MaxBlockEntries \in Nat /\ Len(found) <= MaxBlockEntries
    BY <1>1, <1>2, GlossaryAssumption
  <2>2. (IF Len(found) > MaxBlockEntries THEN MaxBlockEntries ELSE Len(found)) = Len(found)
    BY <2>1
  <2>3. SubSeq(found, 1, Len(found)) = found
    BY <1>1, SubSeqFull
  <2> QED BY <2>2, <2>3 DEF Block
<1>4. {e \in ToSet(found) : e.source \in Occurring[Script[p][i]]} = InForceOf(pass[p].glossary, Script[p][i])
  BY <1>1, WinnersAreInForce
<1> QED
  BY <1>1, <1>2, <1>3, <1>4, ShownTerms

\* The key of a line names the terms that are in force for it.
LEMMA KeyNamesTerms ==
  ASSUME NEW p \in Owners, GlossaryOf(pass[p].glossary, p), NEW i \in DOMAIN Script[p]
  PROVE  /\ LineKey(p, i).source = Script[p][i]
         /\ Pairs(ToSet(LineKey(p, i).glossary)) = Pairs(InForceOf(pass[p].glossary, Script[p][i]))
<1> DEFINE g == pass[p].glossary
<1> DEFINE text == Script[p][i]
<1> DEFINE C == Candidates(p)
<1>1. C = Winners(g, ToSet(Script[p])) /\ text \in ToSet(Script[p])
  BY MatchReturnsWinners DEF Candidates, ToSet
<1>2. C \in SUBSET g /\ (\A e, o \in C : e.source = o.source => e = o)
  BY <1>1, OneWinner
<1>3. GlossaryOf(C, p)
  BY <1>2, PartOfGlossary
<1> DEFINE found == Match(C, {text})
<1>4. found \in Seq(EntryRecords) /\ ToSet(found) = Winners(C, {text})
  BY <1>3, MatchReturnsWinners
<1>5. LineKey(p, i).source = text /\ LineKey(p, i).glossary = Shown(found)
  BY DEF LineKey, Hash
<1>6. Winners(C, {text}) = InForceOf(C, text)
  <2>1. {e \in Winners(C, {text}) : e.source \in Occurring[text]} = InForceOf(C, text)
    BY <1>3, WinnersAreInForce
  <2>2. \A e \in Winners(C, {text}) : e.source \in Occurring[text]
    BY DEF Winners
  <2> QED BY <2>1, <2>2
<1>7. {e \in C : e.source \in Occurring[text]} = InForceOf(g, text)
  BY <1>1, WinnersAreInForce
<1>8. InForceOf(C, text) = InForceOf(g, text)
  <2> HIDE DEF C, g, text
  <2>1. InForceOf(C, text) = {e \in C : e.source \in Occurring[text]}
    BY <1>2 DEF InForceOf
  <2> QED BY <1>7, <2>1
<1> HIDE DEF found
<1> QED
  BY <1>4, <1>5, <1>6, <1>8, ShownTerms

-----------------------------------------------------------------------------
(* Glossary: the table of translated lines *)

EntriesAre ==
  /\ IsFiniteSet(entries) /\ entries \subseteq EntryRecords /\ added \in Nat
  /\ \A e, o \in entries : e.scope = o.scope /\ e.source = o.source => e = o
PassesAre ==
  /\ pass = [p \in Owners |-> pass[p]]
  /\ \A p \in Owners :
       /\ pass[p] = [at |-> pass[p].at, glossary |-> pass[p].glossary, got |-> pass[p].got, runs |-> pass[p].runs]
       /\ DOMAIN pass[p].got \subseteq DOMAIN Script[p]

\* A pass keeps what it has read, whatever becomes of the entries.
GlossariesAre == \A p \in Owners : GlossaryOf(pass[p].glossary, p)

\* A row of the table was made with the terms that its key names, by whichever
\* project and from whichever entries.
RowsNameTheirTerms ==
  \A k \in DOMAIN lineCache :
    lineCache[k].whole => TermsFor(lineCache[k].terms, k.source) = Pairs(ToSet(k.glossary))

\* MadeWithItsTerms for one line.
MadeWithTerms(got, p, i) ==
  got # NoTranslation /\ got.whole =>
    TermsFor(got.terms, Script[p][i]) = Pairs(InForceOf(pass[p].glossary, Script[p][i]))
LinesMade == \A p \in Owners : \A i \in DOMAIN pass[p].got : MadeWithTerms(pass[p].got[i], p, i)

GlossaryInv == EntriesAre /\ PassesAre /\ GlossariesAre /\ RowsNameTheirTerms /\ LinesMade

LEMMA LinesMadeWithTerms == LinesMade => MadeWithItsTerms
BY DEF LinesMade, MadeWithItsTerms, MadeWithTerms, TermsFor, Pairs, InForce, InForceOf

LEMMA GlossaryStarts == GlossaryInit => GlossaryInv
<1> SUFFICES ASSUME GlossaryInit PROVE GlossaryInv
  OBVIOUS
<1> USE DEF GlossaryInit, IdlePass
<1>1. EntriesAre
  BY FS_EmptySet DEF EntriesAre
<1>2. PassesAre /\ LinesMade
  BY DEF PassesAre, LinesMade
<1>3. GlossariesAre
  BY FS_EmptySet DEF GlossariesAre, GlossaryOf
<1>4. RowsNameTheirTerms
  BY DEF RowsNameTheirTerms
<1> QED
  BY <1>1, <1>2, <1>3, <1>4 DEF GlossaryInv

\* Passes that keep what they have read and got stay as they are.
LEMMA EntriesChange ==
  ASSUME GlossaryInv, EntriesAre', UNCHANGED <<lineCache, pass>>
  PROVE  GlossaryInv'
BY DEF GlossaryInv, PassesAre, GlossariesAre, RowsNameTheirTerms, LinesMade, MadeWithTerms

LEMMA PassAt ==
  ASSUME NEW a, NEW g, NEW t, NEW u, NEW x
  PROVE  [[at |-> a, glossary |-> g, got |-> t, runs |-> u] EXCEPT !.at = x]
            = [at |-> x, glossary |-> g, got |-> t, runs |-> u]
OBVIOUS

LEMMA PassGot ==
  ASSUME NEW a, NEW g, NEW t, NEW u, NEW x
  PROVE  [[at |-> a, glossary |-> g, got |-> t, runs |-> u] EXCEPT !.got = x]
            = [at |-> a, glossary |-> g, got |-> x, runs |-> u]
OBVIOUS

LEMMA PassRuns ==
  ASSUME NEW a, NEW g, NEW t, NEW u, NEW x
  PROVE  [[at |-> a, glossary |-> g, got |-> t, runs |-> u] EXCEPT !.runs = x]
            = [at |-> a, glossary |-> g, got |-> t, runs |-> x]
OBVIOUS

LEMMA GlossaryStep == GlossaryInv /\ [GlossaryNext]_glossaryVars => GlossaryInv'
<1> SUFFICES ASSUME GlossaryInv, [GlossaryNext]_glossaryVars PROVE GlossaryInv'
  OBVIOUS
<1>1. EntriesAre /\ PassesAre /\ GlossariesAre /\ RowsNameTheirTerms /\ LinesMade
  BY DEF GlossaryInv
<1>2. ASSUME NEW scope \in Owners \cup {Everywhere}, NEW source \in Terms, NEW target \in Translations,
             NEW priority \in Priorities, NEW enabled \in BOOLEAN, SaveEntry(scope, source, target, priority, enabled)
      PROVE  GlossaryInv'
  <2> DEFINE e == [id |-> added + 1, scope |-> scope, source |-> source, target |-> target,
                   priority |-> priority, enabled |-> enabled]
  <2>1. entries' = entries \cup {e} /\ added' = added + 1 /\ e \in EntryRecords
        /\ \A o \in entries : ~(o.scope = e.scope /\ o.source = e.source)
    BY <1>1, <1>2 DEF SaveEntry, EntriesAre, EntryRecords
  <2> HIDE DEF e
  <2>2. IsFiniteSet(entries')
    BY <1>1, <2>1, FS_AddElement DEF EntriesAre
  <2>3. EntriesAre'
    BY <1>1, <2>1, <2>2 DEF EntriesAre
  <2> QED BY <1>2, <2>3, EntriesChange DEF SaveEntry
<1>3. ASSUME NEW e \in entries, RemoveEntry(e) PROVE GlossaryInv'
  <2>1. entries' = entries \ {e} /\ added' = added
    BY <1>3 DEF RemoveEntry
  <2>2. IsFiniteSet(entries')
    BY <1>1, <2>1, FS_RemoveElement DEF EntriesAre
  <2>3. EntriesAre'
    BY <1>1, <2>1, <2>2 DEF EntriesAre
  <2> QED BY <1>3, <2>3, EntriesChange DEF RemoveEntry
<1>4. ASSUME NEW p \in Owners, PassBegins(p) PROVE GlossaryInv'
  <2> DEFINE new == [at |-> "planned", glossary |-> ListEnabled(p), runs |-> pass[p].runs + 1,
                     got |-> [i \in DOMAIN Script[p] |-> NoTranslation]]
  <2>1. pass' = [pass EXCEPT ![p] = new] /\ UNCHANGED <<entries, added, lineCache>>
    BY <1>4 DEF PassBegins
  <2>2. GlossaryOf(ListEnabled(p), p)
    <3>1. ListEnabled(p) \in SUBSET entries /\ \A e \in ListEnabled(p) : e.scope \in {p, Everywhere}
      BY DEF ListEnabled
    <3>2. IsFiniteSet(ListEnabled(p))
      BY <1>1, <3>1, FS_Subset DEF EntriesAre
    <3> QED BY <1>1, <3>1, <3>2 DEF GlossaryOf, EntriesAre
  <2>3. /\ new = [at |-> new.at, glossary |-> new.glossary, got |-> new.got, runs |-> new.runs]
        /\ new.glossary = ListEnabled(p) /\ DOMAIN new.got = DOMAIN Script[p]
        /\ \A i \in DOMAIN new.got : new.got[i] = NoTranslation
    OBVIOUS
  <2> HIDE DEF new
  <2>4. pass' = [q \in Owners |-> pass'[q]] /\ \A q \in Owners : pass'[q] = IF q = p THEN new ELSE pass[q]
    BY <1>1, <2>1 DEF PassesAre
  <2>5. EntriesAre' /\ RowsNameTheirTerms'
    BY <1>1, <2>1 DEF EntriesAre, RowsNameTheirTerms
  <2>6. PassesAre'
    BY <1>1, <2>3, <2>4 DEF PassesAre
  <2>7. GlossariesAre'
    BY <1>1, <2>2, <2>3, <2>4 DEF GlossariesAre
  <2>8. LinesMade'
    BY <1>1, <2>3, <2>4 DEF LinesMade, MadeWithTerms
  <2> QED BY <2>5, <2>6, <2>7, <2>8 DEF GlossaryInv
<1>5. ASSUME NEW p \in Owners, ApplyCache(p) PROVE GlossaryInv'
  <2> DEFINE hits == {i \in Missing(p) : LineKey(p, i) \in DOMAIN lineCache}
  <2> DEFINE new == [i \in DOMAIN pass[p].got |-> IF i \in hits THEN lineCache[LineKey(p, i)] ELSE pass[p].got[i]]
  <2>1. pass' = [pass EXCEPT ![p].at = "requests", ![p].got = new] /\ UNCHANGED <<entries, added, lineCache>>
    BY <1>5 DEF ApplyCache
  <2>2. DOMAIN new = DOMAIN pass[p].got
    OBVIOUS
  <2>3. ASSUME NEW i \in DOMAIN new PROVE MadeWithTerms(new[i], p, i)
    <3>1. CASE i \in hits
      <4>1. i \in DOMAIN Script[p] /\ LineKey(p, i) \in DOMAIN lineCache
        BY <1>1, <3>1 DEF PassesAre
      <4>2. /\ LineKey(p, i).source = Script[p][i]
            /\ Pairs(ToSet(LineKey(p, i).glossary)) = Pairs(InForceOf(pass[p].glossary, Script[p][i]))
        BY <1>1, <4>1, KeyNamesTerms DEF GlossariesAre
      <4>3. new[i] = lineCache[LineKey(p, i)]
        BY <3>1
      <4> HIDE DEF new, hits
      <4> QED BY <1>1, <4>1, <4>2, <4>3 DEF RowsNameTheirTerms, MadeWithTerms
    <3>2. CASE i \notin hits
      <4>1. new[i] = pass[p].got[i] /\ i \in DOMAIN pass[p].got
        BY <3>2
      <4> HIDE DEF new, hits
      <4> QED BY <1>1, <4>1 DEF LinesMade
    <3> QED BY <3>1, <3>2
  <2> HIDE DEF new
  <2>4. /\ pass' = [q \in Owners |-> pass'[q]]
        /\ \A q \in Owners : q # p => pass'[q] = pass[q]
        /\ pass'[p] = [at |-> "requests", glossary |-> pass[p].glossary, got |-> new, runs |-> pass[p].runs]
    <3>1. /\ pass' = [q \in Owners |-> pass'[q]]
          /\ \A q \in Owners : q # p => pass'[q] = pass[q]
          /\ pass'[p] = [[pass[p] EXCEPT !.at = "requests"] EXCEPT !.got = new]
      BY <1>1, <2>1 DEF PassesAre
    <3>2. pass[p] = [at |-> pass[p].at, glossary |-> pass[p].glossary, got |-> pass[p].got, runs |-> pass[p].runs]
      BY <1>1 DEF PassesAre
    <3>3. [[pass[p] EXCEPT !.at = "requests"] EXCEPT !.got = new]
            = [at |-> "requests", glossary |-> pass[p].glossary, got |-> new, runs |-> pass[p].runs]
      <4>1. PICK a : a = "requests"
        OBVIOUS
      <4>2. PICK r : r = [pass[p] EXCEPT !.at = a]
        OBVIOUS
      <4>3. r = [at |-> a, glossary |-> pass[p].glossary, got |-> pass[p].got, runs |-> pass[p].runs]
        BY <3>2, <4>2, PassAt
      <4>4. [r EXCEPT !.got = new] = [at |-> a, glossary |-> pass[p].glossary, got |-> new, runs |-> pass[p].runs]
        BY <4>3, PassGot
      <4> QED BY <4>1, <4>2, <4>4, Zenon
    <3> QED BY <3>1, <3>3
  <2>5. EntriesAre' /\ RowsNameTheirTerms'
    BY <1>1, <2>1 DEF EntriesAre, RowsNameTheirTerms
  <2>6. PassesAre'
    BY <1>1, <2>2, <2>4 DEF PassesAre
  <2>7. GlossariesAre'
    BY <1>1, <2>4 DEF GlossariesAre
  <2>8. LinesMade'
    BY <1>1, <2>2, <2>3, <2>4 DEF LinesMade, MadeWithTerms
  <2> QED BY <2>5, <2>6, <2>7, <2>8 DEF GlossaryInv
<1>6. ASSUME NEW p \in Owners, NEW lines \in SUBSET Missing(p), NEW answered \in SUBSET lines,
             RequestAnswered(p, lines, answered)
      PROVE  GlossaryInv'
  <2> DEFINE made == Prompt(p, lines)
  <2> DEFINE keys == {LineKey(p, i) : i \in answered}
  <2> DEFINE new == [i \in DOMAIN pass[p].got |-> IF i \in answered THEN made ELSE pass[p].got[i]]
  <2>1. /\ pass' = [pass EXCEPT ![p].got = new] /\ UNCHANGED <<entries, added>>
        /\ lineCache' = [k \in DOMAIN lineCache \cup keys |-> IF k \in DOMAIN lineCache THEN lineCache[k] ELSE made]
    BY <1>6 DEF RequestAnswered
  <2>2. DOMAIN new = DOMAIN pass[p].got
    OBVIOUS
  <2>3. ASSUME NEW i \in answered, made.whole
        PROVE  TermsFor(made.terms, Script[p][i]) = Pairs(InForceOf(pass[p].glossary, Script[p][i]))
    BY <1>1, <2>3, PromptNamesTerms DEF GlossariesAre
  <2>4. ASSUME NEW k \in keys, made.whole PROVE TermsFor(made.terms, k.source) = Pairs(ToSet(k.glossary))
    <3>1. PICK i \in answered : k = LineKey(p, i)
      OBVIOUS
    <3>2. i \in DOMAIN Script[p]
      BY <1>1 DEF PassesAre, Missing
    <3> HIDE DEF made, keys
    <3> QED BY <1>1, <2>3, <2>4, <3>1, <3>2, KeyNamesTerms DEF GlossariesAre
  <2> HIDE DEF made, keys
  <2>5. ASSUME NEW i \in DOMAIN new PROVE MadeWithTerms(new[i], p, i)
    <3>1. CASE i \in answered
      BY <2>3, <3>1 DEF MadeWithTerms
    <3>2. CASE i \notin answered
      BY <1>1, <3>2 DEF LinesMade
    <3> QED BY <3>1, <3>2
  <2> HIDE DEF new
  <2>6. /\ pass' = [q \in Owners |-> pass'[q]]
        /\ \A q \in Owners : q # p => pass'[q] = pass[q]
        /\ pass'[p] = [at |-> pass[p].at, glossary |-> pass[p].glossary, got |-> new, runs |-> pass[p].runs]
    BY <1>1, <2>1 DEF PassesAre
  <2>7. EntriesAre'
    BY <1>1, <2>1 DEF EntriesAre
  <2>8. RowsNameTheirTerms'
    BY <1>1, <2>1, <2>4 DEF RowsNameTheirTerms
  <2>9. PassesAre'
    BY <1>1, <2>2, <2>6 DEF PassesAre
  <2>10. GlossariesAre'
    BY <1>1, <2>6 DEF GlossariesAre
  <2>11. LinesMade'
    BY <1>1, <2>2, <2>5, <2>6 DEF LinesMade, MadeWithTerms
  <2> QED BY <2>7, <2>8, <2>9, <2>10, <2>11 DEF GlossaryInv
<1>7. ASSUME NEW p \in Owners, PassEnds(p) PROVE GlossaryInv'
  <2> DEFINE new == [IdlePass EXCEPT !.runs = pass[p].runs]
  <2>1. pass' = [pass EXCEPT ![p] = new] /\ UNCHANGED <<entries, added, lineCache>>
    BY <1>7 DEF PassEnds
  <2>2. /\ new = [at |-> new.at, glossary |-> new.glossary, got |-> new.got, runs |-> new.runs]
        /\ new.glossary = {} /\ new.got = <<>>
    <3>1. new = [at |-> "idle", glossary |-> {}, got |-> <<>>, runs |-> pass[p].runs]
      <4>1. PICK a, g, t, u : a = "idle" /\ g = {} /\ t = <<>> /\ u = 0
        OBVIOUS
      <4>2. IdlePass = [at |-> a, glossary |-> g, got |-> t, runs |-> u]
        BY <4>1 DEF IdlePass
      <4>3. new = [at |-> a, glossary |-> g, got |-> t, runs |-> pass[p].runs]
        BY <4>2, PassRuns
      <4> QED BY <4>1, <4>3, Zenon
    <3> HIDE DEF new
    <3> QED BY <3>1
  <2> HIDE DEF new
  <2>3. pass' = [q \in Owners |-> pass'[q]] /\ \A q \in Owners : pass'[q] = IF q = p THEN new ELSE pass[q]
    BY <1>1, <2>1 DEF PassesAre
  <2>4. EntriesAre' /\ RowsNameTheirTerms'
    BY <1>1, <2>1 DEF EntriesAre, RowsNameTheirTerms
  <2>5. PassesAre'
    BY <1>1, <2>2, <2>3 DEF PassesAre
  <2>6. GlossariesAre'
    <3>1. GlossaryOf({}, p)
      BY FS_EmptySet DEF GlossaryOf
    <3> QED BY <1>1, <2>2, <2>3, <3>1 DEF GlossariesAre
  <2>7. LinesMade'
    BY <1>1, <2>2, <2>3 DEF LinesMade, MadeWithTerms
  <2> QED BY <2>4, <2>5, <2>6, <2>7 DEF GlossaryInv
<1>8. CASE UNCHANGED glossaryVars
  <2>1. EntriesAre'
    BY <1>1, <1>8 DEF glossaryVars, EntriesAre
  <2> QED BY <1>8, <2>1, EntriesChange DEF glossaryVars
<1> QED
  BY <1>2, <1>3, <1>4, <1>5, <1>6, <1>7, <1>8 DEF GlossaryNext

\* Match, Hash, Get and Put: in whatever project, request and pass a line was
\* translated, and whatever entries were added and removed since, it is shown
\* with the terms in force for it, unless its prompt was cut at its limit.
THEOREM TermsAreKept == GlossarySpec => []MadeWithItsTerms
<1>1. GlossaryInv => MadeWithItsTerms
  BY LinesMadeWithTerms DEF GlossaryInv
<1> QED
  BY <1>1, GlossaryStarts, GlossaryStep, PTL DEF GlossarySpec

-----------------------------------------------------------------------------
(* Spans of time *)

\* The elements have a beginning and an end.
TimesOf(S) == \A x \in S : x.start \in Int /\ x.end \in Int

\* Each ends after it begins, and the next begins after that.
InOrder(q) ==
  /\ \A i \in 1..Len(q) : q[i].start <= q[i].end
  /\ \A i, j \in 1..Len(q) : i < j => q[i].end <= q[j].start

\* Everything in p has ended before anything in q begins.
Precede(p, q) == \A i \in 1..Len(p), j \in 1..Len(q) : p[i].end <= q[j].start

\* Both sequences begin at one time and end at one time.
SameSpan(p, q) ==
  /\ p = <<>> <=> q = <<>>
  /\ q # <<>> => p[1].start = q[1].start /\ p[Len(p)].end = q[Len(q)].end

\* Two sequences are in order when each is and the first precedes the second.
LEMMA InOrderConcat ==
  ASSUME NEW S, NEW p \in Seq(S), NEW q \in Seq(S)
  PROVE  InOrder(p \o q) <=> InOrder(p) /\ InOrder(q) /\ Precede(p, q)
<1> DEFINE r == p \o q
<1>1. /\ Len(p) \in Nat /\ Len(q) \in Nat /\ Len(r) = Len(p) + Len(q)
      /\ \A i \in 1..Len(p) : r[i] = p[i]
      /\ \A i \in 1..Len(q) : r[Len(p) + i] = q[i]
  OBVIOUS
<1> HIDE DEF r
<1>2. ASSUME InOrder(r) PROVE InOrder(p) /\ InOrder(q) /\ Precede(p, q)
  <2>1. \A i \in 1..Len(p) : i \in 1..Len(r)
    BY <1>1
  <2>2. \A i \in 1..Len(q) : Len(p) + i \in 1..Len(r)
    BY <1>1
  <2>3. InOrder(p)
    BY <1>1, <1>2, <2>1 DEF InOrder
  <2>4. InOrder(q)
    <3>1. \A i, j \in 1..Len(q) : i < j => Len(p) + i < Len(p) + j
      BY <1>1
    <3> QED BY <1>1, <1>2, <2>2, <3>1 DEF InOrder
  <2>5. Precede(p, q)
    <3>1. \A i \in 1..Len(p), j \in 1..Len(q) : i < Len(p) + j
      BY <1>1
    <3> QED BY <1>1, <1>2, <2>1, <2>2, <3>1 DEF InOrder, Precede
  <2> QED BY <2>3, <2>4, <2>5
<1>3. ASSUME InOrder(p), InOrder(q), Precede(p, q) PROVE InOrder(r)
  <2>1. ASSUME NEW i \in 1..Len(r), i \notin 1..Len(p)
        PROVE  i - Len(p) \in 1..Len(q) /\ r[i] = q[i - Len(p)]
    <3>1. i - Len(p) \in 1..Len(q) /\ Len(p) + (i - Len(p)) = i
      BY <1>1, <2>1
    <3>2. r[Len(p) + (i - Len(p))] = q[i - Len(p)]
      BY <1>1, <3>1
    <3> QED BY <3>1, <3>2
  <2>2. ASSUME NEW i \in 1..Len(r) PROVE r[i].start <= r[i].end
    BY <1>1, <1>3, <2>1 DEF InOrder
  <2>3. ASSUME NEW i \in 1..Len(r), NEW j \in 1..Len(r), i < j PROVE r[i].end <= r[j].start
    <3>1. CASE i \in 1..Len(p) /\ j \in 1..Len(p)
      BY <1>1, <1>3, <2>3, <3>1 DEF InOrder
    <3>2. CASE i \in 1..Len(p) /\ j \notin 1..Len(p)
      BY <1>1, <1>3, <2>1, <3>2 DEF Precede
    <3>3. CASE i \notin 1..Len(p)
      <4>1. j \notin 1..Len(p) /\ i - Len(p) < j - Len(p)
        BY <1>1, <2>3, <3>3
      <4>2. r[i] = q[i - Len(p)] /\ r[j] = q[j - Len(p)] /\ {i - Len(p), j - Len(p)} \subseteq 1..Len(q)
        BY <2>1, <3>3, <4>1
      <4> QED BY <1>3, <4>1, <4>2 DEF InOrder
    <3> QED BY <3>1, <3>2, <3>3
  <2> QED BY <2>2, <2>3 DEF InOrder
<1> QED BY <1>2, <1>3 DEF r

\* An element that spans a part of a sequence may take its place.
LEMMA Grouping ==
  ASSUME NEW S, TimesOf(S), NEW a \in Seq(S), NEW g \in Seq(S), NEW b \in Seq(S), g # <<>>, NEW l \in S,
         l.start = g[1].start, l.end = g[Len(g)].end
  PROVE  /\ InOrder(a \o g \o b) => InOrder(a \o <<l>> \o b)
         /\ SameSpan(a \o <<l>> \o b, a \o g \o b)
<1> DEFINE x == <<l>>
<1>1. x \in Seq(S) /\ Len(x) = 1 /\ x[1] = l /\ a \o g \in Seq(S) /\ a \o x \in Seq(S)
  OBVIOUS
<1> HIDE DEF x
<1>2. ASSUME InOrder(a \o g \o b) PROVE InOrder(a \o x \o b)
  <2>1. InOrder(a) /\ InOrder(g) /\ Precede(a, g) /\ InOrder(b) /\ Precede(a \o g, b)
    <3>1. InOrder(a \o g) /\ InOrder(b) /\ Precede(a \o g, b)
      BY <1>1, <1>2, InOrderConcat
    <3> QED BY <3>1, InOrderConcat
  <2>2. Len(g) \in Nat /\ Len(g) >= 1 /\ 1 \in 1..Len(g) /\ Len(g) \in 1..Len(g)
    OBVIOUS
  <2>3. \A i \in 1..Len(g) : g[i].start \in Int /\ g[i].end \in Int
    BY DEF TimesOf
  <2>4. InOrder(x)
    <3>1. l.start <= l.end
      <4>1. CASE Len(g) = 1
        BY <2>1, <2>2, <4>1 DEF InOrder
      <4>2. CASE Len(g) # 1
        <5>1. 1 < Len(g)
          <6>1. PICK n : n = Len(g)
            OBVIOUS
          <6>2. n \in Nat /\ n >= 1 /\ n # 1
            BY <2>2, <4>2, <6>1
          <6>3. 1 < n
            BY <6>2
          <6> QED BY <6>1, <6>3
        <5>2. g[1].start <= g[1].end /\ g[1].end <= g[Len(g)].start /\ g[Len(g)].start <= g[Len(g)].end
          BY <2>1, <2>2, <5>1 DEF InOrder
        <5> QED BY <2>2, <2>3, <5>2
      <4> QED BY <4>1, <4>2
    <3> QED BY <1>1, <3>1 DEF InOrder
  <2>5. Precede(a, x)
    BY <1>1, <2>1, <2>2 DEF Precede
  <2>6. Precede(a \o x, b)
    <3>1. Precede(a, b) /\ Precede(g, b)
      <4>1. \A i \in 1..Len(a) : i \in 1..Len(a \o g) /\ (a \o g)[i] = a[i]
        OBVIOUS
      <4>2. \A i \in 1..Len(g) : Len(a) + i \in 1..Len(a \o g) /\ (a \o g)[Len(a) + i] = g[i]
        OBVIOUS
      <4>3. Precede(a, b)
        BY <2>1, <4>1 DEF Precede
      <4>4. Precede(g, b)
        BY <2>1, <4>2 DEF Precede
      <4> QED BY <4>3, <4>4
    <3>2. ASSUME NEW i \in 1..Len(a \o x), NEW j \in 1..Len(b) PROVE (a \o x)[i].end <= b[j].start
      <4>1. CASE i \in 1..Len(a)
        <5>1. (a \o x)[i] = a[i]
          BY <1>1, <4>1
        <5> QED BY <3>1, <4>1, <5>1 DEF Precede
      <4>2. CASE i \notin 1..Len(a)
        <5>1. PICK n : n = Len(a)
          OBVIOUS
        <5>2. n \in Nat /\ Len(a \o x) = n + 1
          <6>1. n \in Nat
            BY <5>1
          <6>2. Len(a \o x) = n + Len(x)
            BY <1>1, <5>1, ConcatProperties
          <6> QED BY <1>1, <6>1, <6>2
        <5>3. i = n + 1
          BY <4>2, <5>1, <5>2
        <5>4. (a \o x)[i] = l
          BY <1>1, <5>1, <5>2, <5>3, ConcatProperties
        <5> QED BY <2>2, <3>1, <5>4 DEF Precede
      <4> QED BY <4>1, <4>2
    <3> QED BY <3>2 DEF Precede
  <2>7. InOrder(a \o x)
    BY <1>1, <2>1, <2>4, <2>5, InOrderConcat
  <2> QED BY <1>1, <2>1, <2>6, <2>7, InOrderConcat
<1>3. SameSpan(a \o x \o b, a \o g \o b)
  <2> DEFINE p == a \o x \o b
  <2> DEFINE q == a \o g \o b
  <2>1. /\ Len(a) \in Nat /\ Len(b) \in Nat /\ Len(g) \in Nat /\ Len(g) >= 1
        /\ p \in Seq(S) /\ q \in Seq(S)
        /\ Len(p) = Len(a) + 1 + Len(b) /\ Len(q) = Len(a) + Len(g) + Len(b)
        /\ p # <<>> /\ q # <<>>
    <3>1. /\ Len(a) \in Nat /\ Len(b) \in Nat /\ Len(g) \in Nat /\ Len(g) >= 1
          /\ p \in Seq(S) /\ q \in Seq(S)
      BY <1>1
    <3>2. Len(p) = Len(a) + 1 + Len(b)
      <4>1. Len(a \o x) = Len(a) + Len(x)
        BY <1>1, ConcatProperties
      <4>2. Len(a \o x) = Len(a) + 1
        BY <1>1, <4>1
      <4>3. Len(p) = Len(a \o x) + Len(b)
        BY <1>1, ConcatProperties
      <4> QED BY <4>2, <4>3
    <3>3. Len(q) = Len(a) + Len(g) + Len(b)
      OBVIOUS
    <3>4. Len(p) # 0 /\ Len(q) # 0
      BY <3>1, <3>2, <3>3
    <3> QED BY <3>1, <3>2, <3>3, <3>4
  <2>2. p[1].start = q[1].start
    <3>1. CASE Len(a) = 0
      BY <1>1, <2>1, <3>1
    <3>2. CASE Len(a) # 0
      BY <1>1, <2>1, <3>2
    <3> QED BY <3>1, <3>2
  <2>3. p[Len(p)].end = q[Len(q)].end
    <3>1. CASE Len(b) = 0
      BY <1>1, <2>1, <3>1
    <3>2. CASE Len(b) # 0
      BY <1>1, <2>1, <3>2
    <3> QED BY <3>1, <3>2
  <2> QED BY <2>1, <2>2, <2>3 DEF SameSpan
<1> QED BY <1>2, <1>3 DEF x

-----------------------------------------------------------------------------
(* The words of lines *)

\* A word of the recording.
WordRecords == [start : Nat, end : Nat, chars : Nat, mark : STRING]

\* A line, before and after it is timed.
LineRecords == [words : Seq(WordRecords), start : Int, end : Int, chars : Nat, review : BOOLEAN]

\* What is shown: lines, and words that are no line yet.
Spans == WordRecords \cup LineRecords

\* Words and lines have a beginning and an end.
LEMMA SpansAreTimes == TimesOf(Spans) /\ WordRecords \subseteq Spans /\ LineRecords \subseteq Spans
BY DEF TimesOf, Spans, WordRecords, LineRecords

\* A sequence of words or of lines is one of spans.
LEMMA SpanSequences ==
  /\ \A q : q \in Seq(WordRecords) => q \in Seq(Spans)
  /\ \A q : q \in Seq(LineRecords) => q \in Seq(Spans)
BY SpansAreTimes, SeqMonotonic

\* The words of lines, one group after the other.
LEMMA WordsOfLines ==
  ASSUME NEW ls \in Seq(LineRecords), NEW ms \in Seq(LineRecords)
  PROVE  /\ WordsOf(ls) \in Seq(WordRecords)
         /\ WordsOf(ls \o ms) = WordsOf(ls) \o WordsOf(ms)
<1>1. PICK f \in [LineRecords -> Seq(WordRecords)] : \A l \in LineRecords : f[l] = l.words
  <2>1. [l \in LineRecords |-> l.words] \in [LineRecords -> Seq(WordRecords)]
    BY DEF LineRecords
  <2> QED BY <2>1
<1>2. ASSUME NEW u \in Seq(LineRecords) PROVE PartsOf(f, u) = [k \in 1..Len(u) |-> u[k].words]
  <2>1. \A k \in 1..Len(u) : f[u[k]] = u[k].words
    BY <1>1
  <2> QED BY <2>1 DEF PartsOf
<1>3. ls \o ms \in Seq(LineRecords)
  OBVIOUS
<1>4. /\ FlattenSeq(PartsOf(f, ls)) \in Seq(WordRecords)
      /\ FlattenSeq(PartsOf(f, ls \o ms)) = FlattenSeq(PartsOf(f, ls)) \o FlattenSeq(PartsOf(f, ms))
  <2>1. IsPart(f, LineRecords, WordRecords)
    BY DEF IsPart
  <2> QED BY <2>1, FlattenParts
<1> QED
  BY <1>2, <1>3, <1>4 DEF WordsOf

\* The words of one line.
LEMMA WordsOfOne ==
  ASSUME NEW l \in LineRecords
  PROVE  WordsOf(<<l>>) = l.words
<1>1. [k \in 1..Len(<<l>>) |-> <<l>>[k].words] = <<l.words>>
  OBVIOUS
<1>2. l.words \in Seq(WordRecords)
  BY DEF LineRecords
<1>3. FlattenSeq(<<l.words>>) = l.words
  BY <1>2, FlattenOne
<1> QED
  BY <1>1, <1>3 DEF WordsOf

\* No line has no words.
LEMMA WordsOfNone == WordsOf(<<>>) = <<>>
<1>1. [k \in 1..Len(<<>>) |-> <<>>[k].words] = <<>>
  OBVIOUS
<1> QED BY <1>1, FlattenEmpty DEF WordsOf

\* A line in place of a part of the lines with the same words.
LEMMA WordsOfGrouping ==
  ASSUME NEW a \in Seq(LineRecords), NEW g \in Seq(LineRecords), NEW b \in Seq(LineRecords),
         NEW l \in LineRecords, WordsOf(g) = l.words
  PROVE  WordsOf(a \o <<l>> \o b) = WordsOf(a \o g \o b)
<1>1. <<l>> \in Seq(LineRecords) /\ a \o <<l>> \in Seq(LineRecords) /\ a \o g \in Seq(LineRecords)
  OBVIOUS
<1>2. WordsOf(a \o <<l>> \o b) = WordsOf(a) \o WordsOf(<<l>>) \o WordsOf(b)
  BY <1>1, WordsOfLines
<1>3. WordsOf(a \o g \o b) = WordsOf(a) \o WordsOf(g) \o WordsOf(b)
  BY <1>1, WordsOfLines
<1> QED
  BY <1>2, <1>3, WordsOfOne

\* The words of two lines.
LEMMA WordsOfTwo ==
  ASSUME NEW x \in LineRecords, NEW y \in LineRecords
  PROVE  WordsOf(<<x>> \o <<y>>) = x.words \o y.words
<1>1. <<x>> \in Seq(LineRecords) /\ <<y>> \in Seq(LineRecords)
  OBVIOUS
<1> QED BY <1>1, WordsOfLines, WordsOfOne

-----------------------------------------------------------------------------
(* Where split cuts *)

\* BuildLine: a line of words, from the first to the last of them.
LEMMA BuiltLines ==
  ASSUME NEW ws \in Seq(WordRecords), ws # <<>>
  PROVE  /\ BuildLine(ws) \in LineRecords /\ BuildLine(ws).words = ws
         /\ BuildLine(ws).start = ws[1].start /\ BuildLine(ws).end = ws[Len(ws)].end
<1>1. ws[1] \in WordRecords /\ ws[Len(ws)] \in WordRecords
  OBVIOUS
<1>2. ws[1].start \in Int /\ ws[Len(ws)].end \in Int
  BY <1>1 DEF WordRecords
<1> QED
  BY <1>2 DEF BuildLine, LineRecords, Last

\* Where a switch of split cuts: k words make a line, and the others stay.
CutAt(ws, k) ==
  [done |-> IF k = 0 THEN <<>> ELSE <<BuildLine(SubSeq(ws, 1, k))>>, rest |-> SubSeq(ws, k + 1, Len(ws))]

\* lastClauseBoundary finds a place among the pending words, or none.
LEMMA ClauseBoundary ==
  ASSUME NEW ws \in Seq(WordRecords)
  PROVE  LastClauseBoundary(ws) \in 0..Len(ws)
<1> DEFINE T == {i \in 2..Len(ws) :
                   /\ ws[i - 1].mark = "clause"
                   /\ ws[i - 1].end - ws[1].start >= MinDuration
                   /\ Last(ws).end - ws[i].start >= MinDuration}
<1>1. LastClauseBoundary(ws) = IF T = {} THEN 0 ELSE Max(T) - 1
  BY DEF LastClauseBoundary
<1>2. T \in SUBSET (0..Len(ws)) /\ T \in SUBSET (2..Len(ws)) /\ Len(ws) \in Nat
  OBVIOUS
<1> HIDE DEF T
<1>3. CASE T = {}
  BY <1>1, <1>2, <1>3
<1>4. CASE T # {}
  <2>1. Max(T) \in T
    BY <1>2, <1>4, MaxOfBounded
  <2>2. Max(T) \in 2..Len(ws)
    BY <1>2, <2>1
  <2> QED BY <1>1, <1>2, <1>4, <2>2
<1> QED BY <1>3, <1>4

\* Each way out of the switch of split is a cut of the pending words.
LEMMA BoundaryCuts ==
  ASSUME NEW ws \in Seq(WordRecords), ws # <<>>, NEW w
  PROVE  \E k \in 0..Len(ws) : Boundary(ws, w) = CutAt(ws, k)
<1> DEFINE flushed == [done |-> <<BuildLine(ws)>>, rest |-> <<>>]
<1>1. Len(ws) \in Nat /\ Len(ws) # 0 /\ SubSeq(ws, 1, Len(ws)) = ws /\ SubSeq(ws, Len(ws) + 1, Len(ws)) = <<>>
  OBVIOUS
<1>2. flushed = CutAt(ws, Len(ws))
  BY <1>1 DEF CutAt
<1>3. [done |-> <<>>, rest |-> ws] = CutAt(ws, 0)
  BY <1>1 DEF CutAt
<1>4. \E k \in 0..Len(ws) : SplitAtClause(ws) = CutAt(ws, k)
  <2>1. PICK k \in 0..Len(ws) : k = LastClauseBoundary(ws)
    BY ClauseBoundary
  <2>2. CASE k > 0
    <3>1. SplitAtClause(ws) = [done |-> <<BuildLine(SubSeq(ws, 1, k))>>, rest |-> SubSeq(ws, k + 1, Len(ws))]
      BY <2>1, <2>2 DEF SplitAtClause
    <3>2. k # 0
      BY <2>2
    <3> QED BY <3>1, <3>2 DEF CutAt
  <2>3. CASE ~(k > 0)
    <3>1. SplitAtClause(ws) = flushed
      BY <2>1, <2>3 DEF SplitAtClause
    <3> QED BY <1>1, <1>2, <3>1
  <2> QED BY <2>2, <2>3
<1>5. \/ Boundary(ws, w) = flushed
      \/ Boundary(ws, w) = SplitAtClause(ws)
      \/ Boundary(ws, w) = [done |-> <<>>, rest |-> ws]
  BY DEF Boundary
<1> QED
  BY <1>1, <1>2, <1>3, <1>4, <1>5

\* A cut moves words from the pending ones to a line, and changes nothing of
\* what is held and when it is shown.
LEMMA CutKeeps ==
  ASSUME NEW ls \in Seq(LineRecords), NEW ws \in Seq(WordRecords), NEW k \in 0..Len(ws)
  PROVE  LET L == ls \o CutAt(ws, k).done
             R == CutAt(ws, k).rest
         IN  /\ L \in Seq(LineRecords) /\ R \in Seq(WordRecords)
             /\ WordsOf(L) \o R = WordsOf(ls) \o ws
             /\ InOrder(ls \o ws) => InOrder(L \o R)
             /\ SameSpan(L \o R, ls \o ws)
<1> DEFINE L == ls \o CutAt(ws, k).done
<1> DEFINE R == CutAt(ws, k).rest
<1>1. Len(ws) \in Nat
  OBVIOUS
<1>2. CASE k = 0
  <2>1. L = ls /\ R = ws
    <3>1. CutAt(ws, k).done = <<>> /\ R = SubSeq(ws, 1, Len(ws))
      BY <1>2 DEF CutAt
    <3> QED BY <3>1
  <2> HIDE DEF L, R
  <2>2. SameSpan(L \o R, ls \o ws)
    BY <2>1 DEF SameSpan
  <2> QED BY <2>1, <2>2 DEF L, R
<1>3. CASE k # 0
  <2> DEFINE g == SubSeq(ws, 1, k)
  <2> DEFINE l == BuildLine(g)
  <2>1. g \in Seq(WordRecords) /\ g # <<>> /\ R \in Seq(WordRecords) /\ ws = g \o R
    <3>1. R = SubSeq(ws, k + 1, Len(ws))
      BY DEF CutAt
    <3>2. k \in 1..Len(ws)
      BY <1>1, <1>3
    <3>3. g \in Seq(WordRecords) /\ Len(g) = k
      BY <3>2
    <3>4. g # <<>>
      BY <3>2, <3>3
    <3>5. SubSeq(ws, k + 1, Len(ws)) \in Seq(WordRecords) /\ ws = g \o SubSeq(ws, k + 1, Len(ws))
      BY <3>2
    <3> HIDE DEF g, R
    <3> QED BY <3>1, <3>3, <3>4, <3>5
  <2>2. l \in LineRecords /\ l.words = g /\ l.start = g[1].start /\ l.end = g[Len(g)].end
    <3> HIDE DEF g
    <3> QED BY <2>1, BuiltLines
  <2>3. L = ls \o <<l>>
    BY <1>3 DEF CutAt
  <2> HIDE DEF g, l, R, L
  <2>4. <<l>> \in Seq(LineRecords) /\ L \in Seq(LineRecords)
    BY <2>2, <2>3
  <2>5. WordsOf(L) = WordsOf(ls) \o g /\ WordsOf(ls) \in Seq(WordRecords)
    BY <2>2, <2>3, <2>4, WordsOfLines, WordsOfOne
  <2>6. WordsOf(L) \o R = WordsOf(ls) \o ws
    BY <2>1, <2>5, ConcatAssociative
  <2>7. ls \in Seq(Spans) /\ g \in Seq(Spans) /\ R \in Seq(Spans) /\ l \in Spans
    BY <2>1, <2>2, SpansAreTimes, SpanSequences
  <2>8. L \o R = ls \o <<l>> \o R /\ ls \o ws = ls \o g \o R
    BY <2>1, <2>3, <2>7, ConcatAssociative
  <2>9. /\ InOrder(ls \o g \o R) => InOrder(ls \o <<l>> \o R)
        /\ SameSpan(ls \o <<l>> \o R, ls \o g \o R)
    BY <2>1, <2>2, <2>7, SpansAreTimes, Grouping
  <2> QED BY <2>1, <2>4, <2>6, <2>8, <2>9 DEF L, R
<1> QED BY <1>2, <1>3

\* A span that is kept twice is kept.
LEMMA SameSpanTransitive ==
  ASSUME NEW p, NEW q, NEW r, SameSpan(p, q), SameSpan(q, r)
  PROVE  SameSpan(p, r)
BY DEF SameSpan

\* A word that begins when the last one heard has ended comes last.
LEMMA AppendWord ==
  ASSUME NEW q \in Seq(Spans), InOrder(q), NEW s \in Seq(WordRecords), SameSpan(q, s), NEW w \in WordRecords,
         w.start <= w.end, s # <<>> => s[Len(s)].end <= w.start
  PROVE  InOrder(q \o <<w>>) /\ SameSpan(q \o <<w>>, Append(s, w))
<1> DEFINE x == <<w>>
<1>1. x \in Seq(Spans) /\ Len(x) = 1 /\ x[1] = w /\ w \in Spans
  BY SpansAreTimes
<1>2. w.start \in Int /\ w.end \in Int
  BY DEF WordRecords
<1> HIDE DEF x
<1>3. InOrder(x)
  BY <1>1 DEF InOrder
<1>4. ASSUME NEW i \in 1..Len(q) PROVE q[i].end <= w.start
  <2>1. q # <<>> /\ Len(q) \in Nat /\ Len(q) \in 1..Len(q)
    BY <1>4
  <2>2. q[Len(q)].end <= w.start
    BY <2>1 DEF SameSpan
  <2>3. \A j \in 1..Len(q) : q[j].start \in Int /\ q[j].end \in Int
    BY SpansAreTimes DEF TimesOf
  <2>4. CASE i = Len(q)
    BY <2>2, <2>4
  <2>5. CASE i # Len(q)
    <3>1. i < Len(q)
      BY <2>1, <2>5
    <3>2. q[i].end <= q[Len(q)].start /\ q[Len(q)].start <= q[Len(q)].end
      BY <2>1, <3>1 DEF InOrder
    <3> QED BY <1>2, <2>1, <2>2, <2>3, <3>2
  <2> QED BY <2>4, <2>5
<1>5. InOrder(q \o x)
  <2>1. Precede(q, x)
    BY <1>1, <1>4 DEF Precede
  <2> QED BY <1>1, <1>3, <2>1, InOrderConcat
<1>6. SameSpan(q \o x, Append(s, w))
  <2> DEFINE t == Append(s, w)
  <2>1. t # <<>> /\ t[Len(t)] = w /\ t[1] = IF s = <<>> THEN w ELSE s[1]
    <3>1. /\ Append(s, w) # <<>> /\ Append(s, w)[Len(Append(s, w))] = w
          /\ Append(s, w)[1] = IF s = <<>> THEN w ELSE s[1]
      BY EndsOfAppend
    <3> QED BY <3>1
  <2>2. q \o x = Append(q, w) /\ Append(q, w) \in Seq(Spans)
    BY <1>1 DEF x
  <2>3. /\ Append(q, w) # <<>> /\ Append(q, w)[Len(Append(q, w))] = w
        /\ Append(q, w)[1] = IF q = <<>> THEN w ELSE q[1]
    BY <1>1, EndsOfAppend
  <2> HIDE DEF t
  <2> QED BY <2>1, <2>2, <2>3 DEF SameSpan, t
<1> QED BY <1>5, <1>6 DEF x

-----------------------------------------------------------------------------
(* Segmenter: the invariant *)

\* The lines of all three places, in the order they are shown.
HeldLines == timed \o head \o cut

\* What is shown of the stream so far.
OnScreen == HeldLines \o pending

\* The types of the segmenter.
SegmenterTyped ==
  /\ segAt \in {"split", "merge", "reflow", "done"}
  /\ stream \in Seq(WordRecords) /\ pending \in Seq(WordRecords)
  /\ cut \in Seq(LineRecords) /\ head \in Seq(LineRecords) /\ timed \in Seq(LineRecords)
  /\ ordinal \in Nat \ {0}

\* What each phase of Build leaves behind.
Phases ==
  /\ segAt = "split" => timed = <<>> /\ head = <<>>
  /\ segAt # "split" => pending = <<>> /\ stream # <<>>
  /\ segAt \in {"reflow", "done"} => cut = <<>>
  /\ segAt = "done" => Len(timed) < ordinal
  /\ Len(head) <= 1
  /\ head # <<>> => timed = <<>> /\ LineDuration(head[1]) < MinDuration

\* Until Reflow moves their ends, lines are shown while their words are heard.
ShownWhenHeard ==
  segAt \in {"split", "merge"} => ordinal = 1 /\ InOrder(OnScreen) /\ SameSpan(OnScreen, stream)

\* The lines Reflow has been through are marked when they are too fast.
MarkedSoFar == \A k \in 1..Len(timed) : k < ordinal /\ TooFast(timed[k], LineDuration(timed[k])) => timed[k].review

\* The inductive invariant: what is held is the stream in its order, and is
\* shown when it is heard.
SegmenterInv ==
  SegmenterTyped /\ Phases /\ ShownWhenHeard /\ MarkedSoFar /\ WordsAreKept /\ OnlyBriefIsLost /\ LinesDoNotOverlap

\* The words that WordsAreKept counts are those of the held lines and the
\* pending ones.
LEMMA KeptIs ==
  ASSUME SegmenterTyped, Phases
  PROVE  /\ Kept = WordsOf(HeldLines) \o pending
         /\ HeldLines \in Seq(LineRecords) /\ OnScreen \in Seq(Spans)
<1>1. timed \in Seq(LineRecords) /\ head \in Seq(LineRecords) /\ cut \in Seq(LineRecords) /\ Len(head) <= 1
  BY DEF SegmenterTyped, Phases
<1>2. WordsOf(HeldLines) = WordsOf(timed) \o WordsOf(head) \o WordsOf(cut) /\ HeldLines \in Seq(LineRecords)
  <2>1. timed \o head \in Seq(LineRecords)
    BY <1>1
  <2>2. WordsOf(timed \o head) = WordsOf(timed) \o WordsOf(head)
    BY <1>1, WordsOfLines
  <2>3. WordsOf(timed \o head \o cut) = WordsOf(timed \o head) \o WordsOf(cut)
    BY <1>1, <2>1, WordsOfLines
  <2> QED BY <1>1, <2>1, <2>2, <2>3 DEF HeldLines
<1>3. WordsOf(head) = IF head = <<>> THEN <<>> ELSE head[1].words
  <2>1. CASE head = <<>>
    BY <2>1, WordsOfNone
  <2>2. CASE head # <<>>
    <3>1. head[1] \in LineRecords /\ head = <<head[1]>>
      BY <1>1, <2>2, AloneInSeq
    <3> QED BY <2>2, <3>1, WordsOfOne
  <2> QED BY <2>1, <2>2
<1>4. pending \in Seq(Spans) /\ HeldLines \in Seq(Spans)
  BY <1>2, SpanSequences DEF SegmenterTyped
<1> QED
  BY <1>2, <1>3, <1>4 DEF Kept, OnScreen

\* The invariant holds of an empty recording.
LEMMA SegmenterStarts == SegmenterInit => SegmenterInv
<1> SUFFICES ASSUME SegmenterInit PROVE SegmenterInv
  OBVIOUS
<1> USE DEF SegmenterInit
<1>1. SegmenterTyped
  BY DEF SegmenterTyped
<1>2. Phases
  BY DEF Phases
<1>3. HeldLines = <<>> /\ OnScreen = <<>>
  BY DEF HeldLines, OnScreen
<1>4. ShownWhenHeard
  BY <1>3 DEF ShownWhenHeard, InOrder, SameSpan
<1>5. WordsAreKept
  BY <1>1, <1>2, <1>3, KeptIs, WordsOfNone DEF WordsAreKept
<1>6. MarkedSoFar /\ OnlyBriefIsLost /\ LinesDoNotOverlap
  BY DEF MarkedSoFar, OnlyBriefIsLost, LinesDoNotOverlap
<1> QED BY <1>1, <1>2, <1>4, <1>5, <1>6 DEF SegmenterInv

\* The word that Hear adds to the stream.
LEMMA HeardWord ==
  ASSUME stream \in Seq(WordRecords), NEW s \in Spoken, NEW gap \in Gaps, Hear(s, gap)
  PROVE  \E w \in WordRecords : /\ HearWord(w) /\ stream' = Append(stream, w)
                                /\ w.start <= w.end
                                /\ stream # <<>> => stream[Len(stream)].end <= w.start
<1>1. s.length \in Nat /\ s.chars \in Nat /\ s.mark \in STRING /\ gap \in Nat
  BY SegmenterAssumption
<1>2. PICK last : last = IF stream = <<>> THEN 0 ELSE stream[Len(stream)].end
  OBVIOUS
<1>3. last \in Nat
  <2>1. CASE stream = <<>>
    BY <1>2, <2>1
  <2>2. CASE stream # <<>>
    <3>1. stream[Len(stream)] \in WordRecords
      BY <2>2
    <3> QED BY <1>2, <2>2, <3>1 DEF WordRecords
  <2> QED BY <2>1, <2>2
<1>4. PICK from \in Nat, to \in Nat : from = last + gap /\ to = from + s.length
  BY <1>1, <1>3
<1>5. from >= last /\ from <= to
  BY <1>1, <1>3, <1>4
<1> DEFINE w == [start |-> from, end |-> to, chars |-> s.chars, mark |-> s.mark]
<1>6. HearWord(w) /\ stream' = Append(stream, w)
  <2>1. from = (IF stream = <<>> THEN 0 ELSE Last(stream).end) + gap
    BY <1>2, <1>4 DEF Last
  <2> QED BY <1>4, <2>1 DEF Hear
<1>7. w \in WordRecords /\ w.start = from /\ w.end = to
  BY <1>1 DEF WordRecords
<1> HIDE DEF w
<1>8. stream # <<>> => stream[Len(stream)].end <= w.start
  BY <1>2, <1>5, <1>7
<1> QED BY <1>5, <1>6, <1>7, <1>8

-----------------------------------------------------------------------------
(* Segmenter: the steps *)

\* In place of two lines, one with the words of both and the time from the
\* beginning of the first to the end of the second.
LEMMA JoinKeeps ==
  ASSUME NEW a \in Seq(LineRecords), NEW x \in LineRecords, NEW y \in LineRecords, NEW b \in Seq(LineRecords),
         NEW l \in LineRecords, l.words = x.words \o y.words, l.start = x.start, l.end = y.end
  PROVE  LET before == (a \o <<x>>) \o (<<y>> \o b)
             after == (a \o <<l>>) \o b
         IN  /\ before \in Seq(LineRecords) /\ after \in Seq(LineRecords)
             /\ WordsOf(after) = WordsOf(before)
             /\ InOrder(before) => InOrder(after)
             /\ SameSpan(after, before)
<1> DEFINE g == <<x>> \o <<y>>
<1> DEFINE before == (a \o <<x>>) \o (<<y>> \o b)
<1> DEFINE after == (a \o <<l>>) \o b
<1>1. /\ <<x>> \in Seq(LineRecords) /\ <<y>> \in Seq(LineRecords) /\ <<l>> \in Seq(LineRecords)
      /\ before \in Seq(LineRecords) /\ after \in Seq(LineRecords) /\ g \in Seq(LineRecords)
  OBVIOUS
<1>2. g # <<>> /\ g[1] = x /\ g[Len(g)] = y
  OBVIOUS
<1>3. before = (a \o g) \o b
  <2>1. <<y>> \o b \in Seq(LineRecords)
    BY <1>1
  <2>2. (a \o <<x>>) \o (<<y>> \o b) = a \o (<<x>> \o (<<y>> \o b))
    BY <1>1, <2>1, ConcatAssociative
  <2>3. <<x>> \o (<<y>> \o b) = g \o b
    BY <1>1, ConcatAssociative
  <2>4. a \o (g \o b) = (a \o g) \o b
    BY <1>1, ConcatAssociative
  <2> QED BY <2>2, <2>3, <2>4
<1>4. WordsOf(g) = l.words
  BY WordsOfTwo
<1> HIDE DEF g
<1>5. WordsOf(after) = WordsOf(before)
  <2>1. WordsOf((a \o <<l>>) \o b) = WordsOf((a \o g) \o b)
    <3>1. PICK h \in Seq(LineRecords) : h = g
      BY <1>1
    <3>2. WordsOf(h) = l.words
      BY <1>4, <3>1
    <3>3. WordsOf((a \o <<l>>) \o b) = WordsOf((a \o h) \o b)
      BY <3>2, WordsOfGrouping
    <3> QED BY <3>1, <3>3
  <2> QED BY <1>3, <2>1, Zenon
<1>6. TimesOf(LineRecords)
  BY DEF TimesOf, LineRecords
<1>7. (InOrder(before) => InOrder(after)) /\ SameSpan(after, before)
  BY <1>1, <1>2, <1>3, <1>6, Grouping
<1> QED BY <1>1, <1>5, <1>7

\* A line that takes a particle.
LEMMA ExtendedLine ==
  ASSUME NEW l \in LineRecords, NEW w \in WordRecords
  PROVE  /\ Extended(l, w) \in LineRecords
         /\ Extended(l, w).words = l.words \o <<w>>
         /\ Extended(l, w).start = l.start /\ Extended(l, w).end = w.end
<1>1. l.words \in Seq(WordRecords)
  BY DEF LineRecords
<1>2. Append(l.words, w) \in Seq(WordRecords) /\ Append(l.words, w) = l.words \o <<w>>
  BY <1>1
<1>3. w.end \in Int
  BY DEF WordRecords
<1>4. PICK ws : ws = Append(l.words, w)
  OBVIOUS
<1>5. Extended(l, w) = [l EXCEPT !.words = ws, !.end = w.end]
  BY <1>4 DEF Extended
<1> HIDE DEF WordRecords
<1> QED
  BY <1>2, <1>3, <1>4, <1>5 DEF LineRecords

\* joinLines: a line with the words of both.
LEMMA JoinedLine ==
  ASSUME NEW x \in LineRecords, NEW y \in LineRecords
  PROVE  /\ JoinedLines(x, y) \in LineRecords
         /\ JoinedLines(x, y).words = x.words \o y.words
         /\ JoinedLines(x, y).start = x.start /\ JoinedLines(x, y).end = y.end
<1>1. x.words \in Seq(WordRecords) /\ y.words \in Seq(WordRecords) /\ x.start \in Int
  BY DEF LineRecords
<1>2. PICK ws : ws = x.words \o y.words
  OBVIOUS
<1>3. ws \in Seq(WordRecords)
  BY <1>1, <1>2
<1>4. JoinedLines(x, y) = [y EXCEPT !.words = ws, !.start = x.start]
  BY <1>2 DEF JoinedLines
<1> QED
  BY <1>1, <1>2, <1>3, <1>4 DEF LineRecords

\* A particle joins the last line.
LEMMA ParticleKeeps ==
  ASSUME NEW L \in Seq(LineRecords), L # <<>>, NEW w \in WordRecords
  PROVE  LET after == Front(L) \o <<Extended(Last(L), w)>>
         IN  /\ after \in Seq(LineRecords)
             /\ WordsOf(after) = WordsOf(L) \o <<w>>
             /\ InOrder(L \o <<w>>) => InOrder(after)
             /\ SameSpan(after, L \o <<w>>)
<1> DEFINE a == Front(L)
<1> DEFINE x == Last(L)
<1> DEFINE l == Extended(x, w)
<1> DEFINE g == <<x>> \o <<w>>
<1> DEFINE after == a \o <<l>>
<1>1. a \in Seq(LineRecords) /\ x \in LineRecords /\ L = a \o <<x>>
  BY LastInSeq
<1> HIDE DEF a, x
<1>2. l \in LineRecords /\ l.words = x.words \o <<w>> /\ l.start = x.start /\ l.end = w.end
  BY <1>1, ExtendedLine
<1> HIDE DEF l
<1>3. after \in Seq(LineRecords) /\ <<x>> \in Seq(LineRecords) /\ <<l>> \in Seq(LineRecords) /\ <<w>> \in Seq(WordRecords)
  BY <1>1, <1>2
<1>4. WordsOf(after) = WordsOf(L) \o <<w>>
  <2>1. WordsOf(after) = WordsOf(a) \o (x.words \o <<w>>)
    BY <1>1, <1>2, <1>3, WordsOfLines, WordsOfOne
  <2>2. WordsOf(L) = WordsOf(a) \o x.words
    BY <1>1, <1>3, WordsOfLines, WordsOfOne
  <2>3. WordsOf(a) \in Seq(WordRecords) /\ x.words \in Seq(WordRecords)
    BY <1>1, WordsOfLines DEF LineRecords
  <2>4. PICK u \in Seq(WordRecords), v \in Seq(WordRecords), z \in Seq(WordRecords) :
          u = WordsOf(a) /\ v = x.words /\ z = <<w>>
    BY <1>3, <2>3
  <2>5. u \o (v \o z) = (u \o v) \o z
    BY ConcatAssociative
  <2> HIDE DEF after
  <2> QED BY <2>1, <2>2, <2>4, <2>5
<1>5. (InOrder(L \o <<w>>) => InOrder(after)) /\ SameSpan(after, L \o <<w>>)
  <2>1. x \in Spans /\ w \in Spans /\ l \in Spans /\ a \in Seq(Spans) /\ <<x>> \in Seq(Spans) /\ <<w>> \in Seq(Spans)
    BY <1>1, <1>2, <1>3, SpansAreTimes, SpanSequences
  <2>2. g \in Seq(Spans) /\ g # <<>> /\ g[1] = x /\ g[Len(g)] = w
    BY <2>1
  <2>3. a \o g = L \o <<w>>
    BY <1>1, <2>1, ConcatAssociative
  <2> HIDE DEF g
  <2>4. <<>> \in Seq(Spans) /\ (a \o g) \o <<>> = L \o <<w>> /\ (a \o <<l>>) \o <<>> = after
    BY <2>1, <2>2, <2>3
  <2>5. /\ InOrder((a \o g) \o <<>>) => InOrder((a \o <<l>>) \o <<>>)
        /\ SameSpan((a \o <<l>>) \o <<>>, (a \o g) \o <<>>)
    BY <1>2, <2>1, <2>2, <2>4, SpansAreTimes, Grouping
  <2> QED BY <2>4, <2>5
<1> QED BY <1>3, <1>4, <1>5 DEF a, x, l

\* Before the last flush only the cut and the pending are held.
LEMMA HeldWhileSplit ==
  ASSUME timed = <<>>, head = <<>>, cut \in Seq(LineRecords)
  PROVE  HeldLines = cut /\ OnScreen = cut \o pending
BY DEF HeldLines, OnScreen

\* An iteration of split adds the word to what is held and shown.
LEMMA HearWordKeeps ==
  ASSUME cut \in Seq(LineRecords), pending \in Seq(WordRecords), NEW w \in WordRecords, HearWord(w),
         InOrder(cut \o pending), SameSpan(cut \o pending, stream), stream \in Seq(WordRecords),
         w.start <= w.end, stream # <<>> => stream[Len(stream)].end <= w.start
  PROVE  /\ cut' \in Seq(LineRecords) /\ pending' \in Seq(WordRecords)
         /\ WordsOf(cut') \o pending' = (WordsOf(cut) \o pending) \o <<w>>
         /\ InOrder(cut' \o pending') /\ SameSpan(cut' \o pending', Append(stream, w))
<1>1. PICK k \in 0..Len(pending) :
        (IF pending = <<>> THEN [done |-> <<>>, rest |-> <<>>] ELSE Boundary(pending, w)) = CutAt(pending, k)
  <2>1. CASE pending = <<>>
    <3>1. CutAt(<<>>, 0) = [done |-> <<>>, rest |-> <<>>]
      <4>1. SubSeq(<<>>, 0 + 1, Len(<<>>)) = <<>>
        BY EmptySeq, SubSeqEmpty
      <4> QED BY <4>1 DEF CutAt
    <3>2. 0 \in 0..Len(pending)
      BY <2>1
    <3> QED BY <2>1, <3>1, <3>2
  <2>2. CASE pending # <<>>
    BY <2>2, BoundaryCuts
  <2> QED BY <2>1, <2>2
<1>2. PICK L, R : L = cut \o CutAt(pending, k).done /\ R = CutAt(pending, k).rest
  OBVIOUS
<1>3. \/ R = <<>> /\ L # <<>> /\ cut' = Front(L) \o <<Extended(Last(L), w)>> /\ pending' = <<>>
      \/ cut' = L /\ pending' = Append(R, w)
  BY <1>1, <1>2 DEF HearWord
<1>4. /\ L \in Seq(LineRecords) /\ R \in Seq(WordRecords)
      /\ WordsOf(L) \o R = WordsOf(cut) \o pending
      /\ InOrder(L \o R) /\ SameSpan(L \o R, cut \o pending)
  BY <1>2, CutKeeps
<1>5. L \in Seq(Spans) /\ R \in Seq(Spans) /\ L \o R \in Seq(Spans) /\ w \in Spans
  <2>1. L \in Seq(Spans) /\ R \in Seq(Spans) /\ w \in Spans
    BY <1>4, SpansAreTimes, SpanSequences
  <2> QED BY <2>1
<1>6. SameSpan(L \o R, stream)
  BY <1>4, SameSpanTransitive
<1>7. InOrder((L \o R) \o <<w>>) /\ SameSpan((L \o R) \o <<w>>, Append(stream, w))
  BY <1>4, <1>5, <1>6, AppendWord
<1>8. <<w>> \in Seq(WordRecords) /\ <<w>> \in Seq(Spans) /\ WordsOf(L) \in Seq(WordRecords)
  BY <1>4, <1>5, WordsOfLines
<1>9. CASE R = <<>> /\ L # <<>> /\ cut' = Front(L) \o <<Extended(Last(L), w)>> /\ pending' = <<>>
  <2>1. L \o R = L /\ WordsOf(L) \o R = WordsOf(L)
    BY <1>4, <1>8, <1>9
  <2>2. /\ cut' \in Seq(LineRecords) /\ WordsOf(cut') = WordsOf(L) \o <<w>>
        /\ InOrder(L \o <<w>>) => InOrder(cut')
        /\ SameSpan(cut', L \o <<w>>)
    BY <1>4, <1>9, ParticleKeeps
  <2>3. cut' \o pending' = cut' /\ WordsOf(cut') \o pending' = WordsOf(cut')
    <3>1. WordsOf(cut') \in Seq(WordRecords)
      BY <2>2, WordsOfLines
    <3> QED BY <1>9, <2>2, <3>1
  <2>4. SameSpan(cut', Append(stream, w))
    <3>1. SameSpan(L \o <<w>>, Append(stream, w))
      BY <1>7, <2>1
    <3> QED BY <2>2, <3>1, SameSpanTransitive
  <2>5. pending' \in Seq(WordRecords)
    BY <1>9
  <2>6. InOrder(cut')
    BY <1>7, <2>1, <2>2
  <2>7. WordsOf(cut') = (WordsOf(cut) \o pending) \o <<w>>
    BY <1>4, <2>1, <2>2
  <2> QED BY <2>2, <2>3, <2>4, <2>5, <2>6, <2>7
<1>10. CASE cut' = L /\ pending' = Append(R, w)
  <2>1. pending' = R \o <<w>> /\ pending' \in Seq(WordRecords)
    BY <1>4, <1>10
  <2>2. cut' \o pending' = (L \o R) \o <<w>>
    <3>1. L \o (R \o <<w>>) = (L \o R) \o <<w>>
      BY <1>5, <1>8, ConcatAssociative
    <3> QED BY <1>10, <2>1, <3>1
  <2>3. WordsOf(cut') \o pending' = (WordsOf(cut) \o pending) \o <<w>>
    <3>1. WordsOf(L) \o (R \o <<w>>) = (WordsOf(L) \o R) \o <<w>>
      <4>1. PICK u \in Seq(WordRecords) : u = WordsOf(L)
        BY <1>8
      <4>2. u \o (R \o <<w>>) = (u \o R) \o <<w>>
        BY <1>4, <1>8, ConcatAssociative
      <4> QED BY <4>1, <4>2
    <3> QED BY <1>4, <1>10, <2>1, <3>1
  <2> QED BY <1>4, <1>7, <1>10, <2>1, <2>2, <2>3
<1> QED BY <1>3, <1>9, <1>10

\* An iteration of split.
LEMMA HearKeeps ==
  ASSUME SegmenterInv, NEW s \in Spoken, NEW gap \in Gaps, Hear(s, gap)
  PROVE  SegmenterInv'
<1>1. /\ segAt = "split" /\ segAt' = "split" /\ head = <<>> /\ timed = <<>> /\ ordinal = 1
      /\ head' = <<>> /\ timed' = <<>> /\ ordinal' = 1
      /\ cut \in Seq(LineRecords) /\ pending \in Seq(WordRecords) /\ stream \in Seq(WordRecords)
  BY DEF SegmenterInv, SegmenterTyped, Phases, ShownWhenHeard, Hear
<1>2. PICK w \in WordRecords : /\ HearWord(w) /\ stream' = Append(stream, w) /\ w.start <= w.end
                               /\ stream # <<>> => stream[Len(stream)].end <= w.start
  BY <1>1, HeardWord
<1>3. HeldLines = cut /\ OnScreen = cut \o pending
  BY <1>1, HeldWhileSplit
<1>4. InOrder(cut \o pending) /\ SameSpan(cut \o pending, stream)
  BY <1>1, <1>3 DEF SegmenterInv, ShownWhenHeard
<1>5. /\ cut' \in Seq(LineRecords) /\ pending' \in Seq(WordRecords)
      /\ WordsOf(cut') \o pending' = (WordsOf(cut) \o pending) \o <<w>>
      /\ InOrder(cut' \o pending') /\ SameSpan(cut' \o pending', stream')
  BY <1>1, <1>2, <1>4, HearWordKeeps
<1>6. HeldLines' = cut' /\ OnScreen' = cut' \o pending'
  BY <1>1, <1>5 DEF HeldLines, OnScreen
<1>7. SegmenterTyped'
  <2>1. stream' \in Seq(WordRecords)
    BY <1>1, <1>2
  <2>2. timed' \in Seq(LineRecords) /\ head' \in Seq(LineRecords)
    BY <1>1
  <2> QED BY <1>1, <1>5, <2>1, <2>2 DEF SegmenterTyped
<1>8. Phases'
  BY <1>1 DEF Phases
<1>9. ShownWhenHeard'
  BY <1>1, <1>5, <1>6 DEF ShownWhenHeard
<1>10. WordsAreKept'
  <2>1. Kept = WordsOf(cut) \o pending
    BY <1>3, KeptIs DEF SegmenterInv
  <2>2. Kept' = WordsOf(cut') \o pending'
    <3>1. Kept' = (WordsOf(<<>>) \o <<>> \o WordsOf(cut')) \o pending'
      BY <1>1 DEF Kept
    <3>2. WordsOf(cut') \in Seq(WordRecords)
      BY <1>5, WordsOfLines
    <3> QED BY <3>1, <3>2, WordsOfNone
  <2>3. stream \o <<w>> = Append(stream, w)
    BY <1>1
  <2> QED BY <1>2, <1>5, <2>1, <2>2, <2>3 DEF SegmenterInv, WordsAreKept
<1>11. MarkedSoFar' /\ OnlyBriefIsLost' /\ LinesDoNotOverlap'
  BY <1>1 DEF MarkedSoFar, OnlyBriefIsLost, LinesDoNotOverlap
<1> QED
  BY <1>7, <1>8, <1>9, <1>10, <1>11 DEF SegmenterInv

\* The end of split.
LEMMA FlushKeeps ==
  ASSUME SegmenterInv, Flush
  PROVE  SegmenterInv'
<1>1. /\ segAt = "split" /\ segAt' \in {"reflow", "merge"} /\ stream # <<>>
      /\ head = <<>> /\ timed = <<>> /\ ordinal = 1
      /\ head' = <<>> /\ ordinal' = 1 /\ stream' = stream /\ pending' = <<>>
      /\ cut \in Seq(LineRecords) /\ pending \in Seq(WordRecords) /\ stream \in Seq(WordRecords)
  BY DEF SegmenterInv, SegmenterTyped, Phases, ShownWhenHeard, Flush
<1>2. HeldLines = cut /\ OnScreen = cut \o pending
  BY <1>1, HeldWhileSplit
<1>3. InOrder(cut \o pending) /\ SameSpan(cut \o pending, stream)
  BY <1>1, <1>2 DEF SegmenterInv, ShownWhenHeard
<1>4. WordsOf(cut) \o pending = stream
  BY <1>2, KeptIs DEF SegmenterInv, WordsAreKept
<1>5. PICK L : L = IF pending = <<>> THEN cut ELSE Append(cut, BuildLine(pending))
  OBVIOUS
<1>6. /\ L \in Seq(LineRecords) /\ WordsOf(L) = stream
      /\ InOrder(L) /\ SameSpan(L, stream)
  <2>1. CASE pending = <<>>
    <3>1. cut \o pending = cut /\ WordsOf(cut) \o pending = WordsOf(cut)
      <4>1. WordsOf(cut) \in Seq(WordRecords)
        BY <1>1, WordsOfLines
      <4> QED BY <1>1, <2>1, <4>1
    <3> QED BY <1>1, <1>3, <1>4, <1>5, <2>1, <3>1
  <2>2. CASE pending # <<>>
    <3>1. PICK k \in 0..Len(pending) : k = Len(pending) /\ k # 0
      BY <1>1, <2>2
    <3>2. CutAt(pending, k).done = <<BuildLine(pending)>> /\ CutAt(pending, k).rest = <<>>
      <4>1. SubSeq(pending, 1, k) = pending /\ SubSeq(pending, k + 1, Len(pending)) = <<>>
        BY <1>1, <3>1
      <4> QED BY <3>1, <4>1 DEF CutAt
    <3>3. L = cut \o CutAt(pending, k).done
      <4>1. BuildLine(pending) \in LineRecords
        BY <1>1, <2>2, BuiltLines
      <4>2. Append(cut, BuildLine(pending)) = cut \o <<BuildLine(pending)>>
        BY <1>1, <4>1
      <4> QED BY <1>5, <2>2, <3>2, <4>2
    <3>4. /\ L \in Seq(LineRecords)
          /\ WordsOf(L) \o <<>> = WordsOf(cut) \o pending
          /\ InOrder(cut \o pending) => InOrder(L \o <<>>)
          /\ SameSpan(L \o <<>>, cut \o pending)
      BY <1>1, <3>2, <3>3, CutKeeps
    <3>5. L \o <<>> = L /\ WordsOf(L) \o <<>> = WordsOf(L)
      <4>1. WordsOf(L) \in Seq(WordRecords)
        BY <3>4, WordsOfLines
      <4> QED BY <3>4, <4>1
    <3> QED BY <1>3, <1>4, <3>4, <3>5, SameSpanTransitive
  <2> QED BY <2>1, <2>2
<1>7. \/ segAt' = "reflow" /\ timed' = L /\ cut' = <<>>
      \/ segAt' = "merge" /\ timed' = <<>> /\ cut' = L
  BY <1>1, <1>5 DEF Flush
<1>8. SegmenterTyped'
  <2>1. <<>> \in Seq(WordRecords) /\ <<>> \in Seq(LineRecords) /\ 1 \in Nat \ {0}
    BY EmptySeq
  <2>2. cut' \in Seq(LineRecords) /\ timed' \in Seq(LineRecords)
    BY <1>6, <1>7, <2>1
  <2>3. stream' \in Seq(WordRecords) /\ pending' \in Seq(WordRecords) /\ head' \in Seq(LineRecords)
    BY <1>1, <2>1
  <2> QED BY <1>1, <2>1, <2>2, <2>3 DEF SegmenterTyped
<1>9. Phases'
  BY <1>1, <1>7 DEF Phases
<1>10. Kept' = stream'
  <2>1. CASE timed' = L /\ cut' = <<>>
    <3>1. Kept' = (WordsOf(L) \o <<>> \o WordsOf(<<>>)) \o <<>>
      BY <1>1, <2>1 DEF Kept
    <3> QED BY <1>1, <1>6, <3>1, WordsOfNone
  <2>2. CASE timed' = <<>> /\ cut' = L
    <3>1. Kept' = (WordsOf(<<>>) \o <<>> \o WordsOf(L)) \o <<>>
      BY <1>1, <2>2 DEF Kept
    <3> QED BY <1>1, <1>6, <3>1, WordsOfNone
  <2> QED BY <1>7, <2>1, <2>2
<1>11. ShownWhenHeard'
  <2> SUFFICES ASSUME segAt' = "merge" PROVE InOrder(OnScreen') /\ SameSpan(OnScreen', stream')
    BY <1>1 DEF ShownWhenHeard
  <2>1. timed' = <<>> /\ cut' = L
    BY <1>7
  <2>2. OnScreen' = <<>> \o <<>> \o L \o <<>>
    BY <1>1, <2>1 DEF OnScreen, HeldLines
  <2>3. OnScreen' = L
    BY <1>6, <2>2
  <2> QED BY <1>1, <1>6, <2>3
<1>12. MarkedSoFar'
  BY <1>1, <1>6, <1>7 DEF MarkedSoFar
<1>13. LinesDoNotOverlap'
  <2>1. CASE timed' = <<>>
    BY <2>1 DEF LinesDoNotOverlap
  <2>2. CASE timed' = L
    <3>1. \A k \in 1..(Len(L) - 1) : k \in 1..Len(L) /\ k + 1 \in 1..Len(L) /\ k < k + 1
      BY <1>6
    <3> QED BY <1>6, <2>2, <3>1 DEF LinesDoNotOverlap, InOrder
  <2> QED BY <1>7, <2>1, <2>2
<1>14. OnlyBriefIsLost'
  BY <1>1, <1>6, <1>7 DEF OnlyBriefIsLost
<1> QED
  BY <1>8, <1>9, <1>10, <1>11, <1>12, <1>13, <1>14 DEF SegmenterInv, WordsAreKept

\* An iteration of mergeShort.
LEMMA MergeKeeps ==
  ASSUME SegmenterInv, MergeLine
  PROVE  SegmenterInv'
<1>1. /\ segAt = "merge" /\ segAt' = "merge" /\ pending = <<>> /\ pending' = <<>> /\ stream # <<>>
      /\ stream' = stream /\ ordinal = 1 /\ ordinal' = 1
      /\ cut \in Seq(LineRecords) /\ head \in Seq(LineRecords) /\ timed \in Seq(LineRecords)
      /\ stream \in Seq(WordRecords) /\ Len(head) <= 1 /\ (head # <<>> => timed = <<>>)
      /\ cut # <<>>
  BY DEF SegmenterInv, SegmenterTyped, Phases, ShownWhenHeard, MergeLine
<1>2. PICK c \in LineRecords, T \in Seq(LineRecords) : c = Head(cut) /\ T = Tail(cut) /\ cut = <<c>> \o T
  <2>1. Head(cut) \in LineRecords /\ Tail(cut) \in Seq(LineRecords) /\ cut = <<Head(cut)>> \o Tail(cut)
    BY <1>1, FirstInSeq
  <2> QED BY <2>1
<1>3. PICK l : l = IF head = <<>> THEN c ELSE JoinedLines(head[1], c)
  OBVIOUS
<1>4. OnScreen = timed \o head \o (<<c>> \o T)
  <2>1. timed \o head \o cut \in Seq(LineRecords)
    BY <1>1
  <2>2. OnScreen = timed \o head \o cut
    BY <1>1, <2>1 DEF OnScreen, HeldLines
  <2> QED BY <1>2, <2>2
<1>5. InOrder(OnScreen) /\ SameSpan(OnScreen, stream) /\ WordsOf(OnScreen) = stream
  <2>1. HeldLines \in Seq(LineRecords) /\ Kept = WordsOf(HeldLines) \o <<>>
    BY <1>1, KeptIs DEF SegmenterInv
  <2>2. WordsOf(HeldLines) \in Seq(WordRecords)
    BY <2>1, WordsOfLines
  <2>3. Kept = WordsOf(HeldLines) /\ OnScreen = HeldLines
    BY <1>1, <2>1, <2>2 DEF OnScreen
  <2> QED BY <1>1, <2>3 DEF SegmenterInv, ShownWhenHeard, WordsAreKept
<1>6. PICK P : P = (timed \o <<l>>) \o T
  OBVIOUS
<1>7. l \in LineRecords /\ P \in Seq(LineRecords) /\ InOrder(P) /\ SameSpan(P, stream) /\ WordsOf(P) = stream
  <2>1. CASE head = <<>>
    <3>1. l = c /\ OnScreen = P /\ P \in Seq(LineRecords)
      <4>1. timed \o head = timed /\ timed \o (<<c>> \o T) = (timed \o <<c>>) \o T /\ (timed \o <<c>>) \o T \in Seq(LineRecords)
        BY <1>1, <1>2, <2>1, ConcatAssociative
      <4> QED BY <1>3, <1>4, <1>6, <2>1, <4>1
    <3> QED BY <1>5, <3>1
  <2>2. CASE head # <<>>
    <3>1. PICK h \in LineRecords : h = head[1] /\ head = <<h>>
      BY <1>1, <2>2, AloneInSeq
    <3>2. l \in LineRecords /\ l.words = h.words \o c.words /\ l.start = h.start /\ l.end = c.end
      BY <1>3, <2>2, <3>1, JoinedLine
    <3>3. OnScreen = (timed \o <<h>>) \o (<<c>> \o T)
      BY <1>4, <3>1
    <3>4. /\ P \in Seq(LineRecords) /\ WordsOf(P) = WordsOf(OnScreen)
          /\ InOrder(OnScreen) => InOrder(P)
          /\ SameSpan(P, OnScreen)
      <4>1. LET before == (timed \o <<h>>) \o (<<c>> \o T)
                after == (timed \o <<l>>) \o T
            IN  /\ before \in Seq(LineRecords) /\ after \in Seq(LineRecords)
                /\ WordsOf(after) = WordsOf(before)
                /\ InOrder(before) => InOrder(after)
                /\ SameSpan(after, before)
        BY <1>1, <3>2, JoinKeeps
      <4> QED BY <1>6, <3>3, <4>1
    <3> QED BY <1>5, <3>2, <3>4, SameSpanTransitive
  <2> QED BY <2>1, <2>2
<1>8. cut' = T
  BY <1>2 DEF MergeLine
<1>9. \/ LineDuration(l) < MinDuration /\ timed = <<>> /\ head' = <<l>> /\ timed' = timed
      \/ timed # <<>> /\ timed' = Front(timed) \o <<JoinedLines(Last(timed), l)>> /\ head' = <<>>
      \/ timed' = Append(timed, l) /\ head' = <<>>
  BY <1>2, <1>3 DEF MergeLine
<1>10. /\ timed' \in Seq(LineRecords) /\ head' \in Seq(LineRecords) /\ Len(head') <= 1
       /\ head' # <<>> => timed' = <<>> /\ LineDuration(head'[1]) < MinDuration
       /\ HeldLines' \in Seq(LineRecords) /\ InOrder(HeldLines') /\ SameSpan(HeldLines', stream)
       /\ WordsOf(HeldLines') = stream
  <2>1. CASE LineDuration(l) < MinDuration /\ timed = <<>> /\ head' = <<l>> /\ timed' = timed
    <3>1. HeldLines' = P
      BY <1>6, <1>8, <2>1 DEF HeldLines
    <3>2. head'[1] = l /\ head' \in Seq(LineRecords) /\ Len(head') <= 1
      BY <1>7, <2>1
    <3> QED BY <1>1, <1>7, <2>1, <3>1, <3>2
  <2>2. CASE timed # <<>> /\ timed' = Front(timed) \o <<JoinedLines(Last(timed), l)>> /\ head' = <<>>
    <3>1. PICK F \in Seq(LineRecords), x \in LineRecords : F = Front(timed) /\ x = Last(timed) /\ timed = F \o <<x>>
      BY <1>1, <2>2, LastInSeq
    <3>2. PICK j \in LineRecords : /\ j = JoinedLines(x, l) /\ j.words = x.words \o l.words
                                   /\ j.start = x.start /\ j.end = l.end
      BY <1>7, JoinedLine
    <3>3. P = (F \o <<x>>) \o (<<l>> \o T)
      <4>1. <<l>> \in Seq(LineRecords) /\ F \o <<x>> \in Seq(LineRecords)
        BY <1>7
      <4>2. ((F \o <<x>>) \o <<l>>) \o T = (F \o <<x>>) \o (<<l>> \o T)
        BY <4>1, ConcatAssociative
      <4> QED BY <1>6, <3>1, <4>2
    <3>4. PICK A : A = (F \o <<j>>) \o T
      OBVIOUS
    <3>5. /\ A \in Seq(LineRecords) /\ WordsOf(A) = WordsOf(P)
          /\ InOrder(P) => InOrder(A)
          /\ SameSpan(A, P)
      <4>1. LET before == (F \o <<x>>) \o (<<l>> \o T)
                after == (F \o <<j>>) \o T
            IN  /\ before \in Seq(LineRecords) /\ after \in Seq(LineRecords)
                /\ WordsOf(after) = WordsOf(before)
                /\ InOrder(before) => InOrder(after)
                /\ SameSpan(after, before)
        <5>1. PICK k \in LineRecords : k = l
          BY <1>7
        <5>2. j.words = x.words \o k.words /\ j.start = x.start /\ j.end = k.end
          BY <3>2, <5>1
        <5> QED BY <5>1, <5>2, JoinKeeps
      <4> QED BY <3>3, <3>4, <4>1
    <3>6. timed' = F \o <<j>> /\ timed' \in Seq(LineRecords)
      BY <2>2, <3>1, <3>2
    <3>7. HeldLines' = A
      <4>1. timed' \o <<>> = timed'
        BY <3>6
      <4> QED BY <1>8, <2>2, <3>4, <3>6, <4>1 DEF HeldLines
    <3>8. head' \in Seq(LineRecords) /\ Len(head') <= 1
      BY <2>2
    <3> QED BY <1>7, <2>2, <3>5, <3>6, <3>7, <3>8, SameSpanTransitive
  <2>3. CASE timed' = Append(timed, l) /\ head' = <<>>
    <3>1. timed' = timed \o <<l>> /\ timed' \in Seq(LineRecords) /\ timed' \o <<>> = timed'
      BY <1>1, <1>7, <2>3
    <3>2. HeldLines' = P
      BY <1>6, <1>8, <2>3, <3>1 DEF HeldLines
    <3>3. head' \in Seq(LineRecords) /\ Len(head') <= 1
      BY <2>3
    <3> QED BY <1>7, <2>3, <3>1, <3>2, <3>3
  <2> QED BY <1>9, <2>1, <2>2, <2>3
<1>11. SegmenterTyped'
  <2>1. pending' \in Seq(WordRecords) /\ 1 \in Nat \ {0}
    BY <1>1, EmptySeq
  <2> QED BY <1>1, <1>2, <1>8, <1>10, <2>1 DEF SegmenterTyped
<1>12. Phases'
  BY <1>1, <1>10 DEF Phases, LineDuration
<1>13. WordsAreKept'
  <2>1. Kept' = WordsOf(HeldLines') \o pending'
    <3>1. (SegmenterTyped /\ Phases => Kept = WordsOf(HeldLines) \o pending)'
      BY KeptIs, PTL
    <3> QED BY <1>11, <1>12, <3>1
  <2> QED BY <1>1, <1>10, <2>1 DEF WordsAreKept
<1>14. ShownWhenHeard'
  <2>1. OnScreen' = HeldLines'
    BY <1>1, <1>10 DEF OnScreen
  <2> QED BY <1>1, <1>10, <2>1 DEF ShownWhenHeard
<1>15. LinesDoNotOverlap'
  <2>1. \A k \in 1..(Len(timed') - 1) :
          /\ k \in 1..Len(HeldLines') /\ k + 1 \in 1..Len(HeldLines') /\ k < k + 1
          /\ HeldLines'[k] = timed'[k] /\ HeldLines'[k + 1] = timed'[k + 1]
    <3>1. PICK p \in Seq(LineRecords), h \in Seq(LineRecords), q \in Seq(LineRecords) :
            p = timed' /\ h = head' /\ q = cut'
      BY <1>2, <1>8, <1>10
    <3>2. HeldLines' = (p \o h) \o q
      BY <3>1 DEF HeldLines
    <3>3. \A k \in 1..Len(p) : k \in 1..Len((p \o h) \o q) /\ ((p \o h) \o q)[k] = p[k]
      <4>1. p \o h \in Seq(LineRecords) /\ Len(p \o h) = Len(p) + Len(h)
        OBVIOUS
      <4>2. \A k \in 1..Len(p) : k \in 1..Len(p \o h) /\ (p \o h)[k] = p[k]
        OBVIOUS
      <4>3. \A k \in 1..Len(p \o h) : k \in 1..Len((p \o h) \o q) /\ ((p \o h) \o q)[k] = (p \o h)[k]
        BY <4>1
      <4> QED BY <4>2, <4>3
    <3>4. \A k \in 1..(Len(p) - 1) : k \in 1..Len(p) /\ k + 1 \in 1..Len(p) /\ k < k + 1
      OBVIOUS
    <3> QED BY <3>1, <3>2, <3>3, <3>4
  <2> QED BY <1>10, <2>1 DEF LinesDoNotOverlap, InOrder
<1>16. MarkedSoFar'
  BY <1>1, <1>10 DEF MarkedSoFar
<1>17. OnlyBriefIsLost'
  BY <1>1 DEF OnlyBriefIsLost
<1> QED
  BY <1>11, <1>12, <1>13, <1>14, <1>15, <1>16, <1>17 DEF SegmenterInv

\* The end of mergeShort: a head that is left is shorter than a line may be,
\* and so is the recording.
LEMMA MergeEndsKeeps ==
  ASSUME SegmenterInv, MergeEnds
  PROVE  SegmenterInv'
<1>1. /\ segAt = "merge" /\ segAt' = "reflow" /\ cut = <<>> /\ pending = <<>>
      /\ UNCHANGED <<stream, pending, cut, head, timed, ordinal>>
      /\ head \in Seq(LineRecords) /\ timed \in Seq(LineRecords) /\ Len(head) <= 1
      /\ stream # <<>> /\ stream \in Seq(WordRecords)
      /\ head # <<>> => timed = <<>> /\ LineDuration(head[1]) < MinDuration
  BY DEF SegmenterInv, SegmenterTyped, Phases, MergeEnds
<1>2. OnlyBriefIsLost'
  <2>1. CASE head = <<>>
    <3>1. Kept = (WordsOf(timed) \o <<>> \o WordsOf(<<>>)) \o <<>>
      BY <1>1, <2>1 DEF Kept
    <3>2. WordsOf(timed) \in Seq(WordRecords)
      BY <1>1, WordsOfLines
    <3>3. WordsOf(timed) = stream
      BY <3>1, <3>2, WordsOfNone DEF SegmenterInv, WordsAreKept
    <3> QED BY <1>1, <3>3 DEF OnlyBriefIsLost, WordsOf
  <2>2. CASE head # <<>>
    <3>1. PICK h \in LineRecords : h = head[1] /\ head = <<h>>
      BY <1>1, <2>2, AloneInSeq
    <3>2. OnScreen = <<h>>
      BY <1>1, <2>2, <3>1 DEF OnScreen, HeldLines
    <3>3. SameSpan(<<h>>, stream)
      BY <1>1, <3>2 DEF SegmenterInv, ShownWhenHeard
    <3>4. h.start = stream[1].start /\ h.end = stream[Len(stream)].end
      <4>1. <<h>>[1] = h /\ <<h>>[Len(<<h>>)] = h
        OBVIOUS
      <4> QED BY <1>1, <3>3, <4>1 DEF SameSpan
    <3>5. Last(stream).end - stream[1].start < MinDuration
      BY <1>1, <2>2, <3>1, <3>4 DEF LineDuration, Last
    <3> QED BY <1>1, <2>2, <3>5 DEF OnlyBriefIsLost, Last
  <2> QED BY <2>1, <2>2
<1>3. SegmenterTyped'
  BY <1>1 DEF SegmenterInv, SegmenterTyped
<1>4. Phases'
  BY <1>1 DEF SegmenterInv, Phases, LineDuration
<1>5. ShownWhenHeard'
  BY <1>1 DEF ShownWhenHeard
<1>6. WordsAreKept' /\ LinesDoNotOverlap' /\ MarkedSoFar'
  BY <1>1 DEF SegmenterInv, WordsAreKept, Kept, WordsOf, LinesDoNotOverlap, MarkedSoFar, TooFast, LineDuration
<1> QED
  BY <1>2, <1>3, <1>4, <1>5, <1>6 DEF SegmenterInv

\* A corrected line stays between its neighbours, with its words, and is marked
\* when it is still too fast.
LEMMA ReflowedLine ==
  ASSUME timed \in Seq(LineRecords), NEW k \in 1..Len(timed), NEW l \in LineRecords,
         k > 1 => timed[k - 1].end <= l.start, k < Len(timed) => l.end <= timed[k + 1].start
  PROVE  LET r == Reflowed(k, l)
         IN  /\ r \in LineRecords /\ r.words = l.words
             /\ k > 1 => timed[k - 1].end <= r.start
             /\ k < Len(timed) => r.end <= timed[k + 1].start
             /\ TooFast(r, LineDuration(r)) => r.review
<1> DEFINE room == IF k = Len(timed) THEN MaxDuration ELSE timed[k + 1].start - MinGap - l.end
<1> DEFINE end == IF room > 0 THEN Min({l.end + room, l.start + MaxDuration}) ELSE l.end
<1> DEFINE before == IF k = 1 THEN l.start ELSE l.start - timed[k - 1].end - MinGap
<1> DEFINE start == IF TooFast(l, end - l.start) /\ before > 0
                    THEN Max({l.start - before, end - MaxDuration}) ELSE l.start
<1> DEFINE review == l.review \/ TooFast(l, end - start)
<1>1. /\ l.start \in Int /\ l.end \in Int /\ l.chars \in Nat /\ l.review \in BOOLEAN
      /\ l.words \in Seq(WordRecords) /\ l = [words |-> l.words, start |-> l.start, end |-> l.end, chars |-> l.chars, review |-> l.review]
  BY DEF LineRecords
<1>2. MinGap \in Nat /\ MaxDuration \in Nat
  BY SegmenterAssumption
<1>3. \A i \in 1..Len(timed) : timed[i].start \in Int /\ timed[i].end \in Int
  <2>1. \A i \in 1..Len(timed) : timed[i] \in LineRecords
    OBVIOUS
  <2>2. \A x \in LineRecords : x.start \in Int /\ x.end \in Int
    BY DEF LineRecords
  <2> QED BY <2>1, <2>2
<1>4. Reflowed(k, l) = [l EXCEPT !.start = start, !.end = end, !.review = review]
  BY DEF Reflowed
<1>5. room \in Int /\ (k < Len(timed) => room <= timed[k + 1].start - l.end)
  <2>1. Len(timed) \in Nat
    OBVIOUS
  <2>2. k # Len(timed) => k < Len(timed) /\ k + 1 \in 1..Len(timed)
    BY <2>1
  <2> QED BY <1>1, <1>2, <1>3, <2>1, <2>2
<1> HIDE DEF room
<1>6. end \in Int /\ (k < Len(timed) => end <= timed[k + 1].start)
  <2>1. /\ Min({l.end + room, l.start + MaxDuration}) \in Int
        /\ Min({l.end + room, l.start + MaxDuration}) <= l.end + room
    <3>1. PICK a \in Int, b \in Int : a = l.end + room /\ b = l.start + MaxDuration
      BY <1>1, <1>2, <1>5
    <3>2. Min({a, b}) \in Int /\ Min({a, b}) <= a
      BY LeastOfTwo
    <3> QED BY <3>1, <3>2
  <2>2. k < Len(timed) => timed[k + 1].start \in Int
    <3>1. k < Len(timed) => k + 1 \in 1..Len(timed)
      OBVIOUS
    <3> QED BY <1>3, <3>1
  <2> QED BY <1>1, <1>5, <2>1, <2>2
<1>7. before \in Int /\ (k > 1 => before <= l.start - timed[k - 1].end)
  <2>1. k # 1 => k - 1 \in 1..Len(timed)
    OBVIOUS
  <2> QED BY <1>1, <1>2, <1>3, <2>1
<1> HIDE DEF end, before
<1>8. start \in Int /\ (k > 1 => timed[k - 1].end <= start)
  <2>1. /\ Max({l.start - before, end - MaxDuration}) \in Int
        /\ Max({l.start - before, end - MaxDuration}) >= l.start - before
    <3>1. PICK a \in Int, b \in Int : a = l.start - before /\ b = end - MaxDuration
      BY <1>1, <1>2, <1>6, <1>7
    <3>2. Max({a, b}) \in Int /\ Max({a, b}) >= a
      BY LeastOfTwo
    <3> QED BY <3>1, <3>2
  <2>2. k > 1 => timed[k - 1].end \in Int
    <3>1. k > 1 => k - 1 \in 1..Len(timed)
      OBVIOUS
    <3> QED BY <1>3, <3>1
  <2> QED BY <1>1, <1>7, <2>1, <2>2
<1> HIDE DEF start
<1>9. TooFast(l, end - start) => review
  OBVIOUS
<1>10. review \in BOOLEAN
  BY <1>1 DEF TooFast
<1> HIDE DEF review
<1>11. Reflowed(k, l) = [words |-> l.words, start |-> start, end |-> end, chars |-> l.chars, review |-> review]
  BY <1>1, <1>4
<1>12. PICK r : r = Reflowed(k, l)
  OBVIOUS
<1>13. r.start = start /\ r.end = end /\ r.chars = l.chars /\ r.review = review /\ r.words = l.words /\ r \in LineRecords
  BY <1>1, <1>6, <1>8, <1>10, <1>11, <1>12 DEF LineRecords
<1>14. TooFast(r, LineDuration(r)) => r.review
  BY <1>9, <1>13 DEF TooFast, LineDuration
<1> QED
  BY <1>6, <1>8, <1>12, <1>13, <1>14

\* An iteration of Reflow.
LEMMA ReflowKeeps ==
  ASSUME SegmenterInv, NEW length \in TranslatedLengths, ReflowLine(length)
  PROVE  SegmenterInv'
<1>1. /\ segAt = "reflow" /\ segAt' = "reflow" /\ cut = <<>> /\ pending = <<>> /\ stream # <<>>
      /\ UNCHANGED <<segAt, stream, pending, cut, head>> /\ timed \in Seq(LineRecords)
      /\ Len(head) <= 1 /\ (head # <<>> => timed = <<>>)
      /\ ordinal \in Nat \ {0} /\ ordinal <= Len(timed) /\ ordinal' = ordinal + 1
  BY DEF SegmenterInv, SegmenterTyped, Phases, ReflowLine
<1>2. ordinal \in 1..Len(timed) /\ timed # <<>> /\ head = <<>> /\ Len(timed) \in Nat
  BY <1>1
<1>3. PICK old \in LineRecords : old = timed[ordinal]
  BY <1>1, <1>2
<1>4. PICK l : l = [old EXCEPT !.chars = length]
  OBVIOUS
<1>5. l \in LineRecords /\ l.words = old.words /\ l.start = old.start /\ l.end = old.end
  BY <1>4, SegmenterAssumption DEF LineRecords
<1>6. \A k \in 1..(Len(timed) - 1) : timed[k].end <= timed[k + 1].start
  BY DEF SegmenterInv, LinesDoNotOverlap
<1>7. /\ ordinal > 1 => timed[ordinal - 1].end <= l.start
      /\ ordinal < Len(timed) => l.end <= timed[ordinal + 1].start
  <2>1. ordinal > 1 => ordinal - 1 \in 1..(Len(timed) - 1) /\ (ordinal - 1) + 1 = ordinal
    BY <1>2
  <2>2. ordinal < Len(timed) => ordinal \in 1..(Len(timed) - 1)
    BY <1>2
  <2> QED BY <1>3, <1>5, <1>6, <2>1, <2>2
<1>8. PICK new : new = IF TooFast(l, LineDuration(l)) THEN Reflowed(ordinal, l) ELSE l
  OBVIOUS
<1>9. timed' = [timed EXCEPT ![ordinal] = new]
  BY <1>3, <1>4, <1>8 DEF ReflowLine
<1>10. /\ new \in LineRecords /\ new.words = old.words
       /\ ordinal > 1 => timed[ordinal - 1].end <= new.start
       /\ ordinal < Len(timed) => new.end <= timed[ordinal + 1].start
       /\ TooFast(new, LineDuration(new)) => new.review
  <2>1. CASE TooFast(l, LineDuration(l))
    <3>1. PICK r : r = Reflowed(ordinal, l)
      OBVIOUS
    <3>2. /\ r \in LineRecords /\ r.words = l.words
          /\ ordinal > 1 => timed[ordinal - 1].end <= r.start
          /\ ordinal < Len(timed) => r.end <= timed[ordinal + 1].start
          /\ TooFast(r, LineDuration(r)) => r.review
      BY <1>1, <1>2, <1>5, <1>7, <3>1, ReflowedLine
    <3> QED BY <1>5, <1>8, <2>1, <3>1, <3>2
  <2>2. CASE ~TooFast(l, LineDuration(l))
    BY <1>5, <1>7, <1>8, <2>2
  <2> QED BY <2>1, <2>2
<1>11. /\ timed' \in Seq(LineRecords) /\ Len(timed') = Len(timed)
       /\ timed'[ordinal] = new /\ \A k \in 1..Len(timed) : k # ordinal => timed'[k] = timed[k]
  BY <1>1, <1>2, <1>9, <1>10, ExceptSeq
<1>12. WordsOf(timed') = WordsOf(timed)
  <2>1. \A k \in 1..Len(timed) : timed'[k].words = timed[k].words
    BY <1>3, <1>10, <1>11
  <2>2. [k \in 1..Len(timed') |-> timed'[k].words] = [k \in 1..Len(timed) |-> timed[k].words]
    BY <1>11, <2>1
  <2> QED BY <2>2 DEF WordsOf
<1>13. SegmenterTyped'
  BY <1>1, <1>11 DEF SegmenterInv, SegmenterTyped
<1>14. Phases'
  BY <1>1, <1>2 DEF SegmenterInv, Phases
<1>15. ShownWhenHeard'
  BY <1>1 DEF ShownWhenHeard
<1>16. WordsAreKept'
  <2>1. Kept' = Kept
    <3>1. WordsOf(cut') = WordsOf(cut)
      BY <1>1
    <3> QED BY <1>1, <1>12, <3>1 DEF Kept
  <2> QED BY <1>1, <2>1 DEF SegmenterInv, WordsAreKept
<1>17. OnlyBriefIsLost'
  <2>1. WordsOf(timed) = stream
    BY <1>1, <1>2 DEF SegmenterInv, OnlyBriefIsLost
  <2> QED BY <1>1, <1>12, <2>1 DEF OnlyBriefIsLost
<1>18. LinesDoNotOverlap'
  <2> SUFFICES ASSUME NEW k \in 1..(Len(timed) - 1) PROVE timed'[k].end <= timed'[k + 1].start
    BY <1>11 DEF LinesDoNotOverlap
  <2>1. k \in 1..Len(timed) /\ k + 1 \in 1..Len(timed)
    BY <1>2
  <2>2. CASE k = ordinal
    <3>1. ordinal < Len(timed) /\ k + 1 # ordinal
      BY <1>2, <2>2
    <3> QED BY <1>10, <1>11, <2>1, <2>2, <3>1
  <2>3. CASE k + 1 = ordinal
    <3>1. ordinal > 1 /\ ordinal - 1 = k /\ k # ordinal
      BY <1>2, <2>3
    <3> QED BY <1>10, <1>11, <2>1, <2>3, <3>1
  <2>4. CASE k # ordinal /\ k + 1 # ordinal
    BY <1>6, <1>11, <2>1, <2>4
  <2> QED BY <2>2, <2>3, <2>4
<1>19. MarkedSoFar'
  <2> SUFFICES ASSUME NEW k \in 1..Len(timed), k < ordinal + 1, TooFast(timed'[k], LineDuration(timed'[k]))
               PROVE  timed'[k].review
    BY <1>1, <1>11 DEF MarkedSoFar, TooFast, LineDuration
  <2>1. CASE k = ordinal
    BY <1>10, <1>11, <2>1
  <2>2. CASE k # ordinal
    <3>1. k < ordinal /\ timed'[k] = timed[k]
      BY <1>2, <1>11, <2>2
    <3>2. TooFast(timed[k], LineDuration(timed[k]))
      BY <3>1
    <3> QED BY <3>1, <3>2 DEF SegmenterInv, MarkedSoFar
  <2> QED BY <2>1, <2>2
<1> QED
  BY <1>13, <1>14, <1>15, <1>16, <1>17, <1>18, <1>19 DEF SegmenterInv

\* The end of Reflow.
LEMMA TimedKeeps ==
  ASSUME SegmenterInv, Timed
  PROVE  SegmenterInv'
<1>1. /\ segAt = "reflow" /\ segAt' = "done" /\ ordinal > Len(timed)
      /\ UNCHANGED <<stream, pending, cut, head, timed, ordinal>>
  BY DEF Timed
<1>2. ordinal \in Nat /\ Len(timed) \in Nat
  BY DEF SegmenterInv, SegmenterTyped
<1>3. SegmenterTyped'
  BY <1>1 DEF SegmenterInv, SegmenterTyped
<1>4. Phases'
  BY <1>1, <1>2 DEF SegmenterInv, Phases, LineDuration
<1>5. ShownWhenHeard'
  BY <1>1 DEF ShownWhenHeard
<1>6. WordsAreKept' /\ LinesDoNotOverlap' /\ MarkedSoFar' /\ OnlyBriefIsLost'
  BY <1>1 DEF SegmenterInv, WordsAreKept, Kept, WordsOf, LinesDoNotOverlap, MarkedSoFar, OnlyBriefIsLost,
              TooFast, LineDuration, Last
<1> QED
  BY <1>3, <1>4, <1>5, <1>6 DEF SegmenterInv

\* Every step of Build and Reflow keeps the invariant.
LEMMA SegmenterStep == SegmenterInv /\ [SegmenterNext]_segmenterVars => SegmenterInv'
<1> SUFFICES ASSUME SegmenterInv, [SegmenterNext]_segmenterVars PROVE SegmenterInv'
  OBVIOUS
<1>1. CASE UNCHANGED segmenterVars
  BY <1>1 DEF segmenterVars, SegmenterInv, SegmenterTyped, Phases, ShownWhenHeard, OnScreen, HeldLines, InOrder, SameSpan,
              MarkedSoFar, WordsAreKept, Kept, WordsOf, OnlyBriefIsLost, LinesDoNotOverlap, TooFast, LineDuration, Last
<1> QED
  BY <1>1, HearKeeps, FlushKeeps, MergeKeeps, MergeEndsKeeps, ReflowKeeps, TimedKeeps DEF SegmenterNext

\* Build and Reflow, for any recording, limits and translation: the lines hold
\* the words in their order, all of them unless the whole recording is shorter
\* than a line may be; they do not overlap, and a line that cannot be read in
\* its time is marked.
THEOREM LinesStaySound == SegmenterSpec => []LinesAreSound
<1>1. SegmenterInv => LinesAreSound
  <2>1. SegmenterInv => UnreadableIsMarked
    <3> SUFFICES ASSUME SegmenterInv, segAt = "done" PROVE \A k \in 1..Len(timed) : k < ordinal
      BY DEF SegmenterInv, MarkedSoFar, UnreadableIsMarked
    <3> QED BY DEF SegmenterInv, SegmenterTyped, Phases
  <2> QED BY <2>1 DEF SegmenterInv, LinesAreSound
<1> QED
  BY <1>1, SegmenterStarts, SegmenterStep, PTL DEF SegmenterSpec

-----------------------------------------------------------------------------
(* Segments: the invariant *)

\* A translation: who wrote it, and which words it renders.
Texts == [by : {"nobody", "model", "human"}, of : Seq(Nat)]

\* A row of the table.
RowRecords == [words : Seq(Nat), src : Seq(Nat), text : Texts, edited : BOOLEAN, needs : BOOLEAN, state : ReviewStates]

\* What a request remembers.
Requested == [at : {"idle", "look", "ask", "get", "second", "put", "done"}, op : Ops \cup {"none"}, id : Nat,
              text : Texts, rec : RowRecords, next : RowRecords]

\* A text of the model is that of the row's own source.
Fits(row) == ~row.edited => row.text \in {NilText, [by |-> "model", of |-> row.src]}

\* The rows whose text fits.
FitRecords == {v \in RowRecords : Fits(v)}

\* A request that has begun and not ended.
Busy(v) == v.at \notin {"idle", "done"}

\* However requests and runs interleave.
RowsAre == rows \in [DOMAIN rows -> FitRecords] /\ IsFiniteSet(DOMAIN rows) /\ DOMAIN rows \subseteq Nat \ {0}

\* The requests, and that each busy one names a row.
RequestsAre == req \in [Requests -> Requested] /\ \A r \in Requests : Busy(req[r]) => req[r].id # 0

\* The rows a request may change, from when it begins.
TouchedBy(v) ==
  CASE v.op = "merge" -> {v.id, v.id + 1}
    [] v.op = "mergePrevious" -> IF v.at = "look" THEN {v.id - 1, v.id} ELSE {v.id, v.id + 1}
    [] v.op = "other" -> {}
    [] OTHER -> {v.id}

\* What a request knows of the rows while nothing else changes them.
Knows(v, table) ==
  /\ v.id \in DOMAIN table /\ v.op # "none"
  /\ v.op = "text" => v.text = [by |-> "human", of |-> table[v.id].src]
  /\ v.at = "look" => v.op = "mergePrevious"
  /\ v.at = "ask" => v.op = "retranslate"
  /\ v.at = "second" => v.op \in {"merge", "mergePrevious"}
  /\ v.at \in {"second", "put"} => v.rec = table[v.id]
  /\ v.at = "put" /\ v.op \in {"merge", "mergePrevious"} =>
       v.id + 1 \in DOMAIN table /\ v.next = table[v.id + 1]

\* Without interleaving one request at most is busy, and what it read is so.
OneAtATime ==
  /\ \A r, q \in Requests : Busy(req[r]) /\ Busy(req[q]) => r = q
  /\ \A r \in Requests : Busy(req[r]) => Knows(req[r], rows)

\* The source of each row.
SrcsOf(table) == [o \in DOMAIN table |-> table[o].src]

\* The source words of a sequence of rows.
FlatOf(p) == FlattenSeq(SrcsOf(p))

\* Rows without a gap that render the words of lines, each by its own words.
Renders(table, lines) ==
  /\ table \in Seq(RowRecords)
  /\ \A o \in DOMAIN table : table[o].words = table[o].src /\ Ascends(table[o].words)
  /\ FlatOf(table) = FlattenSeq(lines)

\* A text is held by the row it was written for.
HeldIn(table, t) == \E o \in DOMAIN table : table[o].text = t /\ table[o].src = t.of /\ table[o].edited

\* No row at the places holds one of the texts.
Free(table, places, texts) == \A o \in places \cap DOMAIN table : table[o].text \notin texts

\* Every text of a person is held, outside the rows that a request may
\* change.
AuthoredAreHeld ==
  /\ \A t \in authored : HeldIn(rows, t)
  /\ \A r \in Requests : Busy(req[r]) => Free(rows, TouchedBy(req[r]), authored)

\* The inductive invariant: the first conjuncts however requests and runs
\* interleave, the rest when they do not.
SegmentsInv ==
  /\ RowsAre /\ RequestsAre /\ runs \in Nat
  /\ ~overlap => /\ OneAtATime /\ Renders(rows, script) /\ (runs = 0 => DOMAIN rows = {})
                 /\ ~reshaped => AuthoredAreHeld

-----------------------------------------------------------------------------
(* Segments: the rows in their order, and what a splice leaves *)

\* The source words of rows, one group after the other.
LEMMA FlatOfRows ==
  ASSUME NEW p \in Seq(RowRecords), NEW q \in Seq(RowRecords)
  PROVE  FlatOf(p) \in Seq(Nat) /\ FlatOf(p \o q) = FlatOf(p) \o FlatOf(q)
<1>1. PICK f \in [RowRecords -> Seq(Nat)] : \A v \in RowRecords : f[v] = v.src
  <2>1. [v \in RowRecords |-> v.src] \in [RowRecords -> Seq(Nat)]
    BY DEF RowRecords
  <2> QED BY <2>1
<1>2. ASSUME NEW u \in Seq(RowRecords) PROVE PartsOf(f, u) = SrcsOf(u)
  <2>1. DOMAIN u = 1..Len(u) /\ \A k \in 1..Len(u) : u[k] \in RowRecords
    OBVIOUS
  <2>2. \A k \in 1..Len(u) : f[u[k]] = u[k].src
    BY <1>1, <2>1
  <2> QED BY <2>1, <2>2 DEF SrcsOf, PartsOf
<1>3. p \o q \in Seq(RowRecords)
  OBVIOUS
<1>4. /\ FlattenSeq(PartsOf(f, p)) \in Seq(Nat)
      /\ FlattenSeq(PartsOf(f, p \o q)) = FlattenSeq(PartsOf(f, p)) \o FlattenSeq(PartsOf(f, q))
  <2>1. IsPart(f, RowRecords, Nat)
    BY DEF IsPart
  <2> QED BY <2>1, FlattenParts
<1> QED
  BY <1>2, <1>3, <1>4 DEF FlatOf

\* The source words of one row.
LEMMA FlatOfOne ==
  ASSUME NEW v \in RowRecords
  PROVE  FlatOf(<<v>>) = v.src
<1>1. SrcsOf(<<v>>) = <<v.src>>
  BY DEF SrcsOf
<1>2. v.src \in Seq(Nat)
  BY DEF RowRecords
<1> QED BY <1>1, <1>2, FlattenOne DEF FlatOf

\* The rows from a place on, in their order, when there is no gap.
LEMMA OrderedTail ==
  ASSUME NEW V, NEW q \in Seq(V), NEW a \in 1..(Len(q) + 1)
  PROVE  Ordered([o \in {p \in DOMAIN q : p >= a} |-> q[o]]) = SubSeq(q, a, Len(q))
<1> DEFINE n == Len(q)
<1> DEFINE D == {p \in DOMAIN q : p >= a}
<1> DEFINE table == [o \in D |-> q[o]]
<1>1. n \in Nat /\ DOMAIN q = 1..n
  OBVIOUS
<1> HIDE DEF n
<1>2. D = a..n
  BY <1>1 DEF n
<1>3. a \in Nat /\ a >= 1 /\ a <= n + 1
  BY <1>1 DEF n
<1>4. \A o \in a..n : {p \in D : p < o} = a..(o - 1)
  BY <1>1, <1>2, <1>3
<1> HIDE DEF D
<1>5. Cardinality(D) = n - a + 1
  <2>1. Cardinality(a..n) = IF a > n THEN 0 ELSE n - a + 1
    BY <1>1, <1>3, FS_Interval
  <2>2. a > n => n - a + 1 = 0
    BY <1>1, <1>3
  <2> QED BY <1>2, <2>1, <2>2
<1>6. ASSUME NEW o \in a..n PROVE Cardinality({p \in D : p < o}) = o - a
  <2>1. o \in Int /\ o - 1 \in Int /\ a \in Int
    BY <1>1, <1>3
  <2>2. Cardinality(a..(o - 1)) = IF a > o - 1 THEN 0 ELSE (o - 1) - a + 1
    BY <2>1, FS_Interval
  <2>3. (a > o - 1 => o - a = 0) /\ (o - 1) - a + 1 = o - a
    BY <1>1, <1>3
  <2> QED BY <1>4, <2>2, <2>3
<1>7. ASSUME NEW i \in 1..(n - a + 1)
      PROVE  (CHOOSE o \in D : Cardinality({p \in D : p < o}) = i - 1) = a + i - 1
  <2>1. a + i - 1 \in a..n /\ (a + i - 1) - a = i - 1
    BY <1>1, <1>3
  <2>2. \A o \in D : Cardinality({p \in D : p < o}) = i - 1 <=> o = a + i - 1
    <3> SUFFICES ASSUME NEW o \in a..n PROVE o - a = i - 1 <=> o = a + i - 1
      BY <1>2, <1>6
    <3> QED BY <1>1, <1>3
  <2> QED BY <1>2, <2>1, <2>2
<1>8. DOMAIN table = D /\ \A o \in D : table[o] = q[o]
  OBVIOUS
<1> HIDE DEF table
<1>9. Ordered(table) = [i \in 1..(n - a + 1) |-> q[a + i - 1]]
  <2>1. Ordered(table) = [i \in 1..(n - a + 1) |-> table[CHOOSE o \in D : Cardinality({p \in D : p < o}) = i - 1]]
    BY <1>5, <1>8 DEF Ordered
  <2>2. ASSUME NEW i \in 1..(n - a + 1)
        PROVE  table[CHOOSE o \in D : Cardinality({p \in D : p < o}) = i - 1] = q[a + i - 1]
    <3>1. a + i - 1 \in D
      BY <1>1, <1>2, <1>3
    <3> QED BY <1>7, <1>8, <3>1
  <2> QED BY <2>1, <2>2
<1>10. SubSeq(q, a, n) = [i \in 1..(n - a + 1) |-> q[a + i - 1]]
  BY <1>1, <1>3 DEF n
<1> QED
  BY <1>9, <1>10 DEF table, D, n

\* Rows that are numbered from 1 without a gap are a sequence, and a splice
\* replaces a part of it.
LEMMA SplicedSequence ==
  ASSUME rows \in Seq(RowRecords), NEW place \in Nat, NEW m \in Nat, 1 <= place, place + m <= Len(rows) + 1,
         NEW new \in Seq(RowRecords)
  PROVE  Spliced(place, m, new) = SubSeq(rows, 1, place - 1) \o new \o SubSeq(rows, place + m, Len(rows))
<1>1. PICK n \in Nat : n = Len(rows) /\ DOMAIN rows = 1..n
  OBVIOUS
<1>2. /\ place \in Nat /\ place >= 1 /\ place <= n + 1 /\ m \in Nat
      /\ place + m \in 1..(n + 1) /\ place - 1 \in 0..n /\ place - 1 \in Nat
  <2>1. place <= n + 1 /\ place - 1 \in Nat
    BY <1>1
  <2> QED BY <1>1, <2>1
<1>3. PICK A \in Seq(RowRecords) : A = SubSeq(rows, 1, place - 1)
  <2>1. PICK h \in Nat : h = place - 1 /\ h <= n
    BY <1>2
  <2>2. SubSeq(rows, 1, h) \in Seq(RowRecords)
    BY <1>1, <2>1
  <2> QED BY <2>1, <2>2
<1>4. Len(A) = place - 1 /\ \A o \in 1..(place - 1) : A[o] = rows[o]
  BY <1>1, <1>2, <1>3
<1>5. PICK B \in Seq(RowRecords) : B = SubSeq(rows, place + m, n)
  <2>1. PICK h \in 1..(n + 1) : h = place + m
    BY <1>2
  <2>2. SubSeq(rows, h, n) \in Seq(RowRecords)
    BY <1>1, <2>1
  <2> QED BY <2>1, <2>2
<1>6. Ordered([o \in {p \in DOMAIN rows : p >= place + m} |-> rows[o]]) = B
  BY <1>1, <1>2, <1>5, OrderedTail
<1>7. PICK tail \in Seq(RowRecords) : tail = new \o B
  <2>1. new \o B \in Seq(RowRecords)
    BY <1>5, ConcatProperties
  <2> QED BY <2>1
<1>8. Spliced(place, m, new) =
        [o \in {o \in DOMAIN rows : o < place} \cup {place + i - 1 : i \in DOMAIN tail} |->
           IF o \in {p \in DOMAIN rows : p < place} THEN rows[o] ELSE tail[o - place + 1]]
  BY <1>6, <1>7 DEF Spliced
<1>9. PICK k \in Nat : k = Len(tail) /\ DOMAIN tail = 1..k
  OBVIOUS
<1>10. {o \in DOMAIN rows : o < place} = 1..(place - 1)
  BY <1>1, <1>2
<1>11. {place + i - 1 : i \in 1..k} = place..(place - 1 + k)
  <2>1. ASSUME NEW o \in place..(place - 1 + k) PROVE o \in {place + i - 1 : i \in 1..k}
    <3>1. o - place + 1 \in 1..k /\ place + (o - place + 1) - 1 = o
      BY <1>2, <1>9
    <3> QED BY <3>1
  <2>2. ASSUME NEW i \in 1..k PROVE place + i - 1 \in place..(place - 1 + k)
    BY <1>2, <1>9
  <2> QED BY <2>1, <2>2
<1>12. 1..(place - 1) \cup place..(place - 1 + k) = 1..(place - 1 + k)
  BY <1>2, <1>9
<1>13. PICK S : S = A \o tail
  OBVIOUS
<1>14. /\ S \in Seq(RowRecords) /\ Len(S) = place - 1 + k
       /\ \A o \in 1..(place - 1 + k) : S[o] = IF o <= place - 1 THEN A[o] ELSE tail[o - (place - 1)]
  <2>1. S \in Seq(RowRecords) /\ Len(S) = Len(A) + Len(tail)
        /\ \A o \in 1..(Len(A) + Len(tail)) : S[o] = IF o <= Len(A) THEN A[o] ELSE tail[o - Len(A)]
    BY <1>3, <1>7, <1>13, ConcatProperties
  <2> QED BY <1>4, <1>9, <2>1, Zenon
<1>15. S = [o \in 1..(place - 1 + k) |-> IF o \in 1..(place - 1) THEN rows[o] ELSE tail[o - place + 1]]
  <2>1. S = [o \in 1..(place - 1 + k) |-> S[o]]
    BY <1>14
  <2>2. ASSUME NEW o \in 1..(place - 1 + k)
        PROVE  S[o] = IF o \in 1..(place - 1) THEN rows[o] ELSE tail[o - place + 1]
    <3>1. o <= place - 1 <=> o \in 1..(place - 1)
      BY <1>2
    <3>2. o - (place - 1) = o - place + 1
      BY <1>2
    <3> QED BY <1>4, <1>14, <3>1, <3>2
  <2> QED BY <2>1, <2>2
<1>16. Spliced(place, m, new) = S
  BY <1>8, <1>9, <1>10, <1>11, <1>12, <1>15, Zenon
<1>17. A \o (new \o B) = (A \o new) \o B
  BY ThreeInSeq
<1> QED
  BY <1>1, <1>3, <1>5, <1>7, <1>13, <1>16, <1>17

\* The rows in their order are a sequence of rows, gaps or not.
LEMMA OrderedIsSeq ==
  ASSUME NEW V, NEW table, IsFiniteSet(DOMAIN table), DOMAIN table \subseteq Nat, \A o \in DOMAIN table : table[o] \in V
  PROVE  Ordered(table) \in Seq(V)
<1> DEFINE D == DOMAIN table
<1> DEFINE place(i) == CHOOSE o \in D : Cardinality({p \in D : p < o}) = i - 1
<1>1. Cardinality(D) \in Nat /\ \A i \in 1..Cardinality(D) : \E o \in D : Cardinality({p \in D : p < o}) = i - 1
  <2> DEFINE R == {p \in Nat \X Nat : p[1] < p[2]}
  <2>1. \A o, p \in D : <<p, o>> \in R <=> p < o
    <3> SUFFICES ASSUME NEW o \in Nat, NEW p \in Nat PROVE <<p, o>> \in R <=> p < o
      OBVIOUS
    <3> QED OBVIOUS
  <2>2. Orders(R, D)
    <3> HIDE DEF R
    <3>1. \A a \in D : ~(a < a)
      OBVIOUS
    <3>2. \A a, b \in D : a # b => a < b \/ b < a
      <4> SUFFICES ASSUME NEW a \in Nat, NEW b \in Nat PROVE a # b => a < b \/ b < a
        OBVIOUS
      <4> QED OBVIOUS
    <3>3. \A a, b, c \in D : a < b /\ b < c => a < c
      <4> SUFFICES ASSUME NEW a \in Nat, NEW b \in Nat, NEW c \in Nat PROVE a < b /\ b < c => a < c
        OBVIOUS
      <4> QED OBVIOUS
    <3> HIDE DEF D
    <3> QED BY <2>1, <3>1, <3>2, <3>3, Zenon DEF Orders
  <2>3. \A o \in D : Rank(R, D, o) = Cardinality({p \in D : p < o})
    <3> SUFFICES ASSUME NEW o \in D PROVE {p \in D : <<p, o>> \in R} = {p \in D : p < o}
      BY DEF Rank
    <3> HIDE DEF R
    <3> QED BY <2>1
  <2>4. /\ Cardinality(D) \in Nat
        /\ \A i \in 1..Cardinality(D) : \E o \in D : Rank(R, D, o) = i - 1
    <3> HIDE DEF R, D
    <3>1. IsFiniteSet(D)
      BY DEF D
    <3> QED BY <2>2, <3>1, Ranking
  <2> HIDE DEF R
  <2> QED BY <2>3, <2>4
<1>2. ASSUME NEW i \in 1..Cardinality(D) PROVE table[place(i)] \in V
  <2>1. place(i) \in D
    BY <1>1
  <2> QED BY <2>1
<1> DEFINE n == Cardinality(D)
<1>3. Ordered(table) = [i \in 1..n |-> table[place(i)]]
  BY DEF Ordered
<1> HIDE DEF D, place
<1>4. n \in Nat
  BY <1>1
<1>5. \A i \in 1..n : table[place(i)] \in V
  BY <1>2
<1> HIDE DEF n
<1> QED
  BY <1>3, <1>4, <1>5

\* What a splice leaves are the rows before it, the replacement and the rows
\* it numbered again.
LEMMA SplicedRows ==
  ASSUME NEW V, rows \in [DOMAIN rows -> V], IsFiniteSet(DOMAIN rows), DOMAIN rows \subseteq Nat \ {0},
         NEW place \in Nat \ {0}, NEW m \in Nat, NEW new \in Seq(V), NEW t, t = Spliced(place, m, new)
  PROVE  t \in [DOMAIN t -> V] /\ IsFiniteSet(DOMAIN t) /\ DOMAIN t \subseteq Nat \ {0}
<1>1. PICK kept : kept = {o \in DOMAIN rows : o < place}
  OBVIOUS
<1>2. PICK rest : rest = [o \in {p \in DOMAIN rows : p >= place + m} |-> rows[o]]
  OBVIOUS
<1>3. Ordered(rest) \in Seq(V)
  <2>1. DOMAIN rest \in SUBSET DOMAIN rows /\ \A o \in DOMAIN rest : rest[o] = rows[o]
    BY <1>2
  <2>2. IsFiniteSet(DOMAIN rest)
    BY <2>1, FS_Subset
  <2>3. DOMAIN rest \subseteq Nat /\ \A o \in DOMAIN rest : rest[o] \in V
    BY <2>1
  <2> QED BY <2>2, <2>3, OrderedIsSeq
<1>4. PICK q \in Seq(V) : q = new \o Ordered(rest)
  BY <1>3, ConcatProperties
<1>5. t = [o \in kept \cup {place + i - 1 : i \in DOMAIN q} |-> IF o \in kept THEN rows[o] ELSE q[o - place + 1]]
  BY <1>1, <1>2, <1>4 DEF Spliced
<1>6. PICK k \in Nat : k = Len(q) /\ DOMAIN q = 1..k
  OBVIOUS
<1>7. PICK D : D = {place + i - 1 : i \in 1..k}
  OBVIOUS
<1>8. \A o \in D : o \in Nat /\ o # 0 /\ o - place + 1 \in 1..k
  <2> SUFFICES ASSUME NEW i \in 1..k PROVE place + i - 1 \in Nat /\ place + i - 1 # 0 /\ (place + i - 1) - place + 1 \in 1..k
    BY <1>7
  <2> QED BY <1>6
<1>9. IsFiniteSet(D)
  <2>1. D \subseteq place..(place + k)
    <3> SUFFICES ASSUME NEW i \in 1..k PROVE place + i - 1 \in place..(place + k)
      BY <1>7
    <3> QED BY <1>6
  <2>2. IsFiniteSet(place..(place + k))
    <3>1. place \in Int /\ place + k \in Int
      BY <1>6
    <3> QED BY <3>1, FS_Interval
  <2> QED BY <2>1, <2>2, FS_Subset
<1>10. IsFiniteSet(kept) /\ kept \subseteq Nat \ {0}
  <2>1. kept \in SUBSET DOMAIN rows
    BY <1>1
  <2> QED BY <2>1, FS_Subset
<1>11. DOMAIN t = kept \cup D
  BY <1>5, <1>6, <1>7
<1>12. ASSUME NEW o \in kept \cup D PROVE t[o] \in V
  <2>1. t[o] = IF o \in kept THEN rows[o] ELSE q[o - place + 1]
    BY <1>5, <1>6, <1>7
  <2>2. CASE o \in kept
    BY <1>1, <2>1, <2>2
  <2>3. CASE o \notin kept
    <3>1. o - place + 1 \in DOMAIN q
      BY <1>6, <1>8, <2>3
    <3>2. q[o - place + 1] \in V
      BY <3>1, ElementOfSeq, <1>6
    <3> QED BY <2>1, <2>3, <3>2
  <2> QED BY <2>2, <2>3
<1>13. t \in [DOMAIN t -> V]
  BY <1>5, <1>11, <1>12
<1>14. IsFiniteSet(kept \cup D)
  BY <1>9, <1>10, FS_Union
<1> QED
  BY <1>8, <1>10, <1>11, <1>13, <1>14

-----------------------------------------------------------------------------
(* Segments: the rows that requests and runs make *)

\* The texts that requests and runs make.
LEMMA TextsAre ==
  /\ NilText \in Texts
  /\ \A w \in Seq(Nat) : [by |-> "model", of |-> w] \in Texts /\ [by |-> "human", of |-> w] \in Texts
  /\ \A t, u \in Texts : Joined(t, u) \in Texts
<1>1. <<>> \in Seq(Nat)
  OBVIOUS
<1>2. NilText \in Texts
  BY <1>1 DEF NilText, Texts
<1>3. ASSUME NEW t \in Texts, NEW u \in Texts PROVE Joined(t, u) \in Texts
  <2>1. PICK b : b = IF t.by = u.by THEN t.by ELSE "human"
    OBVIOUS
  <2>2. b \in {"nobody", "model", "human"}
    BY <2>1 DEF Texts
  <2>3. PICK w \in Seq(Nat) : w = t.of \o u.of
    <3>1. t.of \in Seq(Nat) /\ u.of \in Seq(Nat)
      BY DEF Texts
    <3> QED BY <3>1, ConcatProperties
  <2>4. [by |-> b, of |-> w] \in Texts
    BY <2>2 DEF Texts
  <2>5. Joined(t, u) = IF t = NilText THEN u ELSE IF u = NilText THEN t ELSE [by |-> b, of |-> w]
    BY <2>1, <2>3 DEF Joined
  <2> HIDE DEF Texts, NilText
  <2> QED BY <2>4, <2>5
<1> QED BY <1>2, <1>3 DEF Texts

\* Record: a line as a run stores it.
LEMMA LinesFit ==
  ASSUME NEW w \in Seq(Nat), NEW t \in {NilText, [by |-> "model", of |-> w]}
  PROVE  Line(w, t) \in FitRecords /\ Line(w, t).words = w /\ Line(w, t).src = w
<1>1. t \in Texts
  BY TextsAre
<1>2. PICK b \in BOOLEAN : b = (t = NilText)
  OBVIOUS
<1> DEFINE v == [words |-> w, src |-> w, text |-> t, edited |-> FALSE, needs |-> b, state |-> "none"]
<1>3. v = Line(w, t)
  BY <1>2 DEF Line
<1>4. v \in RowRecords /\ v.words = w /\ v.src = w /\ v.text = t /\ v.edited = FALSE
  BY <1>1 DEF RowRecords, ReviewStates
<1> HIDE DEF v
<1> QED BY <1>3, <1>4 DEF FitRecords, Fits

\* Split: a half has the words it is given and no text.
LEMMA HalvesFit ==
  ASSUME NEW v \in RowRecords, NEW w \in Seq(Nat)
  PROVE  /\ Half(v, w) \in FitRecords /\ Half(v, w).words = w /\ Half(v, w).src = w
<1>1. PICK t \in Texts : t = NilText
  BY TextsAre
<1> DEFINE h == [v EXCEPT !.words = w, !.src = w, !.text = t, !.edited = FALSE, !.needs = TRUE]
<1>2. h \in RowRecords /\ h.words = w /\ h.src = w /\ h.text = t
  BY DEF RowRecords
<1>3. h = Half(v, w)
  BY <1>1 DEF Half
<1> HIDE DEF h
<1> QED BY <1>1, <1>2, <1>3 DEF FitRecords, Fits

\* mergePair: the row has the words of both.
LEMMA MergedFits ==
  ASSUME NEW v \in RowRecords, NEW u \in RowRecords
  PROVE  /\ Merged(v, u) \in FitRecords
         /\ Merged(v, u).words = v.words \o u.words /\ Merged(v, u).src = v.words \o u.words
<1>1. PICK t \in Texts : t = Joined(v.text, u.text)
  BY TextsAre DEF RowRecords
<1>2. PICK w \in Seq(Nat) : w = v.words \o u.words
  <2>1. v.words \in Seq(Nat) /\ u.words \in Seq(Nat)
    BY DEF RowRecords
  <2> QED BY <2>1, ConcatProperties
<1>3. PICK b \in BOOLEAN : b = (v.needs \/ u.needs)
  OBVIOUS
<1> DEFINE h == [v EXCEPT !.words = w, !.src = w, !.text = t, !.needs = b, !.edited = TRUE]
<1>4. h \in RowRecords /\ h.words = w /\ h.src = w /\ h.edited = TRUE
  BY DEF RowRecords
<1>5. h = Merged(v, u)
  BY <1>1, <1>2, <1>3 DEF Merged
<1> HIDE DEF h
<1> QED BY <1>2, <1>4, <1>5 DEF FitRecords, Fits

\* The conflict clause: the words of the run, and the text of a person.
LEMMA ReplacedFits ==
  ASSUME NEW old \in FitRecords, NEW v \in FitRecords, v.edited = FALSE
  PROVE  /\ Replaced(old, v) \in FitRecords
         /\ Replaced(old, v).words = v.words /\ Replaced(old, v).src = v.src
         /\ old.edited => Replaced(old, v).edited /\ Replaced(old, v).text = old.text
<1>1. old \in RowRecords /\ v \in RowRecords /\ v.text \in Texts /\ old.text \in Texts
  BY DEF FitRecords, RowRecords
<1>2. PICK t \in Texts : t = IF old.edited THEN old.text ELSE v.text
  BY <1>1
<1> DEFINE h == [v EXCEPT !.text = t, !.edited = old.edited, !.state = old.state]
<1>3. /\ h \in RowRecords /\ h.words = v.words /\ h.src = v.src /\ h.text = t /\ h.edited = old.edited
  BY <1>1 DEF RowRecords
<1>4. h = Replaced(old, v)
  BY <1>2 DEF Replaced
<1> HIDE DEF h
<1>5. Fits(h)
  BY <1>2, <1>3 DEF Fits, FitRecords
<1> QED BY <1>2, <1>3, <1>4, <1>5 DEF FitRecords

\* SetReviewState changes neither words nor text.
LEMMA ReviewedFits ==
  ASSUME NEW v \in FitRecords, NEW st \in ReviewStates, NEW b \in BOOLEAN
  PROVE  LET u == [v EXCEPT !.state = st, !.needs = b]
         IN  u \in FitRecords /\ u.words = v.words /\ u.src = v.src /\ u.text = v.text /\ u.edited = v.edited
<1> DEFINE u == [v EXCEPT !.state = st, !.needs = b]
<1>1. v \in RowRecords /\ Fits(v)
  BY DEF FitRecords
<1>2. u \in RowRecords /\ u.words = v.words /\ u.src = v.src /\ u.text = v.text /\ u.edited = v.edited
  BY <1>1 DEF RowRecords
<1> HIDE DEF u
<1>3. u \in FitRecords
  BY <1>1, <1>2 DEF FitRecords, Fits
<1>4. u \in FitRecords /\ u.words = v.words /\ u.src = v.src /\ u.text = v.text /\ u.edited = v.edited
  BY <1>2, <1>3
<1> QED BY <1>4 DEF u

\* A splice of rows that are numbered without a gap: the transcript stays if
\* the replacement has the words of the rows it replaces.
LEMMA SplicedKeeps ==
  ASSUME rows \in Seq(RowRecords), NEW place \in Nat, NEW m \in Nat, 1 <= place, place + m <= Len(rows) + 1,
         NEW new \in Seq(RowRecords), FlatOf(new) = FlatOf(SubSeq(rows, place, place + m - 1)),
         NEW t, t = Spliced(place, m, new)
  PROVE  /\ t \in Seq(RowRecords) /\ FlatOf(t) = FlatOf(rows)
         /\ \A x : Holds(t, x) => Holds(rows, x) \/ Holds(new, x)
         /\ \A p \in DOMAIN rows : p \notin place..(place + m - 1) => Holds(t, rows[p])
<1>1. PICK n \in Nat : n = Len(rows) /\ DOMAIN rows = 1..n
  OBVIOUS
<1>2. PICK to \in Nat : to = place + m - 1 /\ place <= to + 1 /\ to <= n /\ to + 1 = place + m
  <2>1. place + m - 1 \in Nat /\ place <= place + m - 1 + 1 /\ place + m - 1 <= n /\ place + m - 1 + 1 = place + m
    BY <1>1
  <2> QED BY <2>1
<1>3. PICK a \in Seq(RowRecords), b \in Seq(RowRecords), c \in Seq(RowRecords) :
         /\ a = SubSeq(rows, 1, place - 1) /\ b = SubSeq(rows, place, to) /\ c = SubSeq(rows, to + 1, n)
         /\ rows = (a \o b) \o c
  <2>1. place \in 1..(to + 1) /\ to \in 0..Len(rows)
    BY <1>1, <1>2
  <2>2. /\ rows = (SubSeq(rows, 1, place - 1) \o SubSeq(rows, place, to)) \o SubSeq(rows, to + 1, Len(rows))
        /\ SubSeq(rows, 1, place - 1) \in Seq(RowRecords) /\ SubSeq(rows, place, to) \in Seq(RowRecords)
        /\ SubSeq(rows, to + 1, Len(rows)) \in Seq(RowRecords)
    BY <2>1, CutInThree
  <2> QED BY <1>1, <2>2
<1>4. t = (a \o new) \o c
  <2>1. Spliced(place, m, new) = SubSeq(rows, 1, place - 1) \o new \o SubSeq(rows, place + m, Len(rows))
    BY SplicedSequence
  <2> QED BY <1>1, <1>2, <1>3, <2>1
<1>5. PICK ab \in Seq(RowRecords) : ab = a \o b
  BY ConcatProperties
<1>6. PICK an \in Seq(RowRecords) : an = a \o new
  BY ConcatProperties
<1>7. PICK anc \in Seq(RowRecords) : anc = an \o c
  BY ConcatProperties
<1>8. rows = ab \o c /\ t = anc /\ FlatOf(new) = FlatOf(b)
  BY <1>2, <1>3, <1>4, <1>5, <1>6, <1>7
<1>9. FlatOf(anc) = FlatOf(ab \o c)
  <2>1. FlatOf(an) = FlatOf(ab)
    <3>1. FlatOf(a \o new) = FlatOf(a) \o FlatOf(new) /\ FlatOf(a \o b) = FlatOf(a) \o FlatOf(b)
      BY FlatOfRows
    <3> QED BY <1>5, <1>6, <1>8, <3>1
  <2>2. FlatOf(an \o c) = FlatOf(an) \o FlatOf(c) /\ FlatOf(ab \o c) = FlatOf(ab) \o FlatOf(c)
    BY FlatOfRows
  <2> QED BY <1>7, <2>1, <2>2
<1>10. ASSUME NEW x
       PROVE  /\ Holds(anc, x) <=> Holds(a, x) \/ Holds(new, x) \/ Holds(c, x)
              /\ Holds(ab \o c, x) <=> Holds(a, x) \/ Holds(b, x) \/ Holds(c, x)
  <2>1. (Holds(a \o b, x) <=> Holds(a, x) \/ Holds(b, x)) /\ (Holds(a \o new, x) <=> Holds(a, x) \/ Holds(new, x))
    BY HoldsConcat
  <2>2. (Holds(ab \o c, x) <=> Holds(ab, x) \/ Holds(c, x)) /\ (Holds(an \o c, x) <=> Holds(an, x) \/ Holds(c, x))
    BY HoldsConcat
  <2> QED BY <1>5, <1>6, <1>7, <2>1, <2>2
<1>11. ASSUME NEW p \in DOMAIN rows, p \notin place..to
       PROVE  Holds(a, rows[p]) \/ Holds(c, rows[p])
  <2>1. CASE p < place
    <3>1. PICK h \in Nat : h = place - 1 /\ h <= n
      <4>1. place - 1 \in Nat /\ place - 1 <= n
        BY <1>2
      <4> QED BY <4>1
    <3>2. p \in 1..h
      BY <1>1, <2>1, <3>1
    <3>3. DOMAIN a = 1..h /\ \A i \in 1..h : a[i] = rows[i]
      <4>1. a = SubSeq(rows, 1, h)
        BY <1>3, <3>1
      <4> QED BY <1>1, <3>1, <4>1
    <3> QED BY <3>2, <3>3 DEF Holds
  <2>2. CASE ~(p < place)
    <3>1. p > to /\ p <= n /\ p \in Nat
      BY <1>1, <1>2, <1>11, <2>2
    <3>2. DOMAIN c = 1..(n - to) /\ \A i \in 1..(n - to) : c[i] = rows[to + i]
      <4>1. c = [i \in 1..(n - (to + 1) + 1) |-> rows[(to + 1) + i - 1]]
        <5>1. PICK f \in Nat : f = to + 1
          BY <1>2
        <5>2. SubSeq(rows, f, n) = [i \in 1..(n - f + 1) |-> rows[f + i - 1]]
          BY <1>1, <5>1
        <5> QED BY <1>3, <5>1, <5>2
      <4>2. n - (to + 1) + 1 = n - to /\ \A i \in 1..(n - to) : (to + 1) + i - 1 = to + i
        BY <1>2
      <4> QED BY <4>1, <4>2
    <3>3. p - to \in 1..(n - to) /\ to + (p - to) = p
      BY <1>2, <3>1
    <3>4. c[p - to] = rows[to + (p - to)]
      BY <3>2, <3>3
    <3> QED BY <3>2, <3>3, <3>4 DEF Holds
  <2> QED BY <2>1, <2>2
<1>12. \A x : Holds(t, x) => Holds(rows, x) \/ Holds(new, x)
  BY <1>8, <1>10
<1>13. \A p \in DOMAIN rows : p \notin place..(place + m - 1) => Holds(t, rows[p])
  BY <1>2, <1>8, <1>10, <1>11
<1>14. t \in Seq(RowRecords) /\ FlatOf(t) = FlatOf(rows)
  BY <1>7, <1>8, <1>9
<1> QED BY <1>12, <1>13, <1>14

-----------------------------------------------------------------------------
(* Segments: the requests that read *)

\* The state of one request changes.
LEMMA RequestTo ==
  ASSUME RequestsAre, NEW r \in Requests, NEW v \in Requested, v.at \in {"idle", "done"} \/ v.id # 0,
         req' = [req EXCEPT ![r] = v]
  PROVE  RequestsAre' /\ req'[r] = v /\ \A q \in Requests : q # r => req'[q] = req[q]
<1>1. req' \in [Requests -> Requested] /\ req'[r] = v /\ \A q \in Requests : q # r => req'[q] = req[q]
  BY DEF RequestsAre
<1> QED
  BY <1>1 DEF RequestsAre, Busy

\* A request before it begins and after it ends.
LEMMA NoRequestIs ==
  /\ NoRequest \in Requested
  /\ [NoRequest EXCEPT !.at = "done"] \in Requested /\ [NoRequest EXCEPT !.at = "done"].at = "done"
<1>1. Line(<<>>, NilText) \in RowRecords
  <2>1. <<>> \in Seq(Nat)
    OBVIOUS
  <2> QED BY <2>1, LinesFit DEF FitRecords
<1>2. PICK v \in RowRecords : v = Line(<<>>, NilText)
  BY <1>1
<1>3. PICK t \in Texts : t = NilText
  BY TextsAre
<1>4. NoRequest = [at |-> "idle", op |-> "none", id |-> 0, text |-> t, rec |-> v, next |-> v]
  BY <1>2, <1>3 DEF NoRequest
<1> QED BY <1>4 DEF Requested

\* A request ends.
LEMMA EndsKeeps ==
  ASSUME RequestsAre, NEW r \in Requests, Ends(r)
  PROVE  RequestsAre' /\ ~Busy(req'[r]) /\ \A q \in Requests : q # r => req'[q] = req[q]
<1>1. RequestsAre'
  BY NoRequestIs, RequestTo DEF Ends
<1>2. req'[r] = [NoRequest EXCEPT !.at = "done"] /\ \A q \in Requests : q # r => req'[q] = req[q]
  BY DEF Ends, RequestsAre
<1> QED BY <1>1, <1>2, NoRequestIs DEF Busy

\* What a request is once it has begun.
LEMMA BeginIs ==
  ASSUME RequestsAre, RowsAre, NEW r \in Requests, Begin(r)
  PROVE  \E v \in Requested :
           /\ req' = [req EXCEPT ![r] = v] /\ v.id \in DOMAIN rows /\ v.op \in Ops
           /\ v.at = CASE v.op = "retranslate" -> "ask" [] v.op = "mergePrevious" -> "look" [] OTHER -> "get"
           /\ v.op = "text" => v.text = [by |-> "human", of |-> rows[v.id].src]
           /\ authored' = Disown(CASE v.op = "merge" -> {v.id, v.id + 1}
                                   [] v.op = "mergePrevious" -> {v.id - 1, v.id}
                                   [] v.op = "other" -> {}
                                   [] OTHER -> {v.id})
<1>1. PICK op \in Ops, o \in DOMAIN rows :
       /\ req' = [req EXCEPT ![r] =
            [NoRequest EXCEPT
               !.at = CASE op = "retranslate" -> "ask" [] op = "mergePrevious" -> "look"
                        [] OTHER -> "get",
               !.op = op, !.id = o,
               !.text = IF op = "text" THEN [by |-> "human", of |-> rows[o].src] ELSE NilText]]
       /\ authored' = Disown(CASE op = "merge" -> {o, o + 1}
                               [] op = "mergePrevious" -> {o - 1, o}
                               [] op = "other" -> {}
                               [] OTHER -> {o})
  BY DEF Begin
<1>2. PICK a : a = CASE op = "retranslate" -> "ask" [] op = "mergePrevious" -> "look" [] OTHER -> "get"
  OBVIOUS
<1>3. a \in {"ask", "look", "get"}
  BY <1>2
<1>4. PICK t \in Texts : t = IF op = "text" THEN [by |-> "human", of |-> rows[o].src] ELSE NilText
  <2>1. rows[o].src \in Seq(Nat)
    BY DEF RowsAre, FitRecords, RowRecords
  <2> QED BY <2>1, TextsAre
<1>5. PICK v : v = [NoRequest EXCEPT !.at = a, !.op = op, !.id = o, !.text = t]
  OBVIOUS
<1>6. v \in Requested /\ v.at = a /\ v.op = op /\ v.id = o /\ v.text = t
  <2>1. o \in Nat
    BY DEF RowsAre
  <2> QED BY <1>3, <1>5, <2>1, NoRequestIs DEF Requested
<1>7. req' = [req EXCEPT ![r] = v]
  BY <1>1, <1>2, <1>4, <1>5
<1>8. v.op = "text" => v.text = [by |-> "human", of |-> rows[v.id].src]
  BY <1>4, <1>6
<1>9. v.at = CASE v.op = "retranslate" -> "ask" [] v.op = "mergePrevious" -> "look" [] OTHER -> "get"
  BY <1>2, <1>6
<1>10. authored' = Disown(CASE v.op = "merge" -> {v.id, v.id + 1}
                                   [] v.op = "mergePrevious" -> {v.id - 1, v.id}
                                   [] v.op = "other" -> {}
                                   [] OTHER -> {v.id})
  BY <1>1, <1>6
<1> QED BY <1>6, <1>7, <1>8, <1>9, <1>10

\* A step of a request that leaves the rows alone.
LEMMA RequestMoves ==
  ASSUME SegmentsInv, NEW r \in Requests, NEW v \in Requested, Busy(v) => v.id # 0, req' = [req EXCEPT ![r] = v],
         UNCHANGED <<rows, overlap, runs, script, reshaped>>, authored' \subseteq authored,
         ~overlap => /\ \A q \in Requests : Busy(req[q]) => q = r
                     /\ Busy(v) => Knows(v, rows) /\ (~reshaped => Free(rows, TouchedBy(v), authored'))
  PROVE  SegmentsInv'
<1>1. RowsAre' /\ runs' \in Nat
  BY DEF SegmentsInv, RowsAre
<1>2. RequestsAre' /\ req'[r] = v /\ \A q \in Requests : q # r => req'[q] = req[q]
  BY RequestTo DEF SegmentsInv, Busy
<1>3. ASSUME ~overlap
      PROVE  /\ OneAtATime' /\ Renders(rows', script') /\ (runs' = 0 => DOMAIN rows' = {})
             /\ ~reshaped' => AuthoredAreHeld'
  <2>1. \A q \in Requests : Busy(req'[q]) => q = r
    BY <1>2, <1>3
  <2>2. OneAtATime'
    <3>1. \A q, p \in Requests : Busy(req'[q]) /\ Busy(req'[p]) => q = p
      BY <2>1
    <3>2. \A q \in Requests : Busy(req'[q]) => Knows(req'[q], rows')
      BY <1>2, <1>3, <2>1
    <3> QED BY <3>1, <3>2 DEF OneAtATime
  <2>3. ASSUME ~reshaped' PROVE AuthoredAreHeld'
    <3>1. AuthoredAreHeld /\ (Busy(v) => Free(rows, TouchedBy(v), authored'))
      BY <1>3, <2>3 DEF SegmentsInv
    <3>2. \A t \in authored' : HeldIn(rows', t)
      BY <3>1 DEF AuthoredAreHeld
    <3>3. \A q \in Requests : Busy(req'[q]) => Free(rows', TouchedBy(req'[q]), authored')
      BY <1>2, <2>1, <3>1
    <3> QED BY <3>2, <3>3 DEF AuthoredAreHeld
  <2> QED BY <1>3, <2>2, <2>3 DEF SegmentsInv
<1> QED BY <1>1, <1>2, <1>3 DEF SegmentsInv

\* A request that ends without a change.
LEMMA RequestEnds ==
  ASSUME SegmentsInv, NEW r \in Requests, Ends(r), UNCHANGED <<rows, overlap, runs, script, reshaped, authored>>,
         Busy(req[r])
  PROVE  SegmentsInv'
<1>1. PICK v \in Requested : v = [NoRequest EXCEPT !.at = "done"] /\ ~Busy(v)
  BY NoRequestIs DEF Busy
<1>2. req' = [req EXCEPT ![r] = v]
  BY <1>1 DEF Ends
<1>3. ~overlap => \A q \in Requests : Busy(req[q]) => q = r
  BY DEF SegmentsInv, OneAtATime
<1> QED BY <1>1, <1>2, <1>3, RequestMoves

\* A person acts on a line.
LEMMA BeginKeeps ==
  ASSUME SegmentsInv, NEW r \in Requests, Begin(r)
  PROVE  SegmentsInv'
<1>1. PICK v \in Requested :
           /\ req' = [req EXCEPT ![r] = v] /\ v.id \in DOMAIN rows /\ v.op \in Ops
           /\ v.at = CASE v.op = "retranslate" -> "ask" [] v.op = "mergePrevious" -> "look" [] OTHER -> "get"
           /\ v.op = "text" => v.text = [by |-> "human", of |-> rows[v.id].src]
           /\ authored' = Disown(CASE v.op = "merge" -> {v.id, v.id + 1}
                                   [] v.op = "mergePrevious" -> {v.id - 1, v.id}
                                   [] v.op = "other" -> {}
                                   [] OTHER -> {v.id})
  BY BeginIs DEF SegmentsInv
<1>2. UNCHANGED <<rows, overlap, runs, script, reshaped>>
  BY DEF Begin, reqConst
<1>3. v.id # 0
  BY <1>1 DEF SegmentsInv, RowsAre
<1>4. TouchedBy(v) = CASE v.op = "merge" -> {v.id, v.id + 1}
                       [] v.op = "mergePrevious" -> {v.id - 1, v.id}
                       [] v.op = "other" -> {}
                       [] OTHER -> {v.id}
  BY <1>1 DEF TouchedBy
<1>5. authored' = Disown(TouchedBy(v))
  BY <1>1, <1>4
<1>6. authored' \subseteq authored /\ Free(rows, TouchedBy(v), authored')
  BY <1>5 DEF Disown, Free
<1>7. ~overlap => \A q \in Requests : ~Busy(req[q])
  BY DEF Begin, MayBegin, Quiet, Busy
<1>8. Knows(v, rows)
  <2>1. v.op # "none"
    BY <1>1 DEF Ops
  <2>2. v.at \notin {"second", "put"} /\ (v.at = "look" => v.op = "mergePrevious") /\ (v.at = "ask" => v.op = "retranslate")
    BY <1>1
  <2> QED BY <1>1, <2>1, <2>2 DEF Knows
<1> QED BY <1>1, <1>2, <1>3, <1>6, <1>7, <1>8, RequestMoves

\* RetranslateLine up to its call of Apply.
LEMMA RetranslateKeeps ==
  ASSUME SegmentsInv, NEW r \in Requests, Retranslate(r)
  PROVE  SegmentsInv'
<1>1. req[r] \in Requested /\ req[r].at = "ask" /\ Busy(req[r]) /\ req[r].id # 0
  BY DEF Retranslate, SegmentsInv, RequestsAre, Busy
<1>2. UNCHANGED <<rows, overlap, runs, script, reshaped, authored>>
  BY DEF Retranslate, reqConst
<1>3. CASE Ends(r)
  BY <1>1, <1>2, <1>3, RequestEnds
<1>4. CASE ~Ends(r)
  <2>1. PICK t : /\ req[r].id \in DOMAIN rows
                 /\ t \in {rows[req[r].id].text, [by |-> "model", of |-> rows[req[r].id].src]}
                 /\ req' = [req EXCEPT ![r].at = "get", ![r].text = t]
    BY <1>4 DEF Retranslate
  <2>2. t \in Texts
    <3>1. rows[req[r].id] \in RowRecords
      BY <2>1 DEF SegmentsInv, RowsAre, FitRecords
    <3>2. rows[req[r].id].text \in Texts /\ rows[req[r].id].src \in Seq(Nat)
      BY <3>1 DEF RowRecords
    <3> QED BY <2>1, <3>2, TextsAre
  <2>3. PICK v \in Requested : v = [req[r] EXCEPT !.at = "get", !.text = t]
    BY <1>1, <2>2 DEF Requested
  <2>4. req' = [req EXCEPT ![r] = v]
    BY <2>1, <2>3 DEF SegmentsInv, RequestsAre
  <2>5. v.at = "get" /\ v.op = req[r].op /\ v.id = req[r].id
    BY <1>1, <2>3 DEF Requested
  <2>6. ASSUME ~overlap
        PROVE  /\ \A q \in Requests : Busy(req[q]) => q = r
               /\ Knows(v, rows) /\ (~reshaped => Free(rows, TouchedBy(v), authored'))
    <3>1. OneAtATime /\ Knows(req[r], rows)
      BY <1>1, <2>6 DEF SegmentsInv, OneAtATime
    <3>2. v.op = "retranslate"
      BY <1>1, <2>5, <3>1 DEF Knows
    <3>3. Knows(v, rows)
      BY <2>5, <3>1, <3>2 DEF Knows
    <3>4. TouchedBy(v) = TouchedBy(req[r])
      BY <2>5, <3>2 DEF TouchedBy
    <3>5. ~reshaped => Free(rows, TouchedBy(v), authored')
      BY <1>1, <1>2, <2>6, <3>4 DEF SegmentsInv, AuthoredAreHeld
    <3> QED BY <1>1, <3>1, <3>3, <3>5 DEF OneAtATime
  <2> QED BY <1>1, <1>2, <2>4, <2>5, <2>6, RequestMoves
<1> QED BY <1>3, <1>4

\* relative.
LEMMA LookKeeps ==
  ASSUME SegmentsInv, NEW r \in Requests, Look(r)
  PROVE  SegmentsInv'
<1>1. req[r] \in Requested /\ req[r].at = "look" /\ Busy(req[r]) /\ req[r].id # 0
  BY DEF Look, SegmentsInv, RequestsAre, Busy
<1>2. UNCHANGED <<rows, overlap, runs, script, reshaped, authored>>
  BY DEF Look, reqConst
<1>3. CASE Ends(r)
  BY <1>1, <1>2, <1>3, RequestEnds
<1>4. CASE ~Ends(r)
  <2>1. PICK o \in Nat : o = req[r].id /\ o - 1 \in DOMAIN rows /\ req' = [req EXCEPT ![r].at = "get", ![r].id = o - 1]
    BY <1>1, <1>4 DEF Look, Requested
  <2>2. PICK p \in Nat : p = o - 1 /\ p # 0 /\ p \in DOMAIN rows
    BY <2>1 DEF SegmentsInv, RowsAre
  <2>3. PICK v \in Requested : v = [req[r] EXCEPT !.at = "get", !.id = p]
    BY <1>1 DEF Requested
  <2>4. req' = [req EXCEPT ![r] = v]
    BY <2>1, <2>2, <2>3 DEF SegmentsInv, RequestsAre
  <2>5. v.at = "get" /\ v.op = req[r].op /\ v.id = p
    BY <1>1, <2>3 DEF Requested
  <2>6. ASSUME ~overlap
        PROVE  /\ \A q \in Requests : Busy(req[q]) => q = r
               /\ Knows(v, rows) /\ (~reshaped => Free(rows, TouchedBy(v), authored'))
    <3>1. OneAtATime /\ Knows(req[r], rows)
      BY <1>1, <2>6 DEF SegmentsInv, OneAtATime
    <3>2. v.op = "mergePrevious"
      BY <1>1, <2>5, <3>1 DEF Knows
    <3>3. Knows(v, rows)
      BY <2>2, <2>5, <3>2 DEF Knows
    <3>4. TouchedBy(v) = TouchedBy(req[r])
      <4>1. p + 1 = o
        BY <2>2
      <4>2. TouchedBy(v) = {p, p + 1}
        BY <2>5, <3>2 DEF TouchedBy
      <4>3. TouchedBy(req[r]) = {o - 1, o}
        BY <1>1, <2>1, <2>5, <3>2 DEF TouchedBy
      <4> QED BY <2>2, <4>1, <4>2, <4>3
    <3>5. ~reshaped => Free(rows, TouchedBy(v), authored')
      BY <1>1, <1>2, <2>6, <3>4 DEF SegmentsInv, AuthoredAreHeld
    <3> QED BY <1>1, <3>1, <3>3, <3>5 DEF OneAtATime
  <2> QED BY <1>1, <1>2, <2>2, <2>4, <2>5, <2>6, RequestMoves
<1> QED BY <1>3, <1>4

\* Get.
LEMMA ReadKeeps ==
  ASSUME SegmentsInv, NEW r \in Requests, Read(r)
  PROVE  SegmentsInv'
<1>1. req[r] \in Requested /\ req[r].at = "get" /\ Busy(req[r]) /\ req[r].id # 0
  BY DEF Read, SegmentsInv, RequestsAre, Busy
<1>2. UNCHANGED <<rows, overlap, runs, script, reshaped, authored>>
  BY DEF Read, reqConst
<1>3. CASE Ends(r)
  BY <1>1, <1>2, <1>3, RequestEnds
<1>4. CASE ~Ends(r)
  <2>1. PICK a : a = IF req[r].op \in {"merge", "mergePrevious"} THEN "second" ELSE "put"
    OBVIOUS
  <2>2. a \in {"second", "put"} /\ (a = "second" <=> req[r].op \in {"merge", "mergePrevious"})
    BY <2>1
  <2>3. req[r].id \in DOMAIN rows /\ req' = [req EXCEPT ![r].at = a, ![r].rec = rows[req[r].id]]
    BY <1>4, <2>1 DEF Read
  <2>4. PICK w \in RowRecords : w = rows[req[r].id]
    BY <2>3 DEF SegmentsInv, RowsAre, FitRecords
  <2>5. PICK v \in Requested : v = [req[r] EXCEPT !.at = a, !.rec = w]
    BY <1>1, <2>2 DEF Requested
  <2>6. req' = [req EXCEPT ![r] = v]
    BY <2>3, <2>4, <2>5 DEF SegmentsInv, RequestsAre
  <2>7. v.at = a /\ v.op = req[r].op /\ v.id = req[r].id /\ v.text = req[r].text /\ v.rec = w
    BY <1>1, <2>5 DEF Requested
  <2>8. ASSUME ~overlap
        PROVE  /\ \A q \in Requests : Busy(req[q]) => q = r
               /\ Knows(v, rows) /\ (~reshaped => Free(rows, TouchedBy(v), authored'))
    <3>1. OneAtATime /\ Knows(req[r], rows)
      BY <1>1, <2>8 DEF SegmentsInv, OneAtATime
    <3>2. a \notin {"look", "ask"} /\ ~(a = "put" /\ v.op \in {"merge", "mergePrevious"})
      BY <2>2, <2>7
    <3>3. Knows(v, rows)
      BY <2>2, <2>4, <2>7, <3>1, <3>2 DEF Knows
    <3>4. TouchedBy(v) = TouchedBy(req[r])
      BY <1>1, <2>7, <3>2 DEF TouchedBy
    <3>5. ~reshaped => Free(rows, TouchedBy(v), authored')
      BY <1>1, <1>2, <2>8, <3>4 DEF SegmentsInv, AuthoredAreHeld
    <3> QED BY <1>1, <3>1, <3>3, <3>5 DEF OneAtATime
  <2> QED BY <1>1, <1>2, <2>6, <2>7, <2>8, RequestMoves
<1> QED BY <1>3, <1>4

\* next, or the second Get of mergePair.
LEMMA ReadSecondKeeps ==
  ASSUME SegmentsInv, NEW r \in Requests, ReadSecond(r)
  PROVE  SegmentsInv'
<1>1. req[r] \in Requested /\ req[r].at = "second" /\ Busy(req[r]) /\ req[r].id # 0
  BY DEF ReadSecond, SegmentsInv, RequestsAre, Busy
<1>2. UNCHANGED <<rows, overlap, runs, script, reshaped, authored>>
  BY DEF ReadSecond, reqConst
<1>3. CASE Ends(r)
  BY <1>1, <1>2, <1>3, RequestEnds
<1>4. CASE ~Ends(r)
  <2>1. req[r].id + 1 \in DOMAIN rows /\ req' = [req EXCEPT ![r].at = "put", ![r].next = rows[req[r].id + 1]]
    BY <1>4 DEF ReadSecond
  <2>2. PICK w \in RowRecords : w = rows[req[r].id + 1]
    BY <2>1 DEF SegmentsInv, RowsAre, FitRecords
  <2>3. PICK v \in Requested : v = [req[r] EXCEPT !.at = "put", !.next = w]
    BY <1>1 DEF Requested
  <2>4. req' = [req EXCEPT ![r] = v]
    BY <2>1, <2>2, <2>3 DEF SegmentsInv, RequestsAre
  <2>5. v.at = "put" /\ v.op = req[r].op /\ v.id = req[r].id /\ v.text = req[r].text /\ v.rec = req[r].rec /\ v.next = w
    BY <1>1, <2>3 DEF Requested
  <2>6. ASSUME ~overlap
        PROVE  /\ \A q \in Requests : Busy(req[q]) => q = r
               /\ Knows(v, rows) /\ (~reshaped => Free(rows, TouchedBy(v), authored'))
    <3>1. OneAtATime /\ Knows(req[r], rows)
      BY <1>1, <2>6 DEF SegmentsInv, OneAtATime
    <3>2. req[r].rec = rows[req[r].id]
      BY <1>1, <3>1 DEF Knows
    <3>3. Knows(v, rows)
      BY <2>1, <2>2, <2>5, <3>1, <3>2 DEF Knows
    <3>4. TouchedBy(v) = TouchedBy(req[r])
      BY <1>1, <2>5 DEF TouchedBy
    <3>5. ~reshaped => Free(rows, TouchedBy(v), authored')
      BY <1>1, <1>2, <2>6, <3>4 DEF SegmentsInv, AuthoredAreHeld
    <3> QED BY <1>1, <3>1, <3>3, <3>5 DEF OneAtATime
  <2> QED BY <1>1, <1>2, <2>4, <2>5, <2>6, RequestMoves
<1> QED BY <1>3, <1>4

-----------------------------------------------------------------------------
(* Segments: the requests that write *)

\* A step of a request that changes the rows is its last.
LEMMA RowsChange ==
  ASSUME SegmentsInv, NEW r \in Requests, Ends(r), UNCHANGED <<overlap, runs, script, reshaped>>, RowsAre',
         ~overlap => /\ \A q \in Requests : Busy(req[q]) => q = r
                     /\ Renders(rows', script) /\ (runs = 0 => DOMAIN rows' = {})
                     /\ ~reshaped => \A t \in authored' : HeldIn(rows', t)
  PROVE  SegmentsInv'
<1>1. RequestsAre' /\ ~Busy(req'[r]) /\ \A q \in Requests : q # r => req'[q] = req[q]
  BY EndsKeeps DEF SegmentsInv
<1>2. ASSUME ~overlap
      PROVE  OneAtATime' /\ (~reshaped' => AuthoredAreHeld')
  <2>1. \A q \in Requests : ~Busy(req'[q])
    BY <1>1, <1>2
  <2> QED BY <1>2, <2>1 DEF OneAtATime, AuthoredAreHeld
<1> QED BY <1>1, <1>2 DEF SegmentsInv

\* While one request is busy and nothing interleaves with it.
LEMMA AloneBusy ==
  ASSUME SegmentsInv, NEW r \in Requests, Busy(req[r]), ~overlap
  PROVE  /\ \A q \in Requests : Busy(req[q]) => q = r
         /\ Knows(req[r], rows) /\ Renders(rows, script) /\ (runs = 0 => DOMAIN rows = {})
         /\ ~reshaped => (\A t \in authored : HeldIn(rows, t)) /\ Free(rows, TouchedBy(req[r]), authored)
BY DEF SegmentsInv, OneAtATime, AuthoredAreHeld

\* A row with the words it had.
LEMMA RowChanges ==
  ASSUME RowsAre, NEW o \in DOMAIN rows, NEW u \in FitRecords, u.src = rows[o].src, rows' = [rows EXCEPT ![o] = u]
  PROVE  /\ RowsAre' /\ DOMAIN rows' = DOMAIN rows
         /\ rows'[o] = u /\ \A p \in DOMAIN rows : p # o => rows'[p] = rows[p]
         /\ \A lines : Renders(rows, lines) /\ u.words = rows[o].words => Renders(rows', lines)
<1>1. DOMAIN rows' = DOMAIN rows /\ rows'[o] = u /\ \A p \in DOMAIN rows : p # o => rows'[p] = rows[p]
  BY DEF RowsAre
<1>2. RowsAre'
  BY <1>1 DEF RowsAre
<1>3. ASSUME NEW lines, Renders(rows, lines), u.words = rows[o].words PROVE Renders(rows', lines)
  <2>1. SrcsOf(rows') = SrcsOf(rows)
    <3>1. \A p \in DOMAIN rows : rows'[p].src = rows[p].src
      BY <1>1
    <3> QED BY <1>1, <3>1 DEF SrcsOf
  <2>2. rows' \in Seq(RowRecords)
    <3>1. u \in RowRecords /\ rows \in Seq(RowRecords)
      BY <1>3 DEF FitRecords, Renders
    <3> QED BY <3>1
  <2>3. \A p \in DOMAIN rows' : rows'[p].words = rows'[p].src /\ Ascends(rows'[p].words)
    BY <1>1, <1>3 DEF Renders
  <2> QED BY <1>3, <2>1, <2>2, <2>3 DEF Renders, FlatOf
<1> QED BY <1>1, <1>2, <1>3

\* Apply: the text a person writes is held by the row it is written for.
LEMMA ApplyKeeps ==
  ASSUME SegmentsInv, NEW r \in Requests, Apply(r)
  PROVE  SegmentsInv'
<1>1. /\ req[r] \in Requested /\ req[r].at = "put" /\ Busy(req[r])
      /\ req[r].op \in {"text", "other", "retranslate"} /\ Ends(r)
      /\ UNCHANGED <<overlap, runs, script, reshaped>>
  BY DEF Apply, reqConst, SegmentsInv, RequestsAre, Busy
<1>2. PICK o : o = req[r].id
  OBVIOUS
<1>3. PICK rec \in RowRecords : rec = req[r].rec
  BY <1>1 DEF Requested
<1>4. PICK t \in Texts : t = IF req[r].op = "other" THEN rec.text ELSE req[r].text
  BY <1>1, <1>3 DEF Requested, RowRecords
<1>5. PICK edited : edited = [rec EXCEPT !.text = t, !.edited = TRUE]
  OBVIOUS
<1>6. /\ rows' = IF o \in DOMAIN rows /\ Valid(edited) THEN [rows EXCEPT ![o] = [edited EXCEPT !.src = rows[o].src]] ELSE rows
      /\ authored' = IF req[r].op = "text" THEN authored \cup {req[r].text} ELSE authored
  <2>1. edited = [req[r].rec EXCEPT !.text = IF req[r].op = "other" THEN @ ELSE req[r].text, !.edited = TRUE]
    BY <1>3, <1>4, <1>5
  <2> QED BY <1>2, <2>1 DEF Apply
<1>7. edited \in RowRecords /\ edited.words = rec.words /\ edited.src = rec.src /\ edited.text = t /\ edited.edited = TRUE
  BY <1>5 DEF RowRecords
<1>8. CASE o \in DOMAIN rows /\ Valid(edited)
  <2>1. rows[o] \in RowRecords /\ rows[o].src \in Seq(Nat)
    BY <1>8 DEF SegmentsInv, RowsAre, FitRecords, RowRecords
  <2>2. PICK w \in Seq(Nat) : w = rows[o].src
    BY <2>1
  <2>3. PICK z : z = [edited EXCEPT !.src = w]
    OBVIOUS
  <2>4. z \in FitRecords /\ z.words = rec.words /\ z.src = w /\ z.text = t /\ z.edited
    <3>1. z \in RowRecords /\ z.words = edited.words /\ z.src = w /\ z.text = edited.text /\ z.edited = edited.edited
      BY <1>7, <2>3 DEF RowRecords
    <3> QED BY <1>7, <3>1 DEF FitRecords, Fits
  <2>5. PICK u \in FitRecords : u = [edited EXCEPT !.src = rows[o].src] /\ u.words = rec.words /\ u.src = rows[o].src /\ u.text = t /\ u.edited
    BY <2>3, <2>4, <2>2
  <2>6. rows' = [rows EXCEPT ![o] = u]
    BY <1>6, <1>8, <2>5
  <2>7. /\ RowsAre' /\ DOMAIN rows' = DOMAIN rows /\ rows'[o] = u /\ \A p \in DOMAIN rows : p # o => rows'[p] = rows[p]
        /\ \A lines : Renders(rows, lines) /\ u.words = rows[o].words => Renders(rows', lines)
    <3>1. RowsAre /\ u.src = rows[o].src
      BY <2>5 DEF SegmentsInv
    <3> QED BY <1>8, <2>5, <2>6, <3>1, RowChanges
  <2>8. ASSUME ~overlap
        PROVE  /\ \A q \in Requests : Busy(req[q]) => q = r
               /\ Renders(rows', script) /\ (runs = 0 => DOMAIN rows' = {})
               /\ ~reshaped => \A x \in authored' : HeldIn(rows', x)
    <3>1. /\ \A q \in Requests : Busy(req[q]) => q = r
          /\ Knows(req[r], rows) /\ Renders(rows, script) /\ (runs = 0 => DOMAIN rows = {})
          /\ ~reshaped => (\A x \in authored : HeldIn(rows, x)) /\ Free(rows, TouchedBy(req[r]), authored)
      BY <1>1, <2>8, AloneBusy
    <3>2. rec = rows[o]
      BY <1>1, <1>2, <1>3, <3>1 DEF Knows
    <3>3. ASSUME ~reshaped, NEW x \in authored' PROVE HeldIn(rows', x)
      <4>1. CASE x \in authored
        <5>1. PICK p \in DOMAIN rows : rows[p].text = x /\ rows[p].src = x.of /\ rows[p].edited
          BY <3>1, <3>3, <4>1 DEF HeldIn
        <5>2. CASE p # o
          BY <2>7, <5>1, <5>2 DEF HeldIn
        <5>3. CASE p = o
          <6>1. CASE req[r].op = "other"
            <7>1. u.text = x /\ u.src = x.of /\ u.edited
              BY <1>4, <2>5, <3>2, <5>1, <5>3, <6>1
            <7> QED BY <1>8, <2>7, <7>1 DEF HeldIn
          <6>2. CASE req[r].op # "other"
            <7>1. TouchedBy(req[r]) = {o}
              BY <1>1, <1>2, <6>2 DEF TouchedBy
            <7> QED BY <1>8, <3>1, <3>3, <4>1, <5>1, <5>3, <7>1 DEF Free
          <6> QED BY <6>1, <6>2
        <5> QED BY <5>2, <5>3
      <4>2. CASE x \notin authored
        <5>1. req[r].op = "text" /\ x = req[r].text
          BY <1>6, <4>2
        <5>2. x = [by |-> "human", of |-> rows[o].src]
          BY <1>2, <3>1, <5>1 DEF Knows
        <5>3. u.text = x /\ u.src = x.of /\ u.edited
          BY <1>4, <2>5, <5>1, <5>2
        <5> QED BY <1>8, <2>7, <5>3 DEF HeldIn
      <4> QED BY <4>1, <4>2
    <3> QED BY <2>5, <2>7, <3>1, <3>2, <3>3
  <2> QED BY <1>1, <2>7, <2>8, RowsChange
<1>9. CASE ~(o \in DOMAIN rows /\ Valid(edited))
  <2>1. rows' = rows /\ RowsAre'
    BY <1>6, <1>9 DEF SegmentsInv, RowsAre
  <2>2. ASSUME ~overlap
        PROVE  /\ \A q \in Requests : Busy(req[q]) => q = r
               /\ Renders(rows', script) /\ (runs = 0 => DOMAIN rows' = {})
               /\ ~reshaped => \A x \in authored' : HeldIn(rows', x)
    <3>1. /\ \A q \in Requests : Busy(req[q]) => q = r
          /\ Knows(req[r], rows) /\ Renders(rows, script) /\ (runs = 0 => DOMAIN rows = {})
          /\ ~reshaped => (\A x \in authored : HeldIn(rows, x)) /\ Free(rows, TouchedBy(req[r]), authored)
      BY <1>1, <2>2, AloneBusy
    <3>2. rec = rows[o] /\ o \in DOMAIN rows
      BY <1>1, <1>2, <1>3, <3>1 DEF Knows
    <3>3. req[r].op # "text"
      <4>1. SUFFICES ASSUME req[r].op = "text" PROVE Valid(edited)
        BY <1>9, <3>2
      <4>2. Ascends(edited.words)
        BY <1>7, <3>1, <3>2 DEF Renders
      <4>3. edited.text.by = "human"
        BY <1>2, <1>4, <1>7, <3>1, <4>1 DEF Knows
      <4>4. NilText.by = "nobody"
        BY DEF NilText
      <4> QED BY <4>2, <4>3, <4>4 DEF Valid
    <3> QED BY <1>6, <2>1, <3>1, <3>3
  <2> QED BY <1>1, <2>1, <2>2, RowsChange
<1> QED BY <1>8, <1>9

\* SetReviewState.
LEMMA ReviewKeeps ==
  ASSUME SegmentsInv, NEW r \in Requests, Review(r)
  PROVE  SegmentsInv'
<1>1. UNCHANGED <<overlap, runs, script, reshaped, authored>> /\ Ends(r) /\ (~overlap => \A q \in Requests : ~Busy(req[q]))
  BY DEF Review, reqConst, MayBegin, Quiet, Busy
<1>2. PICK o \in DOMAIN rows, st \in ReviewStates : rows' = [rows EXCEPT ![o].state = st, ![o].needs = (st = "pending")]
  BY DEF Review
<1>3. PICK b \in BOOLEAN : b = (st = "pending")
  OBVIOUS
<1>4. rows[o] \in FitRecords
  BY DEF SegmentsInv, RowsAre
<1>5. PICK u \in FitRecords :
        /\ u = [rows[o] EXCEPT !.state = st, !.needs = b]
        /\ u.words = rows[o].words /\ u.src = rows[o].src /\ u.text = rows[o].text /\ u.edited = rows[o].edited
  BY <1>4, ReviewedFits
<1>6. rows' = [rows EXCEPT ![o] = u]
  BY <1>2, <1>3, <1>5 DEF SegmentsInv, RowsAre
<1>7. /\ RowsAre' /\ DOMAIN rows' = DOMAIN rows /\ rows'[o] = u /\ \A p \in DOMAIN rows : p # o => rows'[p] = rows[p]
      /\ \A lines : Renders(rows, lines) /\ u.words = rows[o].words => Renders(rows', lines)
  BY <1>5, <1>6, RowChanges DEF SegmentsInv
<1>8. \A x : HeldIn(rows, x) => HeldIn(rows', x)
  <2>1. \A p \in DOMAIN rows : rows'[p].text = rows[p].text /\ rows'[p].src = rows[p].src /\ rows'[p].edited = rows[p].edited
    BY <1>5, <1>7
  <2> QED BY <1>7, <2>1 DEF HeldIn
<1>9. ~overlap => /\ \A q \in Requests : Busy(req[q]) => q = r
                  /\ Renders(rows', script) /\ (runs = 0 => DOMAIN rows' = {})
                  /\ ~reshaped => \A t \in authored' : HeldIn(rows', t)
  BY <1>1, <1>5, <1>7, <1>8 DEF SegmentsInv, AuthoredAreHeld
<1> QED BY <1>1, <1>7, <1>9, RowsChange

\* A splice of rows with the words of those it replaces.
LEMMA SpliceKeeps ==
  ASSUME SegmentsInv, NEW r \in Requests, Ends(r), UNCHANGED <<overlap, runs, script, reshaped, authored>>, Busy(req[r]),
         NEW m \in Nat, NEW new \in Seq(FitRecords), rows' = Spliced(req[r].id, m, new),
         ~overlap => /\ req[r].id + m <= Len(rows) + 1
                     /\ FlatOf(new) = FlatOf(SubSeq(rows, req[r].id, req[r].id + m - 1))
                     /\ \A i \in DOMAIN new : new[i].words = new[i].src /\ Ascends(new[i].words)
                     /\ TouchedBy(req[r]) = req[r].id..(req[r].id + m - 1)
  PROVE  SegmentsInv'
<1>1. PICK o \in Nat \ {0} : o = req[r].id
  BY DEF SegmentsInv, RequestsAre, Requested
<1>2. RowsAre'
  <2>1. rows \in [DOMAIN rows -> FitRecords] /\ IsFiniteSet(DOMAIN rows) /\ DOMAIN rows \subseteq Nat \ {0} /\ rows' = Spliced(o, m, new)
    BY <1>1 DEF SegmentsInv, RowsAre
  <2> QED BY <2>1, SplicedRows DEF RowsAre
<1>3. ASSUME ~overlap
      PROVE  /\ \A q \in Requests : Busy(req[q]) => q = r
             /\ Renders(rows', script) /\ (runs = 0 => DOMAIN rows' = {})
             /\ ~reshaped => \A x \in authored' : HeldIn(rows', x)
  <2>1. /\ \A q \in Requests : Busy(req[q]) => q = r
        /\ Knows(req[r], rows) /\ Renders(rows, script) /\ (runs = 0 => DOMAIN rows = {})
        /\ ~reshaped => (\A x \in authored : HeldIn(rows, x)) /\ Free(rows, TouchedBy(req[r]), authored)
    BY <1>3, AloneBusy
  <2>2. rows \in Seq(RowRecords) /\ o \in DOMAIN rows
    BY <1>1, <2>1 DEF Renders, Knows
  <2>3. new \in Seq(RowRecords)
    <3>1. FitRecords \subseteq RowRecords
      BY DEF FitRecords
    <3> QED BY <3>1, SeqMonotonic
  <2>4. 1 <= o /\ o + m <= Len(rows) + 1 /\ FlatOf(new) = FlatOf(SubSeq(rows, o, o + m - 1)) /\ rows' = Spliced(o, m, new)
    BY <1>1, <1>3
  <2>5. /\ rows' \in Seq(RowRecords) /\ FlatOf(rows') = FlatOf(rows)
        /\ \A x : Holds(rows', x) => Holds(rows, x) \/ Holds(new, x)
        /\ \A p \in DOMAIN rows : p \notin o..(o + m - 1) => Holds(rows', rows[p])
    BY <2>2, <2>3, <2>4, SplicedKeeps
  <2>6. Renders(rows', script)
    <3>1. ASSUME NEW p \in DOMAIN rows' PROVE rows'[p].words = rows'[p].src /\ Ascends(rows'[p].words)
      <4>1. Holds(rows, rows'[p]) \/ Holds(new, rows'[p])
        BY <2>5 DEF Holds
      <4>2. CASE Holds(rows, rows'[p])
        <5>1. PICK i \in DOMAIN rows : rows[i] = rows'[p]
          BY <4>2 DEF Holds
        <5> QED BY <2>1, <5>1 DEF Renders
      <4>3. CASE Holds(new, rows'[p])
        <5>1. PICK i \in DOMAIN new : new[i] = rows'[p]
          BY <4>3 DEF Holds
        <5> QED BY <1>3, <5>1
      <4> QED BY <4>1, <4>2, <4>3
    <3> QED BY <2>1, <2>5, <3>1 DEF Renders
  <2>7. ASSUME ~reshaped, NEW x \in authored' PROVE HeldIn(rows', x)
    <3>1. PICK p \in DOMAIN rows : rows[p].text = x /\ rows[p].src = x.of /\ rows[p].edited
      BY <2>1, <2>7 DEF HeldIn
    <3>2. p \notin o..(o + m - 1)
      BY <1>1, <1>3, <2>1, <2>7, <3>1 DEF Free
    <3>3. PICK i \in DOMAIN rows' : rows'[i] = rows[p]
      BY <2>5, <3>2 DEF Holds
    <3> QED BY <3>1, <3>3 DEF HeldIn
  <2> QED BY <1>1, <2>1, <2>2, <2>6, <2>7
<1> QED BY <1>2, <1>3, RowsChange

\* Split: the halves have the words of the row.
LEMMA SplitKeeps ==
  ASSUME SegmentsInv, NEW r \in Requests, Split(r)
  PROVE  SegmentsInv'
<1>1. /\ req[r] \in Requested /\ req[r].at = "put" /\ Busy(req[r]) /\ req[r].op = "split" /\ Ends(r)
      /\ UNCHANGED <<overlap, runs, script, reshaped, authored>>
  BY DEF Split, reqConst, SegmentsInv, RequestsAre, Busy
<1>2. PICK line \in RowRecords, w \in Seq(Nat), n \in Nat : line = req[r].rec /\ w = line.words /\ n = Len(w)
  <2>1. PICK line \in RowRecords : line = req[r].rec
    BY <1>1 DEF Requested
  <2>2. PICK w \in Seq(Nat) : w = line.words
    BY DEF RowRecords
  <2>3. Len(w) \in Nat
    OBVIOUS
  <2> QED BY <2>1, <2>2, <2>3
<1>3. CASE rows' = rows
  BY <1>1, <1>3, RequestEnds
<1>4. CASE rows' # rows
  <2>1. PICK c \in 1..(n - 1) : rows' = Spliced(req[r].id, 1, <<Half(line, SubSeq(w, 1, c)), Half(line, SubSeq(w, c + 1, n))>>)
    BY <1>2, <1>4 DEF Split, Splice
  <2>2. PICK a \in Seq(Nat), b \in Seq(Nat) : a = SubSeq(w, 1, c) /\ b = SubSeq(w, c + 1, n) /\ w = a \o b
          /\ Len(a) = c /\ Len(b) = n - c /\ (\A i \in 1..c : a[i] = w[i]) /\ \A i \in 1..(n - c) : b[i] = w[c + i]
    <3>1. PICK d \in Nat : d = c + 1
      OBVIOUS
    <3>2. c \in 1..Len(w)
      BY <1>2
    <3>3. PICK a, b : a = SubSeq(w, 1, c) /\ b = SubSeq(w, d, n)
      OBVIOUS
    <3>4. a \in Seq(Nat) /\ b \in Seq(Nat) /\ w = a \o b /\ Len(a) = c /\ Len(b) = n - c
      <4>1. SubSeq(w, 1, c) \in Seq(Nat) /\ SubSeq(w, d, n) \in Seq(Nat)
        BY <1>2, <3>1, <3>2, CutInTwo
      <4>2. Len(SubSeq(w, 1, c)) = c /\ Len(SubSeq(w, d, n)) = n - c
        BY <1>2, <3>1, <3>2, CutInTwo
      <4>3. SubSeq(w, 1, c) \o SubSeq(w, d, n) = w
        <5>1. n = Len(w) /\ d = c + 1
          BY <1>2, <3>1
        <5> QED BY <3>2, <5>1, CutInTwo
      <4> QED BY <3>3, <4>1, <4>2, <4>3
    <3>5. (\A i \in 1..c : a[i] = w[i]) /\ \A i \in 1..(n - c) : b[i] = w[c + i]
      BY <1>2, <3>1, <3>2, <3>3, CutInTwo
    <3> QED BY <3>1, <3>3, <3>4, <3>5
  <2>3. PICK h \in FitRecords, k \in FitRecords :
          h = Half(line, a) /\ k = Half(line, b) /\ h.words = a /\ h.src = a /\ k.words = b /\ k.src = b
    BY HalvesFit
  <2>4. PICK new \in Seq(FitRecords) : new = <<h, k>>
    BY SmallSeqs
  <2>5. rows' = Spliced(req[r].id, 1, new)
    BY <2>1, <2>2, <2>3, <2>4
  <2>6. ASSUME ~overlap
        PROVE  /\ req[r].id + 1 <= Len(rows) + 1
               /\ FlatOf(new) = FlatOf(SubSeq(rows, req[r].id, req[r].id + 1 - 1))
               /\ \A i \in DOMAIN new : new[i].words = new[i].src /\ Ascends(new[i].words)
               /\ TouchedBy(req[r]) = req[r].id..(req[r].id + 1 - 1)
    <3>1. Knows(req[r], rows) /\ Renders(rows, script)
      BY <1>1, <2>6, AloneBusy
    <3>2. PICK o \in Nat : o = req[r].id /\ o \in 1..Len(rows) /\ line = rows[o] /\ rows \in Seq(RowRecords)
      BY <1>1, <1>2, <3>1 DEF Knows, Renders, Requested
    <3>3. o + 1 <= Len(rows) + 1 /\ o + 1 - 1 = o
      BY <3>2
    <3>4. SubSeq(rows, o, o) = <<line>>
      BY <3>2, PartOfOne
    <3>5. FlatOf(<<line>>) = w /\ Ascends(w)
      <4>1. line.src = w /\ Ascends(w)
        BY <1>2, <3>1, <3>2 DEF Renders
      <4> QED BY <4>1, FlatOfOne
    <3>6. FlatOf(new) = w
      <4>1. h \in RowRecords /\ k \in RowRecords
        BY DEF FitRecords
      <4>2. PICK x \in Seq(RowRecords), y \in Seq(RowRecords) : x = <<h>> /\ y = <<k>>
        BY <4>1, SmallSeqs
      <4>3. x \o y = new
        BY <2>4, <4>1, <4>2, SmallSeqs
      <4>4. FlatOf(x \o y) = FlatOf(x) \o FlatOf(y)
        BY FlatOfRows
      <4>5. FlatOf(x) = a /\ FlatOf(y) = b
        BY <2>3, <4>1, <4>2, FlatOfOne
      <4> QED BY <2>2, <4>3, <4>4, <4>5
    <3>7. Ascends(a) /\ Ascends(b)
      <4>1. \A i, j \in 1..n : i < j => w[i] < w[j]
        <5>1. DOMAIN w = 1..n
          BY <1>2
        <5> QED BY <3>5, <5>1 DEF Ascends
      <4>2. Ascends(a)
        <5> SUFFICES ASSUME NEW i \in 1..c, NEW j \in 1..c, i < j PROVE a[i] < a[j]
          BY <2>2 DEF Ascends
        <5>1. i \in 1..n /\ j \in 1..n
          OBVIOUS
        <5> QED BY <2>2, <4>1, <5>1
      <4>3. Ascends(b)
        <5>1. DOMAIN b = 1..(n - c)
          BY <2>2
        <5> SUFFICES ASSUME NEW i \in 1..(n - c), NEW j \in 1..(n - c), i < j PROVE b[i] < b[j]
          BY <5>1 DEF Ascends
        <5>2. c + i \in 1..n /\ c + j \in 1..n /\ c + i < c + j
          OBVIOUS
        <5> QED BY <2>2, <4>1, <5>2
      <4> QED BY <4>2, <4>3
    <3>8. \A i \in DOMAIN new : new[i].words = new[i].src /\ Ascends(new[i].words)
      <4>1. DOMAIN new = {1, 2} /\ new[1] = h /\ new[2] = k
        BY <2>4
      <4> QED BY <2>3, <3>7, <4>1
    <3>9. TouchedBy(req[r]) = o..o
      <4>1. TouchedBy(req[r]) = {o}
        BY <1>1, <3>2 DEF TouchedBy
      <4>2. o..o = {o}
        OBVIOUS
      <4> QED BY <4>1, <4>2
    <3> QED BY <3>2, <3>3, <3>4, <3>5, <3>6, <3>8, <3>9
  <2> QED BY <1>1, <2>5, <2>6, SpliceKeeps
<1> QED BY <1>3, <1>4

\* mergePair: the row in place of the two has their words.
LEMMA MergeKeepsText ==
  ASSUME SegmentsInv, NEW r \in Requests, Merge(r)
  PROVE  SegmentsInv'
<1>1. /\ req[r] \in Requested /\ req[r].at = "put" /\ Busy(req[r]) /\ req[r].op \in {"merge", "mergePrevious"} /\ Ends(r)
      /\ UNCHANGED <<overlap, runs, script, reshaped, authored>>
  BY DEF Merge, reqConst, SegmentsInv, RequestsAre, Busy
<1>2. PICK first \in RowRecords, second \in RowRecords : first = req[r].rec /\ second = req[r].next
  BY <1>1 DEF Requested
<1>3. CASE rows' = rows
  BY <1>1, <1>3, RequestEnds
<1>4. CASE rows' # rows
  <2>1. PICK line : line = Merged(first, second) /\ Valid(line) /\ rows' = Spliced(req[r].id, 2, <<line>>)
    BY <1>2, <1>4 DEF Merge, Splice
  <2>2. line \in FitRecords /\ line.words = first.words \o second.words /\ line.src = first.words \o second.words
    BY <2>1, MergedFits
  <2>3. PICK new \in Seq(FitRecords) : new = <<line>>
    BY <2>2, SmallSeqs
  <2>4. rows' = Spliced(req[r].id, 2, new)
    BY <2>1, <2>3
  <2>5. ASSUME ~overlap
        PROVE  /\ req[r].id + 2 <= Len(rows) + 1
               /\ FlatOf(new) = FlatOf(SubSeq(rows, req[r].id, req[r].id + 2 - 1))
               /\ \A i \in DOMAIN new : new[i].words = new[i].src /\ Ascends(new[i].words)
               /\ TouchedBy(req[r]) = req[r].id..(req[r].id + 2 - 1)
    <3>1. Knows(req[r], rows) /\ Renders(rows, script)
      BY <1>1, <2>5, AloneBusy
    <3>2. PICK o \in Nat : /\ o = req[r].id /\ o \in DOMAIN rows /\ o + 1 \in DOMAIN rows
                           /\ first = rows[o] /\ second = rows[o + 1] /\ rows \in Seq(RowRecords)
      BY <1>1, <1>2, <3>1 DEF Knows, Renders, Requested
    <3>3. o >= 1 /\ o + 1 <= Len(rows) /\ o + 2 <= Len(rows) + 1 /\ o + 2 - 1 = o + 1
      BY <3>2
    <3>4. SubSeq(rows, o, o + 1) = <<first, second>>
      <4>1. PICK d : d = o + 1 /\ d \in 1..Len(rows) /\ o \in 1..Len(rows)
        <5>1. DOMAIN rows = 1..Len(rows)
          BY <3>2
        <5> QED BY <3>2, <5>1
      <4>2. SubSeq(rows, o, d) = <<rows[o], rows[d]>>
        BY <3>2, <4>1, PartOfTwo
      <4> QED BY <3>2, <4>1, <4>2
    <3>5. first.src = first.words /\ second.src = second.words
      BY <3>1, <3>2 DEF Renders
    <3>6. FlatOf(<<first, second>>) = first.words \o second.words
      <4>1. PICK x \in Seq(RowRecords), y \in Seq(RowRecords) : x = <<first>> /\ y = <<second>>
        BY SmallSeqs
      <4>2. x \o y = <<first, second>>
        BY <4>1, SmallSeqs
      <4>3. FlatOf(x \o y) = FlatOf(x) \o FlatOf(y)
        BY FlatOfRows
      <4>4. FlatOf(x) = first.src /\ FlatOf(y) = second.src
        BY <4>1, FlatOfOne
      <4> QED BY <3>5, <4>2, <4>3, <4>4
    <3>7. FlatOf(new) = first.words \o second.words
      <4>1. line \in RowRecords
        BY <2>2 DEF FitRecords
      <4> QED BY <2>2, <2>3, <4>1, FlatOfOne
    <3>8. \A i \in DOMAIN new : new[i].words = new[i].src /\ Ascends(new[i].words)
      <4>1. DOMAIN new = {1} /\ new[1] = line
        BY <2>3
      <4> QED BY <2>1, <2>2, <4>1 DEF Valid
    <3>9. TouchedBy(req[r]) = o..(o + 1)
      <4>1. TouchedBy(req[r]) = {o, o + 1}
        BY <1>1, <3>2 DEF TouchedBy
      <4>2. o..(o + 1) = {o, o + 1}
        OBVIOUS
      <4> QED BY <4>1, <4>2
    <3> QED BY <3>2, <3>3, <3>4, <3>6, <3>7, <3>8, <3>9
  <2> QED BY <1>1, <2>4, <2>5, SpliceKeeps
<1> QED BY <1>3, <1>4

-----------------------------------------------------------------------------
(* Segments: the runs, and every step *)

\* What a run leaves in the table.
Stored(s, failed) ==
  LET made == [i \in DOMAIN s |-> Line(s[i], IF i \in failed THEN NilText ELSE [by |-> "model", of |-> s[i]])]
  IN  [i \in DOMAIN s |-> IF i \in DOMAIN rows THEN Replaced(rows[i], made[i]) ELSE made[i]]

\* A run's lines over the rows: the row of a place takes the line's words.
LEMMA StoredLines ==
  ASSUME RowsAre, NEW s \in Scripts, NEW failed, NEW t, t = Stored(s, failed)
  PROVE  /\ s \in Seq(Seq(Nat)) /\ t \in [DOMAIN s -> FitRecords]
         /\ \A i \in DOMAIN s : /\ t[i].words = s[i] /\ t[i].src = s[i] /\ Ascends(s[i])
                                /\ i \in DOMAIN rows /\ rows[i].edited => t[i].edited /\ t[i].text = rows[i].text
<1>1. s \in Seq(Seq(Nat)) /\ \A i \in DOMAIN s : Ascends(s[i])
  BY SegmentsAssumption
<1>2. ASSUME NEW i \in DOMAIN s
      PROVE  /\ t[i] \in FitRecords /\ t[i].words = s[i] /\ t[i].src = s[i]
             /\ i \in DOMAIN rows /\ rows[i].edited => t[i].edited /\ t[i].text = rows[i].text
  <2>1. PICK w \in Seq(Nat) : w = s[i]
    BY <1>1
  <2>2. PICK x \in {NilText, [by |-> "model", of |-> w]} : x = IF i \in failed THEN NilText ELSE [by |-> "model", of |-> w]
    OBVIOUS
  <2>3. PICK v \in FitRecords : v = Line(w, x) /\ v.words = w /\ v.src = w
    BY LinesFit
  <2>4. v.edited = FALSE
    BY <2>3 DEF Line
  <2>5. t[i] = IF i \in DOMAIN rows THEN Replaced(rows[i], v) ELSE v
    BY <2>1, <2>2, <2>3 DEF Stored
  <2>6. CASE i \in DOMAIN rows
    <3>1. PICK old \in FitRecords : old = rows[i]
      BY <2>6 DEF RowsAre
    <3>2. /\ Replaced(old, v) \in FitRecords
          /\ Replaced(old, v).words = v.words /\ Replaced(old, v).src = v.src
          /\ old.edited => Replaced(old, v).edited /\ Replaced(old, v).text = old.text
      BY <2>4, ReplacedFits
    <3> QED BY <2>1, <2>3, <2>5, <2>6, <3>1, <3>2
  <2>7. CASE i \notin DOMAIN rows
    BY <2>1, <2>3, <2>5, <2>7
  <2> QED BY <2>6, <2>7
<1>3. t \in [DOMAIN s -> FitRecords]
  BY <1>2 DEF Stored
<1> QED BY <1>1, <1>2, <1>3

\* persistLines.
LEMMA RunKeeps ==
  ASSUME SegmentsInv, RunStoresLines
  PROVE  SegmentsInv'
<1>1. PICK s \in Scripts, failed \in SUBSET {1} :
        /\ script' = s
        /\ rows' = Stored(s, failed)
        /\ reshaped' = (reshaped \/ (runs > 0 /\ [i \in DOMAIN rows |-> rows[i].src] # [i \in DOMAIN s |-> s[i]]))
  BY DEF RunStoresLines, Stored
<1>2. runs' = runs + 1 /\ UNCHANGED <<req, overlap, authored>> /\ (~overlap => \A q \in Requests : ~Busy(req[q]))
  BY DEF RunStoresLines, Quiet, Busy
<1>3. RowsAre /\ RequestsAre /\ runs \in Nat
  BY DEF SegmentsInv
<1>4. PICK t : t = rows'
  OBVIOUS
<1>5. /\ s \in Seq(Seq(Nat)) /\ t \in [DOMAIN s -> FitRecords]
      /\ \A i \in DOMAIN s : /\ t[i].words = s[i] /\ t[i].src = s[i] /\ Ascends(s[i])
                             /\ i \in DOMAIN rows /\ rows[i].edited => t[i].edited /\ t[i].text = rows[i].text
  BY <1>1, <1>3, <1>4, StoredLines
<1>6. PICK n \in Nat : n = Len(s) /\ DOMAIN s = 1..n /\ s = [i \in 1..n |-> s[i]]
  BY <1>5
<1>7. RowsAre'
  <2>1. IsFiniteSet(1..n) /\ 1..n \subseteq Nat \ {0}
    <3>1. 1 \in Int /\ n \in Int
      OBVIOUS
    <3> QED BY <3>1, FS_Interval
  <2>2. DOMAIN t = 1..n /\ t \in [DOMAIN t -> FitRecords]
    BY <1>5, <1>6
  <2> QED BY <1>4, <2>1, <2>2 DEF RowsAre
<1>8. RequestsAre' /\ runs' \in Nat /\ runs' # 0
  BY <1>2, <1>3 DEF RequestsAre
<1>9. ASSUME ~overlap
      PROVE  OneAtATime' /\ Renders(rows', script') /\ (~reshaped' => AuthoredAreHeld')
  <2>1. \A q \in Requests : ~Busy(req'[q])
    BY <1>2, <1>9
  <2>2. OneAtATime'
    BY <2>1 DEF OneAtATime
  <2>3. Renders(t, s)
    <3>1. t \in Seq(RowRecords)
      <4>1. \A i \in 1..n : t[i] \in RowRecords
        BY <1>5, <1>6 DEF FitRecords
      <4>2. t = [i \in 1..n |-> t[i]]
        BY <1>5, <1>6
      <4> HIDE DEF RowRecords
      <4> QED BY <4>1, <4>2, IsASeq
    <3>2. SrcsOf(t) = s
      <4>1. DOMAIN t = 1..n /\ \A i \in 1..n : t[i].src = s[i]
        BY <1>5, <1>6
      <4> QED BY <1>6, <4>1 DEF SrcsOf
    <3>3. \A i \in DOMAIN t : t[i].words = t[i].src /\ Ascends(t[i].words)
      BY <1>5
    <3> QED BY <3>1, <3>2, <3>3 DEF Renders, FlatOf
  <2>4. ASSUME ~reshaped' PROVE AuthoredAreHeld'
    <3>1. ~reshaped /\ (\A x \in authored : HeldIn(rows, x)) /\ Renders(rows, script) /\ (runs = 0 => DOMAIN rows = {})
      BY <1>1, <1>9, <2>4 DEF SegmentsInv, AuthoredAreHeld
    <3>2. ASSUME NEW x \in authored' PROVE HeldIn(rows', x)
      <4>1. PICK p \in DOMAIN rows : rows[p].text = x /\ rows[p].src = x.of /\ rows[p].edited
        BY <1>2, <3>1, <3>2 DEF HeldIn
      <4>2. runs > 0
        BY <1>3, <3>1, <4>1
      <4>3. [i \in DOMAIN rows |-> rows[i].src] = [i \in DOMAIN s |-> s[i]]
        BY <1>1, <2>4, <4>2
      <4>4. p \in DOMAIN s /\ rows[p].src = s[p]
        <5>1. PICK f : f = [i \in DOMAIN rows |-> rows[i].src] /\ f = [i \in DOMAIN s |-> s[i]]
          BY <4>3
        <5>2. DOMAIN f = DOMAIN rows /\ f[p] = rows[p].src
          BY <5>1
        <5>3. DOMAIN f = DOMAIN s /\ \A i \in DOMAIN s : f[i] = s[i]
          BY <5>1
        <5> QED BY <4>1, <5>2, <5>3
      <4>5. t[p].text = x /\ t[p].src = x.of /\ t[p].edited
        BY <1>5, <4>1, <4>4
      <4> QED BY <1>4, <1>5, <4>4, <4>5 DEF HeldIn
    <3> QED BY <2>1, <3>2 DEF AuthoredAreHeld
  <2> QED BY <1>1, <1>4, <2>2, <2>3, <2>4
<1> QED BY <1>2, <1>7, <1>8, <1>9 DEF SegmentsInv

\* The invariant holds of an empty table.
LEMMA SegmentsStart == SegmentsInit => SegmentsInv
<1> SUFFICES ASSUME SegmentsInit PROVE SegmentsInv
  OBVIOUS
<1>1. rows = <<>> /\ script = <<>> /\ runs = 0 /\ authored = {} /\ req = [r \in Requests |-> NoRequest]
  BY DEF SegmentsInit
<1>2. DOMAIN rows = {} /\ rows \in Seq(RowRecords)
  BY <1>1
<1>3. RowsAre
  <2>1. IsFiniteSet({})
    BY FS_EmptySet
  <2> QED BY <1>1, <1>2, <2>1 DEF RowsAre
<1>4. \A r \in Requests : req[r] = NoRequest /\ ~Busy(req[r])
  BY <1>1 DEF NoRequest, Busy
<1>5. RequestsAre
  BY <1>1, <1>4, NoRequestIs DEF RequestsAre
<1>6. OneAtATime /\ AuthoredAreHeld
  BY <1>1, <1>4 DEF OneAtATime, AuthoredAreHeld
<1>7. Renders(rows, script)
  <2>1. SrcsOf(rows) = <<>>
    BY <1>1 DEF SrcsOf
  <2> QED BY <1>1, <1>2, <2>1 DEF Renders, FlatOf
<1> QED BY <1>1, <1>2, <1>3, <1>5, <1>6, <1>7 DEF SegmentsInv

\* Steps that touch neither rows nor requests.
LEMMA SegmentsStill ==
  ASSUME SegmentsInv, UNCHANGED <<rows, req, overlap, runs, script, authored, reshaped>>
  PROVE  SegmentsInv'
<1>1. RowsAre' /\ RequestsAre' /\ runs' \in Nat
  BY DEF SegmentsInv, RowsAre, RequestsAre
<1>2. ~overlap => OneAtATime' /\ (~reshaped => AuthoredAreHeld')
  BY DEF SegmentsInv, OneAtATime, AuthoredAreHeld
<1> QED BY <1>1, <1>2 DEF SegmentsInv

\* Every step of a request or a run keeps the invariant.
LEMMA SegmentsStep == SegmentsInv /\ [SegmentsNext]_segVars => SegmentsInv'
<1> SUFFICES ASSUME SegmentsInv, [SegmentsNext]_segVars PROVE SegmentsInv'
  OBVIOUS
<1>1. CASE RunStoresLines
  BY <1>1, RunKeeps
<1>2. CASE QcChecks \/ SaveFindings \/ UNCHANGED segVars
  <2>1. UNCHANGED <<rows, req, overlap, runs, script, authored, reshaped>>
    BY <1>2 DEF QcChecks, SaveFindings, segVars
  <2> QED BY <2>1, SegmentsStill
<1>3. ASSUME NEW r \in Requests,
             \/ Begin(r) \/ Retranslate(r) \/ Look(r) \/ Read(r) \/ ReadSecond(r)
             \/ Apply(r) \/ Split(r) \/ Merge(r) \/ Review(r)
      PROVE  SegmentsInv'
  BY <1>3, BeginKeeps, RetranslateKeeps, LookKeeps, ReadKeeps, ReadSecondKeeps, ApplyKeeps, SplitKeeps,
     MergeKeepsText, ReviewKeeps
<1> QED BY <1>1, <1>2, <1>3 DEF SegmentsNext

\* The invariant says what LinesKeepTheirText does.
LEMMA SegmentsAreFine == SegmentsInv => LinesKeepTheirText
<1> SUFFICES ASSUME SegmentsInv PROVE LinesKeepTheirText
  OBVIOUS
<1>1. MachineTextFitsItsLine
  BY DEF SegmentsInv, RowsAre, FitRecords, Fits, MachineTextFitsItsLine
<1>2. TranscriptIsIntact
  <2> SUFFICES ASSUME ~overlap
               PROVE  /\ DOMAIN rows = 1..Cardinality(DOMAIN rows)
                      /\ FlattenSeq([o \in DOMAIN rows |-> rows[o].src]) = FlattenSeq(script)
    BY DEF TranscriptIsIntact
  <2>1. Renders(rows, script)
    BY DEF SegmentsInv
  <2>2. PICK n \in Nat : DOMAIN rows = 1..n
    BY <2>1 DEF Renders
  <2>3. Cardinality(1..n) = n
    <3>1. 1 \in Int /\ n \in Int /\ (IF 1 > n THEN 0 ELSE n - 1 + 1) = n
      OBVIOUS
    <3> QED BY <3>1, FS_Interval
  <2> QED BY <2>1, <2>2, <2>3 DEF Renders, FlatOf, SrcsOf
<1>3. HumanTextStays
  BY DEF SegmentsInv, AuthoredAreHeld, HeldIn, HumanTextStays
<1> QED BY <1>1, <1>2, <1>3 DEF LinesKeepTheirText

\* Requests and runs: however they interleave, a text of the model is shown
\* with the words it renders; made one at a time, no word of the transcript
\* is lost, repeated or moved, and what a person wrote stays with the words
\* it was written for.
THEOREM TextsStay == SegmentsSpec => []LinesKeepTheirText
<1>1. SegmentsSpec => []SegmentsInv
  BY SegmentsStart, SegmentsStep, PTL DEF SegmentsSpec
<1> QED BY <1>1, SegmentsAreFine, PTL
=============================================================================

--------------------------- MODULE DataInduction ---------------------------
(***************************************************************************)
(* Induction over the natural numbers, and what it gives for recursive     *)
(* functions, in a form with sets and functions for parameters: the proofs *)
(* of the other modules instantiate them where the loops and the buffers   *)
(* of the code are modelled by recursion.                                  *)
(***************************************************************************)
EXTENDS Integers, Sequences, SeqFilter, WellFoundedInduction, SequenceTheorems, TLAPS

-----------------------------------------------------------------------------
\* A set of numbers that is not empty has a least one.
LEMMA LeastNumber ==
  ASSUME NEW S, S \subseteq Nat, S # {}
  PROVE  \E x \in S : \A y \in S : x <= y
<1> DEFINE Below == OpToRel(<, Nat)
<1>1. \A x, y \in Nat : y < x => <<y, x>> \in Below
  BY DEF OpToRel
<1>2. IsWellFoundedOn(Below, Nat)
  BY NatLessThanWellFounded, Zenon
<1> HIDE DEF Below
<1>3. PICK x \in S : \A y \in S : ~ (<<y, x>> \in Below)
  BY <1>2, WFMin
<1>4. ASSUME NEW y \in S
      PROVE  x <= y
  <2>1. x \in Nat /\ y \in Nat
    OBVIOUS
  <2>2. ~(y < x)
    BY <1>1, <1>3, <2>1
  <2> QED
    BY <2>1, <2>2
<1> QED
  BY <1>4

\* Induction: a set with 0 and, with a number, the next one has all numbers.
LEMMA NumbersInductive ==
  ASSUME NEW S, 0 \in S, \A n \in Nat : n \in S => n + 1 \in S
  PROVE  Nat \subseteq S
<1> SUFFICES ASSUME Nat \ S # {}
             PROVE  FALSE
  OBVIOUS
<1>1. PICK x \in Nat \ S : \A y \in Nat \ S : x <= y
  BY LeastNumber
<1>2. x # 0 /\ x - 1 \in Nat /\ x - 1 \notin Nat \ S
  BY <1>1
<1>3. (x - 1) + 1 \in S
  BY <1>2
<1> QED
  BY <1>1, <1>2, <1>3

\* Induction up to a bound.
LEMMA IntervalInductive ==
  ASSUME NEW N \in Nat, NEW S, 0 \in S,
         \A i \in 1 .. N : i - 1 \in S => i \in S
  PROVE  0 .. N \subseteq S
<1> DEFINE T == {n \in Nat : n <= N => n \in S}
<1>1. 0 \in T
  OBVIOUS
<1>2. ASSUME NEW n \in Nat, n \in T
      PROVE  n + 1 \in T
  <2>1. CASE n + 1 <= N
    <3>1. n + 1 \in 1 .. N /\ (n + 1) - 1 = n /\ n \in S
      BY <2>1, <1>2
    <3> QED
      BY <3>1
  <2>2. CASE ~(n + 1 <= N)
    BY <2>2
  <2> QED
    BY <2>1, <2>2
<1>3. Nat \subseteq T
  <2> HIDE DEF T
  <2> QED
    BY <1>1, <1>2, NumbersInductive
<1> QED
  BY <1>3

\* The values the variable of a loop takes: the first one and, after each turn,
\* what the turn makes of the value before.
IsLoop(f, N, start, turn) ==
  f[0] = start /\ \A i \in 1 .. N : f[i] = turn[<<i, f[i - 1]>>]

\* A loop has such values.
LEMMA LoopExists ==
  ASSUME NEW N \in Nat, NEW D, NEW start \in D, NEW turn \in [(1 .. N) \X D -> D]
  PROVE  \E f \in [0 .. N -> D] : IsLoop(f, N, start, turn)
<1> DEFINE Upto(n, f) ==
             /\ f \in [0 .. N -> D]
             /\ f[0] = start
             /\ \A i \in 1 .. n : f[i] = turn[<<i, f[i - 1]>>]
           S == {n \in 0 .. N : \E f \in [0 .. N -> D] : Upto(n, f)}
<1>1. 0 \in S
  <2> DEFINE f == [j \in 0 .. N |-> start]
  <2>1. f \in [0 .. N -> D] /\ f[0] = start /\ 1 .. 0 = {}
    OBVIOUS
  <2>2. Upto(0, f)
    BY <2>1
  <2> HIDE DEF f
  <2> QED
    BY <2>1, <2>2
<1>2. ASSUME NEW n \in 1 .. N, n - 1 \in S
      PROVE  n \in S
  <2>1. PICK f \in [0 .. N -> D] : Upto(n - 1, f)
    BY <1>2
  <2> DEFINE v == turn[<<n, f[n - 1]>>]
             h == [f EXCEPT ![n] = v]
  <2>2. n - 1 \in 0 .. N /\ n \in 0 .. N /\ f[n - 1] \in D
    OBVIOUS
  <2>3. <<n, f[n - 1]>> \in (1 .. N) \X D
    BY <2>2
  <2>4. v \in D
    BY <2>3
  <2>5. h \in [0 .. N -> D] /\ h[0] = start /\ h[n] = v /\ h[n - 1] = f[n - 1]
    BY <2>1, <2>2, <2>4
  <2>6. \A i \in 1 .. n : h[i] = turn[<<i, h[i - 1]>>]
    <3> SUFFICES ASSUME NEW i \in 1 .. n
                 PROVE  h[i] = turn[<<i, h[i - 1]>>]
      OBVIOUS
    <3>1. CASE i = n
      BY <3>1, <2>5
    <3>2. CASE i # n
      <4>1. i \in 1 .. n - 1 /\ i \in 0 .. N /\ i - 1 \in 0 .. N /\ i - 1 # n
        BY <3>2
      <4>2. h[i] = f[i] /\ h[i - 1] = f[i - 1]
        BY <4>1, <3>2
      <4>3. f[i] = turn[<<i, f[i - 1]>>]
        BY <2>1, <4>1
      <4> QED
        BY <4>2, <4>3
    <3> QED
      BY <3>1, <3>2
  <2>7. Upto(n, h)
    BY <2>5, <2>6
  <2> QED
    BY <2>2, <2>5, <2>7
<1>3. 0 .. N \subseteq S
  <2> HIDE DEF S
  <2> QED
    BY <1>1, <1>2, IntervalInductive
<1>4. N \in S
  BY <1>3
<1> QED
  BY <1>4 DEF IsLoop

-----------------------------------------------------------------------------
(***************************************************************************)
(* Filter.                                                                 *)
(***************************************************************************)

\* One turn of Filter's recursion.
FilterTurn(u, e, Keep) == IF e \in Keep THEN Append(u, e) ELSE u

\* f holds the values Filter's recursion goes through on s.
FilterRun(f, s, Keep, T) ==
  /\ f \in [0 .. Len(s) -> Seq(T)]
  /\ f[0] = <<>>
  /\ \A i \in 1 .. Len(s) : f[i] = FilterTurn(f[i - 1], s[i], Keep)
  /\ Filter(s, Keep) = f[Len(s)]

\* Filter is such a recursion.
LEMMA FilterTurns ==
  ASSUME NEW T, NEW s \in Seq(T), NEW Keep
  PROVE  \E f : FilterRun(f, s, Keep, T)
<1> DEFINE N == Len(s)
           D == Seq(T)
           turn == [p \in (1 .. N) \X D |-> FilterTurn(p[2], s[p[1]], Keep)]
           body(h, i) == IF i = 0 THEN <<>>
                         ELSE FilterTurn(h[i - 1], s[i], Keep)
           m == CHOOSE h : h = [i \in 0 .. N |-> body(h, i)]
<1>1. N \in Nat /\ <<>> \in D /\ \A i \in 1 .. N : s[i] \in T
  BY LenProperties, EmptySeq, ElementOfSeq
<1>2. \A i \in 1 .. N : \A u \in D : FilterTurn(u, s[i], Keep) \in D
  BY <1>1, AppendProperties DEF FilterTurn
<1> HIDE DEF N, D
<1>3. turn \in [(1 .. N) \X D -> D]
  BY <1>2
<1>4. PICK f \in [0 .. N -> D] : IsLoop(f, N, <<>>, turn)
  <2> HIDE DEF turn
  <2> QED
    BY <1>1, <1>3, LoopExists
<1>5. ASSUME NEW i \in 1 .. N
      PROVE  f[i] = FilterTurn(f[i - 1], s[i], Keep)
  <2>1. i - 1 \in 0 .. N
    BY <1>1
  <2>2. <<i, f[i - 1]>> \in (1 .. N) \X D
    BY <2>1
  <2>3. turn[<<i, f[i - 1]>>] = FilterTurn(f[i - 1], s[i], Keep)
    BY <2>2
  <2> QED
    BY <1>4, <2>3 DEF IsLoop
<1>6. f = [i \in 0 .. N |-> body(f, i)]
  <2>1. \A i \in 0 .. N : f[i] = body(f, i)
    BY <1>1, <1>4, <1>5 DEF IsLoop
  <2> HIDE DEF body
  <2> QED
    BY <2>1
<1>7. m = [i \in 0 .. N |-> body(m, i)]
  <2> HIDE DEF body
  <2> QED
    BY <1>6
<1>8. Filter(s, Keep) = m[N]
  BY DEF Filter, FilterTurn, N
<1> HIDE DEF m
<1>9. /\ m[0] = <<>>
      /\ \A i \in 1 .. N :
           m[i] = FilterTurn(m[i - 1], s[i], Keep)
  BY <1>1, <1>7
<1>10. m \in [0 .. N -> D]
  <2> DEFINE S == {i \in 0 .. N : m[i] \in D}
  <2>1. 0 \in S
    BY <1>1, <1>9
  <2>2. ASSUME NEW i \in 1 .. N, i - 1 \in S
        PROVE  i \in S
    <3>1. m[i - 1] \in D /\ i \in 0 .. N
      BY <2>2, <1>1
    <3>2. m[i] \in D
      BY <3>1, <1>2, <1>9
    <3> QED
      BY <3>1, <3>2
  <2>3. 0 .. N \subseteq S
    <3> HIDE DEF S
    <3> QED
      BY <1>1, <2>1, <2>2, IntervalInductive
  <2>4. \A i \in 0 .. N : m[i] \in D
    BY <2>3
  <2> HIDE DEF body
  <2>5. m = [i \in 0 .. N |-> m[i]]
    BY <1>7
  <2> QED
    BY <2>4, <2>5
<1> QED
  BY <1>8, <1>9, <1>10 DEF FilterRun, N, D

\* Filter keeps the type.
LEMMA FilterTyped ==
  ASSUME NEW T, NEW s \in Seq(T), NEW Keep
  PROVE  Filter(s, Keep) \in Seq(T)
<1>1. Len(s) \in 0 .. Len(s)
  BY LenProperties
<1> QED
  BY <1>1, FilterTurns DEF FilterRun

\* Nothing is left of nothing.
LEMMA FilterEmpty ==
  ASSUME NEW Keep
  PROVE  Filter(<<>>, Keep) = <<>>
<1> DEFINE s == <<>>
<1>1. s \in Seq({}) /\ Len(s) = 0
  BY EmptySeq
<1>2. Filter(s, Keep) = <<>>
  <2> HIDE DEF s
  <2>1. PICK f : FilterRun(f, s, Keep, {})
    BY <1>1, FilterTurns
  <2> QED
    BY <1>1, <2>1 DEF FilterRun
<1> QED
  BY <1>2

\* Filtering a concatenation filters its two parts.
LEMMA FilterConcat ==
  ASSUME NEW T, NEW s \in Seq(T), NEW t \in Seq(T), NEW Keep
  PROVE  Filter(s \o t, Keep) = Filter(s, Keep) \o Filter(t, Keep)
<1> DEFINE M == Len(s)
           N == Len(t)
           w == s \o t
<1>1. /\ M \in Nat /\ N \in Nat /\ w \in Seq(T) /\ Len(w) = M + N
      /\ \A i \in 1 .. M : w[i] = s[i]
      /\ \A i \in 1 .. N : w[M + i] = t[i]
  BY ConcatProperties, LenProperties
<1>2. PICK f : FilterRun(f, s, Keep, T)
  BY FilterTurns
<1>3. PICK g : FilterRun(g, t, Keep, T)
  BY FilterTurns
<1>4. PICK h : FilterRun(h, w, Keep, T)
  <2> HIDE DEF w
  <2> QED
    BY <1>1, FilterTurns
<1>5. \A i \in 1 .. N : t[i] \in T
  BY ElementOfSeq
<1>B. /\ f \in [0 .. M -> Seq(T)] /\ f[0] = <<>> /\ Filter(s, Keep) = f[M]
      /\ g \in [0 .. N -> Seq(T)] /\ g[0] = <<>> /\ Filter(t, Keep) = g[N]
      /\ h \in [0 .. Len(w) -> Seq(T)] /\ h[0] = <<>> /\ Filter(w, Keep) = h[Len(w)]
  BY <1>2, <1>3, <1>4 DEF FilterRun
<1>A. /\ \A i \in 1 .. M : f[i] = FilterTurn(f[i - 1], s[i], Keep)
      /\ \A i \in 1 .. N : g[i] = FilterTurn(g[i - 1], t[i], Keep)
      /\ \A i \in 1 .. Len(w) : h[i] = FilterTurn(h[i - 1], w[i], Keep)
  BY <1>2, <1>3, <1>4 DEF FilterRun
<1> HIDE DEF M, N, w
<1>6. h[M] = f[M]
  <2> DEFINE S == {i \in 0 .. M : h[i] = f[i]}
  <2>1. 0 \in S
    BY <1>B, <1>1
  <2>2. ASSUME NEW i \in 1 .. M, i - 1 \in S
        PROVE  i \in S
    <3>1. i \in 0 .. M /\ i \in 1 .. Len(w) /\ h[i - 1] = f[i - 1] /\ w[i] = s[i]
      <4>1. h[i - 1] = f[i - 1]
        BY <2>2
      <4> QED
        BY <1>1, <4>1
    <3>2. h[i] = f[i]
      BY <3>1, <1>A
    <3> QED
      BY <3>1, <3>2
  <2>3. 0 .. M \subseteq S
    <3> HIDE DEF S
    <3> QED
      BY <1>1, <2>1, <2>2, IntervalInductive
  <2>4. M \in 0 .. M
    BY <1>1
  <2> QED
    BY <2>3, <2>4
<1>7. f[M] \in Seq(T)
  BY <1>B, <1>1
<1>8. h[M + N] = f[M] \o g[N]
  <2> DEFINE S == {i \in 0 .. N : h[M + i] = f[M] \o g[i]}
  <2>1. 0 \in S
    <3>1. f[M] \o <<>> = f[M]
      BY <1>7, ConcatEmptySeq
    <3>2. M + 0 = M /\ 0 \in 0 .. N
      BY <1>1
    <3> QED
      BY <3>1, <3>2, <1>B, <1>6
  <2>2. ASSUME NEW i \in 1 .. N, i - 1 \in S
        PROVE  i \in S
    <3>1. /\ i \in 0 .. N /\ i - 1 \in 0 .. N /\ M + i \in 1 .. Len(w)
          /\ (M + i) - 1 = M + (i - 1)
      BY <1>1
    <3>2. h[M + (i - 1)] = f[M] \o g[i - 1] /\ w[M + i] = t[i]
      BY <1>1, <2>2
    <3>3. h[M + i] = FilterTurn(f[M] \o g[i - 1], t[i], Keep)
      BY <3>1, <3>2, <1>A
    <3>4. g[i] = FilterTurn(g[i - 1], t[i], Keep) /\ g[i - 1] \in Seq(T) /\ t[i] \in T
      BY <3>1, <1>B, <1>5, <1>A
    <3>5. Append(f[M] \o g[i - 1], t[i]) = f[M] \o Append(g[i - 1], t[i])
      <4>1. <<t[i]>> \in Seq(T) /\ f[M] \o g[i - 1] \in Seq(T)
        BY <3>4, <1>7
      <4>2. Append(f[M] \o g[i - 1], t[i]) = (f[M] \o g[i - 1]) \o <<t[i]>>
        BY <3>4, <4>1, AppendIsConcat
      <4>3. Append(g[i - 1], t[i]) = g[i - 1] \o <<t[i]>>
        BY <3>4, AppendIsConcat
      <4>4. (f[M] \o g[i - 1]) \o <<t[i]>> = f[M] \o (g[i - 1] \o <<t[i]>>)
        <5> DEFINE a == f[M]
                   b == g[i - 1]
                   c == <<t[i]>>
        <5>1. a \in Seq(T) /\ b \in Seq(T) /\ c \in Seq(T)
          BY <3>4, <4>1, <1>7
        <5> HIDE DEF a, b, c
        <5>2. (a \o b) \o c = a \o (b \o c)
          BY <5>1, ConcatAssociative
        <5> QED
          BY <5>2 DEF a, b, c
      <4> QED
        BY <4>2, <4>3, <4>4, Zenon
    <3>6. FilterTurn(f[M] \o g[i - 1], t[i], Keep) = f[M] \o FilterTurn(g[i - 1], t[i], Keep)
      BY <3>5, Zenon DEF FilterTurn
    <3>7. h[M + i] = f[M] \o g[i]
      BY <3>3, <3>4, <3>6, Zenon
    <3> QED
      BY <3>1, <3>7
  <2>3. 0 .. N \subseteq S
    <3> HIDE DEF S
    <3> QED
      BY <1>1, <2>1, <2>2, IntervalInductive
  <2>4. N \in 0 .. N
    BY <1>1
  <2> QED
    BY <2>3, <2>4
<1> QED
  BY <1>B, <1>1, <1>8 DEF w

\* A kept element stays, another goes.
LEMMA FilterOne ==
  ASSUME NEW e, NEW Keep
  PROVE  Filter(<<e>>, Keep) = IF e \in Keep THEN <<e>> ELSE <<>>
<1> DEFINE s == <<e>>
<1>1. s \in Seq({e}) /\ Len(s) = 1 /\ s[1] = e
  OBVIOUS
<1>2. Filter(s, Keep) = FilterTurn(<<>>, e, Keep)
  <2> HIDE DEF s
  <2>1. PICK f : FilterRun(f, s, Keep, {e})
    BY <1>1, FilterTurns
  <2>2. 1 \in 1 .. 1 /\ 1 - 1 = 0
    OBVIOUS
  <2> QED
    BY <1>1, <2>1, <2>2 DEF FilterRun
<1>3. Append(<<>>, e) = <<e>>
  OBVIOUS
<1> QED
  BY <1>2, <1>3 DEF FilterTurn

\* What Filter leaves when the first element goes.
LEMMA FilterTail ==
  ASSUME NEW T, NEW s \in Seq(T), s # <<>>, NEW Keep
  PROVE  /\ Head(s) \in Keep => /\ Filter(s, Keep) # <<>>
                                /\ Filter(Tail(s), Keep) = Tail(Filter(s, Keep))
         /\ Head(s) \notin Keep => Filter(Tail(s), Keep) = Filter(s, Keep)
<1> DEFINE h == Head(s)
           t == Tail(s)
<1>1. h \in T /\ t \in Seq(T) /\ s = <<h>> \o t /\ <<h>> \in Seq(T)
  <2>1. h \in T /\ t \in Seq(T) /\ <<h>> \in Seq(T)
    BY HeadTailProperties
  <2>2. s = <<h>> \o t
    BY HeadTailProperties
  <2> QED
    BY <2>1, <2>2
<1> HIDE DEF h, t
<1>2. Filter(t, Keep) \in Seq(T)
  BY <1>1, FilterTyped
<1>3. Filter(s, Keep) = Filter(<<h>>, Keep) \o Filter(t, Keep)
  <2> DEFINE one == <<h>>
  <2>1. one \in Seq(T) /\ s = one \o t
    BY <1>1
  <2> HIDE DEF one
  <2>2. Filter(one \o t, Keep) = Filter(one, Keep) \o Filter(t, Keep)
    BY <1>1, <2>1, FilterConcat
  <2> QED
    BY <2>1, <2>2 DEF one
<1> DEFINE r == Filter(t, Keep)
<1> HIDE DEF r
<1>4. CASE h \in Keep
  <2>1. Filter(s, Keep) = <<h>> \o r
    BY <1>3, <1>4, FilterOne DEF r
  <2>2. r \in Seq(T)
    BY <1>2 DEF r
  <2>3. <<h>> \o r # <<>> /\ Tail(<<h>> \o r) = r
    BY <1>1, <2>2
  <2> QED
    BY <1>4, <2>1, <2>3 DEF r, h, t
<1>5. CASE h \notin Keep
  <2>1. <<>> \o Filter(t, Keep) = Filter(t, Keep)
    BY <1>2, ConcatEmptySeq
  <2> QED
    BY <1>3, <1>5, <2>1, FilterOne DEF h, t
<1> QED
  BY <1>4, <1>5

\* Nothing is left of elements that all go.
LEMMA FilterNone ==
  ASSUME NEW T, NEW s \in Seq(T), NEW Keep, \A i \in 1 .. Len(s) : s[i] \notin Keep
  PROVE  Filter(s, Keep) = <<>>
<1>1. PICK f : FilterRun(f, s, Keep, T)
  BY FilterTurns
<1> DEFINE S == {i \in 0 .. Len(s) : f[i] = <<>>}
<1>2. Len(s) \in Nat
  BY LenProperties
<1>3. 0 \in S
  BY <1>1, <1>2 DEF FilterRun
<1>4. ASSUME NEW i \in 1 .. Len(s), i - 1 \in S
      PROVE  i \in S
  <2>1. f[i] = f[i - 1]
    BY <1>1 DEF FilterRun, FilterTurn
  <2> QED
    BY <1>2, <1>4, <2>1
<1>5. 0 .. Len(s) \subseteq S
  <2> HIDE DEF S
  <2> QED
    BY <1>2, <1>3, <1>4, IntervalInductive
<1>6. Len(s) \in 0 .. Len(s)
  BY <1>2
<1> QED
  BY <1>1, <1>5, <1>6 DEF FilterRun

=============================================================================

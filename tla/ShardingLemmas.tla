--------------------------- MODULE ShardingLemmas ---------------------------
(***************************************************************************)
(* What the operators return that the models of the data are built from:   *)
(* those on sequences (\o, Tail, FlattenSeq, folds and sums), the packing  *)
(* algorithms, and the three ways a batch is shared out among the shards.  *)
(*                                                                         *)
(* How many rows a shard has is what the workers' collectives depend on,   *)
(* and it must not depend on the lengths of the rows.  A bin's rows are    *)
(* never listed here, only counted: packers are folds, and every step of   *)
(* one moves as many sequences into bins as it takes from what is left     *)
(* (PackedWell), which the adjustment of the number of bins keeps          *)
(* (AdjustedWell).  Bins dealt out in turn give each shard as many         *)
(* (SumExchange, SumStride), whatever the bins hold, and so each chunk of  *)
(* each shard has its share (PackedEven, DynamicEven, PlainRows).          *)
(*                                                                         *)
(* The facts about recursive functions are by induction, in a form without *)
(* an operator as a parameter: a set of natural numbers with 0 and with    *)
(* the successors of its elements has all.                                 *)
(***************************************************************************)
EXTENDS BatchSharding, Integers, Sequences, FiniteSets, SequencesExt, FiniteSetsExt, WellFoundedInduction,
        SequenceTheorems, FiniteSetTheorems, TLAPS

-----------------------------------------------------------------------------
(* Induction. *)

Below == {p \in Nat \X Nat : p[1] < p[2]}

\* The order of the natural numbers is well-founded.
LEMMA BelowWellFounded == IsWellFoundedOn(Below, Nat)
BY NatLessThanWellFounded DEF OpToRel, Below

\* A set of natural numbers that is not empty has a least element.
LEMMA Least ==
  ASSUME NEW T, T \subseteq Nat, T # {}
  PROVE  \E n \in T : \A m \in T : n <= m
<1>1. \E n \in T : \A m \in T : ~ (<<m, n>> \in Below)
  BY BelowWellFounded, WFMin
<1>2. PICK n \in T : \A m \in T : ~ (<<m, n>> \in Below)
  BY <1>1
<1>3. ASSUME NEW m \in T, ~(n <= m) PROVE FALSE
  <2>1. n \in Nat /\ m \in Nat /\ m < n
    BY <1>2, <1>3
  <2>2. <<m, n>> \in Nat \X Nat /\ <<m, n>>[1] < <<m, n>>[2]
    BY <2>1
  <2>3. <<m, n>> \in Below
    BY <2>2, Zenon DEF Below
  <2> QED BY <1>2, <2>3
<1> QED BY <1>2, <1>3

\* A set with 0 and with the successors of its elements has all natural numbers.
LEMMA Induction ==
  ASSUME NEW S, 0 \in S, \A n \in Nat : n \in S => n + 1 \in S
  PROVE  \A n \in Nat : n \in S
<1> DEFINE T == {n \in Nat : n \notin S}
<1> SUFFICES ASSUME T # {} PROVE FALSE
  OBVIOUS
<1>1. T \subseteq Nat
  OBVIOUS
<1> HIDE DEF T
<1>2. PICK n \in T : \A m \in T : n <= m
  BY <1>1, Least
<1>3. n \in Nat /\ n \notin S
  BY DEF T
<1>4. n # 0
  BY <1>3
<1>5. n - 1 \in Nat /\ n - 1 \notin T
  BY <1>2, <1>3, <1>4
<1>6. n - 1 \in S
  BY <1>5 DEF T
<1> QED BY <1>3, <1>5, <1>6

-----------------------------------------------------------------------------
(* Sequences of whatever elements. *)

IsSeq(s) == Len(s) \in Nat /\ s = [i \in 1..Len(s) |-> s[i]]

\* A function on 1..n is a sequence of n elements.
LEMMA FunctionIsSeq ==
  ASSUME NEW n \in Nat, NEW f, f = [i \in 1..n |-> f[i]]
  PROVE  IsSeq(f) /\ Len(f) = n
BY DEF IsSeq

\* An element of Seq(T) is a sequence; a sequence is one over its elements.
LEMMA SeqIsSeq == ASSUME NEW T, NEW s \in Seq(T) PROVE IsSeq(s)
BY DEF IsSeq

\* A sequence all of whose elements are in T is in Seq(T).
LEMMA IsSeqSeq == ASSUME NEW T, NEW s, IsSeq(s), \A i \in 1..Len(s) : s[i] \in T PROVE s \in Seq(T)
BY DEF IsSeq

\* The empty tuple is a sequence.
LEMMA EmptyIsSeq == IsSeq(<<>>) /\ Len(<<>>) = 0
BY DEF IsSeq

\* A tuple of one element is a sequence.
LEMMA SingleIsSeq == ASSUME NEW e PROVE IsSeq(<<e>>) /\ Len(<<e>>) = 1 /\ <<e>>[1] = e
<1>1. <<e>> \in Seq({e})
  OBVIOUS
<1> QED BY <1>1, SeqIsSeq

\* A tuple of two elements is a sequence.
LEMMA PairIsSeq ==
  ASSUME NEW d, NEW e PROVE IsSeq(<<d, e>>) /\ Len(<<d, e>>) = 2 /\ <<d, e>>[1] = d /\ <<d, e>>[2] = e
<1>1. <<d, e>> \in Seq({d, e})
  OBVIOUS
<1> QED BY <1>1, SeqIsSeq

\* The elements of two sequences, joined.
LEMMA ConcatSeq ==
  ASSUME NEW s, NEW t, IsSeq(s), IsSeq(t)
  PROVE  /\ IsSeq(s \o t) /\ Len(s \o t) = Len(s) + Len(t)
         /\ \A i \in 1..Len(s) : (s \o t)[i] = s[i]
         /\ \A i \in 1..Len(t) : (s \o t)[Len(s) + i] = t[i]
<1> DEFINE T == {s[i] : i \in 1..Len(s)} \cup {t[i] : i \in 1..Len(t)}
<1>1. s \in Seq(T) /\ t \in Seq(T)
  BY DEF IsSeq
<1> HIDE DEF T
<1>2. s \o t \in Seq(T) /\ Len(s \o t) = Len(s) + Len(t)
  BY <1>1
<1>3. \A i \in 1..Len(s) : (s \o t)[i] = s[i]
  BY <1>1
<1>4. \A i \in 1..Len(t) : (s \o t)[Len(s) + i] = t[i]
  BY <1>1
<1> QED BY <1>2, <1>3, <1>4, SeqIsSeq

\* Two tuples of one element make one of two.
LEMMA TwoJoined == ASSUME NEW d, NEW e PROVE <<d>> \o <<e>> = <<d, e>>
<1> DEFINE T == {d, e}
<1>1. <<d>> \in Seq(T) /\ <<e>> \in Seq(T) /\ <<d, e>> \in Seq(T)
  OBVIOUS
<1>2. Len(<<d>> \o <<e>>) = 2 /\ (<<d>> \o <<e>>)[1] = d /\ (<<d>> \o <<e>>)[2] = e
  BY <1>1
<1>3. <<d>> \o <<e>> \in Seq(T)
  BY <1>1
<1>4. Len(<<d, e>>) = 2 /\ <<d, e>>[1] = d /\ <<d, e>>[2] = e
  OBVIOUS
<1> HIDE DEF T
<1>5. Len(<<d>> \o <<e>>) = Len(<<d, e>>) /\ \A i \in 1..Len(<<d>> \o <<e>>) : (<<d>> \o <<e>>)[i] = <<d, e>>[i]
  BY <1>2, <1>4
<1> QED BY ONLY <1>1, <1>3, <1>5, SeqEqual

\* The head and the tail of a sequence that is not empty.
LEMMA TailSeq ==
  ASSUME NEW s, IsSeq(s), s # <<>>
  PROVE  /\ Len(s) > 0 /\ Head(s) = s[1]
         /\ IsSeq(Tail(s)) /\ Len(Tail(s)) = Len(s) - 1
         /\ \A i \in 1..(Len(s) - 1) : Tail(s)[i] = s[i + 1]
<1> DEFINE T == {s[i] : i \in 1..Len(s)}
<1>1. s \in Seq(T)
  BY DEF IsSeq
<1> HIDE DEF T
<1>2. Len(s) \in Nat /\ Len(s) > 0 /\ Head(s) = s[1] 
  BY <1>1
<1>3. Tail(s) \in Seq(T) /\ Len(Tail(s)) = Len(s) - 1 /\ \A i \in 1..Len(Tail(s)) : Tail(s)[i] = s[i + 1]
  BY ONLY <1>1, s # <<>>, HeadTailProperties
<1> QED BY <1>2, <1>3, SeqIsSeq

\* A sequence is empty when it has no elements.
LEMMA NoneIsEmpty == ASSUME NEW s, IsSeq(s) PROVE s = <<>> <=> Len(s) = 0
BY DEF IsSeq

\* The piece of a list from m to n.
LEMMA SubSeqIsSeq ==
  ASSUME NEW s, NEW m \in Int, NEW n \in Int, m <= n + 1
  PROVE  /\ IsSeq(SubSeq(s, m, n)) /\ Len(SubSeq(s, m, n)) = n - m + 1
         /\ \A i \in 1..(n - m + 1) : SubSeq(s, m, n)[i] = s[m + i - 1]
<1> DEFINE f == [i \in 1..(n - m + 1) |-> s[i + m - 1]]
<1>1. SubSeq(s, m, n) = f
  OBVIOUS
<1>2. n - m + 1 \in Nat
  OBVIOUS
<1>3. f = [i \in 1..(n - m + 1) |-> f[i]]
  OBVIOUS
<1>4. IsSeq(f) /\ Len(f) = n - m + 1
  BY <1>2, <1>3, FunctionIsSeq
<1> QED BY <1>1, <1>4

-----------------------------------------------------------------------------
(* FlattenSeq. *)

\* f holds the first n sequences of s, joined.
IsFlattening(f, s, n) == f = [i \in 1..n |-> IF i = 1 THEN s[i] ELSE f[i - 1] \o s[i]]

\* The function of all partial concatenations that FlattenSeq chooses exists.
LEMMA FlattenExists ==
  ASSUME NEW s, NEW n \in Nat
  PROVE  \E f : IsFlattening(f, s, n)
<1> DEFINE S == {k \in Nat : \E f : IsFlattening(f, s, k)}
<1>1. 0 \in S
  <2> DEFINE f == [i \in 1..0 |-> s[i]]
  <2>1. IsFlattening(f, s, 0)
    BY DEF IsFlattening
  <2> QED BY <2>1
<1>2. ASSUME NEW k \in Nat, k \in S PROVE k + 1 \in S
  <2>1. PICK f : IsFlattening(f, s, k)
    BY <1>2
  <2> DEFINE g == [i \in 1..(k + 1) |-> IF i = k + 1 THEN (IF i = 1 THEN s[i] ELSE f[k] \o s[i]) ELSE f[i]]
  <2>2. ASSUME NEW i \in 1..(k + 1) PROVE g[i] = IF i = 1 THEN s[i] ELSE g[i - 1] \o s[i]
    <3>1. CASE i = k + 1
      <4>1. i # 1 => g[i - 1] = f[k]
        BY <3>1
      <4> QED BY <3>1, <4>1
    <3>2. CASE i # k + 1
      <4>1. i \in 1..k /\ g[i] = f[i] /\ (i # 1 => g[i - 1] = f[i - 1])
        BY <3>2
      <4>2. f[i] = IF i = 1 THEN s[i] ELSE f[i - 1] \o s[i]
        BY <2>1, <4>1 DEF IsFlattening
      <4> QED BY <4>1, <4>2
    <3> QED BY <3>1, <3>2
  <2>3. g = [i \in 1..(k + 1) |-> g[i]]
    OBVIOUS
  <2> HIDE DEF g
  <2>4. IsFlattening(g, s, k + 1)
    BY <2>2, <2>3 DEF IsFlattening
  <2> QED BY <2>4
<1> HIDE DEF S
<1>3. n \in S
  BY <1>1, <1>2, Induction
<1> QED BY <1>3 DEF S

\* FlattenSeq is the last of its partial results.
LEMMA FlattenRule ==
  ASSUME NEW s, Len(s) \in Nat, Len(s) > 0
  PROVE  \E f : IsFlattening(f, s, Len(s)) /\ FlattenSeq(s) = f[Len(s)]
<1> DEFINE f == CHOOSE f : f = [i \in 1..Len(s) |-> IF i = 1 THEN s[i] ELSE f[i - 1] \o s[i]]
<1>1. IsFlattening(f, s, Len(s))
  <2>1. \E g : g = [i \in 1..Len(s) |-> IF i = 1 THEN s[i] ELSE g[i - 1] \o s[i]]
    BY FlattenExists DEF IsFlattening
  <2> QED BY <2>1 DEF IsFlattening
<1>2. FlattenSeq(s) = f[Len(s)]
  BY DEF FlattenSeq
<1> QED BY <1>1, <1>2

\* What it says of each partial concatenation.
LEMMA FlattenStep ==
  ASSUME NEW s, NEW n \in Nat, NEW f, IsFlattening(f, s, n), NEW i \in 1..n
  PROVE  f[i] = IF i = 1 THEN s[i] ELSE f[i - 1] \o s[i]
BY DEF IsFlattening

\* What holds of sequences and of the join of two of which it holds, holds of
\* the join of all.
LEMMA FlattenClosed ==
  ASSUME NEW W, NEW s, IsSeq(s), Len(s) > 0, \A i \in 1..Len(s) : s[i] \in W,
         \A a, b \in W : a \o b \in W
  PROVE  FlattenSeq(s) \in W
<1> DEFINE n == Len(s)
<1>1. n \in Nat /\ n > 0 /\ \A i \in 1..n : s[i] \in W
  BY DEF IsSeq
<1>2. PICK f : IsFlattening(f, s, n) /\ FlattenSeq(s) = f[n]
  BY <1>1, FlattenRule
<1> HIDE DEF n
<1> DEFINE S == {k \in Nat : k \in 1..n => f[k] \in W}
<1>3. 0 \in S
  OBVIOUS
<1>4. ASSUME NEW k \in Nat, k \in S, k + 1 \in 1..n PROVE f[k + 1] \in W
  <2>1. f[k + 1] = IF k + 1 = 1 THEN s[k + 1] ELSE f[(k + 1) - 1] \o s[k + 1]
    BY ONLY <1>1, <1>2, <1>4, FlattenStep
  <2>2. CASE k = 0
    <3>1. f[k + 1] = s[k + 1]
      BY ONLY <2>1, <2>2
    <3> QED BY ONLY <1>1, <1>4, <3>1
  <2>3. CASE k # 0
    <3>1. k \in 1..n /\ k + 1 # 1 /\ (k + 1) - 1 = k
      BY <1>1, <1>4, <2>3
    <3>2. f[k] \in W /\ s[k + 1] \in W
      BY <1>1, <1>4, <3>1
    <3>3. f[k + 1] = f[k] \o s[k + 1]
      BY ONLY <2>1, <3>1
    <3> QED BY <3>2, <3>3
  <2> QED BY ONLY <2>2, <2>3
<1>5. \A k \in Nat : k \in S => k + 1 \in S
  BY <1>4
<1> HIDE DEF S
<1>6. \A k \in Nat : k \in S
  BY <1>3, <1>5, Induction
<1> QED BY <1>1, <1>2, <1>6 DEF S

\* Sequences of the same length c: where their elements are when joined.
LEMMA FlattenUniform ==
  ASSUME NEW c \in Nat, NEW s, IsSeq(s), \A i \in 1..Len(s) : IsSeq(s[i]) /\ Len(s[i]) = c
  PROVE  /\ IsSeq(FlattenSeq(s)) /\ Len(FlattenSeq(s)) = Len(s) * c
         /\ \A i \in 1..Len(s), j \in 1..c : FlattenSeq(s)[(i - 1) * c + j] = s[i][j]
<1> DEFINE n == Len(s)
           Joined(g, k) == /\ IsSeq(g) /\ Len(g) = k * c
                           /\ \A i \in 1..k, j \in 1..c : g[(i - 1) * c + j] = s[i][j]
<1>1. n \in Nat /\ \A i \in 1..n : IsSeq(s[i]) /\ Len(s[i]) = c
  BY DEF IsSeq
<1>2. CASE n = 0
  <2>1. s = <<>>
    BY <1>2, NoneIsEmpty
  <2>2. FlattenSeq(s) = <<>>
    BY <2>1 DEF FlattenSeq
  <2> QED BY ONLY <1>2, <2>2, EmptyIsSeq, c \in Nat
<1>3. CASE n > 0
  <2>1. PICK f : IsFlattening(f, s, n) /\ FlattenSeq(s) = f[n]
    BY <1>1, <1>3, FlattenRule
  <2> HIDE DEF n
  <2> DEFINE S == {k \in Nat : k \in 1..n => Joined(f[k], k)}
  <2>2. 0 \in S
    OBVIOUS
  <2>3. ASSUME NEW k \in Nat, k \in S, k + 1 \in 1..n PROVE Joined(f[k + 1], k + 1)
    <3>1. f[k + 1] = IF k + 1 = 1 THEN s[k + 1] ELSE f[(k + 1) - 1] \o s[k + 1]
      BY ONLY <1>1, <2>1, <2>3, FlattenStep
    <3>2. IsSeq(s[k + 1]) /\ Len(s[k + 1]) = c
      BY <1>1, <2>3
    <3>3. CASE k = 0
      <4>1. f[k + 1] = s[k + 1]
        BY ONLY <3>1, <3>3
      <4>2. (k + 1) * c = c /\ \A i \in 1..(k + 1), j \in 1..c : i = k + 1 /\ (i - 1) * c + j = j
        BY ONLY <3>3, c \in Nat
      <4> QED BY ONLY <3>2, <4>1, <4>2
    <3>4. CASE k # 0
      <4>1. k \in 1..n /\ k + 1 # 1 /\ (k + 1) - 1 = k
        BY <1>1, <2>3, <3>4
      <4>2. Joined(f[k], k)
        BY <2>3, <4>1
      <4>3. f[k + 1] = f[k] \o s[k + 1]
        BY ONLY <3>1, <4>1
      <4>4. /\ IsSeq(f[k + 1]) /\ Len(f[k + 1]) = Len(f[k]) + Len(s[k + 1])
            /\ \A i \in 1..Len(f[k]) : f[k + 1][i] = f[k][i]
            /\ \A i \in 1..Len(s[k + 1]) : f[k + 1][Len(f[k]) + i] = s[k + 1][i]
        <5>1. IsSeq(f[k]) /\ IsSeq(s[k + 1])
          BY ONLY <3>2, <4>2
        <5>2. PICK a, b : a = f[k] /\ b = s[k + 1]
          OBVIOUS
        <5>3. IsSeq(a) /\ IsSeq(b)
          BY ONLY <5>1, <5>2
        <5>4. /\ IsSeq(a \o b) /\ Len(a \o b) = Len(a) + Len(b)
              /\ \A i \in 1..Len(a) : (a \o b)[i] = a[i]
              /\ \A i \in 1..Len(b) : (a \o b)[Len(a) + i] = b[i]
          BY ONLY <5>3, ConcatSeq
        <5>5. f[k + 1] = a \o b
          BY ONLY <4>3, <5>2
        <5> QED BY ONLY <5>2, <5>4, <5>5
      <4>5. Len(f[k + 1]) = (k + 1) * c
        <5>1. (k + 1) * c = k * c + c
          BY ONLY c \in Nat, k \in Nat
        <5> QED BY ONLY <3>2, <4>2, <4>4, <5>1
      <4>6. ASSUME NEW i \in 1..(k + 1), NEW j \in 1..c PROVE f[k + 1][(i - 1) * c + j] = s[i][j]
        <5>1. CASE i = k + 1
          <6>1. (i - 1) * c + j = Len(f[k]) + j
            BY ONLY <4>2, <5>1, k \in Nat, c \in Nat, j \in 1..c
          <6> QED BY ONLY <3>2, <4>4, <5>1, <6>1, j \in 1..c
        <5>2. CASE i # k + 1
          <6>1. i \in 1..k
            BY ONLY <5>2, k \in Nat, i \in 1..(k + 1)
          <6>2. f[k][(i - 1) * c + j] = s[i][j]
            BY ONLY <4>2, <6>1, j \in 1..c
          <6>3. (i - 1) * c + j \in 1..(k * c)
            <7>1. (i - 1) * c \in Nat /\ k * c = (i - 1) * c + (k - i + 1) * c
              BY ONLY <6>1, k \in Nat, c \in Nat
            <7>2. (k - i + 1) * c >= c
              BY ONLY <6>1, k \in Nat, c \in Nat
            <7>3. (k - i + 1) * c \in Nat
              BY ONLY <6>1, k \in Nat, c \in Nat
            <7> QED BY ONLY <7>1, <7>2, <7>3, j \in 1..c, c \in Nat
          <6> QED BY ONLY <4>2, <4>4, <6>2, <6>3
        <5> QED BY ONLY <5>1, <5>2
      <4> QED BY ONLY <4>4, <4>5, <4>6
    <3> QED BY ONLY <3>3, <3>4
  <2> HIDE DEF Joined
  <2>4. \A k \in Nat : k \in S => k + 1 \in S
    BY <2>3
  <2> HIDE DEF S
  <2>5. \A k \in Nat : k \in S
    BY <2>2, <2>4, Induction
  <2>6. n \in S /\ n \in 1..n
    BY <1>1, <1>3, <2>5
  <2>7. Joined(f[n], n)
    BY <2>6 DEF S
  <2> QED BY <2>1, <2>7 DEF n, Joined
<1> QED BY <1>1, <1>2, <1>3

\* Two sequences are as long, with related elements at equal places.
Alike(a, b, R) == IsSeq(a) /\ IsSeq(b) /\ Len(a) = Len(b) /\ \A j \in 1..Len(a) : <<a[j], b[j]>> \in R

\* Concatenations of alike sequences are alike.
LEMMA ConcatAlike ==
  ASSUME NEW R, NEW a, NEW b, NEW c, NEW d, Alike(a, b, R), Alike(c, d, R)
  PROVE  Alike(a \o c, b \o d, R)
<1>1. IsSeq(a) /\ IsSeq(b) /\ IsSeq(c) /\ IsSeq(d) /\ Len(a) = Len(b) /\ Len(c) = Len(d)
      /\ Len(a) \in Nat /\ Len(c) \in Nat
  BY DEF Alike, IsSeq
<1>2. /\ IsSeq(a \o c) /\ Len(a \o c) = Len(a) + Len(c)
      /\ \A i \in 1..Len(a) : (a \o c)[i] = a[i]
      /\ \A i \in 1..Len(c) : (a \o c)[Len(a) + i] = c[i]
  BY ONLY <1>1, ConcatSeq
<1>3. /\ IsSeq(b \o d) /\ Len(b \o d) = Len(a) + Len(c)
      /\ \A i \in 1..Len(a) : (b \o d)[i] = b[i]
      /\ \A i \in 1..Len(c) : (b \o d)[Len(a) + i] = d[i]
  <2>1. /\ IsSeq(b \o d) /\ Len(b \o d) = Len(b) + Len(d)
        /\ \A i \in 1..Len(b) : (b \o d)[i] = b[i]
        /\ \A i \in 1..Len(d) : (b \o d)[Len(b) + i] = d[i]
    BY ONLY <1>1, ConcatSeq
  <2> QED BY ONLY <1>1, <2>1
<1>4. ASSUME NEW j \in 1..(Len(a) + Len(c)) PROVE <<(a \o c)[j], (b \o d)[j]>> \in R
  <2>1. CASE j <= Len(a)
    <3>1. j \in 1..Len(a)
      BY ONLY <1>1, <2>1, j \in 1..(Len(a) + Len(c))
    <3>2. (a \o c)[j] = a[j] /\ (b \o d)[j] = b[j]
      BY ONLY <1>2, <1>3, <3>1
    <3>3. <<a[j], b[j]>> \in R
      BY <3>1 DEF Alike
    <3> QED BY ONLY <3>2, <3>3
  <2>2. CASE j > Len(a)
    <3>1. PICK k \in 1..Len(c) : j = Len(a) + k
      <4>1. j - Len(a) \in 1..Len(c) /\ j = Len(a) + (j - Len(a))
        BY ONLY <1>1, <2>2, j \in 1..(Len(a) + Len(c))
      <4> QED BY ONLY <4>1
    <3>2. (a \o c)[j] = c[k] /\ (b \o d)[j] = d[k]
      BY ONLY <1>2, <1>3, <3>1
    <3>4. <<c[k], d[k]>> \in R
      BY <3>1 DEF Alike
    <3> QED BY ONLY <3>2, <3>4
  <2> QED BY ONLY <1>1, <2>1, <2>2, j \in 1..(Len(a) + Len(c))
<1> QED BY <1>1, <1>2, <1>3, <1>4 DEF Alike

\* The joins of sequences that are alike are alike.
LEMMA PrefixesAlike ==
  ASSUME NEW R, NEW n \in Nat, NEW s, NEW t,
         \A i \in 1..n : Alike(s[i], t[i], R),
         NEW f, NEW g, IsFlattening(f, s, n), IsFlattening(g, t, n)
  PROVE  \A i \in 1..n : Alike(f[i], g[i], R)
<1> DEFINE S == {k \in Nat : k \in 1..n => Alike(f[k], g[k], R)}
<1>1. 0 \in S
  OBVIOUS
<1>2. ASSUME NEW k \in Nat, k \in S, k + 1 \in 1..n PROVE Alike(f[k + 1], g[k + 1], R)
  <2>1. f[k + 1] = IF k + 1 = 1 THEN s[k + 1] ELSE f[(k + 1) - 1] \o s[k + 1]
    BY ONLY <1>2, FlattenStep, IsFlattening(f, s, n), n \in Nat
  <2>2. g[k + 1] = IF k + 1 = 1 THEN t[k + 1] ELSE g[(k + 1) - 1] \o t[k + 1]
    BY ONLY <1>2, FlattenStep, IsFlattening(g, t, n), n \in Nat
  <2>3. Alike(s[k + 1], t[k + 1], R)
    BY <1>2
  <2>4. CASE k = 0
    <3>1. f[k + 1] = s[k + 1] /\ g[k + 1] = t[k + 1]
      BY ONLY <2>1, <2>2, <2>4
    <3> QED BY ONLY <2>3, <3>1
  <2>5. CASE k # 0
    <3>1. k \in 1..n /\ k + 1 # 1 /\ (k + 1) - 1 = k
      BY <1>2, <2>5
    <3>2. Alike(f[k], g[k], R)
      BY <1>2, <3>1
    <3>3. Alike(f[k] \o s[k + 1], g[k] \o t[k + 1], R)
      BY ONLY <2>3, <3>2, ConcatAlike
    <3>4. f[k + 1] = f[k] \o s[k + 1] /\ g[k + 1] = g[k] \o t[k + 1]
      BY ONLY <2>1, <2>2, <3>1
    <3> QED BY ONLY <3>3, <3>4
  <2> QED BY ONLY <2>4, <2>5
<1>3. \A k \in Nat : k \in S => k + 1 \in S
  BY <1>2
<1> HIDE DEF S
<1>4. \A k \in Nat : k \in S
  BY <1>1, <1>3, Induction
<1> QED BY <1>4 DEF S

\* So are the flattenings of sequences that are alike piece by piece.
LEMMA FlattenAlike ==
  ASSUME NEW R, NEW s, NEW t, Len(s) \in Nat, Len(s) = Len(t), 
         Len(s) = 0 => s = <<>> /\ t = <<>>,
         \A i \in 1..Len(s) : Alike(s[i], t[i], R)
  PROVE  Alike(FlattenSeq(s), FlattenSeq(t), R)
<1>1. CASE Len(s) = 0
  <2>1. FlattenSeq(s) = <<>> /\ FlattenSeq(t) = <<>>
    BY <1>1 DEF FlattenSeq
  <2> QED BY ONLY <2>1, EmptyIsSeq DEF Alike
<1>2. CASE Len(s) > 0
  <2> DEFINE n == Len(s)
  <2>1. PICK f : IsFlattening(f, s, n) /\ FlattenSeq(s) = f[n]
    BY <1>2, FlattenRule
  <2>2. PICK g : IsFlattening(g, t, n) /\ FlattenSeq(t) = g[n]
    BY <1>2, FlattenRule
  <2>5. n \in Nat /\ n \in 1..n
    BY <1>2
  <2>6. \A i \in 1..n : Alike(s[i], t[i], R)
    OBVIOUS
  <2> HIDE DEF n
  <2>7. \A i \in 1..n : Alike(f[i], g[i], R)
    BY ONLY <2>1, <2>2, <2>5, <2>6, PrefixesAlike
  <2> QED BY ONLY <2>1, <2>2, <2>5, <2>7
<1> QED BY <1>1, <1>2

\* Joined, sequences of sequences are a sequence, ...
LEMMA FlattenIsSeq ==
  ASSUME NEW s, IsSeq(s), \A i \in 1..Len(s) : IsSeq(s[i])
  PROVE  IsSeq(FlattenSeq(s))
<1> DEFINE R == UNION {{<<s[i][j], s[i][j]>> : j \in 1..Len(s[i])} : i \in 1..Len(s)}
<1>1. \A i \in 1..Len(s) : Alike(s[i], s[i], R)
  <2>1. \A i \in 1..Len(s) : \A j \in 1..Len(s[i]) : <<s[i][j], s[i][j]>> \in R
    OBVIOUS
  <2> QED BY <2>1 DEF Alike
<1>2. Len(s) \in Nat /\ (Len(s) = 0 => s = <<>>)
  BY NoneIsEmpty DEF IsSeq
<1> HIDE DEF R
<1>3. Alike(FlattenSeq(s), FlattenSeq(s), R)
  BY ONLY <1>1, <1>2, FlattenAlike
<1> QED BY <1>3 DEF Alike

\* ... and their number of elements depends on theirs only.
LEMMA FlattenLength ==
  ASSUME NEW s, NEW t, IsSeq(s), IsSeq(t), Len(s) = Len(t),
         \A i \in 1..Len(s) : IsSeq(s[i]) /\ IsSeq(t[i]) /\ Len(s[i]) = Len(t[i])
  PROVE  Len(FlattenSeq(s)) = Len(FlattenSeq(t))
<1> DEFINE R == UNION {{<<s[i][j], t[i][j]>> : j \in 1..Len(s[i])} : i \in 1..Len(s)}
<1>1. \A i \in 1..Len(s) : Alike(s[i], t[i], R)
  <2>1. ASSUME NEW i \in 1..Len(s), NEW j \in 1..Len(s[i]) PROVE <<s[i][j], t[i][j]>> \in R
    <3>1. <<s[i][j], t[i][j]>> \in {<<s[i][k], t[i][k]>> : k \in 1..Len(s[i])}
      OBVIOUS
    <3> QED BY <3>1
  <2> QED BY <2>1 DEF Alike
<1>2. Len(s) \in Nat /\ (Len(s) = 0 => s = <<>> /\ t = <<>>)
  BY NoneIsEmpty DEF IsSeq
<1> HIDE DEF R
<1>3. Alike(FlattenSeq(s), FlattenSeq(t), R)
  BY ONLY <1>1, <1>2, Len(s) = Len(t), FlattenAlike
<1> QED BY <1>3 DEF Alike

\* The elements of the joined sequence are those of its sequences.
LEMMA FlattenElements ==
  ASSUME NEW T, NEW s, IsSeq(s), \A i \in 1..Len(s) : s[i] \in Seq(T)
  PROVE  FlattenSeq(s) \in Seq(T)
<1> DEFINE R == {<<e, e>> : e \in T}
<1>1. \A i \in 1..Len(s) : Alike(s[i], s[i], R)
  <2>1. \A i \in 1..Len(s) : \A j \in 1..Len(s[i]) : <<s[i][j], s[i][j]>> \in R
    OBVIOUS
  <2>2. \A i \in 1..Len(s) : IsSeq(s[i])
    BY SeqIsSeq
  <2> QED BY <2>1, <2>2 DEF Alike
<1>2. Len(s) \in Nat /\ (Len(s) = 0 => s = <<>>)
  BY NoneIsEmpty DEF IsSeq
<1> HIDE DEF R
<1>3. Alike(FlattenSeq(s), FlattenSeq(s), R)
  BY ONLY <1>1, <1>2, FlattenAlike
<1>4. \A j \in 1..Len(FlattenSeq(s)) : FlattenSeq(s)[j] \in T
  BY <1>3 DEF Alike, R
<1>5. IsSeq(FlattenSeq(s))
  BY <1>3 DEF Alike
<1> QED BY ONLY <1>4, <1>5, IsSeqSeq

-----------------------------------------------------------------------------
(* The largest of finitely many numbers. *)

\* Of n numbers, one is the largest.
LEMMA LargestOf ==
  ASSUME NEW n \in Nat, n > 0, NEW f, \A i \in 1..n : f[i] \in Nat
  PROVE  \E k \in 1..n : \A i \in 1..n : f[i] <= f[k]
<1> DEFINE S == {m \in Nat : m > 0 /\ m <= n => \E k \in 1..m : \A i \in 1..m : f[i] <= f[k]}
<1>1. 0 \in S
  OBVIOUS
<1>2. ASSUME NEW m \in Nat, m \in S, m + 1 <= n PROVE \E k \in 1..(m + 1) : \A i \in 1..(m + 1) : f[i] <= f[k]
  <2>1. CASE m = 0
    BY <2>1, <1>2
  <2>2. CASE m > 0
    <3>1. PICK k \in 1..m : \A i \in 1..m : f[i] <= f[k]
      BY <1>2, <2>2
    <3>2. CASE f[m + 1] <= f[k]
      BY <3>1, <3>2, <1>2
    <3>3. CASE f[k] < f[m + 1]
      <4>1. \A i \in 1..(m + 1) : f[i] <= f[m + 1]
        BY <3>1, <3>3, <1>2
      <4> QED BY <4>1
    <3> QED BY <3>1, <3>2, <3>3, <1>2
  <2> QED BY <2>1, <2>2
<1>3. \A m \in Nat : m \in S => m + 1 \in S
  BY <1>2
<1> HIDE DEF S
<1>4. n \in S
  BY <1>1, <1>3, Induction
<1> QED BY <1>4 DEF S

\* The elements of a sequence are finitely many.
LEMMA ElementsFinite ==
  ASSUME NEW n \in Nat, NEW f
  PROVE  IsFiniteSet({f[i] : i \in 1..n})
<1> DEFINE T == {f[i] : i \in 1..n}
           g == [i \in 1..n |-> f[i]]
<1>1. g \in Surjection(1..n, T)
  BY DEF Surjection
<1>2. IsFiniteSet(1..n)
  BY FS_Interval
<1> HIDE DEF g, T
<1>3. IsFiniteSet(T)
  BY ONLY <1>1, <1>2, FS_Surjection
<1> QED BY <1>3 DEF T

\* Max returns an element of a finite set of numbers.
LEMMA MaxOf ==
  ASSUME NEW T, T \subseteq Nat, T # {}, IsFiniteSet(T)
  PROVE  Max(T) \in T /\ \A x \in T : x <= Max(T)
<1>1. PICK n \in Nat : ExistsBijection(1..n, T)
  BY FS_NatBijection
<1>2. PICK f : f \in Bijection(1..n, T)
  BY <1>1 DEF ExistsBijection
<1>3. (\A i \in 1..n : f[i] \in T) /\ (\A x \in T : \E i \in 1..n : f[i] = x)
  BY <1>2 DEF Bijection, Injection, Surjection
<1>4. n > 0
  <2>1. PICK x \in T : TRUE
    OBVIOUS
  <2>2. PICK i \in 1..n : f[i] = x
    BY <1>3
  <2> QED BY ONLY <2>2, n \in Nat
<1>5. PICK k \in 1..n : \A i \in 1..n : f[i] <= f[k]
  BY <1>3, <1>4, LargestOf
<1>6. \E x \in T : \A y \in T : x >= y
  <2>1. f[k] \in T /\ \A y \in T : f[k] >= y
    BY <1>3, <1>5
  <2> QED BY <2>1
<1> QED BY <1>6 DEF Max

-----------------------------------------------------------------------------
(* Folds. *)

\* The largest of the first k numbers is k.
LEMMA FirstNumbers ==
  ASSUME NEW n \in Nat, NEW k \in 1..n
  PROVE  /\ 1..k \in SUBSET (1..n) /\ 1..k # {} /\ Max(1..k) = k /\ (1..k) \ {k} = 1..(k - 1)
<1>1. 1..k \subseteq Nat /\ 1..k # {} /\ k \in 1..k
  OBVIOUS
<1>a. IsFiniteSet(1..k)
  BY FS_Interval
<1>2. Max(1..k) \in 1..k /\ \A x \in 1..k : x <= Max(1..k)
  BY ONLY <1>1, <1>a, MaxOf
<1>3. Max(1..k) = k
  BY <1>1, <1>2
<1> QED BY <1>1, <1>3

\* it holds what folding F over any of the first n numbers, in order, makes of base.
IsFold(it, F, base, n) ==
  it = [s \in SUBSET (1..n) |-> IF s = {} THEN base ELSE F[Max(s)][it[s \ {Max(s)}]]]

\* The largest of a set of the first n numbers.
LEMMA LargestIn ==
  ASSUME NEW n \in Nat, NEW s \in SUBSET (1..n), s # {}
  PROVE  Max(s) \in s /\ Max(s) \in 1..n /\ s \ {Max(s)} \in SUBSET (1..n) /\ \A x \in s : x <= Max(s)
<1>1. IsFiniteSet(s)
  <2>1. IsFiniteSet(1..n)
    BY FS_Interval
  <2> QED BY <2>1, FS_Subset
<1>2. s \subseteq Nat
  OBVIOUS
<1>3. Max(s) \in s /\ \A x \in s : x <= Max(s)
  BY ONLY <1>1, <1>2, s # {}, MaxOf
<1> QED BY <1>3

\* The function that a fold chooses exists, and its values are in every set that is
\* closed under the steps.
LEMMA FoldExists ==
  ASSUME NEW n \in Nat, NEW T, NEW base \in T, NEW F, \A k \in 1..n, t \in T : F[k][t] \in T
  PROVE  \E it : IsFold(it, F, base, n) /\ \A s \in SUBSET (1..n) : it[s] \in T
<1> DEFINE S == {k \in Nat : k <= n => \E it : IsFold(it, F, base, k) /\ \A s \in SUBSET (1..k) : it[s] \in T}
<1>1. 0 \in S
  <2> DEFINE it == [s \in SUBSET (1..0) |-> base]
  <2>1. \A s \in SUBSET (1..0) : s = {}
    OBVIOUS
  <2>2. it = [s \in SUBSET (1..0) |-> IF s = {} THEN base ELSE F[Max(s)][it[s \ {Max(s)}]]]
    BY <2>1
  <2>3. \A s \in SUBSET (1..0) : it[s] \in T
    OBVIOUS
  <2> HIDE DEF it
  <2>4. IsFold(it, F, base, 0)
    BY <2>2 DEF IsFold
  <2> QED BY <2>3, <2>4
<1>2. ASSUME NEW k \in Nat, k \in S PROVE k + 1 \in S
  <2> SUFFICES ASSUME k + 1 <= n
               PROVE \E it : IsFold(it, F, base, k + 1) /\ \A s \in SUBSET (1..(k + 1)) : it[s] \in T
    OBVIOUS
  <2>1. PICK it : IsFold(it, F, base, k) /\ \A s \in SUBSET (1..k) : it[s] \in T
    BY <1>2
  <2> DEFINE f == [s \in SUBSET (1..(k + 1)) |-> IF k + 1 \in s THEN F[k + 1][it[s \ {k + 1}]] ELSE it[s]]
  <2>2. ASSUME NEW s \in SUBSET (1..(k + 1))
        PROVE f[s] = (IF s = {} THEN base ELSE F[Max(s)][f[s \ {Max(s)}]]) /\ f[s] \in T
    <3>1. CASE k + 1 \in s
      <4>1. s \ {k + 1} \in SUBSET (1..k) /\ s \ {k + 1} \in SUBSET (1..(k + 1)) /\ s # {} /\ k + 1 \in Nat
        BY ONLY <3>1, k \in Nat, s \in SUBSET (1..(k + 1))
      <4>2. Max(s) \in s /\ \A x \in s : x <= Max(s)
        BY ONLY <4>1, s \in SUBSET (1..(k + 1)), LargestIn
      <4>3. Max(s) = k + 1
        <5>1. Max(s) \in 1..(k + 1) /\ k + 1 <= Max(s)
          BY ONLY <3>1, <4>2, s \in SUBSET (1..(k + 1))
        <5> QED BY ONLY <5>1, k \in Nat
      <4>4. f[s \ {k + 1}] = it[s \ {k + 1}] /\ it[s \ {k + 1}] \in T
        BY <2>1, <4>1
      <4>5. F[k + 1][it[s \ {k + 1}]] \in T
        <5>1. k + 1 \in 1..n
          OBVIOUS
        <5> QED BY ONLY <4>4, <5>1, \A i \in 1..n, t \in T : F[i][t] \in T
      <4> QED BY ONLY <3>1, <4>1, <4>3, <4>4, <4>5, f[s] = F[k + 1][it[s \ {k + 1}]]
    <3>2. CASE k + 1 \notin s
      <4>1. s \in SUBSET (1..k)
        BY <3>2
      <4>2. f[s] = it[s] /\ it[s] \in T
        BY <2>1, <3>2, <4>1
      <4>3. it[s] = IF s = {} THEN base ELSE F[Max(s)][it[s \ {Max(s)}]]
        BY <2>1, <4>1 DEF IsFold
      <4>4. s # {} => s \ {Max(s)} \in SUBSET (1..(k + 1)) /\ k + 1 \notin s \ {Max(s)}
        BY <3>2
      <4>5. s # {} => f[s \ {Max(s)}] = it[s \ {Max(s)}]
        BY <4>4
      <4> QED BY ONLY <4>2, <4>3, <4>5
    <3> QED BY <3>1, <3>2
  <2>3. f = [s \in SUBSET (1..(k + 1)) |-> f[s]]
    OBVIOUS
  <2> HIDE DEF f
  <2>4. IsFold(f, F, base, k + 1)
    BY ONLY <2>2, <2>3 DEF IsFold
  <2> QED BY ONLY <2>2, <2>4
<1> HIDE DEF S
<1>3. n \in S
  BY <1>1, <1>2, Induction
<1> QED BY <1>3 DEF S

\* What holds of the beginning and is kept by the steps holds of the end.
LEMMA StepByStep ==
  ASSUME NEW n \in Nat, NEW P, 0 \in P, \A k \in 1..n : k - 1 \in P => k \in P
  PROVE  \A k \in 0..n : k \in P
<1> DEFINE S == {k \in Nat : k <= n => k \in P}
<1>1. 0 \in S
  OBVIOUS
<1>2. ASSUME NEW k \in Nat, k \in S PROVE k + 1 \in S
  <2>1. k + 1 <= n => k + 1 \in 1..n /\ (k + 1) - 1 = k
    OBVIOUS
  <2> QED BY <1>2, <2>1
<1> HIDE DEF S
<1>3. \A k \in Nat : k \in S
  BY <1>1, <1>2, Induction
<1> QED BY <1>3 DEF S

\* it holds what the steps F, which stay in T, make of base.
Stepwise(it, F, base, n, T) ==
  /\ n \in Nat /\ base \in T /\ \A k \in 1..n, t \in T : F[k][t] \in T
  /\ it[{}] = base
  /\ \A s \in SUBSET (1..n) : s # {} /\ it[s \ {Max(s)}] \in T => it[s] = F[Max(s)][it[s \ {Max(s)}]]

\* A fold over the first n numbers, step by step.
LEMMA FoldSteps ==
  ASSUME NEW it, NEW F, NEW base, NEW n, NEW T, Stepwise(it, F, base, n, T)
  PROVE  \E g : /\ g \in [0..n -> T] /\ g[0] = base /\ g[n] = it[1..n]
                /\ \A k \in 1..n : g[k] = F[k][g[k - 1]]
<1> DEFINE g == [k \in 0..n |-> it[1..k]]
           P == {k \in 0..n : g[k] \in T}
<1>1. n \in Nat /\ base \in T /\ (\A k \in 1..n, t \in T : F[k][t] \in T) /\ it[{}] = base
  BY DEF Stepwise
<1>2. \A k \in 1..n : it[1..(k - 1)] \in T => it[1..k] = F[k][it[1..(k - 1)]]
  <2> SUFFICES ASSUME NEW k \in 1..n, it[1..(k - 1)] \in T PROVE it[1..k] = F[k][it[1..(k - 1)]]
    OBVIOUS
  <2>1. 1..k \in SUBSET (1..n) /\ 1..k # {} /\ Max(1..k) = k /\ (1..k) \ {k} = 1..(k - 1)
    BY ONLY <1>1, k \in 1..n, FirstNumbers
  <2> QED BY <2>1 DEF Stepwise
<1>3. g[0] = base /\ \A k \in 1..n : g[k - 1] \in T => g[k] = F[k][g[k - 1]]
  <2>1. 1..0 = {} /\ 0 \in 0..n /\ \A k \in 1..n : k \in 0..n /\ k - 1 \in 0..n
    BY <1>1
  <2> QED BY <1>1, <1>2, <2>1
<1>4. 0 \in P /\ \A k \in 1..n : k - 1 \in P => k \in P
  <2>1. 0 \in 0..n /\ \A k \in 1..n : k \in 0..n
    BY <1>1
  <2> HIDE DEF g
  <2>2. \A k \in 1..n : k - 1 \in P => k \in P
    BY <1>1, <1>3, <2>1
  <2>3. 0 \in P
    BY <1>1, <1>3, <2>1
  <2> QED BY <2>2, <2>3
<1>5. \A k \in 0..n : k \in P
  <2> HIDE DEF P
  <2> QED BY <1>1, <1>4, StepByStep
<1>6. g \in [0..n -> T] /\ g[n] = it[1..n]
  BY <1>1, <1>5
<1>7. \A k \in 1..n : g[k - 1] \in T
  <2>1. \A k \in 1..n : k - 1 \in 0..n
    BY <1>1
  <2> HIDE DEF g
  <2> QED BY <1>5, <2>1
<1> HIDE DEF g
<1> QED BY <1>1, <1>3, <1>6, <1>7

-----------------------------------------------------------------------------
(* Sums. *)

-----------------------------------------------------------------------------
(* Sums. *)

\* h[k] is the sum of the first k of n numbers.
Sums(h, f, n) == h \in [0..n -> Int] /\ h[0] = 0 /\ \A k \in 1..n : h[k] = h[k - 1] + f[k]

\* The sum of the first n.
SumTo(f, n) == CHOOSE x : \E h : Sums(h, f, n) /\ x = h[n]

\* The sums exist.
LEMMA SumsExist ==
  ASSUME NEW n \in Nat, NEW f, \A k \in 1..n : f[k] \in Int
  PROVE  \E h : Sums(h, f, n)
<1> DEFINE S == {m \in Nat : m <= n => \E h : Sums(h, f, m)}
<1>1. 0 \in S
  <2> DEFINE h == [k \in 0..0 |-> 0]
  <2>1. Sums(h, f, 0)
    BY DEF Sums
  <2> QED BY <2>1
<1>2. ASSUME NEW m \in Nat, m \in S PROVE m + 1 \in S
  <2> SUFFICES ASSUME m + 1 <= n PROVE \E h : Sums(h, f, m + 1)
    OBVIOUS
  <2>1. PICK h : Sums(h, f, m)
    BY <1>2
  <2> DEFINE g == [k \in 0..(m + 1) |-> IF k = m + 1 THEN h[m] + f[m + 1] ELSE h[k]]
  <2>2. m + 1 \in 1..n
    OBVIOUS
  <2>3. h[m] + f[m + 1] \in Int
    BY <2>1, <2>2 DEF Sums
  <2>4. Sums(g, f, m + 1)
    BY <2>1, <2>3 DEF Sums
  <2> QED BY <2>4
<1> HIDE DEF S
<1>3. n \in S
  BY <1>1, <1>2, Induction
<1> QED BY <1>3 DEF S

\* There is one sum, however it is written down.
LEMMA SumsAgree ==
  ASSUME NEW n \in Nat, NEW f, NEW h, NEW g, Sums(h, f, n), Sums(g, f, n)
  PROVE  \A k \in 0..n : h[k] = g[k]
<1> DEFINE P == {k \in 0..n : h[k] = g[k]}
<1>1. 0 \in P /\ \A k \in 1..n : k - 1 \in P => k \in P
  BY DEF Sums
<1> HIDE DEF P
<1>2. \A k \in 0..n : k \in P
  BY <1>1, StepByStep
<1> QED BY <1>2 DEF P

\* SumTo is the last of the sums.
LEMMA SumIs ==
  ASSUME NEW n \in Nat, NEW f, NEW h, Sums(h, f, n)
  PROVE  SumTo(f, n) = h[n]
<1>1. \E x : \E g : Sums(g, f, n) /\ x = g[n]
  OBVIOUS
<1>2. \E g : Sums(g, f, n) /\ SumTo(f, n) = g[n]
  BY <1>1 DEF SumTo
<1>3. PICK g : Sums(g, f, n) /\ SumTo(f, n) = g[n]
  BY <1>2
<1>4. n \in 0..n /\ \A k \in 0..n : h[k] = g[k]
  BY <1>3, SumsAgree
<1> QED BY <1>3, <1>4

\* The sums of more and more numbers.
LEMMA SumRule ==
  ASSUME NEW n \in Nat, NEW f, \A k \in 1..n : f[k] \in Int
  PROVE  /\ SumTo(f, 0) = 0
         /\ \A k \in 0..n : SumTo(f, k) \in Int
         /\ \A k \in 1..n : SumTo(f, k) = SumTo(f, k - 1) + f[k]
<1>1. PICK h : Sums(h, f, n)
  BY SumsExist
<1>2. ASSUME NEW k \in 0..n PROVE SumTo(f, k) = h[k] /\ h[k] \in Int
  <2> DEFINE g == [i \in 0..k |-> h[i]]
  <2>1. k \in Nat /\ g[k] = h[k] /\ h[k] \in Int
    BY <1>1 DEF Sums
  <2>2. Sums(g, f, k)
    <3>1. \A i \in 0..k : i \in 0..n /\ h[i] \in Int
      BY <1>1 DEF Sums
    <3>2. \A i \in 1..k : i \in 1..n /\ i \in 0..k /\ i - 1 \in 0..k
      BY <2>1
    <3>3. 0 \in 0..k
      BY <2>1
    <3> QED BY <1>1, <3>1, <3>2, <3>3 DEF Sums
  <2> HIDE DEF g
  <2> QED BY <2>1, <2>2, SumIs
<1>3. 0 \in 0..n /\ \A k \in 1..n : k \in 0..n /\ k - 1 \in 0..n
  OBVIOUS
<1>4. h[0] = 0 /\ \A k \in 1..n : h[k] = h[k - 1] + f[k]
  BY <1>1 DEF Sums
<1> QED BY <1>2, <1>3, <1>4

\* Sums of the same numbers.
LEMMA SumSame ==
  ASSUME NEW n \in Nat, NEW f, NEW g, \A k \in 1..n : f[k] \in Int /\ g[k] = f[k]
  PROVE  SumTo(g, n) = SumTo(f, n)
<1>1. PICK h : Sums(h, f, n)
  BY SumsExist
<1>2. Sums(h, g, n)
  BY <1>1 DEF Sums
<1> QED BY <1>1, <1>2, SumIs

\* Numbers that are not negative: neither are their sums, which grow.
LEMMA SumNat ==
  ASSUME NEW n \in Nat, NEW f, \A k \in 1..n : f[k] \in Nat
  PROVE  \A k \in 0..n : SumTo(f, k) \in Nat
<1> DEFINE P == {k \in 0..n : SumTo(f, k) \in Nat}
<1>1. \A k \in 1..n : f[k] \in Int
  OBVIOUS
<1>2. SumTo(f, 0) = 0 /\ \A k \in 1..n : SumTo(f, k) = SumTo(f, k - 1) + f[k]
  BY <1>1, SumRule
<1>3. 0 \in P /\ \A k \in 1..n : k - 1 \in P => k \in P
  BY <1>2
<1> HIDE DEF P
<1>4. \A k \in 0..n : k \in P
  BY <1>3, StepByStep
<1> QED BY <1>4 DEF P

\* Numbers no larger than c.
LEMMA SumAtMost ==
  ASSUME NEW n \in Nat, NEW c \in Nat, NEW f, \A k \in 1..n : f[k] \in Nat /\ f[k] <= c
  PROVE  SumTo(f, n) <= n * c
<1> DEFINE P == {k \in 0..n : SumTo(f, k) <= k * c}
<1>1. \A k \in 1..n : f[k] \in Int
  OBVIOUS
<1>2. SumTo(f, 0) = 0 /\ \A k \in 1..n : SumTo(f, k) = SumTo(f, k - 1) + f[k]
  BY <1>1, SumRule
<1>3. \A k \in 0..n : SumTo(f, k) \in Int
  BY <1>1, SumRule
<1>4. ASSUME NEW k \in 1..n, k - 1 \in P PROVE k \in P
  <2>1. k * c = (k - 1) * c + c /\ k * c \in Int /\ (k - 1) * c \in Int
    OBVIOUS
  <2>2. SumTo(f, k - 1) <= (k - 1) * c /\ k - 1 \in 0..n /\ k \in 0..n
    BY <1>4
  <2> QED BY <1>2, <1>3, <2>1, <2>2
<1>5. 0 \in P
  BY <1>2
<1> HIDE DEF P
<1>6. \A k \in 0..n : k \in P
  BY <1>4, <1>5, StepByStep
<1> QED BY <1>6 DEF P

\* Sums of the same number.
LEMMA SumConstant ==
  ASSUME NEW n \in Nat, NEW c \in Nat, NEW f, \A k \in 1..n : f[k] = c
  PROVE  SumTo(f, n) = n * c
<1> DEFINE h == [k \in 0..n |-> k * c]
<1>1. \A k \in 1..n : k * c = (k - 1) * c + c
  OBVIOUS
<1>2. \A k \in 0..n : k * c \in Int
  OBVIOUS
<1>3. 0 * c = 0 /\ 0 \in 0..n /\ n \in 0..n /\ \A k \in 1..n : k \in 0..n /\ k - 1 \in 0..n
  OBVIOUS
<1>4. Sums(h, f, n)
  BY <1>1, <1>2, <1>3 DEF Sums
<1>5. h[n] = n * c
  BY <1>3
<1> HIDE DEF h
<1> QED BY <1>4, <1>5, SumIs

\* One of the numbers is another.
LEMMA SumUpdate ==
  ASSUME NEW n \in Nat, NEW j \in 1..n, NEW f, NEW g, g[j] \in Int,
         \A k \in 1..n : f[k] \in Int /\ (k # j => g[k] = f[k])
  PROVE  SumTo(g, n) = SumTo(f, n) + g[j] - f[j]
<1> DEFINE D(k) == IF k < j THEN 0 ELSE g[j] - f[j]
           P == {k \in 0..n : SumTo(g, k) = SumTo(f, k) + D(k)}
<1>1. \A k \in 1..n : g[k] \in Int /\ f[k] \in Int
  OBVIOUS
<1>2. SumTo(f, 0) = 0 /\ \A k \in 1..n : SumTo(f, k) = SumTo(f, k - 1) + f[k]
  BY <1>1, SumRule
<1>3. SumTo(g, 0) = 0 /\ \A k \in 1..n : SumTo(g, k) = SumTo(g, k - 1) + g[k]
  BY <1>1, SumRule
<1>4. \A k \in 0..n : SumTo(f, k) \in Int /\ SumTo(g, k) \in Int
  <2>1. \A k \in 0..n : SumTo(f, k) \in Int
    BY <1>1, SumRule
  <2>2. \A k \in 0..n : SumTo(g, k) \in Int
    BY <1>1, SumRule
  <2> QED BY <2>1, <2>2
<1>5. ASSUME NEW k \in 1..n, k - 1 \in P PROVE k \in P
  <2>1. SumTo(g, k - 1) = SumTo(f, k - 1) + D(k - 1) /\ k \in 0..n /\ k - 1 \in 0..n
    BY <1>5
  <2>2. g[k] = f[k] + D(k) - D(k - 1)
    <3>1. CASE k = j
      BY <1>1, <3>1
    <3>2. CASE k # j
      BY <1>1, <3>2
    <3> QED BY <3>1, <3>2
  <2>3. D(k) \in Int /\ D(k - 1) \in Int
    BY <1>1
  <2> HIDE DEF D
  <2>4. /\ SumTo(g, k) = SumTo(g, k - 1) + g[k] /\ SumTo(f, k) = SumTo(f, k - 1) + f[k]
        /\ SumTo(f, k - 1) \in Int /\ f[k] \in Int
    BY <1>1, <1>2, <1>3, <1>4, <2>1
  <2>5. SumTo(g, k) = SumTo(f, k) + D(k)
    BY ONLY <2>1, <2>2, <2>3, <2>4
  <2> QED BY <2>1, <2>5
<1>6. 0 \in P
  BY <1>2, <1>3
<1> HIDE DEF P
<1>7. \A k \in 0..n : k \in P
  BY <1>5, <1>6, StepByStep
<1>8. n \in P /\ ~(n < j)
  BY <1>7
<1> QED BY <1>8 DEF P

\* h are the m numbers of f and, after them, the n numbers of g.
Joins(h, f, m, g, n) ==
  /\ m \in Nat /\ n \in Nat
  /\ \A k \in 1..m : f[k] \in Int /\ h[k] = f[k]
  /\ \A k \in 1..n : g[k] \in Int /\ h[m + k] = g[k]

\* The numbers of two lists.
LEMMA SumJoined ==
  ASSUME NEW m, NEW n, NEW f, NEW g, NEW h, Joins(h, f, m, g, n)
  PROVE  SumTo(h, m + n) = SumTo(f, m) + SumTo(g, n)
<1> USE DEF Joins
<1> DEFINE P == {k \in 0..n : SumTo(h, m + k) = SumTo(f, m) + SumTo(g, k)}
<1>1. ASSUME NEW k \in 1..(m + n) PROVE h[k] \in Int
  <2>1. CASE k <= m
    BY <2>1
  <2>2. CASE k > m
    <3>1. k - m \in 1..n /\ m + (k - m) = k
      BY <2>2
    <3>2. h[m + (k - m)] = g[k - m] /\ g[k - m] \in Int
      BY ONLY <3>1, \A i \in 1..n : g[i] \in Int /\ h[m + i] = g[i]
    <3> QED BY <3>1, <3>2
  <2> QED BY <2>1, <2>2
<1>2. m + n \in Nat
  OBVIOUS
<1>3. \A k \in 1..(m + n) : SumTo(h, k) = SumTo(h, k - 1) + h[k]
  BY <1>1, <1>2, SumRule
<1>4. SumTo(g, 0) = 0 /\ \A k \in 1..n : SumTo(g, k) = SumTo(g, k - 1) + g[k]
  BY SumRule
<1>5. SumTo(h, m) = SumTo(f, m)
  BY SumSame
<1>6. SumTo(f, m) \in Int /\ \A k \in 0..n : SumTo(g, k) \in Int
  <2>1. \A k \in 0..m : SumTo(f, k) \in Int
    BY SumRule
  <2>2. \A k \in 0..n : SumTo(g, k) \in Int
    BY SumRule
  <2> QED BY <2>1, <2>2
<1>7. ASSUME NEW k \in 1..n, k - 1 \in P PROVE k \in P
  <2>1. SumTo(h, m + (k - 1)) = SumTo(f, m) + SumTo(g, k - 1) /\ k - 1 \in 0..n /\ k \in 0..n
    BY <1>7
  <2>2. m + k \in 1..(m + n) /\ (m + k) - 1 = m + (k - 1) /\ h[m + k] = g[k] /\ g[k] \in Int
    OBVIOUS
  <2>3. SumTo(h, m + k) = SumTo(h, m + (k - 1)) + g[k]
    BY <1>3, <2>2
  <2>4. SumTo(g, k) = SumTo(g, k - 1) + g[k]
    BY <1>4
  <2>5. SumTo(g, k - 1) \in Int
    BY <1>6, <2>1
  <2> QED BY <1>6, <2>1, <2>2, <2>3, <2>4, <2>5
<1>8. 0 \in P
  BY <1>4, <1>5, <1>6
<1> HIDE DEF P
<1>9. \A k \in 0..n : k \in P
  BY <1>7, <1>8, StepByStep
<1> QED BY <1>9 DEF P

-----------------------------------------------------------------------------
(* The packers as folds. *)

\* Where the folds begin, and what they run over.
NonePacked(lengths) == [bins |-> <<>>, left |-> DOMAIN lengths]
OneEmptyBin == <<<<>>>>
FirstToLast(packed) == [b \in DOMAIN packed.bins |-> b]
LastToFirst(packed) == Reverse([b \in DOMAIN packed.bins |-> b])

\* SortedBy, step by step.
LEMMA SortSteps ==
  ASSUME NEW n, n \in Nat,
         NEW indices,
         NEW before,
         NEW T, <<>> \in T, \A k \in 1..n, t \in T : Insert(t, k, indices, before) \in T
  PROVE  \E g : /\ g \in [0..n -> T] /\ g[0] = <<>> /\ SortedBy(indices, n, before) = g[n]
              /\ \A k \in 1..n : g[k] = Insert(g[k - 1], k, indices, before)
<1> DEFINE F == [k \in 1..n |-> [t \in T |-> Insert(t, k, indices, before)]]
           Rule(it) == it = [s \in SUBSET (1..n) |->
                               IF s = {} THEN <<>> ELSE Insert(it[s \ {Max(s)}], [i \in 1..n |-> i][Max(s)], indices, before)]
           it == CHOOSE it : Rule(it)
<1>1. n \in Nat /\ DOMAIN [i \in 1..n |-> i] = 1..n
  OBVIOUS
<1>2. SortedBy(indices, n, before) = it[1..n]
  BY <1>1 DEF SortedBy, FoldLeft, MapThenFoldSet
<1>3. \A k \in 1..n, t \in T : F[k][t] = Insert(t, k, indices, before) /\ F[k][t] \in T
  OBVIOUS
<1> HIDE DEF F
<1>4. PICK f : IsFold(f, F, <<>>, n) /\ \A s \in SUBSET (1..n) : f[s] \in T
  <2>1. \A k \in 1..n, t \in T : F[k][t] \in T
    BY <1>3
  <2> QED BY ONLY <1>1, <2>1, <<>> \in T, FoldExists
<1>5. \A s \in SUBSET (1..n) : s # {} => Max(s) \in 1..n /\ s \ {Max(s)} \in SUBSET (1..n)
  BY <1>1, LargestIn
<1>6. Rule(it)
  <2>1. \A s \in SUBSET (1..n) : s # {} => F[Max(s)][f[s \ {Max(s)}]] = Insert(f[s \ {Max(s)}], [i \in 1..n |-> i][Max(s)], indices, before)
    BY <1>3, <1>4, <1>5
  <2>2. Rule(f)
    BY <1>4, <2>1 DEF IsFold
  <2> QED BY <2>2
<1> HIDE DEF it
<1>7. Stepwise(it, F, <<>>, n, T)
  <2>1. it[{}] = <<>>
    BY <1>6
  <2>2. ASSUME NEW s \in SUBSET (1..n), s # {}, it[s \ {Max(s)}] \in T
        PROVE  it[s] = F[Max(s)][it[s \ {Max(s)}]]
    <3>1. it[s] = Insert(it[s \ {Max(s)}], Max(s), indices, before)
      BY <1>5, <1>6, <2>2
    <3> QED BY <1>3, <1>5, <2>2, <3>1
  <2> QED BY <1>1, <1>3, <2>1, <2>2 DEF Stepwise
<1>8. \E g : /\ g \in [0..n -> T] /\ g[0] = <<>> /\ g[n] = it[1..n]
            /\ \A k \in 1..n : g[k] = F[k][g[k - 1]]
  BY ONLY <1>7, FoldSteps
<1>9. PICK g : /\ g \in [0..n -> T] /\ g[0] = <<>> /\ g[n] = it[1..n]
               /\ \A k \in 1..n : g[k] = F[k][g[k - 1]]
  BY <1>8
<1>10. \A k \in 1..n : g[k - 1] \in T
  <2>1. \A k \in 1..n : k - 1 \in 0..n
    BY <1>1
  <2> QED BY <1>9, <2>1
<1>11. \A k \in 1..n : g[k] = Insert(g[k - 1], k, indices, before)
  BY ONLY <1>3, <1>9, <1>10
<1> QED BY ONLY <1>2, <1>9, <1>11

\* Concatenative, step by step.
LEMMA ConcatenativeSteps ==
  ASSUME NEW lengths,
         IsSeq(lengths),
         NEW capacity,
         NEW T, <<>> \in T, \A k \in 1..Len(lengths), t \in T : IntoLast(t, k, lengths, capacity) \in T
  PROVE  \E g : /\ g \in [0..Len(lengths) -> T] /\ g[0] = <<>> /\ Concatenative(lengths, capacity) = g[Len(lengths)]
              /\ \A k \in 1..Len(lengths) : g[k] = IntoLast(g[k - 1], k, lengths, capacity)
<1> DEFINE F == [k \in 1..Len(lengths) |-> [t \in T |-> IntoLast(t, k, lengths, capacity)]]
           Rule(it) == it = [s \in SUBSET (1..Len(lengths)) |->
                               IF s = {} THEN <<>> ELSE IntoLast(it[s \ {Max(s)}], [i \in 1..Len(lengths) |-> i][Max(s)], lengths, capacity)]
           it == CHOOSE it : Rule(it)
<1>1. Len(lengths) \in Nat /\ DOMAIN [i \in 1..Len(lengths) |-> i] = 1..Len(lengths)
  BY DEF IsSeq
<1>2. Concatenative(lengths, capacity) = it[1..Len(lengths)]
  BY <1>1 DEF Concatenative, IsSeq, FoldLeft, MapThenFoldSet
<1>3. \A k \in 1..Len(lengths), t \in T : F[k][t] = IntoLast(t, k, lengths, capacity) /\ F[k][t] \in T
  OBVIOUS
<1> HIDE DEF F
<1>4. PICK f : IsFold(f, F, <<>>, Len(lengths)) /\ \A s \in SUBSET (1..Len(lengths)) : f[s] \in T
  <2>1. \A k \in 1..Len(lengths), t \in T : F[k][t] \in T
    BY <1>3
  <2> QED BY ONLY <1>1, <2>1, <<>> \in T, FoldExists
<1>5. \A s \in SUBSET (1..Len(lengths)) : s # {} => Max(s) \in 1..Len(lengths) /\ s \ {Max(s)} \in SUBSET (1..Len(lengths))
  BY <1>1, LargestIn
<1>6. Rule(it)
  <2>1. \A s \in SUBSET (1..Len(lengths)) : s # {} => F[Max(s)][f[s \ {Max(s)}]] = IntoLast(f[s \ {Max(s)}], [i \in 1..Len(lengths) |-> i][Max(s)], lengths, capacity)
    BY <1>3, <1>4, <1>5
  <2>2. Rule(f)
    BY <1>4, <2>1 DEF IsFold
  <2> QED BY <2>2
<1> HIDE DEF it
<1>7. Stepwise(it, F, <<>>, Len(lengths), T)
  <2>1. it[{}] = <<>>
    BY <1>6
  <2>2. ASSUME NEW s \in SUBSET (1..Len(lengths)), s # {}, it[s \ {Max(s)}] \in T
        PROVE  it[s] = F[Max(s)][it[s \ {Max(s)}]]
    <3>1. it[s] = IntoLast(it[s \ {Max(s)}], Max(s), lengths, capacity)
      BY <1>5, <1>6, <2>2
    <3> QED BY <1>3, <1>5, <2>2, <3>1
  <2> QED BY <1>1, <1>3, <2>1, <2>2 DEF Stepwise
<1>8. \E g : /\ g \in [0..Len(lengths) -> T] /\ g[0] = <<>> /\ g[Len(lengths)] = it[1..Len(lengths)]
            /\ \A k \in 1..Len(lengths) : g[k] = F[k][g[k - 1]]
  BY ONLY <1>7, FoldSteps
<1>9. PICK g : /\ g \in [0..Len(lengths) -> T] /\ g[0] = <<>> /\ g[Len(lengths)] = it[1..Len(lengths)]
               /\ \A k \in 1..Len(lengths) : g[k] = F[k][g[k - 1]]
  BY <1>8
<1>10. \A k \in 1..Len(lengths) : g[k - 1] \in T
  <2>1. \A k \in 1..Len(lengths) : k - 1 \in 0..Len(lengths)
    BY <1>1
  <2> QED BY <1>9, <2>1
<1>11. \A k \in 1..Len(lengths) : g[k] = IntoLast(g[k - 1], k, lengths, capacity)
  BY ONLY <1>3, <1>9, <1>10
<1> QED BY ONLY <1>2, <1>9, <1>11

\* FirstFit, step by step.
LEMMA FirstFitSteps ==
  ASSUME NEW lengths,
         NEW capacity,
         NEW order,
         IsSeq(order),
         NEW T, <<>> \in T, \A k \in 1..Len(order), t \in T : IntoFirst(t, order[k], lengths, capacity) \in T
  PROVE  \E g : /\ g \in [0..Len(order) -> T] /\ g[0] = <<>> /\ FirstFit(order, lengths, capacity) = g[Len(order)]
              /\ \A k \in 1..Len(order) : g[k] = IntoFirst(g[k - 1], order[k], lengths, capacity)
<1> DEFINE F == [k \in 1..Len(order) |-> [t \in T |-> IntoFirst(t, order[k], lengths, capacity)]]
           Rule(it) == it = [s \in SUBSET (1..Len(order)) |->
                               IF s = {} THEN <<>> ELSE IntoFirst(it[s \ {Max(s)}], order[Max(s)], lengths, capacity)]
           it == CHOOSE it : Rule(it)
<1>1. Len(order) \in Nat /\ DOMAIN order = 1..Len(order)
  BY DEF IsSeq
<1>2. FirstFit(order, lengths, capacity) = it[1..Len(order)]
  BY <1>1 DEF FirstFit, FoldLeft, MapThenFoldSet
<1>3. \A k \in 1..Len(order), t \in T : F[k][t] = IntoFirst(t, order[k], lengths, capacity) /\ F[k][t] \in T
  OBVIOUS
<1> HIDE DEF F
<1>4. PICK f : IsFold(f, F, <<>>, Len(order)) /\ \A s \in SUBSET (1..Len(order)) : f[s] \in T
  <2>1. \A k \in 1..Len(order), t \in T : F[k][t] \in T
    BY <1>3
  <2> QED BY ONLY <1>1, <2>1, <<>> \in T, FoldExists
<1>5. \A s \in SUBSET (1..Len(order)) : s # {} => Max(s) \in 1..Len(order) /\ s \ {Max(s)} \in SUBSET (1..Len(order))
  BY <1>1, LargestIn
<1>6. Rule(it)
  <2>1. \A s \in SUBSET (1..Len(order)) : s # {} => F[Max(s)][f[s \ {Max(s)}]] = IntoFirst(f[s \ {Max(s)}], order[Max(s)], lengths, capacity)
    BY <1>3, <1>4, <1>5
  <2>2. Rule(f)
    BY <1>4, <2>1 DEF IsFold
  <2> QED BY <2>2
<1> HIDE DEF it
<1>7. Stepwise(it, F, <<>>, Len(order), T)
  <2>1. it[{}] = <<>>
    BY <1>6
  <2>2. ASSUME NEW s \in SUBSET (1..Len(order)), s # {}, it[s \ {Max(s)}] \in T
        PROVE  it[s] = F[Max(s)][it[s \ {Max(s)}]]
    <3>1. it[s] = IntoFirst(it[s \ {Max(s)}], order[Max(s)], lengths, capacity)
      BY <1>5, <1>6, <2>2
    <3> QED BY <1>3, <1>5, <2>2, <3>1
  <2> QED BY <1>1, <1>3, <2>1, <2>2 DEF Stepwise
<1>8. \E g : /\ g \in [0..Len(order) -> T] /\ g[0] = <<>> /\ g[Len(order)] = it[1..Len(order)]
            /\ \A k \in 1..Len(order) : g[k] = F[k][g[k - 1]]
  BY ONLY <1>7, FoldSteps
<1>9. PICK g : /\ g \in [0..Len(order) -> T] /\ g[0] = <<>> /\ g[Len(order)] = it[1..Len(order)]
               /\ \A k \in 1..Len(order) : g[k] = F[k][g[k - 1]]
  BY <1>8
<1>10. \A k \in 1..Len(order) : g[k - 1] \in T
  <2>1. \A k \in 1..Len(order) : k - 1 \in 0..Len(order)
    BY <1>1
  <2> QED BY <1>9, <2>1
<1>11. \A k \in 1..Len(order) : g[k] = IntoFirst(g[k - 1], order[k], lengths, capacity)
  BY ONLY <1>3, <1>9, <1>10
<1> QED BY ONLY <1>2, <1>9, <1>11

\* StartBins, step by step.
LEMMA StartBinsSteps ==
  ASSUME NEW lengths,
         NEW capacity,
         NEW base,
         base = NonePacked(lengths),
         NEW order,
         IsSeq(order),
         order = Descending(Large(lengths, capacity), lengths),
         NEW T, base \in T, \A k \in 1..Len(order), t \in T : StartBin(t, order[k], lengths, capacity) \in T
  PROVE  \E g : /\ g \in [0..Len(order) -> T] /\ g[0] = base /\ StartBins(lengths, capacity) = g[Len(order)]
              /\ \A k \in 1..Len(order) : g[k] = StartBin(g[k - 1], order[k], lengths, capacity)
<1> DEFINE F == [k \in 1..Len(order) |-> [t \in T |-> StartBin(t, order[k], lengths, capacity)]]
           Rule(it) == it = [s \in SUBSET (1..Len(order)) |->
                               IF s = {} THEN base ELSE StartBin(it[s \ {Max(s)}], order[Max(s)], lengths, capacity)]
           it == CHOOSE it : Rule(it)
<1>1. Len(order) \in Nat /\ DOMAIN order = 1..Len(order)
  BY DEF IsSeq
<1>2. StartBins(lengths, capacity) = it[1..Len(order)]
  BY <1>1 DEF StartBins, NonePacked, FoldLeft, MapThenFoldSet
<1>3. \A k \in 1..Len(order), t \in T : F[k][t] = StartBin(t, order[k], lengths, capacity) /\ F[k][t] \in T
  OBVIOUS
<1> HIDE DEF F
<1>4. PICK f : IsFold(f, F, base, Len(order)) /\ \A s \in SUBSET (1..Len(order)) : f[s] \in T
  <2>1. \A k \in 1..Len(order), t \in T : F[k][t] \in T
    BY <1>3
  <2> QED BY ONLY <1>1, <2>1, base \in T, FoldExists
<1>5. \A s \in SUBSET (1..Len(order)) : s # {} => Max(s) \in 1..Len(order) /\ s \ {Max(s)} \in SUBSET (1..Len(order))
  BY <1>1, LargestIn
<1>6. Rule(it)
  <2>1. \A s \in SUBSET (1..Len(order)) : s # {} => F[Max(s)][f[s \ {Max(s)}]] = StartBin(f[s \ {Max(s)}], order[Max(s)], lengths, capacity)
    BY <1>3, <1>4, <1>5
  <2>2. Rule(f)
    BY <1>4, <2>1 DEF IsFold
  <2> QED BY <2>2
<1> HIDE DEF it
<1>7. Stepwise(it, F, base, Len(order), T)
  <2>1. it[{}] = base
    BY <1>6
  <2>2. ASSUME NEW s \in SUBSET (1..Len(order)), s # {}, it[s \ {Max(s)}] \in T
        PROVE  it[s] = F[Max(s)][it[s \ {Max(s)}]]
    <3>1. it[s] = StartBin(it[s \ {Max(s)}], order[Max(s)], lengths, capacity)
      BY <1>5, <1>6, <2>2
    <3> QED BY <1>3, <1>5, <2>2, <3>1
  <2> QED BY <1>1, <1>3, <2>1, <2>2 DEF Stepwise
<1>8. \E g : /\ g \in [0..Len(order) -> T] /\ g[0] = base /\ g[Len(order)] = it[1..Len(order)]
            /\ \A k \in 1..Len(order) : g[k] = F[k][g[k - 1]]
  BY ONLY <1>7, FoldSteps
<1>9. PICK g : /\ g \in [0..Len(order) -> T] /\ g[0] = base /\ g[Len(order)] = it[1..Len(order)]
               /\ \A k \in 1..Len(order) : g[k] = F[k][g[k - 1]]
  BY <1>8
<1>10. \A k \in 1..Len(order) : g[k - 1] \in T
  <2>1. \A k \in 1..Len(order) : k - 1 \in 0..Len(order)
    BY <1>1
  <2> QED BY <1>9, <2>1
<1>11. \A k \in 1..Len(order) : g[k] = StartBin(g[k - 1], order[k], lengths, capacity)
  BY ONLY <1>3, <1>9, <1>10
<1> QED BY ONLY <1>2, <1>9, <1>11

\* AddSmallPairs, step by step.
LEMMA AddSmallPairsSteps ==
  ASSUME NEW lengths,
         NEW capacity,
         NEW packed,
         NEW order,
         IsSeq(order),
         order = LastToFirst(packed),
         NEW T, packed \in T, \A k \in 1..Len(order), t \in T : AddSmallPair(t, order[k], lengths, capacity) \in T
  PROVE  \E g : /\ g \in [0..Len(order) -> T] /\ g[0] = packed /\ AddSmallPairs(packed, lengths, capacity) = g[Len(order)]
              /\ \A k \in 1..Len(order) : g[k] = AddSmallPair(g[k - 1], order[k], lengths, capacity)
<1> DEFINE F == [k \in 1..Len(order) |-> [t \in T |-> AddSmallPair(t, order[k], lengths, capacity)]]
           Rule(it) == it = [s \in SUBSET (1..Len(order)) |->
                               IF s = {} THEN packed ELSE AddSmallPair(it[s \ {Max(s)}], order[Max(s)], lengths, capacity)]
           it == CHOOSE it : Rule(it)
<1>1. Len(order) \in Nat /\ DOMAIN order = 1..Len(order)
  BY DEF IsSeq
<1>2. AddSmallPairs(packed, lengths, capacity) = it[1..Len(order)]
  BY <1>1 DEF AddSmallPairs, LastToFirst, FoldLeft, MapThenFoldSet
<1>3. \A k \in 1..Len(order), t \in T : F[k][t] = AddSmallPair(t, order[k], lengths, capacity) /\ F[k][t] \in T
  OBVIOUS
<1> HIDE DEF F
<1>4. PICK f : IsFold(f, F, packed, Len(order)) /\ \A s \in SUBSET (1..Len(order)) : f[s] \in T
  <2>1. \A k \in 1..Len(order), t \in T : F[k][t] \in T
    BY <1>3
  <2> QED BY ONLY <1>1, <2>1, packed \in T, FoldExists
<1>5. \A s \in SUBSET (1..Len(order)) : s # {} => Max(s) \in 1..Len(order) /\ s \ {Max(s)} \in SUBSET (1..Len(order))
  BY <1>1, LargestIn
<1>6. Rule(it)
  <2>1. \A s \in SUBSET (1..Len(order)) : s # {} => F[Max(s)][f[s \ {Max(s)}]] = AddSmallPair(f[s \ {Max(s)}], order[Max(s)], lengths, capacity)
    BY <1>3, <1>4, <1>5
  <2>2. Rule(f)
    BY <1>4, <2>1 DEF IsFold
  <2> QED BY <2>2
<1> HIDE DEF it
<1>7. Stepwise(it, F, packed, Len(order), T)
  <2>1. it[{}] = packed
    BY <1>6
  <2>2. ASSUME NEW s \in SUBSET (1..Len(order)), s # {}, it[s \ {Max(s)}] \in T
        PROVE  it[s] = F[Max(s)][it[s \ {Max(s)}]]
    <3>1. it[s] = AddSmallPair(it[s \ {Max(s)}], order[Max(s)], lengths, capacity)
      BY <1>5, <1>6, <2>2
    <3> QED BY <1>3, <1>5, <2>2, <3>1
  <2> QED BY <1>1, <1>3, <2>1, <2>2 DEF Stepwise
<1>8. \E g : /\ g \in [0..Len(order) -> T] /\ g[0] = packed /\ g[Len(order)] = it[1..Len(order)]
            /\ \A k \in 1..Len(order) : g[k] = F[k][g[k - 1]]
  BY ONLY <1>7, FoldSteps
<1>9. PICK g : /\ g \in [0..Len(order) -> T] /\ g[0] = packed /\ g[Len(order)] = it[1..Len(order)]
               /\ \A k \in 1..Len(order) : g[k] = F[k][g[k - 1]]
  BY <1>8
<1>10. \A k \in 1..Len(order) : g[k - 1] \in T
  <2>1. \A k \in 1..Len(order) : k - 1 \in 0..Len(order)
    BY <1>1
  <2> QED BY <1>9, <2>1
<1>11. \A k \in 1..Len(order) : g[k] = AddSmallPair(g[k - 1], order[k], lengths, capacity)
  BY ONLY <1>3, <1>9, <1>10
<1> QED BY ONLY <1>2, <1>9, <1>11

\* TakeWhatFits's steps stay in T.
TakesWithin(order, T, lengths, capacity) == \A k \in 1..Len(order), t \in T : Take(t, order[k], lengths, capacity) \in T

\* TakeWhatFits, step by step.
LEMMA TakeWhatFitsSteps ==
  ASSUME NEW lengths,
         NEW capacity,
         NEW bin,
         NEW left,
         NEW order,
         IsSeq(order),
         order = Descending(left, lengths),
         NEW T, bin \in T, TakesWithin(order, T, lengths, capacity)
  PROVE  \E g : /\ g \in [0..Len(order) -> T] /\ g[0] = bin /\ TakeWhatFits(bin, left, lengths, capacity) = g[Len(order)]
              /\ \A k \in 1..Len(order) : g[k] = Take(g[k - 1], order[k], lengths, capacity)
<1> DEFINE F == [k \in 1..Len(order) |-> [t \in T |-> Take(t, order[k], lengths, capacity)]]
           Rule(it) == it = [s \in SUBSET (1..Len(order)) |->
                               IF s = {} THEN bin ELSE Take(it[s \ {Max(s)}], order[Max(s)], lengths, capacity)]
           it == CHOOSE it : Rule(it)
<1>1. Len(order) \in Nat /\ DOMAIN order = 1..Len(order)
  BY DEF IsSeq
<1>2. TakeWhatFits(bin, left, lengths, capacity) = it[1..Len(order)]
  BY <1>1 DEF TakeWhatFits, FoldLeft, MapThenFoldSet
<1>3. \A k \in 1..Len(order), t \in T : F[k][t] = Take(t, order[k], lengths, capacity) /\ F[k][t] \in T
  BY DEF TakesWithin
<1> HIDE DEF F
<1>4. PICK f : IsFold(f, F, bin, Len(order)) /\ \A s \in SUBSET (1..Len(order)) : f[s] \in T
  <2>1. \A k \in 1..Len(order), t \in T : F[k][t] \in T
    BY <1>3
  <2> QED BY ONLY <1>1, <2>1, bin \in T, FoldExists
<1>5. \A s \in SUBSET (1..Len(order)) : s # {} => Max(s) \in 1..Len(order) /\ s \ {Max(s)} \in SUBSET (1..Len(order))
  BY <1>1, LargestIn
<1>6. Rule(it)
  <2>1. \A s \in SUBSET (1..Len(order)) : s # {} => F[Max(s)][f[s \ {Max(s)}]] = Take(f[s \ {Max(s)}], order[Max(s)], lengths, capacity)
    BY <1>3, <1>4, <1>5
  <2>2. Rule(f)
    BY <1>4, <2>1 DEF IsFold
  <2> QED BY <2>2
<1> HIDE DEF it
<1>7. Stepwise(it, F, bin, Len(order), T)
  <2>1. it[{}] = bin
    BY <1>6
  <2>2. ASSUME NEW s \in SUBSET (1..Len(order)), s # {}, it[s \ {Max(s)}] \in T
        PROVE  it[s] = F[Max(s)][it[s \ {Max(s)}]]
    <3>1. it[s] = Take(it[s \ {Max(s)}], order[Max(s)], lengths, capacity)
      BY <1>5, <1>6, <2>2
    <3> QED BY <1>3, <1>5, <2>2, <3>1
  <2> QED BY <1>1, <1>3, <2>1, <2>2 DEF Stepwise
<1>8. \E g : /\ g \in [0..Len(order) -> T] /\ g[0] = bin /\ g[Len(order)] = it[1..Len(order)]
            /\ \A k \in 1..Len(order) : g[k] = F[k][g[k - 1]]
  BY ONLY <1>7, FoldSteps
<1>9. PICK g : /\ g \in [0..Len(order) -> T] /\ g[0] = bin /\ g[Len(order)] = it[1..Len(order)]
               /\ \A k \in 1..Len(order) : g[k] = F[k][g[k - 1]]
  BY <1>8
<1>10. \A k \in 1..Len(order) : g[k - 1] \in T
  <2>1. \A k \in 1..Len(order) : k - 1 \in 0..Len(order)
    BY <1>1
  <2> QED BY <1>9, <2>1
<1>11. \A k \in 1..Len(order) : g[k] = Take(g[k - 1], order[k], lengths, capacity)
  BY ONLY <1>3, <1>9, <1>10
<1> QED BY ONLY <1>2, <1>9, <1>11

\* FillBins, step by step.
LEMMA FillBinsSteps ==
  ASSUME NEW lengths,
         NEW capacity,
         NEW packed,
         NEW order,
         IsSeq(order),
         order = FirstToLast(packed),
         NEW T, packed \in T, \A k \in 1..Len(order), t \in T : FillBin(t, order[k], lengths, capacity) \in T
  PROVE  \E g : /\ g \in [0..Len(order) -> T] /\ g[0] = packed /\ FillBins(packed, lengths, capacity) = g[Len(order)]
              /\ \A k \in 1..Len(order) : g[k] = FillBin(g[k - 1], order[k], lengths, capacity)
<1> DEFINE F == [k \in 1..Len(order) |-> [t \in T |-> FillBin(t, order[k], lengths, capacity)]]
           Rule(it) == it = [s \in SUBSET (1..Len(order)) |->
                               IF s = {} THEN packed ELSE FillBin(it[s \ {Max(s)}], order[Max(s)], lengths, capacity)]
           it == CHOOSE it : Rule(it)
<1>1. Len(order) \in Nat /\ DOMAIN order = 1..Len(order)
  BY DEF IsSeq
<1>2. FillBins(packed, lengths, capacity) = it[1..Len(order)]
  BY <1>1 DEF FillBins, FirstToLast, FoldLeft, MapThenFoldSet
<1>3. \A k \in 1..Len(order), t \in T : F[k][t] = FillBin(t, order[k], lengths, capacity) /\ F[k][t] \in T
  OBVIOUS
<1> HIDE DEF F
<1>4. PICK f : IsFold(f, F, packed, Len(order)) /\ \A s \in SUBSET (1..Len(order)) : f[s] \in T
  <2>1. \A k \in 1..Len(order), t \in T : F[k][t] \in T
    BY <1>3
  <2> QED BY ONLY <1>1, <2>1, packed \in T, FoldExists
<1>5. \A s \in SUBSET (1..Len(order)) : s # {} => Max(s) \in 1..Len(order) /\ s \ {Max(s)} \in SUBSET (1..Len(order))
  BY <1>1, LargestIn
<1>6. Rule(it)
  <2>1. \A s \in SUBSET (1..Len(order)) : s # {} => F[Max(s)][f[s \ {Max(s)}]] = FillBin(f[s \ {Max(s)}], order[Max(s)], lengths, capacity)
    BY <1>3, <1>4, <1>5
  <2>2. Rule(f)
    BY <1>4, <2>1 DEF IsFold
  <2> QED BY <2>2
<1> HIDE DEF it
<1>7. Stepwise(it, F, packed, Len(order), T)
  <2>1. it[{}] = packed
    BY <1>6
  <2>2. ASSUME NEW s \in SUBSET (1..Len(order)), s # {}, it[s \ {Max(s)}] \in T
        PROVE  it[s] = F[Max(s)][it[s \ {Max(s)}]]
    <3>1. it[s] = FillBin(it[s \ {Max(s)}], order[Max(s)], lengths, capacity)
      BY <1>5, <1>6, <2>2
    <3> QED BY <1>3, <1>5, <2>2, <3>1
  <2> QED BY <1>1, <1>3, <2>1, <2>2 DEF Stepwise
<1>8. \E g : /\ g \in [0..Len(order) -> T] /\ g[0] = packed /\ g[Len(order)] = it[1..Len(order)]
            /\ \A k \in 1..Len(order) : g[k] = F[k][g[k - 1]]
  BY ONLY <1>7, FoldSteps
<1>9. PICK g : /\ g \in [0..Len(order) -> T] /\ g[0] = packed /\ g[Len(order)] = it[1..Len(order)]
               /\ \A k \in 1..Len(order) : g[k] = F[k][g[k - 1]]
  BY <1>8
<1>10. \A k \in 1..Len(order) : g[k - 1] \in T
  <2>1. \A k \in 1..Len(order) : k - 1 \in 0..Len(order)
    BY <1>1
  <2> QED BY <1>9, <2>1
<1>11. \A k \in 1..Len(order) : g[k] = FillBin(g[k - 1], order[k], lengths, capacity)
  BY ONLY <1>3, <1>9, <1>10
<1> QED BY ONLY <1>2, <1>9, <1>11

\* PackLeftovers's steps stay in T.
PacksWithin(order, T, lengths, capacity) == \A k \in 1..Len(order), t \in T : PackLeftover(t, order[k], lengths, capacity) \in T

\* PackLeftovers, step by step.
LEMMA PackLeftoversSteps ==
  ASSUME NEW lengths,
         NEW capacity,
         NEW left,
         NEW base,
         base = OneEmptyBin,
         NEW order,
         IsSeq(order),
         order = Descending(left, lengths),
         NEW T, base \in T, PacksWithin(order, T, lengths, capacity)
  PROVE  \E g : /\ g \in [0..Len(order) -> T] /\ g[0] = base /\ PackLeftovers(left, lengths, capacity) = g[Len(order)]
              /\ \A k \in 1..Len(order) : g[k] = PackLeftover(g[k - 1], order[k], lengths, capacity)
<1> DEFINE F == [k \in 1..Len(order) |-> [t \in T |-> PackLeftover(t, order[k], lengths, capacity)]]
           Rule(it) == it = [s \in SUBSET (1..Len(order)) |->
                               IF s = {} THEN base ELSE PackLeftover(it[s \ {Max(s)}], order[Max(s)], lengths, capacity)]
           it == CHOOSE it : Rule(it)
<1>1. Len(order) \in Nat /\ DOMAIN order = 1..Len(order)
  BY DEF IsSeq
<1>2. PackLeftovers(left, lengths, capacity) = it[1..Len(order)]
  BY <1>1 DEF PackLeftovers, OneEmptyBin, FoldLeft, MapThenFoldSet
<1>3. \A k \in 1..Len(order), t \in T : F[k][t] = PackLeftover(t, order[k], lengths, capacity) /\ F[k][t] \in T
  BY DEF PacksWithin
<1> HIDE DEF F
<1>4. PICK f : IsFold(f, F, base, Len(order)) /\ \A s \in SUBSET (1..Len(order)) : f[s] \in T
  <2>1. \A k \in 1..Len(order), t \in T : F[k][t] \in T
    BY <1>3
  <2> QED BY ONLY <1>1, <2>1, base \in T, FoldExists
<1>5. \A s \in SUBSET (1..Len(order)) : s # {} => Max(s) \in 1..Len(order) /\ s \ {Max(s)} \in SUBSET (1..Len(order))
  BY <1>1, LargestIn
<1>6. Rule(it)
  <2>1. \A s \in SUBSET (1..Len(order)) : s # {} => F[Max(s)][f[s \ {Max(s)}]] = PackLeftover(f[s \ {Max(s)}], order[Max(s)], lengths, capacity)
    BY <1>3, <1>4, <1>5
  <2>2. Rule(f)
    BY <1>4, <2>1 DEF IsFold
  <2> QED BY <2>2
<1> HIDE DEF it
<1>7. Stepwise(it, F, base, Len(order), T)
  <2>1. it[{}] = base
    BY <1>6
  <2>2. ASSUME NEW s \in SUBSET (1..Len(order)), s # {}, it[s \ {Max(s)}] \in T
        PROVE  it[s] = F[Max(s)][it[s \ {Max(s)}]]
    <3>1. it[s] = PackLeftover(it[s \ {Max(s)}], order[Max(s)], lengths, capacity)
      BY <1>5, <1>6, <2>2
    <3> QED BY <1>3, <1>5, <2>2, <3>1
  <2> QED BY <1>1, <1>3, <2>1, <2>2 DEF Stepwise
<1>8. \E g : /\ g \in [0..Len(order) -> T] /\ g[0] = base /\ g[Len(order)] = it[1..Len(order)]
            /\ \A k \in 1..Len(order) : g[k] = F[k][g[k - 1]]
  BY ONLY <1>7, FoldSteps
<1>9. PICK g : /\ g \in [0..Len(order) -> T] /\ g[0] = base /\ g[Len(order)] = it[1..Len(order)]
               /\ \A k \in 1..Len(order) : g[k] = F[k][g[k - 1]]
  BY <1>8
<1>10. \A k \in 1..Len(order) : g[k - 1] \in T
  <2>1. \A k \in 1..Len(order) : k - 1 \in 0..Len(order)
    BY <1>1
  <2> QED BY <1>9, <2>1
<1>11. \A k \in 1..Len(order) : g[k] = PackLeftover(g[k - 1], order[k], lengths, capacity)
  BY ONLY <1>3, <1>9, <1>10
<1> QED BY ONLY <1>2, <1>9, <1>11

\* WithoutEmpty, step by step.
LEMMA WithoutEmptySteps ==
  ASSUME NEW bins,
         IsSeq(bins),
         NEW T, <<>> \in T, \A k \in 1..Len(bins), t \in T : KeepBin(t, bins[k]) \in T
  PROVE  \E g : /\ g \in [0..Len(bins) -> T] /\ g[0] = <<>> /\ WithoutEmpty(bins) = g[Len(bins)]
              /\ \A k \in 1..Len(bins) : g[k] = KeepBin(g[k - 1], bins[k])
<1> DEFINE F == [k \in 1..Len(bins) |-> [t \in T |-> KeepBin(t, bins[k])]]
           Rule(it) == it = [s \in SUBSET (1..Len(bins)) |->
                               IF s = {} THEN <<>> ELSE KeepBin(it[s \ {Max(s)}], bins[Max(s)])]
           it == CHOOSE it : Rule(it)
<1>1. Len(bins) \in Nat /\ DOMAIN bins = 1..Len(bins)
  BY DEF IsSeq
<1>2. WithoutEmpty(bins) = it[1..Len(bins)]
  BY <1>1 DEF WithoutEmpty, FoldLeft, MapThenFoldSet
<1>3. \A k \in 1..Len(bins), t \in T : F[k][t] = KeepBin(t, bins[k]) /\ F[k][t] \in T
  OBVIOUS
<1> HIDE DEF F
<1>4. PICK f : IsFold(f, F, <<>>, Len(bins)) /\ \A s \in SUBSET (1..Len(bins)) : f[s] \in T
  <2>1. \A k \in 1..Len(bins), t \in T : F[k][t] \in T
    BY <1>3
  <2> QED BY ONLY <1>1, <2>1, <<>> \in T, FoldExists
<1>5. \A s \in SUBSET (1..Len(bins)) : s # {} => Max(s) \in 1..Len(bins) /\ s \ {Max(s)} \in SUBSET (1..Len(bins))
  BY <1>1, LargestIn
<1>6. Rule(it)
  <2>1. \A s \in SUBSET (1..Len(bins)) : s # {} => F[Max(s)][f[s \ {Max(s)}]] = KeepBin(f[s \ {Max(s)}], bins[Max(s)])
    BY <1>3, <1>4, <1>5
  <2>2. Rule(f)
    BY <1>4, <2>1 DEF IsFold
  <2> QED BY <2>2
<1> HIDE DEF it
<1>7. Stepwise(it, F, <<>>, Len(bins), T)
  <2>1. it[{}] = <<>>
    BY <1>6
  <2>2. ASSUME NEW s \in SUBSET (1..Len(bins)), s # {}, it[s \ {Max(s)}] \in T
        PROVE  it[s] = F[Max(s)][it[s \ {Max(s)}]]
    <3>1. it[s] = KeepBin(it[s \ {Max(s)}], bins[Max(s)])
      BY <1>5, <1>6, <2>2
    <3> QED BY <1>3, <1>5, <2>2, <3>1
  <2> QED BY <1>1, <1>3, <2>1, <2>2 DEF Stepwise
<1>8. \E g : /\ g \in [0..Len(bins) -> T] /\ g[0] = <<>> /\ g[Len(bins)] = it[1..Len(bins)]
            /\ \A k \in 1..Len(bins) : g[k] = F[k][g[k - 1]]
  BY ONLY <1>7, FoldSteps
<1>9. PICK g : /\ g \in [0..Len(bins) -> T] /\ g[0] = <<>> /\ g[Len(bins)] = it[1..Len(bins)]
               /\ \A k \in 1..Len(bins) : g[k] = F[k][g[k - 1]]
  BY <1>8
<1>10. \A k \in 1..Len(bins) : g[k - 1] \in T
  <2>1. \A k \in 1..Len(bins) : k - 1 \in 0..Len(bins)
    BY <1>1
  <2> QED BY <1>9, <2>1
<1>11. \A k \in 1..Len(bins) : g[k] = KeepBin(g[k - 1], bins[k])
  BY ONLY <1>3, <1>9, <1>10
<1> QED BY ONLY <1>2, <1>9, <1>11

-----------------------------------------------------------------------------
(* How many sequences are in bins. *)

-----------------------------------------------------------------------------
(* What bins hold. *)

BinSizes(bins) == [b \in 1..Len(bins) |-> Len(bins[b])]
Content(bins) == SumTo(BinSizes(bins), Len(bins))

\* The sizes of bins, and what they hold, are natural numbers.
LEMMA ContentNat ==
  ASSUME NEW I, NEW bins \in Seq(Seq(I))
  PROVE  /\ Content(bins) \in Nat /\ Len(bins) \in Nat
         /\ \A b \in 1..Len(bins) : bins[b] \in Seq(I) /\ BinSizes(bins)[b] = Len(bins[b]) /\ BinSizes(bins)[b] \in Nat
<1>1. Len(bins) \in Nat /\ \A b \in 1..Len(bins) : bins[b] \in Seq(I) /\ Len(bins[b]) \in Nat
  OBVIOUS
<1>2. \A b \in 1..Len(bins) : BinSizes(bins)[b] = Len(bins[b])
  BY DEF BinSizes
<1>3. \A b \in 1..Len(bins) : BinSizes(bins)[b] \in Nat
  BY <1>1, <1>2
<1>4. \A k \in 0..Len(bins) : SumTo(BinSizes(bins), k) \in Nat
  BY ONLY <1>1, <1>3, SumNat
<1>5. Len(bins) \in 0..Len(bins)
  BY <1>1
<1> QED BY <1>1, <1>2, <1>3, <1>4, <1>5 DEF Content

\* No bins hold nothing.
LEMMA ContentNone == Content(<<>>) = 0
<1>1. Len(<<>>) = 0
  OBVIOUS
<1>2. SumTo(BinSizes(<<>>), 0) = 0
  <2>1. 0 \in Nat /\ \A k \in 1..0 : BinSizes(<<>>)[k] \in Int
    OBVIOUS
  <2> QED BY ONLY <2>1, SumRule
<1> QED BY <1>1, <1>2 DEF Content

\* Two lists of bins hold what each of them holds.
LEMMA ContentJoined ==
  ASSUME NEW I, NEW a \in Seq(Seq(I)), NEW b \in Seq(Seq(I))
  PROVE  a \o b \in Seq(Seq(I)) /\ Content(a \o b) = Content(a) + Content(b)
<1>1. /\ a \o b \in Seq(Seq(I)) /\ Len(a \o b) = Len(a) + Len(b) /\ Len(a) \in Nat /\ Len(b) \in Nat
      /\ \A k \in 1..Len(a) : (a \o b)[k] = a[k]
      /\ \A k \in 1..Len(b) : (a \o b)[Len(a) + k] = b[k]
  OBVIOUS
<1>2. \A k \in 1..Len(a) : BinSizes(a)[k] = Len(a[k]) /\ BinSizes(a)[k] \in Nat
  BY ContentNat
<1>3. \A k \in 1..Len(b) : BinSizes(b)[k] = Len(b[k]) /\ BinSizes(b)[k] \in Nat
  BY ContentNat
<1>4. \A k \in 1..Len(a \o b) : BinSizes(a \o b)[k] = Len((a \o b)[k])
  BY DEF BinSizes
<1>5. PICK m, n, f, g, h : m = Len(a) /\ n = Len(b) /\ f = BinSizes(a) /\ g = BinSizes(b) /\ h = BinSizes(a \o b)
  OBVIOUS
<1>6. \A k \in 1..m : f[k] \in Int /\ h[k] = f[k]
  <2> SUFFICES ASSUME NEW k \in 1..m PROVE f[k] \in Int /\ h[k] = f[k]
    OBVIOUS
  <2>1. k \in 1..Len(a) /\ k \in 1..Len(a \o b)
    BY <1>1, <1>5
  <2>2. (a \o b)[k] = a[k]
    BY <1>1, <2>1
  <2>3. h[k] = Len(a[k]) /\ f[k] = Len(a[k]) /\ f[k] \in Nat
    BY <1>2, <1>4, <1>5, <2>1, <2>2
  <2> QED BY <2>3
<1>7. \A k \in 1..n : g[k] \in Int /\ h[m + k] = g[k]
  <2> SUFFICES ASSUME NEW k \in 1..n PROVE g[k] \in Int /\ h[m + k] = g[k]
    OBVIOUS
  <2>1. k \in 1..Len(b) /\ m + k \in 1..Len(a \o b)
    BY <1>1, <1>5
  <2>2. (a \o b)[m + k] = b[k]
    BY <1>1, <1>5, <2>1
  <2>3. h[m + k] = Len(b[k]) /\ g[k] = Len(b[k]) /\ g[k] \in Nat
    BY <1>3, <1>4, <1>5, <2>1, <2>2
  <2> QED BY <2>3
<1>8. m \in Nat /\ n \in Nat
  BY <1>1, <1>5
<1>9. SumTo(h, m + n) = SumTo(f, m) + SumTo(g, n)
  <2>1. Joins(h, f, m, g, n)
    BY <1>6, <1>7, <1>8 DEF Joins
  <2> QED BY ONLY <2>1, SumJoined
<1> QED BY <1>1, <1>5, <1>9 DEF Content

\* A list of one bin.
LEMMA ContentOne ==
  ASSUME NEW I, NEW bin \in Seq(I)
  PROVE  <<bin>> \in Seq(Seq(I)) /\ Content(<<bin>>) = Len(bin)
<1>1. <<bin>> \in Seq(Seq(I)) /\ Len(<<bin>>) = 1 /\ <<bin>>[1] = bin /\ Len(bin) \in Nat
  OBVIOUS
<1>2. BinSizes(<<bin>>)[1] = Len(bin)
  BY <1>1 DEF BinSizes
<1>3. \A k \in 1..1 : BinSizes(<<bin>>)[k] = Len(bin)
  BY <1>2
<1>4. 1 \in Nat /\ 1 * Len(bin) = Len(bin)
  BY <1>1
<1>5. SumTo(BinSizes(<<bin>>), 1) = 1 * Len(bin)
  BY ONLY <1>1, <1>3, <1>4, SumConstant
<1> QED BY <1>1, <1>4, <1>5 DEF Content

\* A bin more.
LEMMA ContentAppend ==
  ASSUME NEW I, NEW bins \in Seq(Seq(I)), NEW bin \in Seq(I)
  PROVE  Append(bins, bin) \in Seq(Seq(I)) /\ Content(Append(bins, bin)) = Content(bins) + Len(bin)
<1>1. Append(bins, bin) = bins \o <<bin>>
  OBVIOUS
<1>2. <<bin>> \in Seq(Seq(I)) /\ Content(<<bin>>) = Len(bin)
  BY ContentOne
<1>3. bins \o <<bin>> \in Seq(Seq(I)) /\ Content(bins \o <<bin>>) = Content(bins) + Content(<<bin>>)
  BY <1>2, ContentJoined
<1> QED BY <1>1, <1>2, <1>3

\* Another bin in the place of one.
LEMMA ContentExcept ==
  ASSUME NEW I, NEW bins \in Seq(Seq(I)), NEW j \in 1..Len(bins), NEW bin \in Seq(I)
  PROVE  /\ [bins EXCEPT ![j] = bin] \in Seq(Seq(I)) /\ Len([bins EXCEPT ![j] = bin]) = Len(bins)
         /\ Content([bins EXCEPT ![j] = bin]) = Content(bins) + Len(bin) - Len(bins[j])
<1> DEFINE new == [bins EXCEPT ![j] = bin]
<1>1. new \in Seq(Seq(I)) /\ Len(new) = Len(bins) /\ new[j] = bin /\ \A k \in 1..Len(bins) : k # j => new[k] = bins[k]
  OBVIOUS
<1> HIDE DEF new
<1>2. Len(bins) \in Nat /\ \A k \in 1..Len(bins) : BinSizes(bins)[k] = Len(bins[k]) /\ BinSizes(bins)[k] \in Nat
  BY ContentNat
<1>3. \A k \in 1..Len(bins) : BinSizes(new)[k] = Len(new[k])
  BY <1>1 DEF BinSizes
<1>4. \A k \in 1..Len(bins) : BinSizes(bins)[k] \in Int /\ (k # j => BinSizes(new)[k] = BinSizes(bins)[k])
  <2> SUFFICES ASSUME NEW k \in 1..Len(bins)
               PROVE  BinSizes(bins)[k] \in Int /\ (k # j => BinSizes(new)[k] = BinSizes(bins)[k])
    OBVIOUS
  <2>1. BinSizes(bins)[k] = Len(bins[k]) /\ BinSizes(bins)[k] \in Nat /\ BinSizes(new)[k] = Len(new[k])
    BY <1>2, <1>3
  <2>2. k # j => new[k] = bins[k]
    BY <1>1
  <2> QED BY <2>1, <2>2
<1>5. BinSizes(new)[j] = Len(bin) /\ BinSizes(new)[j] \in Int /\ BinSizes(bins)[j] = Len(bins[j])
  BY <1>1, <1>2, <1>3
<1>6. SumTo(BinSizes(new), Len(bins)) = SumTo(BinSizes(bins), Len(bins)) + BinSizes(new)[j] - BinSizes(bins)[j]
  BY ONLY <1>2, <1>4, <1>5, j \in 1..Len(bins), SumUpdate
<1>7. Content(new) = Content(bins) + Len(bin) - Len(bins[j])
  BY <1>1, <1>5, <1>6 DEF Content
<1> QED BY <1>1, <1>7 DEF new

\* A list is its two pieces.
LEMMA Pieces ==
  ASSUME NEW X, NEW s \in Seq(X), NEW j \in 1..(Len(s) + 1)
  PROVE  /\ SubSeq(s, 1, j - 1) \in Seq(X) /\ SubSeq(s, j, Len(s)) \in Seq(X)
         /\ Len(SubSeq(s, 1, j - 1)) = j - 1 /\ Len(SubSeq(s, j, Len(s))) = Len(s) - j + 1
         /\ s = SubSeq(s, 1, j - 1) \o SubSeq(s, j, Len(s)) /\ Len(s) = (j - 1) + (Len(s) - j + 1)
<1> DEFINE a == SubSeq(s, 1, j - 1)
           b == SubSeq(s, j, Len(s))
<1>1. Len(s) \in Nat /\ \A i \in 1..Len(s) : s[i] \in X
  OBVIOUS
<1>2. /\ a = [i \in 1..(j - 1) |-> s[i]] /\ b = [i \in 1..(Len(s) - j + 1) |-> s[j + i - 1]]
  BY <1>1
<1>3. a \in Seq(X) /\ Len(a) = j - 1
  BY <1>1, <1>2
<1>4. b \in Seq(X) /\ Len(b) = Len(s) - j + 1
  BY <1>1, <1>2
<1>5. j \in Int /\ j >= 1 /\ j <= Len(s) + 1
  BY <1>1
<1> HIDE DEF a, b
<1>6. PICK c : c = a \o b
  OBVIOUS
<1>7. s = c
  <2>1. c \in Seq(X) /\ Len(c) = Len(s) /\ \A i \in 1..(j - 1) : c[i] = a[i]
    BY <1>1, <1>3, <1>4, <1>5, <1>6
  <2>2. \A i \in 1..Len(s) : i > j - 1 => c[i] = b[i - (j - 1)]
    BY <1>1, <1>3, <1>4, <1>5, <1>6
  <2>3. ASSUME NEW i \in 1..Len(s) PROVE c[i] = s[i]
    <3>1. CASE i <= j - 1
      <4>1. i \in 1..(j - 1)
        BY <1>5, <3>1
      <4> QED BY <1>2, <2>1, <4>1
    <3>2. CASE i > j - 1
      <4>1. PICK x : x = i - (j - 1)
        OBVIOUS
      <4>2. x \in 1..(Len(s) - j + 1) /\ j + x - 1 = i
        BY <1>1, <1>5, <3>2, <4>1
      <4>3. b[x] = s[j + x - 1] /\ c[i] = b[x]
        BY <1>2, <2>2, <3>2, <4>1, <4>2
      <4> QED BY <4>2, <4>3
    <3> QED BY <1>5, <3>1, <3>2
  <2>4. s = [i \in 1..Len(s) |-> s[i]] /\ c = [i \in 1..Len(c) |-> c[i]]
    BY <2>1
  <2> QED BY ONLY <2>1, <2>3, <2>4
<1>8. Len(s) = (j - 1) + (Len(s) - j + 1)
  BY <1>1, <1>5
<1> QED BY <1>3, <1>4, <1>6, <1>7, <1>8 DEF a, b

\* A bin put between others.
LEMMA ContentInsert ==
  ASSUME NEW I, NEW bins \in Seq(Seq(I)), NEW j \in 1..(Len(bins) + 1), NEW bin \in Seq(I)
  PROVE  /\ InsertAt(bins, j, bin) \in Seq(Seq(I)) /\ Content(InsertAt(bins, j, bin)) = Content(bins) + Len(bin)
         /\ Len(InsertAt(bins, j, bin)) = Len(bins) + 1
<1> DEFINE a == SubSeq(bins, 1, j - 1)
           b == SubSeq(bins, j, Len(bins))
<1>1. a \in Seq(Seq(I)) /\ b \in Seq(Seq(I)) /\ bins = a \o b /\ Len(bins) = Len(a) + Len(b)
  BY Pieces
<1>2. InsertAt(bins, j, bin) = (a \o <<bin>>) \o b
  BY DEF InsertAt
<1>3. Len((a \o <<bin>>) \o b) = Len(a) + 1 + Len(b) /\ Len(a) \in Nat /\ Len(b) \in Nat
  <2> HIDE DEF a, b
  <2> QED BY <1>1
<1> HIDE DEF a, b
<1>4. <<bin>> \in Seq(Seq(I)) /\ Content(<<bin>>) = Len(bin)
  BY ContentOne
<1>5. Content(bins) = Content(a) + Content(b)
  BY <1>1, ContentJoined
<1>6. a \o <<bin>> \in Seq(Seq(I)) /\ Content(a \o <<bin>>) = Content(a) + Content(<<bin>>)
  BY <1>1, <1>4, ContentJoined
<1>7. PICK c : c = a \o <<bin>>
  OBVIOUS
<1>8. c \in Seq(Seq(I)) /\ Content(c) = Content(a) + Len(bin)
  BY <1>4, <1>6, <1>7
<1>9. c \o b \in Seq(Seq(I)) /\ Content(c \o b) = Content(c) + Content(b)
  BY ONLY <1>1, <1>8, ContentJoined
<1>10. Content(a) \in Nat /\ Content(b) \in Nat /\ Len(bin) \in Nat
  BY <1>1, ContentNat
<1>11. InsertAt(bins, j, bin) = c \o b /\ Len(InsertAt(bins, j, bin)) = Len(bins) + 1
  BY <1>1, <1>2, <1>3, <1>7
<1>12. Content(c \o b) = Content(bins) + Len(bin)
  BY ONLY <1>5, <1>8, <1>9, <1>10
<1> QED BY ONLY <1>9, <1>11, <1>12

\* All bins but the first.
LEMMA ContentTail ==
  ASSUME NEW I, NEW bins \in Seq(Seq(I)), Len(bins) > 0
  PROVE  /\ Tail(bins) \in Seq(Seq(I)) /\ Head(bins) \in Seq(I) /\ Len(Tail(bins)) = Len(bins) - 1
         /\ Content(bins) = Content(Tail(bins)) + Len(Head(bins))
<1>1. /\ Tail(bins) \in Seq(Seq(I)) /\ Head(bins) \in Seq(I) /\ bins = <<Head(bins)>> \o Tail(bins)
      /\ Len(Tail(bins)) = Len(bins) - 1
  OBVIOUS
<1>2. PICK a, b : a = Head(bins) /\ b = Tail(bins)
  OBVIOUS
<1>3. <<a>> \in Seq(Seq(I)) /\ Content(<<a>>) = Len(a)
  BY <1>1, <1>2, ContentOne
<1>4. Content(<<a>> \o b) = Content(<<a>>) + Content(b)
  BY <1>1, <1>2, <1>3, ContentJoined
<1>5. Content(b) \in Nat /\ Len(a) \in Nat
  <2>1. b \in Seq(Seq(I)) /\ a \in Seq(I)
    BY <1>1, <1>2
  <2>2. Content(b) \in Nat
    BY ONLY <2>1, ContentNat
  <2> QED BY <2>1, <2>2
<1>6. bins = <<a>> \o b
  BY <1>1, <1>2
<1>7. Content(bins) = Content(b) + Len(a)
  BY ONLY <1>3, <1>4, <1>5, <1>6
<1> QED BY <1>1, <1>2, <1>7

\* Bins that hold more than one each on average: one of them does.
LEMMA SomeBinHasTwo ==
  ASSUME NEW I, NEW bins \in Seq(Seq(I)), Content(bins) > Len(bins)
  PROVE  \E b \in 1..Len(bins) : Len(bins[b]) > 1
<1> SUFFICES ASSUME \A b \in 1..Len(bins) : ~(Len(bins[b]) > 1) PROVE FALSE
  OBVIOUS
<1>1. Len(bins) \in Nat /\ Content(bins) \in Nat /\ \A b \in 1..Len(bins) : BinSizes(bins)[b] = Len(bins[b]) /\ BinSizes(bins)[b] \in Nat
  BY ContentNat
<1>2. \A b \in 1..Len(bins) : BinSizes(bins)[b] \in Nat /\ BinSizes(bins)[b] <= 1
  BY <1>1
<1>3. 1 \in Nat
  OBVIOUS
<1>4. SumTo(BinSizes(bins), Len(bins)) <= Len(bins) * 1
  BY ONLY <1>1, <1>2, <1>3, SumAtMost
<1>5. Len(bins) * 1 = Len(bins)
  BY <1>1
<1> QED BY <1>1, <1>4, <1>5 DEF Content

-----------------------------------------------------------------------------
(* Sorted lists. *)

-----------------------------------------------------------------------------
(* Sorting. *)

\* What a list is in which an element has been put between others.
LEMMA Inserted ==
  ASSUME NEW I, NEW s \in Seq(I), NEW j \in 1..(Len(s) + 1), NEW e \in I
  PROVE  /\ InsertAt(s, j, e) \in Seq(I) /\ Len(InsertAt(s, j, e)) = Len(s) + 1
         /\ \A i \in 1..(Len(s) + 1) : InsertAt(s, j, e)[i] = IF i < j THEN s[i] ELSE IF i = j THEN e ELSE s[i - 1]
<1> DEFINE a == SubSeq(s, 1, j - 1)
           b == SubSeq(s, j, Len(s))
<1>1. /\ a \in Seq(I) /\ b \in Seq(I) /\ Len(a) = j - 1 /\ Len(b) = Len(s) - j + 1 /\ Len(s) = (j - 1) + (Len(s) - j + 1)
  BY Pieces
<1>2. (\A i \in 1..(j - 1) : a[i] = s[i]) /\ \A i \in 1..(Len(s) - j + 1) : b[i] = s[j + i - 1]
  <2>1. Len(s) \in Nat
    OBVIOUS
  <2> QED BY <2>1
<1>3. InsertAt(s, j, e) = (a \o <<e>>) \o b
  BY DEF InsertAt
<1> HIDE DEF a, b
<1>4. PICK c : c = (a \o <<e>>) \o b
  OBVIOUS
<1>5. Len(s) \in Nat /\ j \in Int /\ j >= 1 /\ j <= Len(s) + 1
  OBVIOUS
<1>6. c \in Seq(I) /\ Len(c) = Len(s) + 1
  <2>1. a \o <<e>> \in Seq(I) /\ Len(a \o <<e>>) = j
    BY <1>1, <1>5
  <2>2. PICK d : d = a \o <<e>>
    OBVIOUS
  <2> QED BY <1>1, <1>4, <1>5, <2>1, <2>2
<1>7. /\ \A i \in 1..(Len(s) + 1) : i < j => c[i] = a[i]
      /\ c[j] = e
      /\ \A i \in 1..(Len(s) + 1) : i > j => c[i] = b[i - j]
  BY <1>1, <1>4, <1>5
<1>8. ASSUME NEW i \in 1..(Len(s) + 1) PROVE c[i] = IF i < j THEN s[i] ELSE IF i = j THEN e ELSE s[i - 1]
  <2>1. CASE i < j
    <3>1. i \in 1..(j - 1)
      BY <1>5, <2>1
    <3> QED BY <1>2, <1>7, <2>1, <3>1
  <2>2. CASE i = j
    BY <1>7, <2>2
  <2>3. CASE i > j
    <3>1. PICK x : x = i - j
      OBVIOUS
    <3>2. x \in 1..(Len(s) - j + 1) /\ j + x - 1 = i - 1
      BY <1>5, <2>3, <3>1
    <3>3. b[x] = s[i - 1] /\ c[i] = b[x]
      BY <1>2, <1>7, <2>3, <3>1, <3>2
    <3> QED BY <1>5, <2>3, <3>3
  <2> QED BY <1>5, <2>1, <2>2, <2>3
<1> QED BY <1>3, <1>4, <1>6, <1>8

\* A sorted list gets its new element at some place.
LEMMA InsertPlace ==
  ASSUME NEW I, NEW s \in Seq(I), NEW indices, NEW e \in indices, NEW before
  PROVE  \E j \in 1..(Len(s) + 1) : Insert(s, e, indices, before) = InsertAt(s, j, e)
<1> DEFINE ahead == {k \in DOMAIN s : <<s[k], e>> \in before}
<1>1. Len(s) \in Nat /\ DOMAIN s = 1..Len(s)
  OBVIOUS
<1>2. IsFiniteSet(1..Len(s)) /\ Cardinality(1..Len(s)) = Len(s)
  BY <1>1, FS_Interval
<1>3. ahead \subseteq 1..Len(s)
  BY <1>1
<1>4. IsFiniteSet(ahead) /\ Cardinality(ahead) <= Len(s)
  <2> HIDE DEF ahead
  <2> QED BY <1>2, <1>3, FS_Subset
<1>5. Cardinality(ahead) \in Nat
  BY <1>4, FS_CardinalityType
<1>6. Cardinality(ahead) + 1 \in 1..(Len(s) + 1)
  BY <1>1, <1>4, <1>5
<1> QED BY <1>6 DEF Insert

\* The list r has each element of S once.
IsListOf(r, S) ==
  /\ r \in Seq(S)
  /\ \A x \in S : \E k \in 1..Len(r) : r[k] = x
  /\ \A i, j \in 1..Len(r) : r[i] = r[j] => i = j

\* It is as long as S is large.
LEMMA ListLength ==
  ASSUME NEW S, NEW r, IsListOf(r, S)
  PROVE  IsFiniteSet(S) /\ Len(r) = Cardinality(S) /\ Len(r) \in Nat /\ IsSeq(r) /\ \A k \in 1..Len(r) : r[k] \in S
<1>1. Len(r) \in Nat /\ IsSeq(r) /\ \A k \in 1..Len(r) : r[k] \in S
  BY DEF IsListOf, IsSeq
<1>2. IsFiniteSet(1..Len(r)) /\ Cardinality(1..Len(r)) = Len(r)
  BY <1>1, FS_Interval
<1>3. r \in [1..Len(r) -> S]
  BY DEF IsListOf
<1>4. r \in Injection(1..Len(r), S)
  BY <1>3 DEF IsListOf, Injection, IsInjective
<1>5. r \in Surjection(1..Len(r), S)
  BY <1>3 DEF IsListOf, Surjection
<1>6. r \in Bijection(1..Len(r), S)
  BY <1>4, <1>5 DEF Bijection
<1>7. IsFiniteSet(S) /\ Cardinality(S) = Len(r)
  <2>1. ExistsBijection(1..Len(r), S)
    BY <1>6 DEF ExistsBijection
  <2> QED BY ONLY <1>2, <2>1, FS_Bijection
<1> QED BY <1>1, <1>7

\* SortedBy lists the indices of the set.
LEMMA SortedIsList ==
  ASSUME NEW n, n \in Nat, NEW indices, indices \subseteq 1..n, NEW before
  PROVE  IsListOf(SortedBy(indices, n, before), indices)
<1> DEFINE Upto(k) == {x \in indices : x <= k}
<1>0. \A x \in indices : x \in Int /\ 1 <= x /\ x <= n
  OBVIOUS
<1>1. ASSUME NEW k \in 1..n, NEW t \in Seq(1..n)
      PROVE  Insert(t, k, indices, before) \in Seq(1..n)
  <2>1. CASE k \notin indices
    BY <2>1 DEF Insert
  <2>2. CASE k \in indices
    <3>1. PICK j \in 1..(Len(t) + 1) : Insert(t, k, indices, before) = InsertAt(t, j, k)
      BY <2>2, InsertPlace
    <3> QED BY <3>1, Inserted
  <2> QED BY <2>1, <2>2
<1>2. PICK g : /\ g \in [0..n -> Seq(1..n)] /\ g[0] = <<>> /\ SortedBy(indices, n, before) = g[n]
               /\ \A k \in 1..n : g[k] = Insert(g[k - 1], k, indices, before)
  <2>1. PICK T : T = Seq(1..n)
    OBVIOUS
  <2>2. \A k \in 1..n, t \in T : Insert(t, k, indices, before) \in T
    BY <1>1, <2>1
  <2>4. <<>> \in T
    BY <2>1
  <2>5. PICK r : r = SortedBy(indices, n, before)
    OBVIOUS
  <2>3. \E g : /\ g \in [0..n -> T] /\ g[0] = <<>> /\ SortedBy(indices, n, before) = g[n]
               /\ \A k \in 1..n : g[k] = Insert(g[k - 1], k, indices, before)
    BY ONLY <2>2, <2>4, <2>5, n \in Nat, SortSteps
  <2> QED BY <2>1, <2>3
<1> DEFINE P == {k \in 0..n : IsListOf(g[k], Upto(k))}
<1>3. 0 \in P
  <2>1. Upto(0) = {}
    <3>1. \A x \in Upto(0) : x \in Int /\ 1 <= x /\ x <= 0
      BY <1>0
    <3> HIDE DEF Upto
    <3> QED BY <3>1
  <2>2. IsListOf(<<>>, {})
    BY DEF IsListOf
  <2>3. 0 \in 0..n
    OBVIOUS
  <2> HIDE DEF Upto
  <2> QED BY <1>2, <2>1, <2>2, <2>3
<1>4. ASSUME NEW k \in 1..n, k - 1 \in P PROVE k \in P
  <2>1. k \in 0..n /\ k - 1 \in 0..n /\ IsListOf(g[k - 1], Upto(k - 1))
    BY <1>4
  <2>2. g[k] = Insert(g[k - 1], k, indices, before)
    BY <1>2
  <2>3. CASE k \notin indices
    <3>1. Upto(k) = Upto(k - 1)
      <4>1. \A x \in indices : x <= k <=> x <= k - 1
        BY <1>0, <2>3
      <4> QED BY <4>1
    <3>2. g[k] = g[k - 1]
      BY <2>2, <2>3 DEF Insert
    <3> HIDE DEF Upto
    <3> QED BY <2>1, <3>1, <3>2
  <2>4. CASE k \in indices
    <3>1. PICK s : s = g[k - 1]
      OBVIOUS
    <3> DEFINE S == Upto(k - 1)
               new == Upto(k)
    <3>2. S \subseteq new /\ new = S \cup {k} /\ k \notin S /\ k \in new
      <4>1. \A x \in indices : x <= k <=> x <= k - 1 \/ x = k
        BY <1>0
      <4>2. k <= k /\ ~(k <= k - 1)
        OBVIOUS
      <4> QED BY <2>4, <4>1, <4>2
    <3> HIDE DEF S, new
    <3>3. /\ s \in Seq(S) /\ (\A x \in S : \E i \in 1..Len(s) : s[i] = x)
          /\ \A i, j \in 1..Len(s) : s[i] = s[j] => i = j
      BY <2>1, <3>1 DEF IsListOf, S
    <3>4. s \in Seq(new) /\ Len(s) \in Nat /\ \A i \in 1..Len(s) : s[i] \in S
      BY <3>2, <3>3
    <3>5. PICK j \in 1..(Len(s) + 1) : Insert(s, k, indices, before) = InsertAt(s, j, k)
      BY <2>4, <3>4, InsertPlace
    <3>6. PICK r : r = InsertAt(s, j, k)
      OBVIOUS
    <3>7. /\ r \in Seq(new) /\ Len(r) = Len(s) + 1
          /\ \A i \in 1..(Len(s) + 1) : r[i] = IF i < j THEN s[i] ELSE IF i = j THEN k ELSE s[i - 1]
      BY <3>2, <3>4, <3>6, Inserted
    <3>8. ASSUME NEW x \in new PROVE \E i \in 1..Len(r) : r[i] = x
      <4>1. CASE x = k
        BY <3>4, <3>7, <4>1
      <4>2. CASE x \in S
        <5>1. PICK i \in 1..Len(s) : s[i] = x
          BY <3>3, <4>2
        <5>2. CASE i < j
          <6>1. i \in 1..(Len(s) + 1)
            BY <3>4
          <6> QED BY <3>7, <5>1, <5>2, <6>1
        <5>3. CASE i >= j
          <6>1. i + 1 \in 1..(Len(s) + 1) /\ ~(i + 1 < j) /\ i + 1 # j /\ (i + 1) - 1 = i
            BY <3>4, <5>3
          <6> QED BY <3>7, <5>1, <6>1
        <5> QED BY <3>4, <5>2, <5>3
      <4> QED BY <3>2, <4>1, <4>2
    <3>9. ASSUME NEW a \in 1..Len(r), NEW b \in 1..Len(r), r[a] = r[b] PROVE a = b
      <4>1. ASSUME NEW c \in 1..Len(r)
            PROVE  (c = j /\ r[c] = k) \/ \E d \in 1..Len(s) : r[c] = s[d] /\ c = IF d < j THEN d ELSE d + 1
        <5>1. c \in 1..(Len(s) + 1) /\ r[c] = IF c < j THEN s[c] ELSE IF c = j THEN k ELSE s[c - 1]
          BY <3>7
        <5>2. CASE c < j
          <6>1. c \in 1..Len(s) /\ r[c] = s[c]
            BY <3>4, <5>1, <5>2
          <6> QED BY <5>2, <6>1
        <5>3. CASE c = j
          BY <5>1, <5>3
        <5>4. CASE c > j
          <6>1. c - 1 \in 1..Len(s) /\ r[c] = s[c - 1] /\ ~(c - 1 < j) /\ c = (c - 1) + 1
            BY <3>4, <5>1, <5>4
          <6> QED BY <6>1
        <5> QED BY <3>4, <5>1, <5>2, <5>3, <5>4
      <4>2. \A i \in 1..Len(s) : s[i] # k
        BY <3>2, <3>4
      <4>3. CASE r[a] = k
        BY <3>9, <4>1, <4>2, <4>3
      <4>4. CASE r[a] # k
        <5>1. PICK d \in 1..Len(s) : r[a] = s[d] /\ a = IF d < j THEN d ELSE d + 1
          BY <4>1, <4>4
        <5>2. PICK e \in 1..Len(s) : r[b] = s[e] /\ b = IF e < j THEN e ELSE e + 1
          BY <3>9, <4>1, <4>4
        <5>3. d = e
          BY <3>3, <3>9, <5>1, <5>2
        <5> QED BY <5>1, <5>2, <5>3
      <4> QED BY <4>3, <4>4
    <3>10. IsListOf(r, new)
      BY <3>7, <3>8, <3>9 DEF IsListOf
    <3> QED BY <2>1, <2>2, <2>4, <3>1, <3>5, <3>6, <3>10 DEF new
  <2> QED BY <2>3, <2>4
<1> HIDE DEF P
<1>5. \A k \in 0..n : k \in P
  BY <1>3, <1>4, StepByStep
<1>6. Upto(n) = indices
  BY <1>0
<1>7. n \in 0..n
  OBVIOUS
<1> QED BY <1>2, <1>5, <1>6, <1>7 DEF P

\* So do Ascending and Descending.
LEMMA SortedLengths ==
  ASSUME NEW n, n \in Nat, NEW lengths, IsSeq(lengths), Len(lengths) = n, NEW indices, indices \subseteq 1..n
  PROVE  IsListOf(Ascending(indices, lengths), indices) /\ IsListOf(Descending(indices, lengths), indices)
BY SortedIsList DEF Ascending, Descending

-----------------------------------------------------------------------------
(* The concatenative and the first-fit packers. *)

-----------------------------------------------------------------------------
(* The packers. *)

\* A bin more or a bin longer: there is one sequence more in the bins.
LEMMA PlaceOne ==
  ASSUME NEW I, NEW bins \in Seq(Seq(I)), NEW k \in 0..Len(bins), NEW i \in I
  PROVE  Place(bins, k, i) \in Seq(Seq(I)) /\ Content(Place(bins, k, i)) = Content(bins) + 1
<1>1. <<i>> \in Seq(I) /\ Len(<<i>>) = 1 /\ Len(bins) \in Nat
  OBVIOUS
<1>2. CASE k = 0
  <2>1. PICK bin : bin = <<i>>
    OBVIOUS
  <2>2. Append(bins, bin) \in Seq(Seq(I)) /\ Content(Append(bins, bin)) = Content(bins) + Len(bin)
    BY <1>1, <2>1, ContentAppend
  <2> QED BY <1>1, <1>2, <2>1, <2>2 DEF Place
<1>3. CASE k # 0
  <2>1. k \in 1..Len(bins) /\ bins[k] \in Seq(I)
    BY <1>1, <1>3
  <2>2. PICK bin : bin = Append(bins[k], i)
    OBVIOUS
  <2>3. bin \in Seq(I) /\ Len(bin) = Len(bins[k]) + 1 /\ Len(bins[k]) \in Nat
    BY <2>1, <2>2
  <2>4. /\ [bins EXCEPT ![k] = bin] \in Seq(Seq(I))
        /\ Content([bins EXCEPT ![k] = bin]) = Content(bins) + Len(bin) - Len(bins[k])
    BY <2>1, <2>3, ContentExcept
  <2>5. Place(bins, k, i) = [bins EXCEPT ![k] = bin]
    BY <1>3, <2>2 DEF Place
  <2>6. Content(bins) \in Nat
    BY ContentNat
  <2> QED BY <2>3, <2>4, <2>5, <2>6
<1> QED BY <1>2, <1>3

\* The smallest of a set of numbers.
LEMMA SmallestIn ==
  ASSUME NEW n \in Nat, NEW R, R \subseteq 1..n, R # {}
  PROVE  Min(R) \in R /\ \A x \in R : Min(R) <= x
<1>1. R \subseteq Nat
  OBVIOUS
<1>2. \E x \in R : \A y \in R : x <= y
  BY ONLY <1>1, R # {}, Least
<1> QED BY <1>2 DEF Min

\* The places that the packers choose.
LEMMA PlacesExist ==
  ASSUME NEW I, NEW bins \in Seq(Seq(I)), NEW i, NEW lengths, NEW capacity
  PROVE  /\ LastWithRoom(bins, i, lengths, capacity) \in 0..Len(bins)
         /\ FirstWithRoom(bins, i, lengths, capacity) \in 0..Len(bins)
<1>1. Len(bins) \in Nat /\ DOMAIN bins = 1..Len(bins)
  OBVIOUS
<1>2. LastWithRoom(bins, i, lengths, capacity) \in 0..Len(bins)
  BY <1>1 DEF LastWithRoom
<1> DEFINE R == {k \in 1..Len(bins) : Weight(bins[k], lengths) + lengths[i] <= capacity}
<1>3. FirstWithRoom(bins, i, lengths, capacity) = IF R # {} THEN Min(R) ELSE 0
  BY Zenon DEF FirstWithRoom, SelectInSeq
<1>4. R \subseteq 1..Len(bins)
  BY <1>1
<1> HIDE DEF R
<1>5. R # {} => Min(R) \in R
  BY <1>1, <1>4, SmallestIn
<1>6. FirstWithRoom(bins, i, lengths, capacity) \in 0..Len(bins)
  <2>1. CASE R = {}
    BY ONLY <1>1, <1>3, <2>1
  <2>2. CASE R # {}
    <3>1. Min(R) \in 1..Len(bins)
      BY ONLY <1>4, <1>5, <2>2
    <3> QED BY ONLY <1>1, <1>3, <2>2, <3>1
  <2> QED BY ONLY <2>1, <2>2
<1> QED BY <1>2, <1>6

\* The steps of the packers.
LEMMA PackingSteps ==
  ASSUME NEW I, NEW bins \in Seq(Seq(I)), NEW i \in I, NEW lengths, NEW capacity
  PROVE  /\ IntoLast(bins, i, lengths, capacity) \in Seq(Seq(I))
         /\ Content(IntoLast(bins, i, lengths, capacity)) = Content(bins) + 1
         /\ IntoFirst(bins, i, lengths, capacity) \in Seq(Seq(I))
         /\ Content(IntoFirst(bins, i, lengths, capacity)) = Content(bins) + 1
<1>1. /\ LastWithRoom(bins, i, lengths, capacity) \in 0..Len(bins)
      /\ FirstWithRoom(bins, i, lengths, capacity) \in 0..Len(bins)
  BY ONLY bins \in Seq(Seq(I)), PlacesExist
<1>2. \A k \in 0..Len(bins) : Place(bins, k, i) \in Seq(Seq(I)) /\ Content(Place(bins, k, i)) = Content(bins) + 1
  BY PlaceOne
<1> QED BY <1>1, <1>2 DEF IntoLast, IntoFirst

\* StepByStep that each add one sequence have added as many as there are.
LEMMA StepsCount ==
  ASSUME NEW n, n \in Nat, NEW g, g[0] = <<>>, \A k \in 1..n : Content(g[k]) = Content(g[k - 1]) + 1
  PROVE  Content(g[n]) = n
<1> DEFINE P == {k \in 0..n : Content(g[k]) = k}
<1>1. 0 \in P
  BY ContentNone
<1>2. ASSUME NEW k \in 1..n, k - 1 \in P PROVE k \in P
  BY <1>2
<1> HIDE DEF P
<1>3. \A k \in 0..n : k \in P
  BY <1>1, <1>2, StepByStep
<1>4. n \in 0..n
  OBVIOUS
<1> QED BY <1>3, <1>4 DEF P

\* Concatenative places each sequence once.
LEMMA ConcatenativePacks ==
  ASSUME NEW n, n \in Nat, NEW lengths, IsSeq(lengths), Len(lengths) = n, NEW capacity
  PROVE  Concatenative(lengths, capacity) \in Seq(Seq(1..n)) /\ Content(Concatenative(lengths, capacity)) = n
<1>1. PICK T, r : T = Seq(Seq(1..n)) /\ r = Concatenative(lengths, capacity)
  OBVIOUS
<1>2. ASSUME NEW k \in 1..n, NEW t \in Seq(Seq(1..n))
      PROVE  /\ IntoLast(t, k, lengths, capacity) \in Seq(Seq(1..n))
             /\ Content(IntoLast(t, k, lengths, capacity)) = Content(t) + 1
  <2>1. PICK I : I = 1..n
    OBVIOUS
  <2>2. k \in I /\ t \in Seq(Seq(I))
    BY <2>1
  <2>3. /\ IntoLast(t, k, lengths, capacity) \in Seq(Seq(I))
        /\ Content(IntoLast(t, k, lengths, capacity)) = Content(t) + 1
    BY ONLY <2>2, PackingSteps
  <2> QED BY <2>1, <2>3
<1>3. <<>> \in T
  BY <1>1
<1>4. \A k \in 1..n, t \in T : IntoLast(t, k, lengths, capacity) \in T
  BY <1>1, <1>2
<1>a. r = Concatenative(lengths, capacity)
  BY <1>1
<1>5. \E g : /\ g \in [0..n -> T] /\ g[0] = <<>> /\ Concatenative(lengths, capacity) = g[n]
             /\ \A k \in 1..n : g[k] = IntoLast(g[k - 1], k, lengths, capacity)
  <2>1. \A k \in 1..Len(lengths), t \in T : IntoLast(t, k, lengths, capacity) \in T
    BY <1>4
  <2>2. \E g : /\ g \in [0..Len(lengths) -> T] /\ g[0] = <<>> /\ Concatenative(lengths, capacity) = g[Len(lengths)]
               /\ \A k \in 1..Len(lengths) : g[k] = IntoLast(g[k - 1], k, lengths, capacity)
    BY ONLY <1>a, <1>3, <2>1, IsSeq(lengths), ConcatenativeSteps
  <2> QED BY <2>2
<1>6. PICK g : /\ g \in [0..n -> T] /\ g[0] = <<>> /\ Concatenative(lengths, capacity) = g[n]
               /\ \A k \in 1..n : g[k] = IntoLast(g[k - 1], k, lengths, capacity)
  BY <1>5
<1>7. \A k \in 1..n : g[k - 1] \in T
  BY <1>6
<1>8. \A k \in 1..n : Content(g[k]) = Content(g[k - 1]) + 1
  BY <1>1, <1>2, <1>6, <1>7
<1>9. Content(g[n]) = n
  BY ONLY <1>6, <1>8, n \in Nat, StepsCount
<1> QED BY <1>1, <1>6, <1>9

\* First-fit places each sequence of its list once.
LEMMA FirstFitPacks ==
  ASSUME NEW n, n \in Nat, NEW lengths, NEW capacity, NEW order, IsListOf(order, 1..n)
  PROVE  /\ FirstFit(order, lengths, capacity) \in Seq(Seq(1..n))
         /\ Content(FirstFit(order, lengths, capacity)) = n
<1>1. PICK T, r : T = Seq(Seq(1..n)) /\ r = FirstFit(order, lengths, capacity)
  OBVIOUS
<1>2. IsSeq(order) /\ Len(order) = n /\ \A k \in 1..n : order[k] \in 1..n
  <2>1. IsFiniteSet(1..n) /\ Cardinality(1..n) = n
    BY FS_Interval
  <2> QED BY <2>1, ListLength
<1>3. ASSUME NEW k \in 1..Len(order), NEW t \in Seq(Seq(1..n))
      PROVE  /\ IntoFirst(t, order[k], lengths, capacity) \in Seq(Seq(1..n))
             /\ Content(IntoFirst(t, order[k], lengths, capacity)) = Content(t) + 1
  <2>1. PICK I, i : I = 1..n /\ i = order[k]
    OBVIOUS
  <2>2. i \in I /\ t \in Seq(Seq(I))
    BY <1>2, <2>1
  <2>3. /\ IntoFirst(t, i, lengths, capacity) \in Seq(Seq(I))
        /\ Content(IntoFirst(t, i, lengths, capacity)) = Content(t) + 1
    BY ONLY <2>2, PackingSteps
  <2> QED BY <2>1, <2>3
<1>4. <<>> \in T
  BY <1>1
<1>5. \A k \in 1..Len(order), t \in T : IntoFirst(t, order[k], lengths, capacity) \in T
  BY <1>1, <1>3
<1>a. r = FirstFit(order, lengths, capacity)
  BY <1>1
<1>b. IsSeq(order)
  BY <1>2
<1>6. \E g : /\ g \in [0..Len(order) -> T] /\ g[0] = <<>> /\ FirstFit(order, lengths, capacity) = g[Len(order)]
             /\ \A k \in 1..Len(order) : g[k] = IntoFirst(g[k - 1], order[k], lengths, capacity)
  BY ONLY <1>a, <1>b, <1>4, <1>5, FirstFitSteps
<1>7. PICK g : /\ g \in [0..Len(order) -> T] /\ g[0] = <<>> /\ FirstFit(order, lengths, capacity) = g[Len(order)]
               /\ \A k \in 1..Len(order) : g[k] = IntoFirst(g[k - 1], order[k], lengths, capacity)
  BY <1>6
<1>8. \A k \in 1..Len(order) : g[k - 1] \in T
  BY <1>2, <1>7
<1>9. \A k \in 1..n : Content(g[k]) = Content(g[k - 1]) + 1
  BY <1>1, <1>2, <1>3, <1>7, <1>8
<1>10. Content(g[n]) = n
  BY ONLY <1>7, <1>9, n \in Nat, StepsCount
<1> QED BY <1>1, <1>2, <1>7, <1>10

-----------------------------------------------------------------------------
(* The modified first-fit packer: what its steps keep. *)

-----------------------------------------------------------------------------
(* The first-fit of four sizes. *)

Packed(n) == [bins : Seq(Seq(1..n)), left : SUBSET (1..n)]

\* Each of n sequences is in one bin or left.
PackedWell(p, n) ==
  /\ p \in Packed(n)
  /\ \A b \in 1..Len(p.bins) : \A k \in 1..Len(p.bins[b]) : p.bins[b][k] \notin p.left
  /\ Content(p.bins) + Cardinality(p.left) = n

\* How many sequences are left.
LEMMA Removed ==
  ASSUME NEW n, n \in Nat, NEW left, left \subseteq 1..n, NEW X, X \subseteq left
  PROVE  /\ IsFiniteSet(X) /\ Cardinality(X) \in Nat /\ Cardinality(left) \in Nat
         /\ Cardinality(left \ X) = Cardinality(left) - Cardinality(X)
<1>1. IsFiniteSet(1..n)
  BY FS_Interval
<1>2. IsFiniteSet(left)
  BY <1>1, FS_Subset
<1>3. IsFiniteSet(X)
  BY <1>2, FS_Subset
<1>4. Cardinality(left \ X) = Cardinality(left) - Cardinality(left \cap X)
  BY <1>2, FS_Difference
<1>5. left \cap X = X
  OBVIOUS
<1> QED BY <1>2, <1>3, <1>4, <1>5, FS_CardinalityType

\* Two are two.
LEMMA PairSize ==
  ASSUME NEW x, NEW y, x # y
  PROVE  IsFiniteSet({x, y}) /\ Cardinality({x, y}) = 2
<1>1. IsFiniteSet({x}) /\ Cardinality({x}) = 1
  BY FS_Singleton
<1>2. IsFiniteSet({x} \cup {y}) /\ Cardinality({x} \cup {y}) = 2
  BY <1>1, FS_AddElement
<1>3. {x, y} = {x} \cup {y}
  OBVIOUS
<1> QED BY <1>2, <1>3

\* Bin b becomes bin, and X is no longer left.
Refilled(p, b, bin, X) == [bins |-> [p.bins EXCEPT ![b] = bin], left |-> p.left \ X]

\* bin holds what bin b did, and X, of what was left.
Fills(p, b, bin, X) ==
  /\ X \subseteq p.left /\ Len(bin) = Len(p.bins[b]) + Cardinality(X)
  /\ \A k \in 1..Len(bin) : bin[k] \in X \/ \E j \in 1..Len(p.bins[b]) : bin[k] = p.bins[b][j]

\* A bin gets sequences that were left.
LEMMA FilledBin ==
  ASSUME NEW n, n \in Nat, NEW p, PackedWell(p, n), NEW b \in 1..Len(p.bins), NEW bin \in Seq(1..n),
         NEW X, Fills(p, b, bin, X)
  PROVE  PackedWell(Refilled(p, b, bin, X), n) /\ Len(Refilled(p, b, bin, X).bins) = Len(p.bins)
<1> USE DEF Fills
<1> DEFINE bins == [p.bins EXCEPT ![b] = bin]
           q == [bins |-> bins, left |-> p.left \ X]
<1>1. p.bins \in Seq(Seq(1..n)) /\ p.left \subseteq 1..n /\ Content(p.bins) + Cardinality(p.left) = n
  BY DEF PackedWell, Packed
<1>2. /\ bins \in Seq(Seq(1..n)) /\ Len(bins) = Len(p.bins)
      /\ Content(bins) = Content(p.bins) + Len(bin) - Len(p.bins[b])
  <2>1. PICK I, old : I = 1..n /\ old = p.bins
    OBVIOUS
  <2>2. old \in Seq(Seq(I)) /\ b \in 1..Len(old) /\ bin \in Seq(I)
    BY <1>1, <2>1
  <2>3. /\ [old EXCEPT ![b] = bin] \in Seq(Seq(I)) /\ Len([old EXCEPT ![b] = bin]) = Len(old)
        /\ Content([old EXCEPT ![b] = bin]) = Content(old) + Len(bin) - Len(old[b])
    BY ONLY <2>2, ContentExcept
  <2> QED BY <2>1, <2>3
<1>3. /\ Cardinality(X) \in Nat /\ Cardinality(p.left) \in Nat
      /\ Cardinality(p.left \ X) = Cardinality(p.left) - Cardinality(X)
  <2>1. X \subseteq p.left
    OBVIOUS
  <2> QED BY ONLY <1>1, <2>1, n \in Nat, Removed
<1>4. Content(p.bins) \in Nat /\ Len(p.bins[b]) \in Nat
  BY ONLY <1>1, b \in 1..Len(p.bins), ContentNat
<1>5. Content(bins) + Cardinality(p.left \ X) = n
  <2>1. Len(bin) = Len(p.bins[b]) + Cardinality(X)
    OBVIOUS
  <2> QED BY ONLY <1>1, <1>2, <1>3, <1>4, <2>1
<1>6. ASSUME NEW c \in 1..Len(p.bins), NEW k \in 1..Len(bins[c]) PROVE bins[c][k] \notin p.left \ X
  <2>1. CASE c # b
    <3>1. bins[c] = p.bins[c]
      BY <1>1, <2>1
    <3> QED BY <1>6, <3>1 DEF PackedWell
  <2>2. CASE c = b
    <3>1. bins[c] = bin
      BY <1>1, <2>2
    <3>2. \A j \in 1..Len(p.bins[b]) : p.bins[b][j] \notin p.left
      BY DEF PackedWell
    <3> QED BY <1>6, <3>1, <3>2
  <2> QED BY <2>1, <2>2
<1>7. q.bins = bins /\ q.left = p.left \ X /\ q \in Packed(n)
  BY <1>1, <1>2 DEF Packed
<1> HIDE DEF bins, q
<1>8. PackedWell(q, n)
  BY <1>2, <1>5, <1>6, <1>7 DEF PackedWell
<1>9. Refilled(p, b, bin, X) = q
  BY DEF q, bins, Refilled
<1> QED BY <1>2, <1>7, <1>8, <1>9

\* A new bin gets sequences that were left.
LEMMA NewBin ==
  ASSUME NEW n, n \in Nat, NEW p, PackedWell(p, n), NEW bin \in Seq(1..n),
         NEW X, X \subseteq p.left, Len(bin) = Cardinality(X), \A k \in 1..Len(bin) : bin[k] \in X
  PROVE  PackedWell([bins |-> Append(p.bins, bin), left |-> p.left \ X], n)
<1> DEFINE bins == Append(p.bins, bin)
           q == [bins |-> bins, left |-> p.left \ X]
<1>1. p.bins \in Seq(Seq(1..n)) /\ p.left \subseteq 1..n /\ Content(p.bins) + Cardinality(p.left) = n
  BY DEF PackedWell, Packed
<1>2. bins \in Seq(Seq(1..n)) /\ Content(bins) = Content(p.bins) + Len(bin)
  BY ONLY <1>1, bin \in Seq(1..n), ContentAppend
<1>3. /\ Cardinality(X) \in Nat /\ Cardinality(p.left) \in Nat
      /\ Cardinality(p.left \ X) = Cardinality(p.left) - Cardinality(X)
  BY ONLY <1>1, n \in Nat, X \subseteq p.left, Removed
<1>4. Content(p.bins) \in Nat
  BY ONLY <1>1, ContentNat
<1>5. Content(bins) + Cardinality(p.left \ X) = n
  BY ONLY <1>1, <1>2, <1>3, <1>4, Len(bin) = Cardinality(X)
<1>6. ASSUME NEW c \in 1..Len(bins), NEW k \in 1..Len(bins[c]) PROVE bins[c][k] \notin p.left \ X
  <2>1. Len(bins) = Len(p.bins) + 1 /\ Len(p.bins) \in Nat
    BY <1>1
  <2>2. CASE c <= Len(p.bins)
    <3>1. bins[c] = p.bins[c] /\ c \in 1..Len(p.bins)
      BY <1>1, <2>2
    <3> QED BY <1>6, <3>1 DEF PackedWell
  <2>3. CASE c > Len(p.bins)
    <3>1. c = Len(p.bins) + 1
      BY ONLY <2>1, <2>3, c \in 1..Len(bins)
    <3>2. bins[c] = bin
      BY ONLY <1>1, <3>1, bin \in Seq(1..n)
    <3> QED BY <1>6, <3>2
  <2> QED BY <2>1, <2>2, <2>3
<1>7. q.bins = bins /\ q.left = p.left \ X /\ q \in Packed(n)
  BY <1>1, <1>2 DEF Packed
<1> HIDE DEF bins, q
<1>8. PackedWell(q, n)
  BY <1>2, <1>5, <1>6, <1>7 DEF PackedWell
<1> QED BY <1>8 DEF q, bins

\* The bin that phase 1 or 2 starts.
LEMMA StartBinIs ==
  ASSUME NEW n, n \in Nat, NEW lengths, IsSeq(lengths), Len(lengths) = n, NEW capacity,
         NEW p \in Packed(n), NEW i \in 1..n
  PROVE  \E bin \in Seq(1..n) :
            /\ StartBin(p, i, lengths, capacity) = [bins |-> Append(p.bins, bin), left |-> p.left \ Range(bin)]
            /\ bin = <<i>> \/ \E m \in p.left \cap Medium(lengths, capacity) : bin = <<i, m>>
<1> DEFINE chosen == p.left \cap Medium(lengths, capacity)
           medium == Descending(chosen, lengths)
           R == {k \in 1..Len(medium) : lengths[i] + lengths[medium[k]] <= capacity}
           k == SelectInSeq(medium, LAMBDA j : lengths[i] + lengths[j] <= capacity)
           bin == IF k = 0 THEN <<i>> ELSE <<i, medium[k]>>
<1>1. p.left \subseteq 1..n /\ chosen \subseteq 1..n
  BY DEF Packed
<1>2. IsListOf(medium, chosen)
  BY <1>1, SortedLengths
<1>3. Len(medium) \in Nat /\ \A j \in 1..Len(medium) : medium[j] \in chosen
  BY ONLY <1>2, ListLength
<1>4. k = IF R # {} THEN Min(R) ELSE 0
  BY Zenon DEF SelectInSeq
<1>5. R # {} => Min(R) \in R
  <2>1. R \subseteq 1..Len(medium)
    OBVIOUS
  <2> HIDE DEF R
  <2> QED BY ONLY <1>3, <2>1, SmallestIn
<1>6. k = 0 \/ k \in 1..Len(medium)
  BY <1>4, <1>5
<1>7. StartBin(p, i, lengths, capacity) = [bins |-> Append(p.bins, bin), left |-> p.left \ Range(bin)]
  BY DEF StartBin
<1> HIDE DEF k, medium, chosen
<1>8. bin \in Seq(1..n) /\ (bin = <<i>> \/ \E m \in chosen : bin = <<i, m>>)
  <2>1. CASE k = 0
    BY ONLY <2>1, i \in 1..n
  <2>2. CASE k # 0
    <3>1. PICK m \in chosen : m = medium[k]
      BY <1>3, <1>6, <2>2
    <3>2. bin = <<i, m>> /\ m \in 1..n
      BY <1>1, <2>2, <3>1
    <3>3. <<i, m>> \in Seq(1..n)
      BY ONLY <3>2, i \in 1..n
    <3> HIDE DEF bin
    <3> QED BY ONLY <3>2, <3>3, m \in chosen
  <2> QED BY <2>1, <2>2
<1> QED BY <1>7, <1>8 DEF chosen

\* A large sequence that was left gets a bin; the other large ones stay.
LEMMA StartBinWell ==
  ASSUME NEW n, n \in Nat, NEW lengths, IsSeq(lengths), Len(lengths) = n, NEW capacity,
         NEW p, PackedWell(p, n), NEW i \in p.left, i \in Large(lengths, capacity)
  PROVE  /\ PackedWell(StartBin(p, i, lengths, capacity), n)
         /\ \A x \in p.left \cap Large(lengths, capacity) : x # i => x \in StartBin(p, i, lengths, capacity).left
<1>1. p \in Packed(n) /\ i \in 1..n
  BY DEF PackedWell, Packed
<1>2. PICK bin \in Seq(1..n) :
            /\ StartBin(p, i, lengths, capacity) = [bins |-> Append(p.bins, bin), left |-> p.left \ Range(bin)]
            /\ bin = <<i>> \/ \E m \in p.left \cap Medium(lengths, capacity) : bin = <<i, m>>
  BY ONLY <1>1, n \in Nat, IsSeq(lengths), Len(lengths) = n, StartBinIs
<1>3. /\ Range(bin) \subseteq p.left /\ Len(bin) = Cardinality(Range(bin)) /\ \A k \in 1..Len(bin) : bin[k] \in Range(bin)
      /\ \A x \in Large(lengths, capacity) : x # i => x \notin Range(bin)
  <2>1. CASE bin = <<i>>
    <3>1. Range(bin) = {i} /\ Len(bin) = 1 /\ bin[1] = i
      BY <2>1 DEF Range
    <3>2. Cardinality({i}) = 1
      BY FS_Singleton
    <3> QED BY <3>1, <3>2
  <2>2. ASSUME NEW m \in p.left \cap Medium(lengths, capacity), bin = <<i, m>>
        PROVE  <1>3!1 /\ <1>3!2
    <3>1. Range(bin) = {i, m} /\ Len(bin) = 2 /\ bin[1] = i /\ bin[2] = m
      BY <2>2 DEF Range
    <3>2. m # i /\ m \notin Large(lengths, capacity)
      BY DEF Medium
    <3>3. Cardinality({i, m}) = 2
      BY <3>2, PairSize
    <3> QED BY <3>1, <3>2, <3>3
  <2> QED BY <1>2, <2>1, <2>2
<1>4. PackedWell([bins |-> Append(p.bins, bin), left |-> p.left \ Range(bin)], n)
  <2>1. PICK X : X = Range(bin)
    OBVIOUS
  <2>2. X \subseteq p.left /\ Len(bin) = Cardinality(X) /\ \A k \in 1..Len(bin) : bin[k] \in X
    BY <1>3, <2>1
  <2>3. PackedWell([bins |-> Append(p.bins, bin), left |-> p.left \ X], n)
    BY ONLY <2>2, bin \in Seq(1..n), n \in Nat, PackedWell(p, n), NewBin
  <2> QED BY <2>1, <2>3
<1> QED BY <1>2, <1>3, <1>4

-----------------------------------------------------------------------------
(* Its bins for the large sequences, and the pairs of small ones. *)

\* Phases 1 and 2 lose nothing.
LEMMA StartBinsWell ==
  ASSUME NEW n, n \in Nat, NEW lengths, IsSeq(lengths), Len(lengths) = n, NEW capacity
  PROVE  PackedWell(StartBins(lengths, capacity), n)
<1>1. PICK T, r, large, order, base :
         /\ T = Packed(n) /\ r = StartBins(lengths, capacity) /\ large = Large(lengths, capacity)
         /\ order = Descending(Large(lengths, capacity), lengths) /\ base = NonePacked(lengths)
  OBVIOUS
<1>2. DOMAIN lengths = 1..n /\ large \subseteq 1..n
  BY <1>1 DEF Large, IsSeq
<1>3. IsListOf(order, large)
  <2>1. IsListOf(Descending(large, lengths), large)
    BY ONLY <1>2, n \in Nat, IsSeq(lengths), Len(lengths) = n, SortedLengths
  <2> QED BY <1>1, <2>1
<1>4. IsSeq(order) /\ Len(order) \in Nat /\ \A k \in 1..Len(order) : order[k] \in large
  BY ONLY <1>3, ListLength
<1>5. base \in T /\ base.bins = <<>> /\ base.left = 1..n
  BY <1>1, <1>2 DEF Packed, NonePacked
<1>6. ASSUME NEW k \in 1..Len(order), NEW t \in T PROVE StartBin(t, order[k], lengths, capacity) \in T
  <2>1. t \in Packed(n) /\ order[k] \in 1..n
    BY <1>1, <1>2, <1>4
  <2>2. PICK i : i = order[k]
    OBVIOUS
  <2>3. i \in 1..n
    BY <2>1, <2>2
  <2>4. PICK bin \in Seq(1..n) :
            /\ StartBin(t, i, lengths, capacity) = [bins |-> Append(t.bins, bin), left |-> t.left \ Range(bin)]
            /\ bin = <<i>> \/ \E m \in t.left \cap Medium(lengths, capacity) : bin = <<i, m>>
    BY ONLY <2>1, <2>3, n \in Nat, IsSeq(lengths), Len(lengths) = n, StartBinIs
  <2> QED BY <1>1, <2>1, <2>2, <2>4 DEF Packed
<1>7. \A k \in 1..Len(order), t \in T : StartBin(t, order[k], lengths, capacity) \in T
  BY <1>6
<1>8. /\ base = NonePacked(lengths) /\ order = Descending(Large(lengths, capacity), lengths)
      /\ r = StartBins(lengths, capacity)
  BY <1>1
<1>9. \E g : /\ g \in [0..Len(order) -> T] /\ g[0] = base /\ StartBins(lengths, capacity) = g[Len(order)]
             /\ \A k \in 1..Len(order) : g[k] = StartBin(g[k - 1], order[k], lengths, capacity)
  BY ONLY <1>4, <1>5, <1>7, <1>8, StartBinsSteps
<1>10. PICK g : /\ g \in [0..Len(order) -> T] /\ g[0] = base /\ StartBins(lengths, capacity) = g[Len(order)]
                /\ \A k \in 1..Len(order) : g[k] = StartBin(g[k - 1], order[k], lengths, capacity)
  BY <1>9
<1> DEFINE P == {k \in 0..Len(order) : /\ PackedWell(g[k], n)
                                       /\ \A j \in 1..Len(order) : j > k => order[j] \in g[k].left}
<1>11. 0 \in P
  <2>1. Content(<<>>) = 0 /\ Cardinality(1..n) = n /\ Len(<<>>) = 0
    BY ContentNone, FS_Interval
  <2>2. PackedWell(base, n)
    BY <1>1, <1>5, <2>1 DEF PackedWell
  <2>3. \A j \in 1..Len(order) : order[j] \in base.left
    BY <1>2, <1>4, <1>5
  <2>4. 0 \in 0..Len(order) /\ g[0] = base
    BY <1>4, <1>10
  <2> QED BY <2>2, <2>3, <2>4
<1>12. ASSUME NEW k \in 1..Len(order), k - 1 \in P PROVE k \in P
  <2>1. PICK p, i : p = g[k - 1] /\ i = order[k]
    OBVIOUS
  <2>2. PackedWell(p, n) /\ i \in p.left /\ i \in large /\ g[k] = StartBin(p, i, lengths, capacity)
    BY <1>4, <1>10, <1>12, <2>1
  <2>3. i \in Large(lengths, capacity)
    BY <1>1, <2>2
  <2>4. /\ PackedWell(StartBin(p, i, lengths, capacity), n)
        /\ \A x \in p.left \cap Large(lengths, capacity) : x # i => x \in StartBin(p, i, lengths, capacity).left
    BY ONLY <2>2, <2>3, n \in Nat, IsSeq(lengths), Len(lengths) = n, StartBinWell
  <2>5. ASSUME NEW j \in 1..Len(order), j > k PROVE order[j] \in g[k].left
    <3>1. order[j] \in p.left /\ order[j] \in Large(lengths, capacity)
      BY <1>1, <1>4, <1>12, <2>1, <2>5
    <3>2. order[j] # i
      BY <1>3, <2>1, <2>5 DEF IsListOf
    <3> QED BY <2>2, <2>4, <3>1, <3>2
  <2> QED BY <2>2, <2>4, <2>5
<1> HIDE DEF P
<1>13. \A k \in 0..Len(order) : k \in P
  BY <1>4, <1>11, <1>12, StepByStep
<1>14. Len(order) \in P
  BY <1>4, <1>13
<1> QED BY <1>10, <1>14 DEF P

\* A bin of phase 3 gets a pair of small sequences that were left, or stays.
LEMMA AddSmallPairWell ==
  ASSUME NEW n, n \in Nat, NEW lengths, IsSeq(lengths), Len(lengths) = n, NEW capacity,
         NEW p, PackedWell(p, n), NEW b \in 1..Len(p.bins)
  PROVE  /\ PackedWell(AddSmallPair(p, b, lengths, capacity), n)
         /\ Len(AddSmallPair(p, b, lengths, capacity).bins) = Len(p.bins)
<1> DEFINE chosen == p.left \cap Small(lengths, capacity)
           small == Ascending(chosen, lengths)
           room == capacity - Weight(p.bins[b], lengths)
           fitting == {k \in 2..Len(small) : lengths[small[1]] + lengths[small[k]] <= room}
           pair == <<small[1], small[Max(fitting)]>>
           q == [bins |-> [p.bins EXCEPT ![b] = @ \o pair], left |-> p.left \ Range(pair)]
<1>1. p.bins \in Seq(Seq(1..n)) /\ p.left \subseteq 1..n /\ chosen \subseteq 1..n /\ chosen \subseteq p.left
  BY DEF PackedWell, Packed
<1>2. AddSmallPair(p, b, lengths, capacity) = p \/ (fitting # {} /\ AddSmallPair(p, b, lengths, capacity) = q)
  BY DEF AddSmallPair
<1>3. IsListOf(small, chosen)
  BY <1>1, SortedLengths
<1>4. Len(small) \in Nat /\ \A j \in 1..Len(small) : small[j] \in chosen
  BY ONLY <1>3, ListLength
<1>5. fitting \subseteq 2..Len(small)
  OBVIOUS
<1> HIDE DEF chosen, small, fitting
<1>6. ASSUME fitting # {} PROVE PackedWell(q, n) /\ Len(q.bins) = Len(p.bins)
  <2>1. Max(fitting) \in fitting
    <3>1. fitting \subseteq 1..Len(small)
      BY <1>5
    <3> QED BY ONLY <1>4, <1>6, <3>1, LargestIn
  <2>2. PICK x, y, m : m = Max(fitting) /\ x = small[1] /\ y = small[m]
    OBVIOUS
  <2>3. m \in 2..Len(small)
    BY <1>5, <2>1, <2>2
  <2>4. 1 \in 1..Len(small) /\ m \in 1..Len(small) /\ m # 1
    BY <1>4, <2>3
  <2>5. x \in p.left /\ y \in p.left /\ x # y /\ x \in 1..n /\ y \in 1..n
    BY <1>1, <1>3, <1>4, <2>2, <2>4 DEF IsListOf
  <2>6. pair = <<x, y>>
    BY <2>2
  <2>7. PICK bin, old : bin = p.bins[b] \o <<x, y>> /\ old = p.bins[b]
    OBVIOUS
  <2>8. p.bins[b] \in Seq(1..n)
    BY <1>1
  <2>9. bin \in Seq(1..n) /\ Len(bin) = Len(p.bins[b]) + 2
    BY ONLY <2>5, <2>7, <2>8
  <2>10. PICK X : X = {x, y}
    OBVIOUS
  <2>11. Cardinality(X) = 2
    BY <2>5, <2>10, PairSize
  <2>12. \A k \in 1..Len(bin) : bin[k] \in X \/ \E j \in 1..Len(p.bins[b]) : bin[k] = p.bins[b][j]
    <3>1. old \in Seq(1..n) /\ bin = old \o <<x, y>> /\ Len(old) \in Nat /\ Len(bin) = Len(old) + 2
      BY <2>7, <2>8, <2>9
    <3>2. bin[Len(old) + 1] = x /\ bin[Len(old) + 2] = y /\ \A k \in 1..Len(old) : bin[k] = old[k]
      BY ONLY <3>1, <2>5
    <3>3. \A k \in 1..Len(bin) : k \in 1..Len(old) \/ k = Len(old) + 1 \/ k = Len(old) + 2
      BY ONLY <3>1
    <3> QED BY <2>7, <2>10, <3>2, <3>3
  <2>13. X \subseteq p.left /\ Len(bin) = Len(p.bins[b]) + Cardinality(X)
    BY <2>5, <2>9, <2>10, <2>11
  <2>14. PackedWell(Refilled(p, b, bin, X), n) /\ Len(Refilled(p, b, bin, X).bins) = Len(p.bins)
    <3>1. Fills(p, b, bin, X)
      BY <2>12, <2>13 DEF Fills
    <3> QED BY ONLY <2>9, <3>1, n \in Nat, PackedWell(p, n), b \in 1..Len(p.bins), FilledBin
  <2>15. Range(<<x, y>>) = X
    BY <2>10 DEF Range
  <2>16. q = Refilled(p, b, bin, X)
    BY ONLY <1>1, <2>6, <2>7, <2>15, q = [bins |-> [p.bins EXCEPT ![b] = @ \o pair], left |-> p.left \ Range(pair)] DEF Refilled
  <2> QED BY <2>14, <2>16
<1> HIDE DEF q
<1> QED BY <1>2, <1>6

\* The numbers of the bins, in either direction.
LEMMA BinNumbers ==
  ASSUME NEW p, NEW I, p.bins \in Seq(I)
  PROVE  /\ IsSeq(FirstToLast(p)) /\ Len(FirstToLast(p)) = Len(p.bins)
         /\ \A k \in 1..Len(p.bins) : FirstToLast(p)[k] \in 1..Len(p.bins)
         /\ IsSeq(LastToFirst(p)) /\ Len(LastToFirst(p)) = Len(p.bins)
         /\ \A k \in 1..Len(p.bins) : LastToFirst(p)[k] \in 1..Len(p.bins)
<1>1. DOMAIN p.bins = 1..Len(p.bins) /\ Len(p.bins) \in Nat
  OBVIOUS
<1>2. PICK m : m = Len(p.bins)
  OBVIOUS
<1>3. PICK s : s = [b \in 1..m |-> b]
  OBVIOUS
<1>4. s \in Seq(1..m) /\ Len(s) = m /\ m \in Nat /\ \A k \in 1..m : s[k] = k
  BY <1>1, <1>2, <1>3
<1>5. PICK r : r = Reverse(s)
  OBVIOUS
<1>6. r = [i \in 1..m |-> s[(m - i) + 1]]
  BY <1>4, <1>5 DEF Reverse
<1>7. \A i \in 1..m : (m - i) + 1 \in 1..m
  BY <1>4
<1>8. r \in Seq(1..m) /\ Len(r) = m /\ \A k \in 1..m : r[k] \in 1..m
  <2>1. \A k \in 1..m : s[(m - k) + 1] \in 1..m
    BY <1>4, <1>7
  <2>2. r \in [1..m -> 1..m]
    BY <1>6, <2>1
  <2> QED BY <1>4, <2>2
<1>9. IsSeq(s) /\ IsSeq(r)
  BY <1>4, <1>8, SeqIsSeq
<1>10. FirstToLast(p) = s
  BY <1>1, <1>2, <1>3 DEF FirstToLast
<1>11. LastToFirst(p) = r
  BY <1>1, <1>2, <1>3, <1>5 DEF LastToFirst
<1> QED BY <1>2, <1>4, <1>8, <1>9, <1>10, <1>11

\* Phase 3 loses nothing.
LEMMA AddSmallPairsWell ==
  ASSUME NEW n, n \in Nat, NEW lengths, IsSeq(lengths), Len(lengths) = n, NEW capacity, NEW p, PackedWell(p, n)
  PROVE  PackedWell(AddSmallPairs(p, lengths, capacity), n)
<1>1. PICK T, r, order : /\ T = {t \in Packed(n) : PackedWell(t, n) /\ Len(t.bins) = Len(p.bins)}
                         /\ r = AddSmallPairs(p, lengths, capacity) /\ order = LastToFirst(p)
  OBVIOUS
<1>2. p.bins \in Seq(Seq(1..n)) /\ Len(p.bins) \in Nat /\ p \in T
  <2>1. p \in Packed(n)
    BY DEF PackedWell
  <2> QED BY <1>1, <2>1 DEF Packed
<1>3. IsSeq(order) /\ Len(order) = Len(p.bins) /\ \A k \in 1..Len(order) : order[k] \in 1..Len(p.bins)
  BY <1>1, <1>2, BinNumbers
<1>4. ASSUME NEW k \in 1..Len(order), NEW t \in T PROVE AddSmallPair(t, order[k], lengths, capacity) \in T
  <2>1. PICK b, q : b = order[k] /\ q = AddSmallPair(t, order[k], lengths, capacity)
    OBVIOUS
  <2>2. PackedWell(t, n) /\ b \in 1..Len(t.bins) /\ Len(t.bins) = Len(p.bins)
    BY <1>1, <1>3, <2>1
  <2>3. PackedWell(AddSmallPair(t, b, lengths, capacity), n) /\ Len(AddSmallPair(t, b, lengths, capacity).bins) = Len(t.bins)
    BY ONLY <2>2, n \in Nat, IsSeq(lengths), Len(lengths) = n, AddSmallPairWell
  <2>4. PackedWell(q, n) /\ Len(q.bins) = Len(p.bins)
    BY <2>1, <2>2, <2>3
  <2> QED BY <1>1, <2>1, <2>4 DEF PackedWell
<1>5. \A k \in 1..Len(order), t \in T : AddSmallPair(t, order[k], lengths, capacity) \in T
  BY <1>4
<1>6. order = LastToFirst(p) /\ r = AddSmallPairs(p, lengths, capacity)
  BY <1>1
<1>a. IsSeq(order) /\ p \in T
  BY <1>2, <1>3
<1>7. \E g : /\ g \in [0..Len(order) -> T] /\ g[0] = p /\ AddSmallPairs(p, lengths, capacity) = g[Len(order)]
             /\ \A k \in 1..Len(order) : g[k] = AddSmallPair(g[k - 1], order[k], lengths, capacity)
  BY ONLY <1>a, <1>5, <1>6, AddSmallPairsSteps
<1>8. PICK g : g \in [0..Len(order) -> T] /\ AddSmallPairs(p, lengths, capacity) = g[Len(order)]
  BY <1>7
<1> QED BY <1>1, <1>2, <1>3, <1>8

-----------------------------------------------------------------------------
(* What fits into a bin. *)

\* taken is bin with, of left, what X has.
Grown(taken, bin, X, n) ==
  /\ taken \in Seq(1..n) /\ IsFiniteSet(X) /\ Len(taken) = Len(bin) + Cardinality(X)
  /\ \A k \in 1..Len(taken) : taken[k] \in X \/ \E j \in 1..Len(bin) : taken[k] = bin[j]
  /\ X \subseteq Range(taken) /\ \A j \in 1..Len(bin) : bin[j] \in Range(taken)

\* Of what is left a bin takes each sequence at most once.
LEMMA TakeWhatFitsGrows ==
  ASSUME NEW n, n \in Nat, NEW lengths, IsSeq(lengths), Len(lengths) = n, NEW capacity,
         NEW bin \in Seq(1..n), NEW left, left \subseteq 1..n
  PROVE  \E X : X \subseteq left /\ Grown(TakeWhatFits(bin, left, lengths, capacity), bin, X, n)
<1>1. PICK T, r, order : /\ T = Seq(1..n) /\ r = TakeWhatFits(bin, left, lengths, capacity)
                         /\ order = Descending(left, lengths)
  OBVIOUS
<1>2. IsListOf(order, left)
  <2>1. IsListOf(Descending(left, lengths), left)
    BY ONLY left \subseteq 1..n, n \in Nat, IsSeq(lengths), Len(lengths) = n, SortedLengths
  <2> QED BY <1>1, <2>1
<1>3. IsSeq(order) /\ Len(order) \in Nat /\ \A k \in 1..Len(order) : order[k] \in left
  BY ONLY <1>2, ListLength
<1>4. ASSUME NEW k \in 1..Len(order), NEW t \in T PROVE Take(t, order[k], lengths, capacity) \in T
  <2>1. PICK i : i = order[k]
    OBVIOUS
  <2>2. i \in 1..n /\ t \in Seq(1..n)
    BY <1>1, <1>3, <2>1
  <2>3. Append(t, i) \in Seq(1..n)
    BY ONLY <2>2
  <2>4. Take(t, i, lengths, capacity) = Append(t, i) \/ Take(t, i, lengths, capacity) = t
    BY DEF Take
  <2> QED BY <1>1, <2>1, <2>2, <2>3, <2>4
<1>5. TakesWithin(order, T, lengths, capacity)
  BY <1>4 DEF TakesWithin
<1>6. order = Descending(left, lengths) /\ r = TakeWhatFits(bin, left, lengths, capacity)
  BY <1>1
<1>a. IsSeq(order) /\ bin \in T
  BY <1>1, <1>3
<1>7. \E g : /\ g \in [0..Len(order) -> T] /\ g[0] = bin /\ TakeWhatFits(bin, left, lengths, capacity) = g[Len(order)]
             /\ \A k \in 1..Len(order) : g[k] = Take(g[k - 1], order[k], lengths, capacity)
  BY ONLY <1>a, <1>5, <1>6, TakeWhatFitsSteps
<1>8. PICK g : /\ g \in [0..Len(order) -> T] /\ g[0] = bin /\ TakeWhatFits(bin, left, lengths, capacity) = g[Len(order)]
               /\ \A k \in 1..Len(order) : g[k] = Take(g[k - 1], order[k], lengths, capacity)
  BY <1>7
<1> DEFINE Reached(k) == \E X : (\A x \in X : \E j \in 1..k : x = order[j]) /\ Grown(g[k], bin, X, n)
           P == {k \in 0..Len(order) : Reached(k)}
<1>9. 0 \in P
  <2>1. IsFiniteSet({}) /\ Cardinality({}) = 0
    BY FS_EmptySet
  <2>2. Grown(bin, bin, {}, n)
    BY <2>1 DEF Grown, Range
  <2>3. 0 \in 0..Len(order) /\ \A x \in {} : \E j \in 1..0 : x = order[j]
    BY <1>3
  <2>4. Reached(0)
    BY <1>8, <2>2, <2>3
  <2> HIDE DEF Reached
  <2> QED BY <2>3, <2>4
<1>10. ASSUME NEW k \in 1..Len(order), k - 1 \in P PROVE k \in P
  <2>1. PICK X : (\A x \in X : \E j \in 1..(k - 1) : x = order[j]) /\ Grown(g[k - 1], bin, X, n)
    <3>1. Reached(k - 1)
      <4> HIDE DEF Reached
      <4> QED BY <1>10
    <3> QED BY <3>1
  <2>2. PICK t, i : t = g[k - 1] /\ i = order[k]
    OBVIOUS
  <2>3. g[k] = t \/ g[k] = Append(t, i)
    BY <1>8, <2>2 DEF Take
  <2>4. 1..(k - 1) \subseteq 1..k /\ k \in 0..Len(order)
    BY <1>3
  <2>5. CASE g[k] = t
    <3>1. Reached(k)
      BY <2>1, <2>2, <2>4, <2>5
    <3> HIDE DEF Reached
    <3> QED BY <2>4, <3>1
  <2>6. CASE g[k] = Append(t, i)
    <3>1. i \notin X
      <4>1. \A j \in 1..(k - 1) : order[j] # order[k]
        <5>1. \A j \in 1..(k - 1) : j \in 1..Len(order) /\ j # k
          BY <1>3
        <5> QED BY <1>2, <5>1 DEF IsListOf
      <4> QED BY <2>1, <2>2, <4>1
    <3>2. IsFiniteSet(X) /\ Cardinality(X) \in Nat /\ t \in Seq(1..n) /\ Len(t) = Len(bin) + Cardinality(X)
      <4>1. IsFiniteSet(X)
        BY <2>1 DEF Grown
      <4> QED BY <2>1, <2>2, <4>1, FS_CardinalityType DEF Grown
    <3>3. IsFiniteSet(X \cup {i}) /\ Cardinality(X \cup {i}) = Cardinality(X) + 1
      BY <3>1, <3>2, FS_AddElement
    <3>4. PICK u : u = Append(t, i)
      OBVIOUS
    <3>5. i \in 1..n
      BY <1>3, <2>2
    <3>6. u \in Seq(1..n) /\ Len(u) = Len(t) + 1 /\ u[Len(t) + 1] = i /\ \A j \in 1..Len(t) : u[j] = t[j]
      BY ONLY <3>2, <3>4, <3>5
    <3>7. Range(u) = Range(t) \cup {i}
      <4>1. DOMAIN u = 1..(Len(t) + 1) /\ DOMAIN t = 1..Len(t) /\ Len(t) \in Nat
        BY ONLY <3>2, <3>6
      <4>2. \A j \in 1..(Len(t) + 1) : j \in 1..Len(t) \/ j = Len(t) + 1
        BY ONLY <4>1
      <4>3. Len(t) + 1 \in 1..(Len(t) + 1) /\ \A j \in 1..Len(t) : j \in 1..(Len(t) + 1)
        BY ONLY <4>1
      <4> QED BY <3>6, <4>1, <4>2, <4>3 DEF Range
    <3>8. Grown(u, bin, X \cup {i}, n)
      <4>1. Len(u) = Len(bin) + Cardinality(X \cup {i})
        BY <3>2, <3>3, <3>6
      <4>2. \A j \in 1..Len(u) : j \in 1..Len(t) \/ j = Len(t) + 1
        BY <3>2, <3>6
      <4>3. \A j \in 1..Len(t) : t[j] \in X \/ \E m \in 1..Len(bin) : t[j] = bin[m]
        BY <2>1, <2>2 DEF Grown
      <4>4. \A j \in 1..Len(u) : u[j] \in X \cup {i} \/ \E m \in 1..Len(bin) : u[j] = bin[m]
        BY <3>6, <4>2, <4>3
      <4>5. X \subseteq Range(t) /\ \A j \in 1..Len(bin) : bin[j] \in Range(t)
        BY <2>1, <2>2 DEF Grown
      <4> QED BY <3>3, <3>6, <3>7, <4>1, <4>4, <4>5 DEF Grown
    <3>9. \A x \in X \cup {i} : \E j \in 1..k : x = order[j]
      BY <2>1, <2>2, <2>4
    <3>10. Reached(k)
      BY <2>6, <3>4, <3>8, <3>9
    <3> HIDE DEF Reached
    <3> QED BY <2>4, <3>10
  <2> QED BY <2>3, <2>5, <2>6
<1> HIDE DEF P
<1>11. \A k \in 0..Len(order) : k \in P
  BY <1>3, <1>9, <1>10, StepByStep
<1>12. Len(order) \in P
  BY <1>3, <1>11
<1>13. PICK X : (\A x \in X : \E j \in 1..Len(order) : x = order[j]) /\ Grown(g[Len(order)], bin, X, n)
  <2>1. Reached(Len(order))
    <3> HIDE DEF Reached
    <3> QED BY <1>12 DEF P
  <2> QED BY <2>1
<1>14. X \subseteq left
  BY <1>3, <1>13
<1> QED BY <1>8, <1>13, <1>14

\* A bin of phase 4 gets what is no longer left.
LEMMA FillBinWell ==
  ASSUME NEW n, n \in Nat, NEW lengths, IsSeq(lengths), Len(lengths) = n, NEW capacity,
         NEW p, PackedWell(p, n), NEW b \in 1..Len(p.bins)
  PROVE  /\ PackedWell(FillBin(p, b, lengths, capacity), n)
         /\ Len(FillBin(p, b, lengths, capacity).bins) = Len(p.bins)
<1>1. p.bins \in Seq(Seq(1..n)) /\ p.left \subseteq 1..n
  <2>1. p \in Packed(n)
    BY DEF PackedWell
  <2> QED BY <2>1 DEF Packed
<1>2. PICK bin, left, full : /\ bin = p.bins[b] /\ left = p.left
                             /\ full = TakeWhatFits(p.bins[b], p.left, lengths, capacity)
  OBVIOUS
<1>3. bin \in Seq(1..n) /\ left \subseteq 1..n
  BY <1>1, <1>2
<1>4. \E X : X \subseteq left /\ Grown(TakeWhatFits(bin, left, lengths, capacity), bin, X, n)
  BY ONLY <1>3, n \in Nat, IsSeq(lengths), Len(lengths) = n, TakeWhatFitsGrows
<1>5. PICK X : X \subseteq left /\ Grown(full, bin, X, n)
  BY <1>2, <1>4
<1>6. full \in Seq(1..n) /\ Fills(p, b, full, X)
  BY <1>2, <1>5 DEF Fills, Grown
<1>7. PackedWell(Refilled(p, b, full, X), n) /\ Len(Refilled(p, b, full, X).bins) = Len(p.bins)
  BY ONLY <1>6, n \in Nat, PackedWell(p, n), b \in 1..Len(p.bins), FilledBin
<1>8. p.left \ Range(full) = p.left \ X
  <2>1. \A k \in 1..Len(bin) : bin[k] \notin left
    BY <1>2 DEF PackedWell
  <2>2. ASSUME NEW x \in left PROVE x \in Range(full) <=> x \in X
    <3>1. x \in X => x \in Range(full)
      BY <1>5 DEF Grown
    <3>2. ASSUME x \in Range(full) PROVE x \in X
      <4>1. DOMAIN full = 1..Len(full)
        BY ONLY <1>6
      <4>2. PICK k \in 1..Len(full) : x = full[k]
        BY <3>2, <4>1 DEF Range
      <4>3. full[k] \in X \/ \E j \in 1..Len(bin) : full[k] = bin[j]
        BY <1>5 DEF Grown
      <4> QED BY <2>1, <4>2, <4>3
    <3> QED BY <3>1, <3>2
  <2> QED BY <1>2, <2>2
<1>9. FillBin(p, b, lengths, capacity) = Refilled(p, b, full, X)
  BY <1>2, <1>8 DEF FillBin, Refilled
<1> QED BY <1>7, <1>9

-----------------------------------------------------------------------------
(* The whole packer. *)

\* Phase 4 loses nothing.
LEMMA FillBinsWell ==
  ASSUME NEW n, n \in Nat, NEW lengths, IsSeq(lengths), Len(lengths) = n, NEW capacity, NEW p, PackedWell(p, n)
  PROVE  PackedWell(FillBins(p, lengths, capacity), n)
<1>1. PICK T, r, order : /\ T = {t \in Packed(n) : PackedWell(t, n) /\ Len(t.bins) = Len(p.bins)}
                         /\ r = FillBins(p, lengths, capacity) /\ order = FirstToLast(p)
  OBVIOUS
<1>2. p.bins \in Seq(Seq(1..n)) /\ Len(p.bins) \in Nat /\ p \in T
  <2>1. p \in Packed(n)
    BY DEF PackedWell
  <2> QED BY <1>1, <2>1 DEF Packed
<1>3. IsSeq(order) /\ Len(order) = Len(p.bins) /\ \A k \in 1..Len(order) : order[k] \in 1..Len(p.bins)
  BY <1>1, <1>2, BinNumbers
<1>4. ASSUME NEW k \in 1..Len(order), NEW t \in T PROVE FillBin(t, order[k], lengths, capacity) \in T
  <2>1. PICK b, q : b = order[k] /\ q = FillBin(t, order[k], lengths, capacity)
    OBVIOUS
  <2>2. PackedWell(t, n) /\ b \in 1..Len(t.bins) /\ Len(t.bins) = Len(p.bins)
    BY <1>1, <1>3, <2>1
  <2>3. PackedWell(FillBin(t, b, lengths, capacity), n) /\ Len(FillBin(t, b, lengths, capacity).bins) = Len(t.bins)
    BY ONLY <2>2, n \in Nat, IsSeq(lengths), Len(lengths) = n, FillBinWell
  <2>4. PackedWell(q, n) /\ Len(q.bins) = Len(p.bins)
    BY <2>1, <2>2, <2>3
  <2> QED BY <1>1, <2>1, <2>4 DEF PackedWell
<1>5. \A k \in 1..Len(order), t \in T : FillBin(t, order[k], lengths, capacity) \in T
  BY <1>4
<1>6. order = FirstToLast(p) /\ r = FillBins(p, lengths, capacity)
  BY <1>1
<1>7. IsSeq(order) /\ p \in T
  BY <1>2, <1>3
<1>8. \E g : /\ g \in [0..Len(order) -> T] /\ g[0] = p /\ FillBins(p, lengths, capacity) = g[Len(order)]
             /\ \A k \in 1..Len(order) : g[k] = FillBin(g[k - 1], order[k], lengths, capacity)
  BY ONLY <1>5, <1>6, <1>7, FillBinsSteps
<1>9. PICK g : g \in [0..Len(order) -> T] /\ FillBins(p, lengths, capacity) = g[Len(order)]
  BY <1>8
<1> QED BY <1>1, <1>2, <1>3, <1>9

\* A leftover more is packed.
LEMMA PackLeftoverWell ==
  ASSUME NEW I, NEW bins \in Seq(Seq(I)), Len(bins) > 0, NEW i \in I, NEW lengths, NEW capacity
  PROVE  /\ PackLeftover(bins, i, lengths, capacity) \in Seq(Seq(I)) /\ Len(PackLeftover(bins, i, lengths, capacity)) > 0
         /\ Content(PackLeftover(bins, i, lengths, capacity)) = Content(bins) + 1
<1>1. ASSUME NEW rest \in Seq(Seq(I)), NEW bin \in Seq(I)
      PROVE  /\ InsertByWeight(rest, bin, lengths) \in Seq(Seq(I)) /\ Len(InsertByWeight(rest, bin, lengths)) > 0
             /\ Content(InsertByWeight(rest, bin, lengths)) = Content(rest) + Len(bin)
  <2>1. PICK lighter : lighter = {j \in DOMAIN rest : Weight(rest[j], lengths) <= Weight(bin, lengths)}
    OBVIOUS
  <2>2. DOMAIN rest = 1..Len(rest) /\ Len(rest) \in Nat
    OBVIOUS
  <2>3. lighter \subseteq 1..Len(rest)
    BY <2>1, <2>2
  <2>4. IsFiniteSet(1..Len(rest)) /\ Cardinality(1..Len(rest)) = Len(rest)
    <3>1. PICK m : m = Len(rest)
      OBVIOUS
    <3>2. m \in Nat
      BY <2>2, <3>1
    <3>3. IsFiniteSet(1..m) /\ Cardinality(1..m) = m
      BY ONLY <3>2, FS_Interval
    <3> QED BY <3>1, <3>3
  <2>5. IsFiniteSet(lighter) /\ Cardinality(lighter) <= Len(rest)
    BY <2>3, <2>4, FS_Subset
  <2>6. Cardinality(lighter) \in Nat
    BY <2>5, FS_CardinalityType
  <2>7. PICK j : j = Cardinality(lighter) + 1
    OBVIOUS
  <2>8. j \in 1..(Len(rest) + 1)
    BY <2>2, <2>5, <2>6, <2>7
  <2>9. /\ InsertAt(rest, j, bin) \in Seq(Seq(I)) /\ Content(InsertAt(rest, j, bin)) = Content(rest) + Len(bin)
        /\ Len(InsertAt(rest, j, bin)) = Len(rest) + 1
    BY <2>8, ContentInsert
  <2> QED BY <2>1, <2>2, <2>7, <2>9 DEF InsertByWeight
<1>2. CASE lengths[i] <= capacity - Weight(Head(bins), lengths)
  <2>1. PICK rest, first, bin : rest = Tail(bins) /\ first = Head(bins) /\ bin = Append(Head(bins), i)
    OBVIOUS
  <2>2. /\ Tail(bins) \in Seq(Seq(I)) /\ Head(bins) \in Seq(I)
        /\ Content(bins) = Content(Tail(bins)) + Len(Head(bins))
    BY ContentTail
  <2>3. bin \in Seq(I) /\ Len(bin) = Len(first) + 1 /\ Len(first) \in Nat
    BY <2>1, <2>2
  <2>4. Content(rest) \in Nat
    BY <2>1, <2>2, ContentNat
  <2>5. PackLeftover(bins, i, lengths, capacity) = InsertByWeight(rest, bin, lengths)
    BY <1>2, <2>1 DEF PackLeftover
  <2>6. rest \in Seq(Seq(I)) /\ Content(bins) = Content(rest) + Len(first)
    BY <2>1, <2>2
  <2>7. /\ InsertByWeight(rest, bin, lengths) \in Seq(Seq(I)) /\ Len(InsertByWeight(rest, bin, lengths)) > 0
        /\ Content(InsertByWeight(rest, bin, lengths)) = Content(rest) + Len(bin)
    BY <1>1, <2>3, <2>6
  <2>8. Content(rest) + Len(bin) = Content(bins) + 1
    BY ONLY <2>3, <2>4, <2>6
  <2> QED BY <2>5, <2>7, <2>8
<1>3. CASE ~(lengths[i] <= capacity - Weight(Head(bins), lengths))
  <2>1. PICK bin : bin = <<i>>
    OBVIOUS
  <2>2. bin \in Seq(I) /\ Len(bin) = 1
    BY <2>1
  <2>3. PackLeftover(bins, i, lengths, capacity) = InsertByWeight(bins, bin, lengths)
    BY <1>3, <2>1 DEF PackLeftover
  <2> QED BY <1>1, <2>2, <2>3
<1> QED BY <1>2, <1>3

\* Phase 5 packs each leftover once.
LEMMA PackLeftoversWell ==
  ASSUME NEW n, n \in Nat, NEW lengths, IsSeq(lengths), Len(lengths) = n, NEW capacity, NEW left, left \subseteq 1..n
  PROVE  /\ PackLeftovers(left, lengths, capacity) \in Seq(Seq(1..n))
         /\ Content(PackLeftovers(left, lengths, capacity)) = Cardinality(left)
<1>1. PICK T, r, order : /\ T = {t \in Seq(Seq(1..n)) : Len(t) > 0} /\ r = PackLeftovers(left, lengths, capacity)
                         /\ order = Descending(left, lengths)
  OBVIOUS
<1>2. IsListOf(order, left)
  <2>1. IsListOf(Descending(left, lengths), left)
    BY ONLY left \subseteq 1..n, n \in Nat, IsSeq(lengths), Len(lengths) = n, SortedLengths
  <2> QED BY <1>1, <2>1
<1>3. IsSeq(order) /\ Len(order) \in Nat /\ Len(order) = Cardinality(left) /\ \A k \in 1..Len(order) : order[k] \in left
  BY ONLY <1>2, ListLength
<1>4. ASSUME NEW k \in 1..Len(order), NEW t \in T
      PROVE  /\ PackLeftover(t, order[k], lengths, capacity) \in T
             /\ Content(PackLeftover(t, order[k], lengths, capacity)) = Content(t) + 1
  <2>1. PICK I, i : I = 1..n /\ i = order[k]
    OBVIOUS
  <2>2. t \in Seq(Seq(I)) /\ Len(t) > 0 /\ i \in I
    BY <1>1, <1>3, <2>1
  <2>3. /\ PackLeftover(t, i, lengths, capacity) \in Seq(Seq(I)) /\ Len(PackLeftover(t, i, lengths, capacity)) > 0
        /\ Content(PackLeftover(t, i, lengths, capacity)) = Content(t) + 1
    BY ONLY <2>2, PackLeftoverWell
  <2> QED BY <1>1, <2>1, <2>3
<1>5. PacksWithin(order, T, lengths, capacity)
  BY <1>4 DEF PacksWithin
<1>6. PICK empty, base : empty = <<>> /\ base = OneEmptyBin
  OBVIOUS
<1>7. empty \in Seq(1..n) /\ Len(empty) = 0
  BY <1>6
<1>8. <<empty>> \in Seq(Seq(1..n)) /\ Len(<<empty>>) = 1 /\ Content(<<empty>>) = 0
  BY <1>7, ContentOne
<1>9. base \in T /\ IsSeq(order) /\ base = OneEmptyBin /\ Content(base) = 0
  BY <1>1, <1>3, <1>6, <1>8 DEF OneEmptyBin
<1>10. order = Descending(left, lengths) /\ r = PackLeftovers(left, lengths, capacity)
  BY <1>1
<1>11. \E g : /\ g \in [0..Len(order) -> T] /\ g[0] = base /\ PackLeftovers(left, lengths, capacity) = g[Len(order)]
              /\ \A k \in 1..Len(order) : g[k] = PackLeftover(g[k - 1], order[k], lengths, capacity)
  BY ONLY <1>5, <1>9, <1>10, PackLeftoversSteps
<1>12. PICK g : /\ g \in [0..Len(order) -> T] /\ g[0] = base /\ PackLeftovers(left, lengths, capacity) = g[Len(order)]
                /\ \A k \in 1..Len(order) : g[k] = PackLeftover(g[k - 1], order[k], lengths, capacity)
  BY <1>11
<1> DEFINE P == {k \in 0..Len(order) : Content(g[k]) = k}
<1>13. 0 \in P
  BY <1>3, <1>9, <1>12
<1>14. ASSUME NEW k \in 1..Len(order), k - 1 \in P PROVE k \in P
  <2>1. g[k - 1] \in T /\ k \in 0..Len(order)
    BY <1>3, <1>12
  <2>2. PICK t : t = g[k - 1]
    OBVIOUS
  <2>3. Content(t) = k - 1 /\ g[k] = PackLeftover(t, order[k], lengths, capacity) /\ t \in T
    BY <1>12, <1>14, <2>1, <2>2
  <2> QED BY <1>4, <2>1, <2>3
<1> HIDE DEF P
<1>15. \A k \in 0..Len(order) : k \in P
  BY <1>3, <1>13, <1>14, StepByStep
<1>16. Len(order) \in P
  BY <1>3, <1>15
<1>17. Content(g[Len(order)]) = Len(order) /\ g[Len(order)] \in T
  BY <1>3, <1>12, <1>16 DEF P
<1> QED BY <1>1, <1>3, <1>12, <1>17

\* Bins without those that are empty hold as much.
LEMMA WithoutEmptyWell ==
  ASSUME NEW I, NEW bins \in Seq(Seq(I))
  PROVE  WithoutEmpty(bins) \in Seq(Seq(I)) /\ Content(WithoutEmpty(bins)) = Content(bins)
<1>1. PICK T, r : T = Seq(Seq(I)) /\ r = WithoutEmpty(bins)
  OBVIOUS
<1>2. /\ Len(bins) \in Nat /\ \A b \in 1..Len(bins) : /\ bins[b] \in Seq(I) /\ BinSizes(bins)[b] = Len(bins[b])
                                                      /\ BinSizes(bins)[b] \in Nat
  BY ContentNat
<1>3. ASSUME NEW k \in 1..Len(bins), NEW t \in T
      PROVE  KeepBin(t, bins[k]) \in T /\ Content(KeepBin(t, bins[k])) = Content(t) + BinSizes(bins)[k]
  <2>1. PICK bin : bin = bins[k]
    OBVIOUS
  <2>2. t \in Seq(Seq(I)) /\ bin \in Seq(I) /\ Content(t) \in Nat
    BY <1>1, <1>2, <2>1, ContentNat
  <2>3. Append(t, bin) \in Seq(Seq(I)) /\ Content(Append(t, bin)) = Content(t) + Len(bin)
    BY ONLY <2>2, ContentAppend
  <2>4. BinSizes(bins)[k] = Len(bin)
    BY <1>2, <2>1
  <2>5. CASE bin = <<>>
    <3>1. Len(bin) = 0
      BY <2>5
    <3> QED BY <1>1, <2>1, <2>2, <2>4, <2>5, <3>1 DEF KeepBin
  <2>6. CASE bin # <<>>
    BY <1>1, <2>1, <2>3, <2>4, <2>6 DEF KeepBin
  <2> QED BY <2>5, <2>6
<1>4. \A k \in 1..Len(bins), t \in T : KeepBin(t, bins[k]) \in T
  BY <1>3
<1>5. <<>> \in T /\ IsSeq(bins)
  BY <1>1, SeqIsSeq
<1>6. r = WithoutEmpty(bins)
  BY <1>1
<1>7. \E g : /\ g \in [0..Len(bins) -> T] /\ g[0] = <<>> /\ WithoutEmpty(bins) = g[Len(bins)]
             /\ \A k \in 1..Len(bins) : g[k] = KeepBin(g[k - 1], bins[k])
  BY ONLY <1>4, <1>5, <1>6, WithoutEmptySteps
<1>8. PICK g : /\ g \in [0..Len(bins) -> T] /\ g[0] = <<>> /\ WithoutEmpty(bins) = g[Len(bins)]
               /\ \A k \in 1..Len(bins) : g[k] = KeepBin(g[k - 1], bins[k])
  BY <1>7
<1>9. /\ SumTo(BinSizes(bins), 0) = 0
      /\ \A k \in 1..Len(bins) : SumTo(BinSizes(bins), k) = SumTo(BinSizes(bins), k - 1) + BinSizes(bins)[k]
  <2>1. \A k \in 1..Len(bins) : BinSizes(bins)[k] \in Int
    BY <1>2
  <2> QED BY <1>2, <2>1, SumRule
<1> DEFINE P == {k \in 0..Len(bins) : Content(g[k]) = SumTo(BinSizes(bins), k)}
<1>10. 0 \in P
  BY <1>2, <1>8, <1>9, ContentNone
<1>11. ASSUME NEW k \in 1..Len(bins), k - 1 \in P PROVE k \in P
  <2>1. k - 1 \in 0..Len(bins) /\ k \in 0..Len(bins)
    BY <1>2
  <2>2. PICK t : t = g[k - 1]
    OBVIOUS
  <2>3. Content(t) = SumTo(BinSizes(bins), k - 1) /\ g[k] = KeepBin(t, bins[k]) /\ t \in T
    BY <1>2, <1>8, <1>11, <2>1, <2>2
  <2> QED BY <1>3, <1>9, <2>1, <2>3
<1> HIDE DEF P
<1>12. \A k \in 0..Len(bins) : k \in P
  BY <1>2, <1>10, <1>11, StepByStep
<1>13. Len(bins) \in P
  BY <1>2, <1>12
<1>14. Content(g[Len(bins)]) = Content(bins) /\ g[Len(bins)] \in T
  BY <1>2, <1>8, <1>13 DEF P, Content
<1> QED BY <1>1, <1>8, <1>14

\* All five phases lose nothing.
LEMMA ModifiedPacks ==
  ASSUME NEW n, n \in Nat, NEW lengths, IsSeq(lengths), Len(lengths) = n, NEW capacity,
         NEW bins \in ModifiedFirstFitDecreasing(lengths, capacity)
  PROVE  bins \in Seq(Seq(1..n)) /\ Content(bins) = n
<1>1. PICK started, paired, filled, rest : /\ started = StartBins(lengths, capacity)
                                           /\ paired = AddSmallPairs(started, lengths, capacity)
                                           /\ filled = FillBins(paired, lengths, capacity)
                                           /\ rest = PackLeftovers(filled.left, lengths, capacity)
  OBVIOUS
<1>2. bins = WithoutEmpty(filled.bins \o rest)
  BY <1>1 DEF ModifiedFirstFitDecreasing
<1>3. PackedWell(started, n)
  BY <1>1, StartBinsWell
<1>4. PackedWell(paired, n)
  BY <1>1, <1>3, AddSmallPairsWell
<1>5. PackedWell(filled, n)
  BY <1>1, <1>4, FillBinsWell
<1>6. filled.bins \in Seq(Seq(1..n)) /\ filled.left \subseteq 1..n /\ Content(filled.bins) + Cardinality(filled.left) = n
  <2>1. filled \in Packed(n)
    BY <1>5 DEF PackedWell
  <2> QED BY <1>5, <2>1 DEF Packed, PackedWell
<1>7. rest \in Seq(Seq(1..n)) /\ Content(rest) = Cardinality(filled.left)
  BY <1>1, <1>6, PackLeftoversWell
<1>8. filled.bins \o rest \in Seq(Seq(1..n)) /\ Content(filled.bins \o rest) = Content(filled.bins) + Content(rest)
  BY <1>6, <1>7, ContentJoined
<1>9. WithoutEmpty(filled.bins \o rest) \in Seq(Seq(1..n)) /\ Content(WithoutEmpty(filled.bins \o rest)) = n
  BY <1>6, <1>7, <1>8, WithoutEmptyWell
<1> QED BY <1>2, <1>9

-----------------------------------------------------------------------------
(* The number of bins made a multiple. *)

\* AdjustBinCount, step by step.
LEMMA MoveSteps ==
  ASSUME NEW bins,
         NEW shards,
         NEW n, n \in Nat,
         n = TargetBinCount(Len(bins), shards) - Len(bins),
         NEW source,
         source = LongestFirst(bins)
  PROVE  \E g : /\ g[0] = bins /\ AdjustBinCount(bins, shards) = g[n]
              /\ \A k \in 1..n : g[k] = MoveOne(g[k - 1], source)
<1> DEFINE Rule(it, m) == it = [s \in SUBSET (1..m) |->
                                  IF s = {} THEN bins ELSE MoveOne(it[s \ {Max(s)}], source)]
           Chosen(it) == it = [s \in SUBSET (1..n) |->
                                 IF s = {} THEN bins ELSE MoveOne(it[s \ {Max(s)}], source)]
           it == CHOOSE it : Chosen(it)
           S == {k \in Nat : \E f : Rule(f, k)}
<1>1. n \in Nat /\ DOMAIN [i \in 1..n |-> i] = 1..n /\ \A k \in 1..n : [i \in 1..n |-> i][k] = k
  OBVIOUS
<1>2. 0 \in S
  <2> DEFINE f == [s \in SUBSET (1..0) |-> bins]
  <2>1. \A s \in SUBSET (1..0) : s = {}
    OBVIOUS
  <2>2. Rule(f, 0)
    BY <2>1
  <2> QED BY <2>2
<1>3. ASSUME NEW k \in Nat, k \in S PROVE k + 1 \in S
  <2>1. PICK f : Rule(f, k)
    BY <1>3
  <2> DEFINE h == [s \in SUBSET (1..(k + 1)) |-> IF k + 1 \in s THEN MoveOne(f[s \ {k + 1}], source) ELSE f[s]]
  <2>2. ASSUME NEW s \in SUBSET (1..(k + 1))
        PROVE  h[s] = IF s = {} THEN bins ELSE MoveOne(h[s \ {Max(s)}], source)
    <3>1. s # {} => Max(s) \in s /\ \A x \in s : x <= Max(s)
      <4>1. k + 1 \in Nat
        OBVIOUS
      <4> QED BY ONLY <4>1, s \in SUBSET (1..(k + 1)), LargestIn
    <3>2. CASE k + 1 \in s
      <4>1. s \ {k + 1} \in SUBSET (1..k) /\ s \ {k + 1} \in SUBSET (1..(k + 1)) /\ s # {} /\ k + 1 \notin s \ {k + 1}
        BY ONLY <3>2, k \in Nat, s \in SUBSET (1..(k + 1))
      <4>2. Max(s) = k + 1
        <5>1. Max(s) \in 1..(k + 1) /\ k + 1 <= Max(s)
          BY ONLY <3>1, <3>2, <4>1, s \in SUBSET (1..(k + 1))
        <5> QED BY ONLY <5>1, k \in Nat
      <4>3. h[s \ {k + 1}] = f[s \ {k + 1}]
        BY <4>1
      <4>4. h[s] = MoveOne(f[s \ {k + 1}], source)
        BY <3>2
      <4> HIDE DEF h
      <4> QED BY ONLY <4>1, <4>2, <4>3, <4>4
    <3>3. CASE k + 1 \notin s
      <4>1. s \in SUBSET (1..k)
        BY <3>3
      <4>2. h[s] = f[s]
        BY <3>3
      <4>3. f[s] = IF s = {} THEN bins ELSE MoveOne(f[s \ {Max(s)}], source)
        BY <2>1, <4>1
      <4>4. s # {} => s \ {Max(s)} \in SUBSET (1..(k + 1)) /\ k + 1 \notin s \ {Max(s)}
        BY <3>3
      <4>5. s # {} => h[s \ {Max(s)}] = f[s \ {Max(s)}]
        BY <4>4
      <4> HIDE DEF h
      <4> QED BY ONLY <4>2, <4>3, <4>5
    <3> QED BY <3>2, <3>3
  <2>3. h = [s \in SUBSET (1..(k + 1)) |-> h[s]]
    OBVIOUS
  <2> HIDE DEF h
  <2>4. Rule(h, k + 1)
    BY <2>2, <2>3
  <2> HIDE DEF Rule
  <2> QED BY <2>4
<1>4. PICK f : Rule(f, n)
  <2>1. \A k \in Nat : k \in S
    <3> HIDE DEF S
    <3> QED BY <1>2, <1>3, Induction
  <2> QED BY <1>1, <2>1
<1>5. \A s \in SUBSET (1..n) : s # {} => Max(s) \in 1..n
  BY <1>1, LargestIn
<1>6. Chosen(f)
  <2>1. \A s \in SUBSET (1..n) : s # {} => [i \in 1..n |-> i][Max(s)] = Max(s)
    BY <1>1, <1>5
  <2>2. \A s \in SUBSET (1..n) : f[s] = IF s = {} THEN bins ELSE MoveOne(f[s \ {Max(s)}], source)
    BY <1>4, <2>1
  <2>3. f = [s \in SUBSET (1..n) |-> f[s]]
    BY <1>4
  <2> QED BY <2>2, <2>3
<1>7. Chosen(it)
  BY <1>6
<1>8. AdjustBinCount(bins, shards) = it[1..n]
  BY <1>1 DEF AdjustBinCount, FoldLeft, MapThenFoldSet
<1> HIDE DEF it
<1> DEFINE g == [k \in 0..n |-> it[1..k]]
<1>9. g[0] = bins /\ g[n] = it[1..n]
  <2>1. 1..0 = {} /\ 0 \in 0..n /\ n \in 0..n
    BY <1>1
  <2> QED BY <1>7, <2>1
<1>10. ASSUME NEW k \in 1..n PROVE g[k] = MoveOne(g[k - 1], source)
  <2>1. 1..k \in SUBSET (1..n) /\ 1..k # {} /\ Max(1..k) = k /\ (1..k) \ {k} = 1..(k - 1)
    BY ONLY <1>1, k \in 1..n, FirstNumbers
  <2>2. it[1..k] = MoveOne(it[(1..k) \ {Max(1..k)}], source)
    BY <1>7, <2>1
  <2>3. it[1..k] = MoveOne(it[1..(k - 1)], source)
    BY <1>1, <2>1, <2>2
  <2>4. k \in 0..n /\ k - 1 \in 0..n
    BY <1>1
  <2> QED BY <2>3, <2>4
<1> HIDE DEF g
<1> QED BY <1>8, <1>9, <1>10

\* Division with remainder.
LEMMA Divided ==
  ASSUME NEW a \in Nat, NEW b \in Nat \ {0}
  PROVE  a \div b \in Nat /\ (a \div b) * b <= a /\ a < (a \div b) * b + b
OBVIOUS

\* As many bins as the shards can share, and no fewer than there are.
LEMMA TargetCovers ==
  ASSUME NEW count \in Nat, NEW shards \in Nat \ {0}
  PROVE  /\ \E m \in Nat : TargetBinCount(count, shards) = m * shards
         /\ TargetBinCount(count, shards) \in Nat /\ TargetBinCount(count, shards) >= count
<1> DEFINE atLeast == Max({count, shards})
           m == (atLeast + shards - 1) \div shards
<1>1. atLeast \in Nat /\ atLeast >= count
  <2>1. IsFiniteSet({count, shards})
    <3>1. IsFiniteSet({count})
      BY FS_Singleton
    <3>2. IsFiniteSet({count} \cup {shards})
      BY <3>1, FS_AddElement
    <3>3. {count} \cup {shards} = {count, shards}
      OBVIOUS
    <3> QED BY <3>2, <3>3
  <2>2. {count, shards} \subseteq Nat /\ {count, shards} # {}
    OBVIOUS
  <2>3. Max({count, shards}) \in {count, shards} /\ \A x \in {count, shards} : x <= Max({count, shards})
    BY ONLY <2>1, <2>2, MaxOf
  <2> QED BY <2>2, <2>3
<1> HIDE DEF atLeast
<1>2. PICK a : a = atLeast + shards - 1
  OBVIOUS
<1>3. a \in Nat
  BY <1>1, <1>2
<1>4. m \in Nat /\ a < m * shards + shards
  BY ONLY <1>2, <1>3, shards \in Nat \ {0}, m = (atLeast + shards - 1) \div shards, Divided
<1> HIDE DEF m
<1>5. m * shards \in Nat
  BY ONLY <1>4, shards \in Nat \ {0}
<1>6. m * shards >= count
  BY <1>1, <1>2, <1>4, <1>5
<1>7. TargetBinCount(count, shards) = m * shards
  BY DEF TargetBinCount, m, atLeast
<1> QED BY <1>4, <1>5, <1>6, <1>7

\* All of n sequences are in bins, one each in those after the first.
Spread(bins, count, n) ==
  bins \in Seq(Seq(1..n)) /\ Content(bins) = n /\ \A b \in 1..Len(bins) : b > count => Len(bins[b]) = 1

\* While there are more sequences than bins, one of the first bins can give one away.
LEMMA MoveOneWell ==
  ASSUME NEW n, n \in Nat, NEW count, count \in Nat, NEW bins, Spread(bins, count, n), NEW source,
         IsListOf(source, 1..count), count <= Len(bins), Len(bins) < n
  PROVE  Spread(MoveOne(bins, source), count, n) /\ Len(MoveOne(bins, source)) = Len(bins) + 1
<1>0. bins \in Seq(Seq(1..n)) /\ Content(bins) = n /\ \A b \in 1..Len(bins) : b > count => Len(bins[b]) = 1
  BY DEF Spread
<1> DEFINE R == {k \in 1..Len(source) : Len(bins[source[k]]) > 1}
           k == SelectInSeq(source, LAMBDA s : Len(bins[s]) > 1)
           b == source[k]
           last == <<Last(bins[b])>>
           front == Front(bins[b])
<1>1. Len(source) \in Nat /\ \A j \in 1..Len(source) : source[j] \in 1..count
  BY ListLength
<1>2. k = IF R # {} THEN Min(R) ELSE 0
  BY Zenon DEF SelectInSeq
<1>3. Len(bins) \in Nat /\ Content(bins) > Len(bins)
  BY <1>0
<1>4. R # {}
  <2>1. PICK c \in 1..Len(bins) : Len(bins[c]) > 1
    BY ONLY <1>0, <1>3, SomeBinHasTwo
  <2>2. c \in 1..count
    <3>1. c > count => Len(bins[c]) = 1
      BY <1>0
    <3>2. ~(c > count)
      <4>1. ASSUME c > count PROVE FALSE
        <5>1. Len(bins[c]) = 1
          BY <3>1, <4>1
        <5> QED BY ONLY <2>1, <5>1
      <4> QED BY <4>1
    <3> QED BY ONLY <1>3, <3>2, c \in 1..Len(bins), count \in Nat
  <2>3. PICK j \in 1..Len(source) : source[j] = c
    BY <2>2 DEF IsListOf
  <2> QED BY <2>1, <2>3
<1>5. Min(R) \in R
  <2>1. R \subseteq 1..Len(source)
    OBVIOUS
  <2> HIDE DEF R
  <2> QED BY ONLY <1>1, <1>4, <2>1, SmallestIn
<1>6. k \in 1..Len(source) /\ Len(bins[b]) > 1
  BY <1>2, <1>4, <1>5
<1>7. b \in 1..count /\ b \in 1..Len(bins)
  <2>1. b \in 1..count
    BY <1>1, <1>6
  <2> HIDE DEF b
  <2> QED BY <1>3, <2>1
<1>8. MoveOne(bins, source) = Append([bins EXCEPT ![b] = front], last)
  BY DEF MoveOne
<1> HIDE DEF k, R, b, front, last
<1>9. bins[b] \in Seq(1..n)
  BY <1>0, <1>7
<1>10. PICK bin : bin = bins[b]
  OBVIOUS
<1>11. front \in Seq(1..n) /\ Len(front) = Len(bin) - 1 /\ Len(bin) \in Nat
  <2>1. bin \in Seq(1..n) /\ Len(bin) > 1 /\ Len(bin) \in Nat
    BY <1>6, <1>9, <1>10 DEF b
  <2>2. front = SubSeq(bin, 1, Len(bin) - 1)
    BY <1>10 DEF front, Front
  <2>3. SubSeq(bin, 1, Len(bin) - 1) \in Seq(1..n) /\ Len(SubSeq(bin, 1, Len(bin) - 1)) = Len(bin) - 1
    <3>1. PICK I, j : I = 1..n /\ j = Len(bin)
      OBVIOUS
    <3>2. bin \in Seq(I) /\ j \in 1..(Len(bin) + 1)
      BY ONLY <2>1, <3>1
    <3>3. SubSeq(bin, 1, j - 1) \in Seq(I) /\ Len(SubSeq(bin, 1, j - 1)) = j - 1
      BY ONLY <3>2, Pieces
    <3> QED BY ONLY <3>1, <3>3
  <2> QED BY ONLY <2>1, <2>2, <2>3
<1>12. last \in Seq(1..n) /\ Len(last) = 1
  <2>1. bin[Len(bin)] \in 1..n
    BY <1>6, <1>9, <1>10
  <2>2. last = <<bin[Len(bin)]>>
    BY <1>10 DEF last, Last
  <2> QED BY <2>1, <2>2
<1>13. PICK I, less : I = 1..n /\ less = [bins EXCEPT ![b] = front]
  OBVIOUS
<1>14. /\ less \in Seq(Seq(I)) /\ Len(less) = Len(bins) /\ Content(less) = Content(bins) + Len(front) - Len(bins[b])
  <2>1. bins \in Seq(Seq(I)) /\ b \in 1..Len(bins) /\ front \in Seq(I)
    BY <1>0, <1>7, <1>11, <1>13
  <2>2. /\ [bins EXCEPT ![b] = front] \in Seq(Seq(I)) /\ Len([bins EXCEPT ![b] = front]) = Len(bins)
        /\ Content([bins EXCEPT ![b] = front]) = Content(bins) + Len(front) - Len(bins[b])
    BY ONLY <2>1, ContentExcept
  <2> QED BY <1>13, <2>2
<1>15. Append(less, last) \in Seq(Seq(I)) /\ Content(Append(less, last)) = Content(less) + Len(last)
  <2>1. last \in Seq(I)
    BY <1>12, <1>13
  <2> QED BY ONLY <1>14, <2>1, ContentAppend
<1>16. Content(Append(less, last)) = n
  BY <1>0, <1>10, <1>11, <1>12, <1>14, <1>15
<1>17. PICK more : more = Append(less, last)
  OBVIOUS
<1>18. Len(more) = Len(bins) + 1 /\ more[Len(bins) + 1] = last /\ \A c \in 1..Len(bins) : more[c] = less[c]
  BY <1>3, <1>14, <1>15, <1>17
<1>19. ASSUME NEW c \in 1..(Len(bins) + 1), c > count PROVE Len(more[c]) = 1
  <2>1. CASE c = Len(bins) + 1
    BY <1>12, <1>18, <2>1
  <2>2. CASE c # Len(bins) + 1
    <3>1. c \in 1..Len(bins) /\ c # b
      BY ONLY <1>3, <1>7, c \in 1..(Len(bins) + 1), c > count, count \in Nat, <2>2
    <3>2. less[c] = bins[c]
      BY <1>13, <3>1
    <3> QED BY <1>0, <1>18, <1>19, <3>1, <3>2
  <2> QED BY <2>1, <2>2
<1>20. MoveOne(bins, source) = more
  BY <1>8, <1>13, <1>17
<1>21. more \in Seq(Seq(1..n)) /\ Content(more) = n
  BY <1>13, <1>15, <1>16, <1>17
<1>22. Spread(more, count, n)
  <2>1. \A c \in 1..Len(more) : c > count => Len(more[c]) = 1
    BY <1>18, <1>19
  <2> QED BY <1>21, <2>1 DEF Spread
<1> QED BY <1>18, <1>20, <1>22

\* With the bins that are added the shards can share them, and none is lost.
LEMMA AdjustedWell ==
  ASSUME NEW n, n \in Nat, NEW bins \in Seq(Seq(1..n)), Content(bins) = n, NEW shards \in Nat \ {0},
         TargetBinCount(Len(bins), shards) <= n
  PROVE  /\ AdjustBinCount(bins, shards) \in Seq(Seq(1..n)) /\ Content(AdjustBinCount(bins, shards)) = n
         /\ \E m \in Nat : Len(AdjustBinCount(bins, shards)) = m * shards
<1>1. PICK count, source, new : /\ count = Len(bins) /\ source = LongestFirst(bins)
                                /\ new = TargetBinCount(Len(bins), shards) - Len(bins)
  OBVIOUS
<1>2. count \in Nat
  BY <1>1
<1>3. PICK m \in Nat : TargetBinCount(count, shards) = m * shards
  BY <1>2, TargetCovers
<1>4. new \in Nat /\ count + new <= n /\ count + new = m * shards
  <2>1. TargetBinCount(count, shards) \in Nat /\ TargetBinCount(count, shards) >= count
    BY <1>2, TargetCovers
  <2>2. m * shards \in Nat
    BY <1>3, <2>1
  <2> QED BY <1>1, <1>2, <1>3, <2>1, <2>2
<1>5. IsListOf(source, 1..count)
  <2>1. DOMAIN bins = 1..count
    BY <1>1
  <2>2. PICK before : before = {p \in PairsOf(bins) : Len(bins[p[1]]) > Len(bins[p[2]])}
    OBVIOUS
  <2>3. PICK indices : indices = 1..count
    OBVIOUS
  <2>4. IsListOf(SortedBy(indices, count, before), indices)
    <3>1. indices \subseteq 1..count
      BY <2>3
    <3> QED BY ONLY <1>2, <3>1, SortedIsList
  <2> QED BY <1>1, <2>1, <2>2, <2>3, <2>4 DEF LongestFirst
<1>6. PICK g : /\ g[0] = bins /\ AdjustBinCount(bins, shards) = g[new]
               /\ \A k \in 1..new : g[k] = MoveOne(g[k - 1], source)
  BY <1>1, <1>4, MoveSteps
<1> DEFINE Well(t, k) == Spread(t, count, n) /\ Len(t) = count + k
           P == {k \in 0..new : Well(g[k], k)}
<1>7. 0 \in P
  <2>1. Well(bins, 0)
    BY <1>1, <1>2 DEF Spread
  <2> HIDE DEF Well
  <2> QED BY <1>4, <1>6, <2>1
<1>8. ASSUME NEW k \in 1..new, k - 1 \in P PROVE k \in P
  <2>1. PICK t : t = g[k - 1]
    OBVIOUS
  <2>2. Well(t, k - 1)
    <3> HIDE DEF Well
    <3> QED BY <1>8, <2>1
  <2>3. Spread(t, count, n) /\ Len(t) = count + (k - 1) /\ count <= Len(t) /\ Len(t) < n
    BY <1>2, <1>4, <2>2
  <2>4. Spread(MoveOne(t, source), count, n) /\ Len(MoveOne(t, source)) = Len(t) + 1
    BY ONLY <1>2, <1>5, <2>3, n \in Nat, MoveOneWell
  <2>5. g[k] = MoveOne(t, source) /\ k \in 0..new
    BY <1>4, <1>6, <2>1
  <2>6. Len(MoveOne(t, source)) = count + k
    BY <1>2, <2>3, <2>4
  <2>7. Well(g[k], k)
    BY <2>3, <2>4, <2>5, <2>6
  <2> HIDE DEF Well
  <2> QED BY <2>5, <2>7
<1>9. \A k \in 0..new : k \in P
  <2> HIDE DEF P
  <2> QED BY <1>4, <1>7, <1>8, StepByStep
<1>10. Well(g[new], new)
  <2> HIDE DEF Well
  <2> QED BY <1>4, <1>9
<1> QED BY <1>4, <1>6, <1>10 DEF Spread

-----------------------------------------------------------------------------
(* Sums of sums, and sums over what is dealt out in turn. *)

\* The numbers of a list are those of two others, added.
Adds(h, f, g, n) == n \in Nat /\ \A k \in 1..n : f[k] \in Int /\ g[k] \in Int /\ h[k] = f[k] + g[k]

\* So is its sum.
LEMMA SumAdd ==
  ASSUME NEW n, NEW f, NEW g, NEW h, Adds(h, f, g, n)
  PROVE  SumTo(h, n) = SumTo(f, n) + SumTo(g, n)
<1>1. n \in Nat /\ \A k \in 1..n : f[k] \in Int /\ g[k] \in Int /\ h[k] = f[k] + g[k]
  BY DEF Adds
<1>2. /\ SumTo(f, 0) = 0 /\ \A k \in 0..n : SumTo(f, k) \in Int
      /\ \A k \in 1..n : SumTo(f, k) = SumTo(f, k - 1) + f[k]
  <2>1. \A k \in 1..n : f[k] \in Int
    BY <1>1
  <2> QED BY ONLY <1>1, <2>1, SumRule
<1>3. /\ SumTo(g, 0) = 0 /\ \A k \in 0..n : SumTo(g, k) \in Int
      /\ \A k \in 1..n : SumTo(g, k) = SumTo(g, k - 1) + g[k]
  <2>1. \A k \in 1..n : g[k] \in Int
    BY <1>1
  <2> QED BY ONLY <1>1, <2>1, SumRule
<1>4. /\ SumTo(h, 0) = 0 /\ \A k \in 0..n : SumTo(h, k) \in Int
      /\ \A k \in 1..n : SumTo(h, k) = SumTo(h, k - 1) + h[k]
  <2>1. \A k \in 1..n : h[k] \in Int
    BY <1>1
  <2> QED BY ONLY <1>1, <2>1, SumRule
<1> DEFINE P == {k \in 0..n : SumTo(h, k) = SumTo(f, k) + SumTo(g, k)}
<1>5. 0 \in P
  BY <1>1, <1>2, <1>3, <1>4
<1>6. ASSUME NEW k \in 1..n, k - 1 \in P PROVE k \in P
  <2>1. SumTo(h, k - 1) = SumTo(f, k - 1) + SumTo(g, k - 1)
    BY <1>6
  <2>2. k - 1 \in 0..n /\ k \in 0..n
    BY <1>1
  <2> QED BY <1>1, <1>2, <1>3, <1>4, <2>1, <2>2
<1>7. \A k \in 0..n : k \in P
  <2> HIDE DEF P
  <2> QED BY <1>1, <1>5, <1>6, StepByStep
<1> QED BY <1>1, <1>7

\* Column c of a table with m rows.
Column(table, c, m) == [s \in 1..m |-> table[s][c]]

\* The sums of the rows of a table, and of its columns.
Totals(table, across, down, m, n) ==
  /\ m \in Nat /\ n \in Nat /\ \A s \in 1..m, c \in 1..n : table[s][c] \in Int
  /\ \A s \in 1..m : across[s] = SumTo(table[s], n)
  /\ \A c \in 1..n : down[c] = SumTo(Column(table, c, m), m)

\* They add up to the same.
LEMMA SumExchange ==
  ASSUME NEW m, NEW n, NEW table, NEW across, NEW down, Totals(table, across, down, m, n)
  PROVE  SumTo(across, m) = SumTo(down, n) /\ SumTo(across, m) \in Int
<1>1. m \in Nat /\ n \in Nat /\ \A s \in 1..m, c \in 1..n : table[s][c] \in Int
  BY DEF Totals
<1>2. /\ \A s \in 1..m : across[s] = SumTo(table[s], n)
      /\ \A c \in 1..n : down[c] = SumTo(Column(table, c, m), m)
  BY DEF Totals
<1> DEFINE Upto(k) == [s \in 1..m |-> SumTo(table[s], k)]
<1>3. ASSUME NEW s \in 1..m
      PROVE  /\ SumTo(table[s], 0) = 0 /\ \A k \in 0..n : SumTo(table[s], k) \in Int
             /\ \A k \in 1..n : SumTo(table[s], k) = SumTo(table[s], k - 1) + table[s][k]
  <2>1. PICK row : row = table[s]
    OBVIOUS
  <2>2. \A k \in 1..n : row[k] \in Int
    BY <1>1, <2>1
  <2>3. /\ SumTo(row, 0) = 0 /\ \A k \in 0..n : SumTo(row, k) \in Int
        /\ \A k \in 1..n : SumTo(row, k) = SumTo(row, k - 1) + row[k]
    BY ONLY <1>1, <2>2, SumRule
  <2> QED BY <2>1, <2>3
<1>4. ASSUME NEW c \in 1..n PROVE down[c] \in Int
  <2>1. PICK f : f = Column(table, c, m)
    OBVIOUS
  <2>2. \A k \in 1..m : f[k] \in Int
    BY <1>1, <2>1 DEF Column
  <2>3. \A k \in 0..m : SumTo(f, k) \in Int
    BY ONLY <1>1, <2>2, SumRule
  <2> QED BY <1>1, <1>2, <2>1, <2>3
<1>5. /\ SumTo(down, 0) = 0 /\ \A k \in 0..n : SumTo(down, k) \in Int
      /\ \A k \in 1..n : SumTo(down, k) = SumTo(down, k - 1) + down[k]
  BY ONLY <1>1, <1>4, SumRule
<1> DEFINE P == {k \in 0..n : SumTo(Upto(k), m) = SumTo(down, k)}
<1>6. 0 \in P
  <2>1. PICK f : f = Upto(0)
    OBVIOUS
  <2>2. \A s \in 1..m : f[s] = 0
    BY <1>3, <2>1
  <2>3. SumTo(f, m) = m * 0
    <3>1. 0 \in Nat
      OBVIOUS
    <3> QED BY ONLY <1>1, <2>2, <3>1, SumConstant
  <2>4. SumTo(Upto(0), m) = 0
    BY ONLY <1>1, <2>1, <2>3
  <2> QED BY <1>1, <1>5, <2>4
<1>7. ASSUME NEW k \in 1..n, k - 1 \in P PROVE k \in P
  <2>1. PICK h, f, g : h = Upto(k) /\ f = Upto(k - 1) /\ g = Column(table, k, m)
    OBVIOUS
  <2>2. k \in 0..n /\ k - 1 \in 0..n
    BY <1>1
  <2>3. Adds(h, f, g, m)
    BY <1>1, <1>3, <2>1, <2>2 DEF Adds, Column
  <2>4. SumTo(h, m) = SumTo(f, m) + SumTo(g, m)
    BY ONLY <2>3, SumAdd
  <2>5. SumTo(f, m) = SumTo(down, k - 1)
    BY <1>7, <2>1
  <2>6. SumTo(h, m) = SumTo(down, k)
    <3>1. down[k] = SumTo(g, m)
      BY <1>2, <2>1
    <3> QED BY <1>5, <2>2, <2>4, <2>5, <3>1
  <2> QED BY <2>1, <2>2, <2>6
<1>8. \A k \in 0..n : k \in P
  <2> HIDE DEF P
  <2> QED BY <1>1, <1>6, <1>7, StepByStep
<1>9. SumTo(Upto(n), m) = SumTo(down, n) /\ n \in 0..n
  BY <1>1, <1>8
<1>10. SumTo(across, m) = SumTo(Upto(n), m)
  <2>1. PICK f : f = Upto(n)
    OBVIOUS
  <2>2. \A k \in 1..m : f[k] \in Int /\ across[k] = f[k]
    BY <1>2, <1>3, <1>9, <2>1
  <2>3. SumTo(across, m) = SumTo(f, m)
    BY ONLY <1>1, <2>2, SumSame
  <2> QED BY <2>1, <2>3
<1> QED BY <1>5, <1>9, <1>10

\* Every shards-th number from the s-th on.
Strided(f, s, shards, m) == [k \in 1..m |-> f[s + (k - 1) * shards]]

\* The numbers dealt out to shards.
DealtOut(f, across, shards, m) ==
  /\ shards \in Nat \ {0} /\ m \in Nat /\ \A b \in 1..(m * shards) : f[b] \in Int
  /\ \A s \in 1..shards : across[s] = SumTo(Strided(f, s, shards, m), m)

\* Number s of block k.
LEMMA InBlock ==
  ASSUME NEW shards \in Nat \ {0}, NEW m \in Nat, NEW s \in 1..shards, NEW k \in 1..m
  PROVE  /\ s + (k - 1) * shards \in 1..(m * shards)
         /\ (k - 1) * shards + shards = k * shards /\ (k - 1) * shards \in Nat /\ k * shards <= m * shards
<1>1. PICK j \in Nat : j = k - 1
  OBVIOUS
<1>2. PICK i \in Nat : i = m - k
  OBVIOUS
<1>3. m = j + 1 + i /\ k = j + 1
  BY <1>1, <1>2
<1>4. j * shards \in Nat /\ i * shards \in Nat /\ (j + 1) * shards = j * shards + shards
  OBVIOUS
<1>5. (j + 1 + i) * shards = j * shards + shards + i * shards
  OBVIOUS
<1>6. PICK a \in Nat, b \in Nat : a = j * shards /\ b = i * shards
  BY <1>4
<1>7. m * shards = a + shards + b /\ (k - 1) * shards = a /\ k * shards = a + shards
  BY <1>1, <1>3, <1>4, <1>5, <1>6
<1> QED BY ONLY <1>6, <1>7, shards \in Nat \ {0}, s \in 1..shards

\* ... add up to all of them.
LEMMA SumStride ==
  ASSUME NEW f, NEW across, NEW shards, NEW m, DealtOut(f, across, shards, m)
  PROVE  SumTo(across, shards) = SumTo(f, m * shards) /\ SumTo(across, shards) \in Int
<1>1. shards \in Nat \ {0} /\ m \in Nat /\ (\A b \in 1..(m * shards) : f[b] \in Int) /\ m * shards \in Nat
  BY DEF DealtOut
<1>2. \A s \in 1..shards : across[s] = SumTo(Strided(f, s, shards, m), m)
  BY DEF DealtOut
<1> DEFINE table == [s \in 1..shards |-> Strided(f, s, shards, m)]
           down == [k \in 1..m |-> SumTo(Column(table, k, shards), shards)]
<1>3. ASSUME NEW s \in 1..shards, NEW k \in 1..m
      PROVE  table[s][k] = f[s + (k - 1) * shards] /\ table[s][k] \in Int
  <2>1. s + (k - 1) * shards \in 1..(m * shards)
    BY <1>1, InBlock
  <2> QED BY <1>1, <2>1 DEF Strided
<1>4. Totals(table, across, down, shards, m)
  BY <1>1, <1>2, <1>3 DEF Totals
<1>5. PICK d : d = down
  OBVIOUS
<1>6. SumTo(across, shards) = SumTo(d, m) /\ SumTo(across, shards) \in Int
  <2>1. PICK t : t = table
    OBVIOUS
  <2>2. Totals(t, across, d, shards, m)
    BY <1>4, <1>5, <2>1
  <2> HIDE DEF table, down
  <2> QED BY ONLY <2>2, SumExchange
<1>7. /\ SumTo(f, 0) = 0 /\ \A k \in 0..(m * shards) : SumTo(f, k) \in Int
  BY <1>1, SumRule
<1>8. ASSUME NEW k \in 1..m PROVE d[k] \in Int /\ SumTo(f, k * shards) = SumTo(f, (k - 1) * shards) + d[k]
  <2>1. PICK g, from : g = Column(table, k, shards) /\ from = (k - 1) * shards
    OBVIOUS
  <2>2. d[k] = SumTo(g, shards)
    BY <1>5, <2>1
  <2>3. from \in Nat /\ from + shards = k * shards /\ k * shards <= m * shards /\ k * shards \in Nat
    BY <1>1, <2>1, InBlock
  <2>4. \A b \in 1..from : f[b] \in Int
    BY <1>1, <2>3
  <2>5. \A s \in 1..shards : g[s] \in Int /\ f[from + s] = g[s]
    <3>1. ASSUME NEW s \in 1..shards PROVE g[s] \in Int /\ f[from + s] = g[s]
      <4>1. g[s] = table[s][k]
        BY <2>1 DEF Column
      <4>2. s + from = from + s
        BY <1>1, <2>3
      <4>3. table[s][k] = f[s + from] /\ table[s][k] \in Int
        BY <1>3, <2>1
      <4> QED BY <4>1, <4>2, <4>3
    <3> QED BY <3>1
  <2>6. Joins(f, f, from, g, shards)
    BY <1>1, <2>3, <2>4, <2>5 DEF Joins
  <2>7. SumTo(f, from + shards) = SumTo(f, from) + SumTo(g, shards)
    BY ONLY <2>6, SumJoined
  <2>8. SumTo(g, shards) \in Int
    <3>1. \A i \in 1..shards : g[i] \in Int
      BY <2>5
    <3>2. \A i \in 0..shards : SumTo(g, i) \in Int
      BY ONLY <1>1, <3>1, SumRule
    <3> QED BY <1>1, <3>2
  <2> QED BY <2>1, <2>2, <2>3, <2>7, <2>8
<1>9. /\ SumTo(d, 0) = 0 /\ \A k \in 1..m : SumTo(d, k) = SumTo(d, k - 1) + d[k]
  <2>1. \A k \in 1..m : d[k] \in Int
    BY <1>8
  <2> QED BY ONLY <1>1, <2>1, SumRule
<1> DEFINE P == {k \in 0..m : SumTo(d, k) = SumTo(f, k * shards)}
<1>10. 0 \in P
  <2>1. 0 * shards = 0 /\ 0 \in 0..m
    BY <1>1
  <2> QED BY <1>7, <1>9, <2>1
<1>11. ASSUME NEW k \in 1..m, k - 1 \in P PROVE k \in P
  <2>1. SumTo(d, k - 1) = SumTo(f, (k - 1) * shards) /\ k \in 0..m
    BY <1>1, <1>11
  <2> QED BY <1>8, <1>9, <2>1
<1>12. \A k \in 0..m : k \in P
  <2> HIDE DEF P
  <2> QED BY <1>1, <1>10, <1>11, StepByStep
<1>13. SumTo(d, m) = SumTo(f, m * shards)
  BY <1>1, <1>12
<1> QED BY <1>6, <1>13

-----------------------------------------------------------------------------
(* What is in bins that are put end to end. *)

\* The bins of several lists of bins.
LEMMA FlattenContents ==
  ASSUME NEW I, NEW lists, IsSeq(lists), \A i \in 1..Len(lists) : lists[i] \in Seq(Seq(I)),
         NEW sums, \A i \in 1..Len(lists) : sums[i] = Content(lists[i])
  PROVE  FlattenSeq(lists) \in Seq(Seq(I)) /\ Content(FlattenSeq(lists)) = SumTo(sums, Len(lists))
<1>1. Len(lists) \in Nat /\ lists = [i \in 1..Len(lists) |-> lists[i]]
  BY DEF IsSeq
<1>2. \A i \in 1..Len(lists) : sums[i] \in Int
  <2>1. ASSUME NEW i \in 1..Len(lists) PROVE sums[i] \in Int
    <3>1. PICK bins : bins = lists[i]
      OBVIOUS
    <3>2. bins \in Seq(Seq(I))
      BY <3>1
    <3>3. Content(bins) \in Nat
      BY ONLY <3>2, ContentNat
    <3> QED BY <3>1, <3>3
  <2> QED BY <2>1
<1>3. /\ SumTo(sums, 0) = 0
      /\ \A k \in 1..Len(lists) : SumTo(sums, k) = SumTo(sums, k - 1) + sums[k]
  BY ONLY <1>1, <1>2, SumRule
<1>4. CASE Len(lists) = 0
  <2>1. lists = <<>>
    BY <1>1, <1>4
  <2>2. FlattenSeq(lists) = <<>>
    BY <2>1, <1>4 DEF FlattenSeq
  <2>3. <<>> \in Seq(Seq(I))
    OBVIOUS
  <2> QED BY <1>3, <1>4, <2>2, <2>3, ContentNone
<1>5. CASE Len(lists) > 0
  <2>1. PICK f : IsFlattening(f, lists, Len(lists)) /\ FlattenSeq(lists) = f[Len(lists)]
    BY <1>1, <1>5, FlattenRule
  <2> DEFINE P == {k \in 0..Len(lists) : k > 0 => f[k] \in Seq(Seq(I)) /\ Content(f[k]) = SumTo(sums, k)}
  <2>2. 0 \in P
    BY <1>1
  <2>3. ASSUME NEW k \in 1..Len(lists), k - 1 \in P PROVE k \in P
    <3>1. f[k] = IF k = 1 THEN lists[k] ELSE f[k - 1] \o lists[k]
      <4>1. PICK n : n = Len(lists)
        OBVIOUS
      <4>2. n \in Nat /\ IsFlattening(f, lists, n) /\ k \in 1..n
        BY <1>1, <2>1, <4>1
      <4> QED BY ONLY <4>2, FlattenStep
    <3>2. SumTo(sums, k) = SumTo(sums, k - 1) + Content(lists[k]) /\ k \in 0..Len(lists)
      BY <1>1, <1>3
    <3>3. PICK bins : bins = lists[k]
      OBVIOUS
    <3>4. bins \in Seq(Seq(I))
      BY <3>3
    <3>5. Content(bins) \in Nat
      BY ONLY <3>4, ContentNat
    <3>6. CASE k = 1
      BY <1>3, <3>1, <3>2, <3>3, <3>4, <3>5, <3>6
    <3>7. CASE k # 1
      <4>1. PICK before : before = f[k - 1]
        OBVIOUS
      <4>2. before \in Seq(Seq(I)) /\ Content(before) = SumTo(sums, k - 1)
        BY <2>3, <3>7, <4>1
      <4>3. before \o bins \in Seq(Seq(I)) /\ Content(before \o bins) = Content(before) + Content(bins)
        BY ONLY <3>4, <4>2, ContentJoined
      <4> QED BY <3>1, <3>2, <3>3, <3>7, <4>1, <4>2, <4>3
    <3> QED BY <3>6, <3>7
  <2>4. \A k \in 0..Len(lists) : k \in P
    <3> HIDE DEF P
    <3> QED BY <1>1, <2>2, <2>3, StepByStep
  <2> QED BY <1>1, <1>5, <2>1, <2>4
<1> QED BY <1>1, <1>4, <1>5

\* Lists laid end to end.
LEMMA FlattenSum ==
  ASSUME NEW s, IsSeq(s), \A i \in 1..Len(s) : IsSeq(s[i])
  PROVE  IsSeq(FlattenSeq(s)) /\ Len(FlattenSeq(s)) = Content(s)
<1>1. Len(s) \in Nat /\ s = [i \in 1..Len(s) |-> s[i]] /\ \A i \in 1..Len(s) : Len(s[i]) \in Nat
  BY DEF IsSeq
<1>2. PICK sums : sums = BinSizes(s)
  OBVIOUS
<1>3. \A i \in 1..Len(s) : sums[i] = Len(s[i]) /\ sums[i] \in Int
  BY <1>1, <1>2 DEF BinSizes
<1>4. /\ SumTo(sums, 0) = 0
      /\ \A k \in 1..Len(s) : SumTo(sums, k) = SumTo(sums, k - 1) + sums[k]
  BY ONLY <1>1, <1>3, SumRule
<1>5. CASE Len(s) = 0
  <2>1. s = <<>>
    BY <1>1, <1>5
  <2>2. FlattenSeq(s) = <<>>
    BY <2>1, <1>5 DEF FlattenSeq
  <2> QED BY <1>2, <1>4, <1>5, <2>1, <2>2, EmptyIsSeq, ContentNone
<1>6. CASE Len(s) > 0
  <2>1. PICK f : IsFlattening(f, s, Len(s)) /\ FlattenSeq(s) = f[Len(s)]
    BY <1>1, <1>6, FlattenRule
  <2> DEFINE P == {k \in 0..Len(s) : k > 0 => IsSeq(f[k]) /\ Len(f[k]) = SumTo(sums, k)}
  <2>2. 0 \in P
    BY <1>1
  <2>3. ASSUME NEW k \in 1..Len(s), k - 1 \in P PROVE k \in P
    <3>1. f[k] = IF k = 1 THEN s[k] ELSE f[k - 1] \o s[k]
      <4>1. PICK n : n = Len(s)
        OBVIOUS
      <4>2. n \in Nat /\ IsFlattening(f, s, n) /\ k \in 1..n
        BY <1>1, <2>1, <4>1
      <4> QED BY ONLY <4>2, FlattenStep
    <3>2. SumTo(sums, k) = SumTo(sums, k - 1) + Len(s[k]) /\ k \in 0..Len(s)
      BY <1>1, <1>3, <1>4
    <3>3. PICK list : list = s[k]
      OBVIOUS
    <3>4. IsSeq(list) /\ Len(list) \in Nat
      BY <1>1, <3>3
    <3>5. CASE k = 1
      BY <1>4, <3>1, <3>2, <3>3, <3>4, <3>5
    <3>6. CASE k # 1
      <4>1. PICK before : before = f[k - 1]
        OBVIOUS
      <4>2. IsSeq(before) /\ Len(before) = SumTo(sums, k - 1)
        BY <2>3, <3>6, <4>1
      <4>3. IsSeq(before \o list) /\ Len(before \o list) = Len(before) + Len(list)
        BY ONLY <3>4, <4>2, ConcatSeq
      <4> QED BY <3>1, <3>2, <3>3, <3>6, <4>1, <4>2, <4>3
    <3> QED BY <3>5, <3>6
  <2>4. \A k \in 0..Len(s) : k \in P
    <3> HIDE DEF P
    <3> QED BY <1>1, <2>2, <2>3, StepByStep
  <2>5. IsSeq(f[Len(s)]) /\ Len(f[Len(s)]) = SumTo(sums, Len(s))
    BY <1>1, <1>6, <2>4
  <2> QED BY <1>2, <2>1, <2>5 DEF Content
<1> QED BY <1>1, <1>5, <1>6

-----------------------------------------------------------------------------
(* What pack returns. *)

\* Every order of a finite set lists it.
LEMMA OrdersAreLists ==
  ASSUME NEW S, IsFiniteSet(S), NEW order \in SetToSeqs(S)
  PROVE  IsListOf(order, S)
<1>1. PICK n : n = Cardinality(S)
  OBVIOUS
<1>2. n \in Nat
  BY <1>1, FS_CardinalityType
<1>3. PICK D : D = 1..n
  OBVIOUS
<1>4. order \in [D -> S] /\ \A i, j \in D : i # j => order[i] # order[j]
  BY <1>1, <1>3 DEF SetToSeqs
<1>5. order \in Injection(D, S)
  BY <1>4 DEF Injection, IsInjective
<1>6. IsFiniteSet(D) /\ Cardinality(D) = n
  BY <1>2, <1>3, FS_Interval
<1>7. order \in Surjection(D, S)
  BY ONLY <1>1, <1>5, <1>6, IsFiniteSet(S), FS_Injection
<1>8. \A x \in S : \E k \in D : order[k] = x
  BY <1>4, <1>7 DEF Surjection
<1>9. order \in Seq(S) /\ Len(order) = n
  BY <1>2, <1>3, <1>4
<1> QED BY <1>3, <1>4, <1>8, <1>9 DEF IsListOf

\* All of n sequences are in bins, as many as the shards can share.
Shared(bins, n, shards) ==
  bins \in Seq(Seq(1..n)) /\ Content(bins) = n /\ \E m \in Nat \ {0} : Len(bins) = m * shards

\* Each of the packers puts as many sequences into bins as there are.
LEMMA ImplementationsPack ==
  ASSUME NEW n, n \in Nat, NEW lengths, IsSeq(lengths), Len(lengths) = n, NEW capacity,
         NEW algorithm \in Algorithms, NEW bins \in Implementations(algorithm, lengths, capacity)
  PROVE  bins \in Seq(Seq(1..n)) /\ Content(bins) = n
<1>1. DOMAIN lengths = 1..n
  BY DEF IsSeq
<1>2. PICK I : I = 1..n
  OBVIOUS
<1>3. IsFiniteSet(I)
  BY <1>2, FS_Interval
<1>4. CASE algorithm = "concatenative"
  <2>1. bins = Concatenative(lengths, capacity)
    BY <1>4 DEF Implementations
  <2> QED BY <2>1, ConcatenativePacks
<1>5. CASE algorithm = "first_fit_decreasing"
  <2>1. bins = FirstFit(DecreasingOrder(lengths), lengths, capacity)
    BY <1>5 DEF Implementations, FirstFitDecreasing
  <2>2. PICK before : before = {p \in PairsOf(lengths) : lengths[p[1]] > lengths[p[2]]}
    OBVIOUS
  <2>3. IsListOf(SortedBy(I, n, before), I)
    <3>1. I \subseteq 1..n
      BY <1>2
    <3> QED BY ONLY <3>1, n \in Nat, SortedIsList
  <2>4. PICK order : order = DecreasingOrder(lengths)
    OBVIOUS
  <2>5. IsListOf(order, 1..n)
    BY <1>1, <1>2, <2>2, <2>3, <2>4 DEF DecreasingOrder
  <2>6. FirstFit(order, lengths, capacity) \in Seq(Seq(1..n)) /\ Content(FirstFit(order, lengths, capacity)) = n
    BY ONLY <2>5, n \in Nat, FirstFitPacks
  <2> QED BY <2>1, <2>4, <2>6
<1>6. CASE algorithm = "first_fit_shuffle"
  <2>1. PICK order \in SetToSeqs(DOMAIN lengths) : bins = FirstFit(order, lengths, capacity)
    BY <1>6 DEF Implementations, FirstFitShuffle
  <2>2. order \in SetToSeqs(I)
    BY <1>1, <1>2, <2>1
  <2>3. IsListOf(order, I)
    BY ONLY <1>3, <2>2, OrdersAreLists
  <2>4. IsListOf(order, 1..n)
    BY <1>2, <2>3
  <2>5. FirstFit(order, lengths, capacity) \in Seq(Seq(1..n)) /\ Content(FirstFit(order, lengths, capacity)) = n
    BY ONLY <2>4, n \in Nat, FirstFitPacks
  <2> QED BY <2>1, <2>5
<1>7. CASE algorithm = "modified_first_fit_decreasing"
  <2>1. bins \in ModifiedFirstFitDecreasing(lengths, capacity)
    BY <1>7 DEF Implementations
  <2> QED BY <2>1, ModifiedPacks
<1> QED BY <1>4, <1>5, <1>6, <1>7 DEF Algorithms

\* What pack() returns the shards can share: as many sequences as there were, in a
\* multiple of the number of shards of bins.
THEOREM PackingsShared ==
  ASSUME NEW n, n \in Nat \ {0}, NEW padded, IsSeq(padded), Len(padded) = n, NEW capacity,
         NEW algorithm \in Algorithms, NEW shards \in Nat \ {0}, NEW bins \in Packings(algorithm, padded, capacity, shards)
  PROVE  Shared(bins, n, shards)
<1>1. PICK b \in Implementations(algorithm, padded, capacity) :
         TargetBinCount(Len(b), shards) <= n /\ bins = AdjustBinCount(b, shards)
  BY DEF Packings, Adjusted
<1>2. n \in Nat
  OBVIOUS
<1>3. b \in Seq(Seq(1..n)) /\ Content(b) = n
  <2>1. b \in Implementations(algorithm, padded, capacity)
    OBVIOUS
  <2> QED BY ONLY <1>2, <2>1, IsSeq(padded), Len(padded) = n, algorithm \in Algorithms, ImplementationsPack
<1>4. /\ AdjustBinCount(b, shards) \in Seq(Seq(1..n)) /\ Content(AdjustBinCount(b, shards)) = n
      /\ \E m \in Nat : Len(AdjustBinCount(b, shards)) = m * shards
  BY ONLY <1>1, <1>2, <1>3, shards \in Nat \ {0}, AdjustedWell
<1>5. PICK m \in Nat : Len(bins) = m * shards
  BY <1>1, <1>4
<1>6. m # 0
  <2>1. SUFFICES ASSUME m = 0 PROVE FALSE
    OBVIOUS
  <2>2. bins \in Seq(Seq(1..n)) /\ Content(bins) = n
    BY <1>1, <1>4
  <2>3. Len(bins) = 0
    BY <1>5, <2>1
  <2>4. bins = <<>>
    BY <2>2, <2>3
  <2> QED BY <2>2, <2>4, ContentNone
<1> QED BY <1>1, <1>4, <1>5, <1>6 DEF Shared

-----------------------------------------------------------------------------
(* The dynamic batches as folds. *)

\* The steps of it.
ChosenStepwise(g, sets, n) ==
              /\ g[0] = {<<>>} /\ OneOfEach(sets) = g[n]
              /\ \A k \in 1..n : g[k] = OneMore(g[k - 1], sets[k])

\* OneOfEach, step by step.
LEMMA OneOfEachSteps ==
  ASSUME NEW sets,
         NEW n, n \in Nat,
         IsSeq(sets),
         Len(sets) = n
  PROVE  \E g : ChosenStepwise(g, sets, n)
<1> DEFINE Rule(it, m) == it = [s \in SUBSET (1..m) |->
                                  IF s = {} THEN {<<>>} ELSE OneMore(it[s \ {Max(s)}], sets[Max(s)])]
           Chosen(it) == it = [s \in SUBSET (1..n) |->
                                 IF s = {} THEN {<<>>} ELSE OneMore(it[s \ {Max(s)}], sets[Max(s)])]
           it == CHOOSE it : Chosen(it)
           S == {k \in Nat : \E f : Rule(f, k)}
<1>1. n \in Nat /\ DOMAIN sets = 1..n /\ \A k \in 1..n : k = k
  BY DEF IsSeq
<1>2. 0 \in S
  <2> DEFINE f == [s \in SUBSET (1..0) |-> {<<>>}]
  <2>1. \A s \in SUBSET (1..0) : s = {}
    OBVIOUS
  <2>2. Rule(f, 0)
    BY <2>1
  <2> QED BY <2>2
<1>3. ASSUME NEW k \in Nat, k \in S PROVE k + 1 \in S
  <2>1. PICK f : Rule(f, k)
    BY <1>3
  <2> DEFINE h == [s \in SUBSET (1..(k + 1)) |-> IF k + 1 \in s THEN OneMore(f[s \ {k + 1}], sets[(k + 1)]) ELSE f[s]]
  <2>2. ASSUME NEW s \in SUBSET (1..(k + 1))
        PROVE  h[s] = IF s = {} THEN {<<>>} ELSE OneMore(h[s \ {Max(s)}], sets[Max(s)])
    <3>1. s # {} => Max(s) \in s /\ \A x \in s : x <= Max(s)
      <4>1. k + 1 \in Nat
        OBVIOUS
      <4> QED BY ONLY <4>1, s \in SUBSET (1..(k + 1)), LargestIn
    <3>2. CASE k + 1 \in s
      <4>1. s \ {k + 1} \in SUBSET (1..k) /\ s \ {k + 1} \in SUBSET (1..(k + 1)) /\ s # {} /\ k + 1 \notin s \ {k + 1}
        BY ONLY <3>2, k \in Nat, s \in SUBSET (1..(k + 1))
      <4>2. Max(s) = k + 1
        <5>1. Max(s) \in 1..(k + 1) /\ k + 1 <= Max(s)
          BY ONLY <3>1, <3>2, <4>1, s \in SUBSET (1..(k + 1))
        <5> QED BY ONLY <5>1, k \in Nat
      <4>3. h[s \ {k + 1}] = f[s \ {k + 1}]
        BY <4>1
      <4>4. h[s] = OneMore(f[s \ {k + 1}], sets[(k + 1)])
        BY <3>2
      <4> HIDE DEF h
      <4> QED BY ONLY <4>1, <4>2, <4>3, <4>4
    <3>3. CASE k + 1 \notin s
      <4>1. s \in SUBSET (1..k)
        BY <3>3
      <4>2. h[s] = f[s]
        BY <3>3
      <4>3. f[s] = IF s = {} THEN {<<>>} ELSE OneMore(f[s \ {Max(s)}], sets[Max(s)])
        BY <2>1, <4>1
      <4>4. s # {} => s \ {Max(s)} \in SUBSET (1..(k + 1)) /\ k + 1 \notin s \ {Max(s)}
        BY <3>3
      <4>5. s # {} => h[s \ {Max(s)}] = f[s \ {Max(s)}]
        BY <4>4
      <4> HIDE DEF h
      <4> QED BY ONLY <4>2, <4>3, <4>5
    <3> QED BY <3>2, <3>3
  <2>3. h = [s \in SUBSET (1..(k + 1)) |-> h[s]]
    OBVIOUS
  <2> HIDE DEF h
  <2>4. Rule(h, k + 1)
    BY <2>2, <2>3
  <2> HIDE DEF Rule
  <2> QED BY <2>4
<1>4. PICK f : Rule(f, n)
  <2>1. \A k \in Nat : k \in S
    <3> HIDE DEF S
    <3> QED BY <1>2, <1>3, Induction
  <2> QED BY <1>1, <2>1
<1>5. \A s \in SUBSET (1..n) : s # {} => Max(s) \in 1..n
  BY <1>1, LargestIn
<1>6. Chosen(f)
  <2>1. \A s \in SUBSET (1..n) : s # {} => Max(s) = Max(s)
    BY <1>1, <1>5
  <2>2. \A s \in SUBSET (1..n) : f[s] = IF s = {} THEN {<<>>} ELSE OneMore(f[s \ {Max(s)}], sets[Max(s)])
    BY <1>4, <2>1
  <2>3. f = [s \in SUBSET (1..n) |-> f[s]]
    BY <1>4
  <2> QED BY <2>2, <2>3
<1>7. Chosen(it)
  BY <1>6
<1>8. OneOfEach(sets) = it[1..n]
  BY <1>1 DEF OneOfEach, FoldLeft, MapThenFoldSet
<1> HIDE DEF it
<1> DEFINE g == [k \in 0..n |-> it[1..k]]
<1>9. g[0] = {<<>>} /\ g[n] = it[1..n]
  <2>1. 1..0 = {} /\ 0 \in 0..n /\ n \in 0..n
    BY <1>1
  <2> QED BY <1>7, <2>1
<1>10. ASSUME NEW k \in 1..n PROVE g[k] = OneMore(g[k - 1], sets[k])
  <2>1. 1..k \in SUBSET (1..n) /\ 1..k # {} /\ Max(1..k) = k /\ (1..k) \ {k} = 1..(k - 1)
    BY ONLY <1>1, k \in 1..n, FirstNumbers
  <2>2. it[1..k] = OneMore(it[(1..k) \ {Max(1..k)}], sets[Max(1..k)])
    BY <1>7, <2>1
  <2>3. it[1..k] = OneMore(it[1..(k - 1)], sets[k])
    BY <1>1, <2>1, <2>2
  <2>4. k \in 0..n /\ k - 1 \in 0..n
    BY <1>1
  <2> QED BY <2>3, <2>4
<1> HIDE DEF g
<1> QED BY <1>8, <1>9, <1>10 DEF ChosenStepwise

\* The steps of it.
GrownStepwise(g, sharding, s0, c, local, lengths, args) ==
              /\ g[0] = [mbs |-> <<>>, longest |-> 0] /\ DynamicMicrobatches(sharding, s0, c, local, lengths, args) = g[local].mbs
              /\ \A k \in 1..local : g[k] = Grow(g[k - 1], k, RankLength(sharding, s0, (c - 1) * local + k, lengths, args.round, args.width), args.maxTokens)

\* DynamicMicrobatches, step by step.
LEMMA GrowSteps ==
  ASSUME NEW sharding,
         NEW s0,
         NEW c,
         NEW local, local \in Nat,
         NEW lengths,
         NEW args
  PROVE  \E g : GrownStepwise(g, sharding, s0, c, local, lengths, args)
<1> DEFINE Rule(it, m) == it = [s \in SUBSET (1..m) |->
                                  IF s = {} THEN [mbs |-> <<>>, longest |-> 0] ELSE Grow(it[s \ {Max(s)}], Max(s), RankLength(sharding, s0, (c - 1) * local + Max(s), lengths, args.round, args.width), args.maxTokens)]
           Chosen(it) == it = [s \in SUBSET (1..local) |->
                                 IF s = {} THEN [mbs |-> <<>>, longest |-> 0] ELSE Grow(it[s \ {Max(s)}], Span(1, local)[Max(s)], RankLength(sharding, s0, (c - 1) * local + Span(1, local)[Max(s)], lengths, args.round, args.width), args.maxTokens)]
           it == CHOOSE it : Chosen(it)
           S == {k \in Nat : \E f : Rule(f, k)}
<1>1. local \in Nat /\ DOMAIN Span(1, local) = 1..local /\ \A k \in 1..local : Span(1, local)[k] = k
  BY DEF Span
<1>2. 0 \in S
  <2> DEFINE f == [s \in SUBSET (1..0) |-> [mbs |-> <<>>, longest |-> 0]]
  <2>1. \A s \in SUBSET (1..0) : s = {}
    OBVIOUS
  <2>2. Rule(f, 0)
    BY <2>1
  <2> QED BY <2>2
<1>3. ASSUME NEW k \in Nat, k \in S PROVE k + 1 \in S
  <2>1. PICK f : Rule(f, k)
    BY <1>3
  <2> DEFINE h == [s \in SUBSET (1..(k + 1)) |-> IF k + 1 \in s THEN Grow(f[s \ {k + 1}], (k + 1), RankLength(sharding, s0, (c - 1) * local + (k + 1), lengths, args.round, args.width), args.maxTokens) ELSE f[s]]
  <2>2. ASSUME NEW s \in SUBSET (1..(k + 1))
        PROVE  h[s] = IF s = {} THEN [mbs |-> <<>>, longest |-> 0] ELSE Grow(h[s \ {Max(s)}], Max(s), RankLength(sharding, s0, (c - 1) * local + Max(s), lengths, args.round, args.width), args.maxTokens)
    <3>1. s # {} => Max(s) \in s /\ \A x \in s : x <= Max(s)
      <4>1. k + 1 \in Nat
        OBVIOUS
      <4> QED BY ONLY <4>1, s \in SUBSET (1..(k + 1)), LargestIn
    <3>2. CASE k + 1 \in s
      <4>1. s \ {k + 1} \in SUBSET (1..k) /\ s \ {k + 1} \in SUBSET (1..(k + 1)) /\ s # {} /\ k + 1 \notin s \ {k + 1}
        BY ONLY <3>2, k \in Nat, s \in SUBSET (1..(k + 1))
      <4>2. Max(s) = k + 1
        <5>1. Max(s) \in 1..(k + 1) /\ k + 1 <= Max(s)
          BY ONLY <3>1, <3>2, <4>1, s \in SUBSET (1..(k + 1))
        <5> QED BY ONLY <5>1, k \in Nat
      <4>3. h[s \ {k + 1}] = f[s \ {k + 1}]
        BY <4>1
      <4>4. h[s] = Grow(f[s \ {k + 1}], (k + 1), RankLength(sharding, s0, (c - 1) * local + (k + 1), lengths, args.round, args.width), args.maxTokens)
        BY <3>2
      <4> HIDE DEF h
      <4> QED BY ONLY <4>1, <4>2, <4>3, <4>4
    <3>3. CASE k + 1 \notin s
      <4>1. s \in SUBSET (1..k)
        BY <3>3
      <4>2. h[s] = f[s]
        BY <3>3
      <4>3. f[s] = IF s = {} THEN [mbs |-> <<>>, longest |-> 0] ELSE Grow(f[s \ {Max(s)}], Max(s), RankLength(sharding, s0, (c - 1) * local + Max(s), lengths, args.round, args.width), args.maxTokens)
        BY <2>1, <4>1
      <4>4. s # {} => s \ {Max(s)} \in SUBSET (1..(k + 1)) /\ k + 1 \notin s \ {Max(s)}
        BY <3>3
      <4>5. s # {} => h[s \ {Max(s)}] = f[s \ {Max(s)}]
        BY <4>4
      <4> HIDE DEF h
      <4> QED BY ONLY <4>2, <4>3, <4>5
    <3> QED BY <3>2, <3>3
  <2>3. h = [s \in SUBSET (1..(k + 1)) |-> h[s]]
    OBVIOUS
  <2> HIDE DEF h
  <2>4. Rule(h, k + 1)
    BY <2>2, <2>3
  <2> HIDE DEF Rule
  <2> QED BY <2>4
<1>4. PICK f : Rule(f, local)
  <2>1. \A k \in Nat : k \in S
    <3> HIDE DEF S
    <3> QED BY <1>2, <1>3, Induction
  <2> QED BY <1>1, <2>1
<1>5. \A s \in SUBSET (1..local) : s # {} => Max(s) \in 1..local
  BY <1>1, LargestIn
<1>6. Chosen(f)
  <2>1. \A s \in SUBSET (1..local) : s # {} => Span(1, local)[Max(s)] = Max(s)
    BY <1>1, <1>5
  <2>2. \A s \in SUBSET (1..local) : f[s] = IF s = {} THEN [mbs |-> <<>>, longest |-> 0] ELSE Grow(f[s \ {Max(s)}], Span(1, local)[Max(s)], RankLength(sharding, s0, (c - 1) * local + Span(1, local)[Max(s)], lengths, args.round, args.width), args.maxTokens)
    BY <1>4, <2>1
  <2>3. f = [s \in SUBSET (1..local) |-> f[s]]
    BY <1>4
  <2> QED BY <2>2, <2>3
<1>7. Chosen(it)
  BY <1>6
<1>8. DynamicMicrobatches(sharding, s0, c, local, lengths, args) = it[1..local].mbs
  BY <1>1 DEF DynamicMicrobatches, FoldLeft, MapThenFoldSet
<1> HIDE DEF it
<1> DEFINE g == [k \in 0..local |-> it[1..k]]
<1>9. g[0] = [mbs |-> <<>>, longest |-> 0] /\ g[local] = it[1..local]
  <2>1. 1..0 = {} /\ 0 \in 0..local /\ local \in 0..local
    BY <1>1
  <2> QED BY <1>7, <2>1
<1>10. ASSUME NEW k \in 1..local PROVE g[k] = Grow(g[k - 1], k, RankLength(sharding, s0, (c - 1) * local + k, lengths, args.round, args.width), args.maxTokens)
  <2>1. 1..k \in SUBSET (1..local) /\ 1..k # {} /\ Max(1..k) = k /\ (1..k) \ {k} = 1..(k - 1)
    BY ONLY <1>1, k \in 1..local, FirstNumbers
  <2>2. it[1..k] = Grow(it[(1..k) \ {Max(1..k)}], Span(1, local)[Max(1..k)], RankLength(sharding, s0, (c - 1) * local + Span(1, local)[Max(1..k)], lengths, args.round, args.width), args.maxTokens)
    BY <1>7, <2>1
  <2>3. it[1..k] = Grow(it[1..(k - 1)], k, RankLength(sharding, s0, (c - 1) * local + k, lengths, args.round, args.width), args.maxTokens)
    BY <1>1, <2>1, <2>2
  <2>4. k \in 0..local /\ k - 1 \in 0..local
    BY <1>1
  <2> QED BY <2>3, <2>4
<1> HIDE DEF g
<1> QED BY <1>8, <1>9, <1>10 DEF GrownStepwise

\* OneOfEach takes an element of each set.
LEMMA OneOfEachTakes ==
  ASSUME NEW sets, NEW n, n \in Nat, IsSeq(sets), Len(sets) = n, NEW chosen \in OneOfEach(sets)
  PROVE  IsSeq(chosen) /\ Len(chosen) = n /\ \A k \in 1..n : chosen[k] \in sets[k]
<1>1. PICK g : /\ g[0] = {<<>>} /\ OneOfEach(sets) = g[n] /\ \A k \in 1..n : g[k] = OneMore(g[k - 1], sets[k])
  <2>1. PICK g : ChosenStepwise(g, sets, n)
    BY OneOfEachSteps
  <2> QED BY <2>1 DEF ChosenStepwise
<1> DEFINE Takes(c, k) == IsSeq(c) /\ Len(c) = k /\ \A i \in 1..k : c[i] \in sets[i]
           P == {k \in 0..n : \A c \in g[k] : Takes(c, k)}
<1>2. 0 \in P
  <2>1. Takes(<<>>, 0)
    BY EmptyIsSeq
  <2> HIDE DEF Takes
  <2> QED BY <1>1, <2>1
<1>3. ASSUME NEW k \in 1..n, k - 1 \in P PROVE k \in P
  <2>1. ASSUME NEW c \in g[k] PROVE Takes(c, k)
    <3>1. PICK d \in g[k - 1], x \in sets[k] : c = Append(d, x)
      BY <1>1, <2>1 DEF OneMore
    <3>2. Takes(d, k - 1)
      <4> HIDE DEF Takes
      <4> QED BY <1>3, <3>1
    <3>3. IsSeq(d) /\ Len(d) = k - 1 /\ \A i \in 1..(k - 1) : d[i] \in sets[i]
      BY <3>2
    <3>4. c = d \o <<x>>
      BY <3>1, <3>3 DEF IsSeq
    <3>5. IsSeq(<<x>>) /\ Len(<<x>>) = 1 /\ <<x>>[1] = x
      BY SingleIsSeq
    <3>6. PICK e : e = <<x>>
      OBVIOUS
    <3>7. IsSeq(e) /\ Len(e) = 1 /\ e[1] = x
      BY <3>5, <3>6
    <3>8. /\ IsSeq(d \o e) /\ Len(d \o e) = Len(d) + Len(e)
          /\ \A i \in 1..Len(d) : (d \o e)[i] = d[i]
          /\ \A i \in 1..Len(e) : (d \o e)[Len(d) + i] = e[i]
      <4>1. IsSeq(d) /\ IsSeq(e)
        BY <3>3, <3>7
      <4> QED BY ONLY <4>1, ConcatSeq
    <3>9. c = d \o e
      BY <3>4, <3>6
    <3>10. IsSeq(c) /\ Len(c) = k
      BY <3>3, <3>7, <3>8, <3>9
    <3>11. \A i \in 1..(k - 1) : c[i] \in sets[i]
      BY <3>3, <3>8, <3>9
    <3>12. c[k] = x
      <4>1. 1 \in 1..Len(e) /\ Len(d) + 1 = k
        BY <3>3, <3>7
      <4> QED BY <3>7, <3>8, <3>9, <4>1
    <3>13. \A i \in 1..k : c[i] \in sets[i]
      <4>1. ASSUME NEW i \in 1..k PROVE c[i] \in sets[i]
        <5>1. CASE i = k
          BY <3>1, <3>12, <5>1
        <5>2. CASE i # k
          <6>1. i \in 1..(k - 1)
            BY <5>2
          <6> QED BY <3>11, <6>1
        <5> QED BY <5>1, <5>2
      <4> QED BY <4>1
    <3> QED BY <3>10, <3>13
  <2> HIDE DEF Takes
  <2> QED BY <2>1
<1>4. \A k \in 0..n : k \in P
  <2> HIDE DEF P
  <2> QED BY <1>2, <1>3, StepByStep
<1>5. Takes(chosen, n)
  <2> HIDE DEF Takes
  <2> QED BY <1>1, <1>4
<1> QED BY <1>5

\* A microbatch more or none.
LEMMA GrowIsSeq ==
  ASSUME NEW done, IsSeq(done.mbs), NEW k, NEW len, NEW maxTokens
  PROVE  IsSeq(Grow(done, k, len, maxTokens).mbs)
<1>1. PICK mbs, longest : mbs = done.mbs /\ longest = Max({done.longest, len})
  OBVIOUS
<1>2. IsSeq(mbs) /\ Len(mbs) \in Nat
  BY <1>1 DEF IsSeq
<1>3. ASSUME NEW list, IsSeq(list), NEW e PROVE IsSeq(Append(list, e))
  <2>1. IsSeq(<<e>>)
    BY SingleIsSeq
  <2>2. IsSeq(list \o <<e>>)
    BY <1>3, <2>1, ConcatSeq
  <2>3. Append(list, e) = list \o <<e>>
    BY <1>3 DEF IsSeq
  <2> QED BY <2>2, <2>3
<1>4. \/ Grow(done, k, len, maxTokens).mbs = Append(mbs, <<k, k, len>>)
      \/ mbs # <<>> /\ Grow(done, k, len, maxTokens).mbs = Append(Front(mbs), <<Last(mbs)[1], k, longest>>)
  BY <1>1 DEF Grow
<1>5. mbs # <<>> => IsSeq(Front(mbs))
  <2>1. ASSUME mbs # <<>> PROVE IsSeq(SubSeq(mbs, 1, Len(mbs) - 1))
    <3>1. Len(mbs) > 0
      BY <1>2, <2>1, NoneIsEmpty
    <3>2. PICK m \in Int : m = Len(mbs) - 1
      BY <1>2
    <3>3. 1 <= m + 1 /\ 1 \in Int
      BY <1>2, <3>1, <3>2
    <3>4. IsSeq(SubSeq(mbs, 1, m))
      BY ONLY <3>2, <3>3, SubSeqIsSeq
    <3> QED BY <3>2, <3>4
  <2> QED BY <2>1 DEF Front
<1> QED BY <1>2, <1>3, <1>4, <1>5

\* The microbatches of a global batch that is batched dynamically are those of
\* every shard.
LEMMA DynamicIsSeq ==
  ASSUME NEW sharding, NEW s0, NEW c, NEW local, local \in Nat, NEW lengths, NEW args
  PROVE  IsSeq(DynamicMicrobatches(sharding, s0, c, local, lengths, args))
<1>1. PICK g : /\ g[0] = [mbs |-> <<>>, longest |-> 0]
               /\ DynamicMicrobatches(sharding, s0, c, local, lengths, args) = g[local].mbs
               /\ \A k \in 1..local : g[k] =
                     Grow(g[k - 1], k, RankLength(sharding, s0, (c - 1) * local + k, lengths, args.round, args.width),
                          args.maxTokens)
  <2>1. PICK g : GrownStepwise(g, sharding, s0, c, local, lengths, args)
    BY GrowSteps
  <2> QED BY <2>1 DEF GrownStepwise
<1> DEFINE P == {k \in 0..local : IsSeq(g[k].mbs)}
<1>2. 0 \in P
  <2>1. g[0].mbs = <<>>
    BY <1>1
  <2> QED BY <2>1, EmptyIsSeq
<1>3. ASSUME NEW k \in 1..local, k - 1 \in P PROVE k \in P
  <2>1. PICK done, len, maxTokens :
          /\ done = g[k - 1] /\ maxTokens = args.maxTokens
          /\ len = RankLength(sharding, s0, (c - 1) * local + k, lengths, args.round, args.width)
    OBVIOUS
  <2>2. IsSeq(done.mbs)
    BY <1>3, <2>1
  <2>3. IsSeq(Grow(done, k, len, maxTokens).mbs)
    BY ONLY <2>2, GrowIsSeq
  <2>4. g[k] = Grow(done, k, len, maxTokens)
    BY <1>1, <2>1
  <2> QED BY <2>3, <2>4
<1>4. \A k \in 0..local : k \in P
  <2> HIDE DEF P
  <2> QED BY <1>2, <1>3, StepByStep
<1> QED BY <1>1, <1>4

\* ... as no length is a shard's own.
LEMMA DynamicAlike ==
  ASSUME NEW sharding, NEW s0, NEW s1, NEW c, NEW local, NEW lengths, NEW args
  PROVE  DynamicMicrobatches(sharding, s0, c, local, lengths, args)
             = DynamicMicrobatches(sharding, s1, c, local, lengths, args)
BY DEF DynamicMicrobatches, RankLength

-----------------------------------------------------------------------------
(* Bins dealt out to the shards. *)

\* A shard gets as many of a list as the others.
LEMMA StrideLength ==
  ASSUME NEW m \in Nat, NEW shards \in Nat \ {0}, NEW s \in 1..shards
  PROVE  (m * shards - s) \div shards + 1 = m
<1>1. PICK a \in Int : a = m - 1
  OBVIOUS
<1>2. m * shards = a * shards + shards /\ a * shards \in Int
  <2>1. m = a + 1
    BY <1>1
  <2>2. (a + 1) * shards = a * shards + shards
    OBVIOUS
  <2> QED BY <2>1, <2>2
<1>3. PICK q, x : q = (m * shards - s) \div shards /\ x = m * shards - s
  OBVIOUS
<1>4. x \in Int /\ q \in Int /\ q * shards <= x /\ x < (q + 1) * shards
  <2>1. m * shards \in Int
    OBVIOUS
  <2>2. x \in Int /\ q = x \div shards
    BY <1>3, <2>1
  <2> QED BY ONLY <2>2, shards \in Nat \ {0}
<1>5. x = a * shards + (shards - s)
  BY <1>2, <1>3
<1>6. a * shards <= x /\ x < (a + 1) * shards
  <2>1. (a + 1) * shards = a * shards + shards
    OBVIOUS
  <2>2. PICK p \in Int : p = a * shards
    BY <1>2
  <2>3. x = p + (shards - s)
    BY <1>5, <2>2
  <2>4. p <= x /\ x < p + shards
    BY ONLY <2>2, <2>3, shards \in Nat \ {0}, s \in 1..shards
  <2> QED BY <2>1, <2>2, <2>4
<1>7. q < a + 1
  <2>1. SUFFICES ASSUME q >= a + 1 PROVE FALSE
    BY <1>4
  <2>2. q * shards >= (a + 1) * shards
    BY <1>4, <2>1
  <2> QED BY <1>4, <1>6, <2>2
<1>8. a < q + 1
  <2>1. SUFFICES ASSUME a >= q + 1 PROVE FALSE
    BY <1>4
  <2>2. a * shards >= (q + 1) * shards
    BY <1>4, <2>1
  <2> QED BY <1>4, <1>6, <2>2
<1> QED BY <1>1, <1>3, <1>4, <1>7, <1>8

\* What a shard gets of bins, and what is in them.
LEMMA DealtBins ==
  ASSUME NEW I, NEW bins \in Seq(Seq(I)), NEW m \in Nat, NEW shards \in Nat \ {0}, Len(bins) = m * shards,
         NEW s \in 1..shards
  PROVE  /\ BinsOfShard(bins, s, shards) \in Seq(Seq(I)) /\ Len(BinsOfShard(bins, s, shards)) = m
         /\ Content(BinsOfShard(bins, s, shards)) = SumTo(Strided(BinSizes(bins), s, shards, m), m)
<1>1. PICK mine : mine = BinsOfShard(bins, s, shards)
  OBVIOUS
<1>2. mine = [k \in 1..m |-> bins[s + (k - 1) * shards]]
  <2>1. (Len(bins) - s) \div shards + 1 = m
    BY StrideLength
  <2> QED BY <1>1, <2>1 DEF BinsOfShard, Stride
<1>3. /\ \A b \in 1..Len(bins) : bins[b] \in Seq(I) /\ BinSizes(bins)[b] = Len(bins[b]) /\ BinSizes(bins)[b] \in Nat
  BY ContentNat
<1>4. ASSUME NEW k \in 1..m
      PROVE  mine[k] \in Seq(I) /\ Strided(BinSizes(bins), s, shards, m)[k] = Len(mine[k])
  <2>1. s + (k - 1) * shards \in 1..(m * shards)
    BY InBlock
  <2>2. PICK b \in 1..Len(bins) : b = s + (k - 1) * shards
    BY <2>1
  <2>3. mine[k] = bins[b] /\ Strided(BinSizes(bins), s, shards, m)[k] = BinSizes(bins)[b]
    BY <1>2, <2>2 DEF Strided
  <2> QED BY <1>3, <2>3
<1>5. mine \in Seq(Seq(I)) /\ Len(mine) = m
  <2>1. PICK T : T = Seq(I)
    OBVIOUS
  <2>2. \A k \in 1..m : mine[k] \in T
    BY <1>4, <2>1
  <2>3. mine \in Seq(T) /\ Len(mine) = m
    BY ONLY <1>2, <2>2, m \in Nat
  <2> QED BY <2>1, <2>3
<1>6. /\ \A b \in 1..m : BinSizes(mine)[b] = Len(mine[b]) /\ BinSizes(mine)[b] \in Nat
  <2>1. \A b \in 1..Len(mine) : mine[b] \in Seq(I) /\ BinSizes(mine)[b] = Len(mine[b]) /\ BinSizes(mine)[b] \in Nat
    BY ONLY <1>5, ContentNat
  <2> QED BY <1>5, <2>1
<1>7. PICK f, g : f = Strided(BinSizes(bins), s, shards, m) /\ g = BinSizes(mine)
  OBVIOUS
<1>8. \A k \in 1..m : f[k] \in Int /\ g[k] = f[k]
  BY <1>4, <1>6, <1>7
<1>9. SumTo(g, m) = SumTo(f, m)
  BY ONLY <1>8, m \in Nat, SumSame
<1> QED BY <1>1, <1>5, <1>7, <1>9 DEF Content

\* All shards get all bins.
LEMMA DealtContent ==
  ASSUME NEW n, NEW bins, NEW shards \in Nat \ {0}, Shared(bins, n, shards), NEW across,
         \A s \in 1..shards : across[s] = Content(BinsOfShard(bins, s, shards))
  PROVE  SumTo(across, shards) = n
<1>1. PICK m, I : m \in Nat /\ bins \in Seq(Seq(I)) /\ Len(bins) = m * shards /\ Content(bins) = n /\ I = 1..n
  BY DEF Shared
<1>2. PICK f : f = BinSizes(bins)
  OBVIOUS
<1>3. DealtOut(f, across, shards, m)
  <2>1. \A b \in 1..Len(bins) : bins[b] \in Seq(I) /\ BinSizes(bins)[b] = Len(bins[b]) /\ BinSizes(bins)[b] \in Nat
    BY <1>1, ContentNat
  <2>2. \A b \in 1..(m * shards) : f[b] \in Int
    BY <1>1, <1>2, <2>1
  <2>3. ASSUME NEW s \in 1..shards PROVE across[s] = SumTo(Strided(f, s, shards, m), m)
    <3>1. Content(BinsOfShard(bins, s, shards)) = SumTo(Strided(BinSizes(bins), s, shards, m), m)
      BY ONLY <1>1, shards \in Nat \ {0}, s \in 1..shards, DealtBins
    <3> QED BY <1>2, <3>1
  <2> QED BY <1>1, <2>2, <2>3 DEF DealtOut
<1>4. SumTo(across, shards) = SumTo(f, m * shards)
  BY ONLY <1>3, SumStride
<1> QED BY <1>1, <1>2, <1>4 DEF Content

\* Numbering does not change what bins hold.
LEMMA NumberedContent ==
  ASSUME NEW I, I \subseteq Int, NEW bins \in Seq(Seq(I)), NEW c \in Int, NEW batchSize \in Int
  PROVE  Numbered(bins, c, batchSize) \in Seq(Seq(Int)) /\ Content(Numbered(bins, c, batchSize)) = Content(bins)
<1>1. PICK theirs, o : theirs = Numbered(bins, c, batchSize) /\ o = (c - 1) * batchSize /\ o \in Int
  OBVIOUS
<1>2. theirs = [b \in 1..Len(bins) |-> [k \in DOMAIN bins[b] |-> bins[b][k] + o]] /\ Len(bins) \in Nat
  BY <1>1 DEF Numbered
<1>3. ASSUME NEW b \in 1..Len(bins)
      PROVE  theirs[b] \in Seq(Int) /\ Len(theirs[b]) = Len(bins[b])
  <2>1. PICK bin : bin = bins[b]
    OBVIOUS
  <2>2. bin \in Seq(I)
    BY <2>1
  <2>3. theirs[b] = [k \in 1..Len(bin) |-> bin[k] + o] /\ Len(bin) \in Nat
    BY <1>2, <2>1, <2>2
  <2>4. \A k \in 1..Len(bin) : bin[k] + o \in Int
    <3>1. \A k \in 1..Len(bin) : bin[k] \in I
      BY <2>2
    <3>2. ASSUME NEW k \in 1..Len(bin) PROVE bin[k] + o \in Int
      <4>1. PICK x : x = bin[k]
        OBVIOUS
      <4>2. x \in Int
        BY <3>1, <4>1, I \subseteq Int
      <4>3. x + o \in Int
        BY ONLY <4>2, <1>1
      <4> QED BY <4>1, <4>3
    <3> QED BY <3>2
  <2> QED BY <2>1, <2>3, <2>4
<1>4. theirs \in Seq(Seq(Int)) /\ Len(theirs) = Len(bins)
  <2>1. PICK n \in Nat : n = Len(bins)
    BY <1>2
  <2>2. theirs = [b \in 1..n |-> theirs[b]]
    BY <1>2, <2>1
  <2>3. PICK T : T = Seq(Int)
    OBVIOUS
  <2>4. \A b \in 1..n : theirs[b] \in T
    BY <1>3, <2>1, <2>3
  <2>5. IsSeq(theirs) /\ Len(theirs) = n
    BY ONLY n \in Nat, <2>2, FunctionIsSeq
  <2>6. \A b \in 1..Len(theirs) : theirs[b] \in T
    BY <2>4, <2>5
  <2>7. theirs \in Seq(T)
    BY ONLY <2>5, <2>6, IsSeqSeq
  <2> QED BY <2>1, <2>3, <2>5, <2>7
<1>5. \A b \in 1..Len(bins) : BinSizes(bins)[b] = Len(bins[b]) /\ BinSizes(bins)[b] \in Nat
  BY ContentNat
<1>6. \A b \in 1..Len(theirs) : BinSizes(theirs)[b] = Len(theirs[b])
  BY DEF BinSizes
<1>7. PICK f, g : f = BinSizes(bins) /\ g = BinSizes(theirs)
  OBVIOUS
<1>8. \A b \in 1..Len(bins) : f[b] \in Int /\ g[b] = f[b]
  BY <1>3, <1>4, <1>5, <1>6, <1>7
<1>9. SumTo(g, Len(bins)) = SumTo(f, Len(bins))
  BY ONLY <1>2, <1>8, SumSame
<1> QED BY <1>1, <1>4, <1>7, <1>9 DEF Content

-----------------------------------------------------------------------------
(* The rows of a shard, packed. *)

\* The shards have as many microbatches of a global batch as one another.
EvenCuts(sharding, shards, chunks) ==
  /\ "micro" \in DOMAIN sharding
  /\ \A s \in 1..shards, c \in 1..chunks :
        IsSeq(sharding.micro[s][c]) /\ Len(sharding.micro[s][c]) = Len(sharding.micro[1][c])

\* How many rows the shards have.
RowCounts(sharding, shards) == [s \in 1..shards |-> Len(sharding.rows[s])]
AllRows(sharding, shards, count) ==
  (\A s \in 1..shards : Len(sharding.rows[s]) \in Nat) /\ SumTo(RowCounts(sharding, shards), shards) = count

\* Bins give a microbatch each.
LEMMA PositionsIsSeq ==
  ASSUME NEW bins, IsSeq(bins)
  PROVE  IsSeq(Positions(bins)) /\ Len(Positions(bins)) = Len(bins)
<1>1. PICK n : n = Len(bins)
  OBVIOUS
<1>2. n \in Nat /\ DOMAIN bins = 1..n
  BY <1>1 DEF IsSeq
<1>3. PICK f : f = Positions(bins)
  OBVIOUS
<1>4. f = [b \in 1..n |-> f[b]]
  BY <1>2, <1>3 DEF Positions
<1>5. IsSeq(f) /\ Len(f) = n
  BY ONLY <1>2, <1>4, FunctionIsSeq
<1> QED BY <1>1, <1>3, <1>5

\* The bins of a shard, chunk by chunk, its rows, and how many they are.
ShardBins(lists, I, chunks, batchSize, rows, sums) ==
  /\ I \subseteq Int /\ chunks \in Nat /\ batchSize \in Nat
  /\ lists = [c \in 1..chunks |-> lists[c]] /\ \A c \in 1..chunks : lists[c] \in Seq(Seq(I))
  /\ rows = FlattenSeq(FlattenSeq([c \in DOMAIN lists |-> Numbered(lists[c], c, batchSize)]))
  /\ \A c \in 1..chunks : sums[c] = Content(lists[c])

\* The rows of a shard are all that are in its bins.
LEMMA RowsOfShard ==
  ASSUME NEW lists, NEW I, NEW chunks, NEW batchSize, NEW rows, NEW sums,
         ShardBins(lists, I, chunks, batchSize, rows, sums)
  PROVE  Len(rows) \in Nat /\ Len(rows) = SumTo(sums, chunks)
<1>0. /\ I \subseteq Int /\ chunks \in Nat /\ batchSize \in Nat
      /\ lists = [c \in 1..chunks |-> lists[c]] /\ \A c \in 1..chunks : lists[c] \in Seq(Seq(I))
      /\ rows = FlattenSeq(FlattenSeq([c \in DOMAIN lists |-> Numbered(lists[c], c, batchSize)]))
      /\ \A c \in 1..chunks : sums[c] = Content(lists[c])
  BY DEF ShardBins
<1>1. PICK theirs, J : theirs = [c \in DOMAIN lists |-> Numbered(lists[c], c, batchSize)] /\ J = Int
  OBVIOUS
<1>2. theirs = [c \in 1..chunks |-> theirs[c]]
  BY <1>0, <1>1
<1>3. IsSeq(theirs) /\ Len(theirs) = chunks
  BY ONLY <1>0, <1>2, FunctionIsSeq
<1>4. ASSUME NEW c \in 1..chunks PROVE theirs[c] \in Seq(Seq(J)) /\ sums[c] = Content(theirs[c])
  <2>1. PICK bins : bins = lists[c]
    OBVIOUS
  <2>2. bins \in Seq(Seq(I)) /\ c \in Int /\ batchSize \in Int
    BY <1>0, <2>1
  <2>3. Numbered(bins, c, batchSize) \in Seq(Seq(Int)) /\ Content(Numbered(bins, c, batchSize)) = Content(bins)
    BY ONLY <1>0, <2>2, NumberedContent
  <2>4. theirs[c] = Numbered(bins, c, batchSize)
    BY <1>0, <1>1, <2>1
  <2> QED BY <1>0, <1>1, <2>1, <2>3, <2>4
<1>5. PICK all : all = FlattenSeq(theirs)
  OBVIOUS
<1>6. all \in Seq(Seq(J)) /\ Content(all) = SumTo(sums, chunks)
  <2>1. /\ \A c \in 1..Len(theirs) : theirs[c] \in Seq(Seq(J))
        /\ \A c \in 1..Len(theirs) : sums[c] = Content(theirs[c])
    BY <1>3, <1>4
  <2>2. FlattenSeq(theirs) \in Seq(Seq(J)) /\ Content(FlattenSeq(theirs)) = SumTo(sums, Len(theirs))
    BY ONLY <1>3, <2>1, FlattenContents
  <2> QED BY <1>3, <1>5, <2>2
<1>7. IsSeq(all) /\ \A b \in 1..Len(all) : IsSeq(all[b])
  <2>1. PICK T : T = Seq(J)
    OBVIOUS
  <2>2. all \in Seq(T)
    BY <1>6, <2>1
  <2>3. IsSeq(all)
    BY ONLY <2>2, SeqIsSeq
  <2>4. ASSUME NEW b \in 1..Len(all) PROVE IsSeq(all[b])
    <3>1. PICK bin : bin = all[b]
      OBVIOUS
    <3>2. bin \in Seq(J)
      BY <2>1, <2>2, <3>1
    <3>3. IsSeq(bin)
      BY ONLY <3>2, SeqIsSeq
    <3> QED BY <3>1, <3>3
  <2> QED BY <2>3, <2>4
<1>8. IsSeq(FlattenSeq(all)) /\ Len(FlattenSeq(all)) = Content(all)
  BY ONLY <1>7, FlattenSum
<1>9. rows = FlattenSeq(all)
  BY <1>0, <1>1, <1>5
<1> QED BY <1>6, <1>8, <1>9 DEF IsSeq

\* Packed shards have as many microbatches as one another, and all rows of
\* all chunks.
LEMMA PackedEven ==
  ASSUME NEW lengths, Len(lengths) \in Nat, NEW shards \in Nat \ {0}, NEW batchSize \in Nat \ {0}, NEW args,
         args.algorithm \in Algorithms, NEW chunks, chunks = Len(lengths) \div batchSize,
         NEW sharding \in PackedShardings(lengths, shards, batchSize, args)
  PROVE  EvenCuts(sharding, shards, chunks) /\ AllRows(sharding, shards, chunks * batchSize)
<1>1. chunks \in Nat
  OBVIOUS
<1>2. PICK packed \in PackedChunks(lengths, shards, batchSize, args) :
         sharding = PackedSharding(Dealt(packed, shards), RowsOfBins(Dealt(packed, shards), batchSize))
  BY DEF PackedShardings
<1>3. PICK dealt, rows : dealt = Dealt(packed, shards) /\ rows = RowsOfBins(dealt, batchSize)
  OBVIOUS
<1>4. sharding = PackedSharding(dealt, rows)
  BY <1>2, <1>3
<1>5. PICK I : I = 1..batchSize
  OBVIOUS
<1>6. IsSeq(packed) /\ Len(packed) = chunks /\ \A c \in 1..chunks : Shared(packed[c], batchSize, shards)
  <2>1. PICK sets : sets = [c \in 1..chunks |->
                              Packings(args.algorithm, PaddedChunk(lengths, c, batchSize, args.round), args.maxTokens, shards)]
    OBVIOUS
  <2>2. sets = [c \in 1..chunks |-> sets[c]]
    BY <2>1
  <2>3. IsSeq(sets) /\ Len(sets) = chunks
    BY ONLY <1>1, <2>2, FunctionIsSeq
  <2>4. packed \in OneOfEach(sets)
    BY <2>1 DEF PackedChunks
  <2>5. IsSeq(packed) /\ Len(packed) = chunks /\ \A c \in 1..chunks : packed[c] \in sets[c]
    BY ONLY <1>1, <2>3, <2>4, OneOfEachTakes
  <2>6. ASSUME NEW c \in 1..chunks PROVE Shared(packed[c], batchSize, shards)
    <3>1. PICK padded, algorithm, capacity, bins :
             /\ padded = PaddedChunk(lengths, c, batchSize, args.round) /\ algorithm = args.algorithm
             /\ capacity = args.maxTokens /\ bins = packed[c]
      OBVIOUS
    <3>2. padded = [k \in 1..batchSize |-> padded[k]]
      BY <3>1 DEF PaddedChunk
    <3>3. IsSeq(padded) /\ Len(padded) = batchSize
      <4>1. batchSize \in Nat
        OBVIOUS
      <4> QED BY ONLY <3>2, <4>1, FunctionIsSeq
    <3>4. bins \in Packings(algorithm, padded, capacity, shards)
      BY <2>1, <2>5, <3>1
    <3>5. algorithm \in Algorithms
      BY <3>1
    <3>6. Shared(bins, batchSize, shards)
      BY ONLY <3>3, <3>4, <3>5, batchSize \in Nat \ {0}, shards \in Nat \ {0}, PackingsShared
    <3> QED BY <3>1, <3>6
  <2> QED BY <2>5, <2>6
<1>7. /\ DOMAIN dealt = 1..shards
      /\ \A s \in 1..shards : /\ DOMAIN dealt[s] = 1..chunks /\ dealt[s] = [c \in 1..chunks |-> dealt[s][c]]
                              /\ \A c \in 1..chunks : dealt[s][c] = BinsOfShard(packed[c], s, shards)
  <2>1. DOMAIN packed = 1..chunks
    BY <1>6 DEF IsSeq
  <2> QED BY <1>3, <2>1 DEF Dealt
<1>8. ASSUME NEW c \in 1..chunks
      PROVE  \E m \in Nat : \A s \in 1..shards : dealt[s][c] \in Seq(Seq(I)) /\ Len(dealt[s][c]) = m
  <2>1. PICK bins : bins = packed[c]
    OBVIOUS
  <2>2. Shared(bins, batchSize, shards)
    BY <1>6, <2>1
  <2>3. PICK m \in Nat : bins \in Seq(Seq(I)) /\ Len(bins) = m * shards
    BY <1>5, <2>2 DEF Shared
  <2>4. ASSUME NEW s \in 1..shards PROVE dealt[s][c] \in Seq(Seq(I)) /\ Len(dealt[s][c]) = m
    <3>1. BinsOfShard(bins, s, shards) \in Seq(Seq(I)) /\ Len(BinsOfShard(bins, s, shards)) = m
      BY ONLY <2>3, shards \in Nat \ {0}, s \in 1..shards, DealtBins
    <3> QED BY <1>7, <2>1, <3>1
  <2> QED BY <2>4
<1>9. EvenCuts(sharding, shards, chunks)
  <2>1. "micro" \in DOMAIN sharding /\ \A s \in 1..shards, c \in 1..chunks : sharding.micro[s][c] = Positions(dealt[s][c])
    BY <1>4, <1>7 DEF PackedSharding
  <2>2. ASSUME NEW s \in 1..shards, NEW c \in 1..chunks
        PROVE  IsSeq(sharding.micro[s][c]) /\ Len(sharding.micro[s][c]) = Len(sharding.micro[1][c])
    <3>1. PICK m \in Nat : \A t \in 1..shards : dealt[t][c] \in Seq(Seq(I)) /\ Len(dealt[t][c]) = m
      BY <1>8
    <3>2. ASSUME NEW t \in 1..shards PROVE IsSeq(sharding.micro[t][c]) /\ Len(sharding.micro[t][c]) = m
      <4>1. PICK bins : bins = dealt[t][c]
        OBVIOUS
      <4>2. IsSeq(bins) /\ Len(bins) = m
        BY <3>1, <4>1 DEF IsSeq
      <4>3. IsSeq(Positions(bins)) /\ Len(Positions(bins)) = Len(bins)
        BY ONLY <4>2, PositionsIsSeq
      <4> QED BY <2>1, <4>1, <4>2, <4>3
    <3>3. 1 \in 1..shards
      OBVIOUS
    <3> QED BY <3>2, <3>3
  <2> QED BY <2>1, <2>2 DEF EvenCuts
<1>10. sharding.rows = rows
  BY <1>4 DEF PackedSharding
<1> DEFINE table == [s \in 1..shards |-> [c \in 1..chunks |-> Content(dealt[s][c])]]
           across == RowCounts(sharding, shards)
           down == [c \in 1..chunks |-> SumTo(Column(table, c, shards), shards)]
<1>11. ASSUME NEW s \in 1..shards PROVE Len(rows[s]) \in Nat /\ Len(rows[s]) = SumTo(table[s], chunks)
  <2>1. PICK lists, mine, sums : lists = dealt[s] /\ mine = rows[s] /\ sums = table[s]
    OBVIOUS
  <2>2. lists = [c \in 1..chunks |-> lists[c]] /\ \A c \in 1..chunks : lists[c] \in Seq(Seq(I))
    BY <1>7, <1>8, <2>1
  <2>3. mine = FlattenSeq(FlattenSeq([c \in DOMAIN lists |-> Numbered(lists[c], c, batchSize)]))
    BY <1>3, <1>7, <2>1 DEF RowsOfBins
  <2>4. \A c \in 1..chunks : sums[c] = Content(lists[c])
    BY <2>1
  <2>5. I \subseteq Int /\ batchSize \in Nat
    BY <1>5
  <2>6. Len(mine) \in Nat /\ Len(mine) = SumTo(sums, chunks)
    <3>1. ShardBins(lists, I, chunks, batchSize, mine, sums)
      BY <1>1, <2>2, <2>3, <2>4, <2>5 DEF ShardBins
    <3> QED BY ONLY <3>1, RowsOfShard
  <2> QED BY <2>1, <2>6
<1>12. ASSUME NEW s \in 1..shards, NEW c \in 1..chunks PROVE table[s][c] = Content(dealt[s][c]) /\ table[s][c] \in Int
  <2>1. PICK bins : bins = dealt[s][c]
    OBVIOUS
  <2>2. bins \in Seq(Seq(I))
    BY <1>8, <2>1
  <2>3. Content(bins) \in Nat
    BY ONLY <2>2, ContentNat
  <2> QED BY <2>1, <2>3
<1>13. ASSUME NEW c \in 1..chunks PROVE down[c] = batchSize
  <2>1. PICK bins, sums : bins = packed[c] /\ sums = Column(table, c, shards)
    OBVIOUS
  <2>2. Shared(bins, batchSize, shards)
    BY <1>6, <2>1
  <2>3. \A s \in 1..shards : sums[s] = Content(BinsOfShard(bins, s, shards))
    <3> HIDE DEF table
    <3> QED BY <1>7, <1>12, <2>1 DEF Column
  <2>4. SumTo(sums, shards) = batchSize
    BY ONLY <2>2, <2>3, shards \in Nat \ {0}, DealtContent
  <2> QED BY <2>1, <2>4
<1>14. SumTo(across, shards) = chunks * batchSize
  <2>1. PICK a, d, t : a = across /\ d = down /\ t = table
    OBVIOUS
  <2>2. Totals(t, a, d, shards, chunks)
    <3>1. \A s \in 1..shards, c \in 1..chunks : t[s][c] \in Int
      <4> HIDE DEF table
      <4> QED BY <1>12, <2>1
    <3>2. \A s \in 1..shards : a[s] = SumTo(t[s], chunks)
      <4> HIDE DEF table
      <4> QED BY <1>10, <1>11, <2>1 DEF RowCounts
    <3>3. \A c \in 1..chunks : d[c] = SumTo(Column(t, c, shards), shards)
      <4> HIDE DEF table
      <4> QED BY <2>1
    <3> QED BY <1>1, <3>1, <3>2, <3>3 DEF Totals
  <2>3. SumTo(a, shards) = SumTo(d, chunks)
    BY ONLY <2>2, SumExchange
  <2>4. \A c \in 1..chunks : d[c] = batchSize
    <3> HIDE DEF table, down
    <3> QED BY <1>13, <2>1
  <2>5. SumTo(d, chunks) = chunks * batchSize
    <3>1. batchSize \in Nat
      OBVIOUS
    <3> QED BY ONLY <1>1, <2>4, <3>1, SumConstant
  <2> QED BY <2>1, <2>3, <2>5
<1>15. AllRows(sharding, shards, chunks * batchSize)
  <2> HIDE DEF table, down
  <2> QED BY <1>10, <1>11, <1>14 DEF AllRows
<1> QED BY <1>9, <1>15

-----------------------------------------------------------------------------
(* The rows of a shard, plain and dynamic. *)

\* A piece of m rows.
LEMMA PieceLength ==
  ASSUME NEW data, NEW from \in Nat, NEW m \in Nat
  PROVE  IsSeq(SubSeq(data, from + 1, from + m)) /\ Len(SubSeq(data, from + 1, from + m)) = m
<1>1. PICK a, b : a = from + 1 /\ b = from + m
  OBVIOUS
<1>2. a \in Int /\ b \in Int /\ a <= b + 1 /\ b - a + 1 = m
  BY <1>1
<1>3. IsSeq(SubSeq(data, a, b)) /\ Len(SubSeq(data, a, b)) = b - a + 1
  BY ONLY <1>2, SubSeqIsSeq
<1> QED BY <1>1, <1>2, <1>3

\* Every shard has n rows.
EachHas(sharding, shards, n) == \A s \in 1..shards : Len(sharding.rows[s]) = n

\* How many rows a plain sharding has.
LEMMA PlainRows ==
  ASSUME NEW data, Len(data) \in Nat, NEW shards \in Nat \ {0}, NEW batchSize \in Nat \ {0}, NEW sharding,
         sharding.rows = PlainSharding(data, shards, batchSize).rows
  PROVE  /\ AllRows(sharding, shards, shards * ((Len(data) \div batchSize) * (batchSize \div shards)))
         /\ EachHas(sharding, shards, (Len(data) \div batchSize) * (batchSize \div shards))
<1>1. PICK n, size : n = Len(data) \div batchSize /\ size = batchSize \div shards
  OBVIOUS
<1>2. n \in Nat /\ size \in Nat
  BY <1>1
<1>3. ASSUME NEW s \in 1..shards PROVE Len(sharding.rows[s]) = n * size
  <2>1. PICK pieces : pieces = [c \in 1..n |-> SubSeq(data, (c - 1) * batchSize + (s - 1) * size + 1,
                                                            (c - 1) * batchSize + (s - 1) * size + size)]
    OBVIOUS
  <2>2. sharding.rows[s] = FlattenSeq(pieces)
    BY <1>1, <2>1 DEF PlainSharding, PlainShard
  <2>3. pieces = [c \in 1..n |-> pieces[c]]
    BY <2>1
  <2>4. IsSeq(pieces) /\ Len(pieces) = n
    BY ONLY <1>2, <2>3, FunctionIsSeq
  <2>5. ASSUME NEW c \in 1..n PROVE IsSeq(pieces[c]) /\ Len(pieces[c]) = size
    <3>1. PICK from : from = (c - 1) * batchSize + (s - 1) * size
      OBVIOUS
    <3>2. from \in Nat
      <4>1. c - 1 \in Nat /\ s - 1 \in Nat
        BY <1>2
      <4>2. (c - 1) * batchSize \in Nat /\ (s - 1) * size \in Nat
        BY <1>2, <4>1
      <4> QED BY <3>1, <4>2
    <3>3. IsSeq(SubSeq(data, from + 1, from + size)) /\ Len(SubSeq(data, from + 1, from + size)) = size
      BY ONLY <1>2, <3>2, PieceLength
    <3> QED BY <2>1, <3>1, <3>3
  <2>6. Len(FlattenSeq(pieces)) = Len(pieces) * size
    <3>1. \A c \in 1..Len(pieces) : IsSeq(pieces[c]) /\ Len(pieces[c]) = size
      BY <2>4, <2>5
    <3> QED BY ONLY <1>2, <2>4, <3>1, FlattenUniform
  <2> QED BY <2>2, <2>4, <2>6
<1>4. PICK k : k = n * size
  OBVIOUS
<1>5. k \in Nat
  BY <1>2, <1>4
<1>6. PICK f : f = RowCounts(sharding, shards)
  OBVIOUS
<1>7. \A s \in 1..shards : f[s] = k
  BY <1>3, <1>4, <1>6 DEF RowCounts
<1>8. SumTo(f, shards) = shards * k
  <2>1. shards \in Nat
    OBVIOUS
  <2> QED BY ONLY <1>5, <1>7, <2>1, SumConstant
<1>9. \A s \in 1..shards : Len(sharding.rows[s]) \in Nat
  BY <1>3, <1>4, <1>5
<1> QED BY <1>1, <1>3, <1>4, <1>6, <1>8, <1>9 DEF AllRows, EachHas

\* A sorted chunk has the rows of the chunk.
LEMMA SortedChunkLength ==
  ASSUME NEW lengths, IsSeq(lengths), NEW batchSize \in Nat \ {0}, NEW shards \in Nat \ {0},
         NEW m \in Nat, batchSize = m * shards, NEW c \in 1..(Len(lengths) \div batchSize)
  PROVE  IsSeq(SortedChunk(lengths, c, shards, batchSize)) /\ Len(SortedChunk(lengths, c, shards, batchSize)) = batchSize
<1>1. PICK n, chunk, from : /\ n = Len(lengths) /\ from = (c - 1) * batchSize
                            /\ chunk = ((c - 1) * batchSize + 1)..(c * batchSize)
  OBVIOUS
<1>2. n \in Nat
  BY <1>1 DEF IsSeq
<1>3. from \in Nat /\ from + batchSize = c * batchSize /\ from + batchSize <= n
  <2>1. PICK count : count = n \div batchSize
    OBVIOUS
  <2>2. count \in Nat /\ count * batchSize <= n /\ c \in 1..count
    BY <1>1, <1>2, <2>1, Divided
  <2>3. (c - 1) * batchSize \in Nat /\ (c - 1) * batchSize + batchSize = c * batchSize /\ c * batchSize <= count * batchSize
    BY ONLY <2>2, batchSize \in Nat \ {0}, InBlock
  <2>4. count * batchSize \in Nat /\ c * batchSize \in Nat
    BY <2>2
  <2> QED BY <1>1, <1>2, <2>2, <2>3, <2>4
<1>4. chunk = (from + 1)..(from + batchSize)
  BY <1>1, <1>3
<1>5. chunk \subseteq 1..n
  BY <1>2, <1>3, <1>4
<1>6. PICK sorted : sorted = Ascending(chunk, lengths)
  OBVIOUS
<1>7. IsListOf(sorted, chunk)
  <2>1. IsListOf(Ascending(chunk, lengths), chunk)
    BY ONLY <1>1, <1>2, <1>5, IsSeq(lengths), SortedLengths
  <2> QED BY <1>6, <2>1
<1>8. Len(sorted) = batchSize
  <2>1. PICK a \in Int, b \in Int : a = from + 1 /\ b = from + batchSize
    BY <1>3
  <2>2. a <= b
    BY <1>3, <2>1
  <2>3. Cardinality(a..b) = b - a + 1
    BY ONLY <2>1, <2>2, FS_Interval
  <2>4. Len(sorted) = Cardinality(chunk)
    BY ONLY <1>7, ListLength
  <2> QED BY <1>3, <1>4, <2>1, <2>3, <2>4
<1>9. PICK pieces : pieces = [s \in 1..shards |-> Stride(sorted, s, shards)]
  OBVIOUS
<1>10. pieces = [s \in 1..shards |-> pieces[s]]
  BY <1>9
<1>11. IsSeq(pieces) /\ Len(pieces) = shards
  <2>1. shards \in Nat
    OBVIOUS
  <2> QED BY ONLY <1>10, <2>1, FunctionIsSeq
<1>12. ASSUME NEW s \in 1..shards PROVE IsSeq(pieces[s]) /\ Len(pieces[s]) = m
  <2>1. PICK piece : piece = pieces[s]
    OBVIOUS
  <2>2. (Len(sorted) - s) \div shards + 1 = m
    BY <1>8, StrideLength
  <2>3. piece = [k \in 1..m |-> piece[k]]
    BY <1>9, <2>1, <2>2 DEF Stride
  <2>4. IsSeq(piece) /\ Len(piece) = m
    BY ONLY <2>3, m \in Nat, FunctionIsSeq
  <2> QED BY <2>1, <2>4
<1>13. IsSeq(FlattenSeq(pieces)) /\ Len(FlattenSeq(pieces)) = Len(pieces) * m
  <2>1. \A s \in 1..Len(pieces) : IsSeq(pieces[s]) /\ Len(pieces[s]) = m
    BY <1>11, <1>12
  <2> QED BY ONLY <1>11, <2>1, m \in Nat, FlattenUniform
<1>14. SortedChunk(lengths, c, shards, batchSize) = FlattenSeq(pieces)
  BY <1>1, <1>6, <1>9 DEF SortedChunk
<1>15. shards * m = batchSize
  OBVIOUS
<1> QED BY <1>11, <1>13, <1>14, <1>15

\* Dynamic batching makes as many microbatches for each shard, and leaves no
\* row of the chunks out if the shards can share them.
LEMMA DynamicEven ==
  ASSUME NEW lengths, IsSeq(lengths), NEW shards \in Nat \ {0}, NEW batchSize \in Nat \ {0}, NEW args,
         NEW chunks, chunks = Len(lengths) \div batchSize, NEW sharding \in DynamicSharding(lengths, shards, batchSize, args)
  PROVE  /\ EvenCuts(sharding, shards, chunks)
         /\ \A m \in Nat : batchSize = m * shards => AllRows(sharding, shards, chunks * batchSize)
<1>1. PICK local, sorted, plain :
         /\ local = batchSize \div shards
         /\ sorted = FlattenSeq([c \in 1..chunks |-> SortedChunk(lengths, c, shards, batchSize)])
         /\ plain = PlainSharding(sorted, shards, batchSize)
  OBVIOUS
<1>2. sharding = [rows |-> plain.rows,
                  micro |-> [s \in 1..shards |->
                                [c \in 1..chunks |-> DynamicMicrobatches(plain, s, c, local, lengths, args)]],
                  sorted |-> sorted]
  BY <1>1 DEF DynamicSharding
<1>3. local \in Nat /\ chunks \in Nat /\ Len(lengths) \in Nat
  BY <1>1 DEF IsSeq
<1>4. EvenCuts(sharding, shards, chunks)
  <2>1. "micro" \in DOMAIN sharding
    BY <1>2
  <2>2. \A s \in 1..shards, c \in 1..chunks :
           sharding.micro[s][c] = DynamicMicrobatches(plain, s, c, local, lengths, args)
    BY <1>2
  <2>3. ASSUME NEW s \in 1..shards, NEW c \in 1..chunks
        PROVE  IsSeq(sharding.micro[s][c]) /\ Len(sharding.micro[s][c]) = Len(sharding.micro[1][c])
    <3>1. IsSeq(DynamicMicrobatches(plain, s, c, local, lengths, args))
      BY <1>3, DynamicIsSeq
    <3>2. DynamicMicrobatches(plain, s, c, local, lengths, args) = DynamicMicrobatches(plain, 1, c, local, lengths, args)
      BY DynamicAlike
    <3>3. 1 \in 1..shards
      OBVIOUS
    <3> QED BY <2>2, <3>1, <3>2, <3>3
  <2> QED BY <2>1, <2>3 DEF EvenCuts
<1>5. ASSUME NEW m \in Nat, batchSize = m * shards PROVE AllRows(sharding, shards, chunks * batchSize)
  <2>1. PICK pieces : pieces = [c \in 1..chunks |-> SortedChunk(lengths, c, shards, batchSize)]
    OBVIOUS
  <2>2. pieces = [c \in 1..chunks |-> pieces[c]]
    BY <2>1
  <2>3. IsSeq(pieces) /\ Len(pieces) = chunks
    BY ONLY <1>3, <2>2, FunctionIsSeq
  <2>4. \A c \in 1..Len(pieces) : IsSeq(pieces[c]) /\ Len(pieces[c]) = batchSize
    <3>1. ASSUME NEW c \in 1..chunks PROVE IsSeq(pieces[c]) /\ Len(pieces[c]) = batchSize
      <4>1. c \in 1..(Len(lengths) \div batchSize)
        OBVIOUS
      <4>2. IsSeq(SortedChunk(lengths, c, shards, batchSize)) /\ Len(SortedChunk(lengths, c, shards, batchSize)) = batchSize
        BY ONLY <4>1, <1>5, IsSeq(lengths), batchSize \in Nat \ {0}, shards \in Nat \ {0}, m \in Nat, SortedChunkLength
      <4> QED BY <2>1, <4>2
    <3> QED BY <2>3, <3>1
  <2>5. Len(FlattenSeq(pieces)) = Len(pieces) * batchSize
    <3>1. batchSize \in Nat
      OBVIOUS
    <3> QED BY ONLY <2>3, <2>4, <3>1, FlattenUniform
  <2>6. Len(sorted) = chunks * batchSize
    BY <1>1, <2>1, <2>3, <2>5
  <2>7. sharding.rows = PlainSharding(sorted, shards, batchSize).rows
    BY <1>1, <1>2
  <2>8. Len(sorted) \in Nat
    BY <1>3, <2>6
  <2>9. /\ AllRows(sharding, shards, shards * ((Len(sorted) \div batchSize) * (batchSize \div shards)))
        /\ EachHas(sharding, shards, (Len(sorted) \div batchSize) * (batchSize \div shards))
    BY ONLY <2>7, <2>8, shards \in Nat \ {0}, batchSize \in Nat \ {0}, PlainRows
  <2>10. (chunks * batchSize) \div batchSize = chunks /\ (m * shards) \div shards = m
    <3>1. ASSUME NEW a \in Nat, NEW b \in Nat \ {0} PROVE (a * b) \div b = a
      <4>1. PICK x, q : x = a * b /\ q = x \div b
        OBVIOUS
      <4>2. x \in Nat
        BY <4>1
      <4>3. q \in Nat /\ q * b <= x /\ x < q * b + b
        BY ONLY <4>1, <4>2, b \in Nat \ {0}, Divided
      <4>4. ~(q < a)
        <5>1. SUFFICES ASSUME q + 1 <= a PROVE FALSE
          BY <4>3
        <5>2. PICK d \in Nat : a = q + 1 + d
          BY <4>3, <5>1
        <5>3. a * b = q * b + b + d * b /\ d * b \in Nat /\ q * b \in Nat
          BY <4>3, <5>2
        <5> QED BY <4>1, <4>3, <5>3
      <4>5. ~(a < q)
        <5>1. SUFFICES ASSUME a + 1 <= q PROVE FALSE
          BY <4>3
        <5>2. PICK d \in Nat : q = a + 1 + d
          BY <4>3, <5>1
        <5>3. q * b = a * b + b + d * b /\ d * b \in Nat /\ a * b \in Nat
          BY <5>2
        <5> QED BY <4>1, <4>3, <5>3
      <4> QED BY <4>1, <4>3, <4>4, <4>5
    <3> QED BY <1>3, <3>1
  <2>11. shards * (chunks * m) = chunks * batchSize
    <3>1. shards * (chunks * m) = chunks * (m * shards)
      BY <1>3
    <3> QED BY <1>5, <3>1
  <2>12. Len(sorted) \div batchSize = chunks /\ batchSize \div shards = m
    BY <1>5, <2>6, <2>10
  <2> QED BY <2>9, <2>11, <2>12
<1> QED BY <1>4, <1>5
=============================================================================

------------------------- MODULE MessageLibsProofs -------------------------
(***************************************************************************)
(* Theorems about MessageLibs, for any message contents, splits, headers   *)
(* and width of size_t: as long as no call cuts a message of ourLibs       *)
(* behind its first chunk, both Message libraries keep their lengths right *)
(* and implement the byte strings of ByteStrings.                          *)
(***************************************************************************)
EXTENDS MessageLibs, SequenceTheorems, FiniteSetTheorems, WellFoundedInduction, TLAPS

-----------------------------------------------------------------------------
(* Induction, by the smallest counterexample                               *)

\* Every set of naturals has a smallest element.
LEMMA Smallest ==
  ASSUME NEW N, N \subseteq Nat, N # {}
  PROVE  \E n \in N : \A k \in N : n <= k
<1>1. IsWellFoundedOn(OpToRel(<, Nat), Nat)
  BY NatLessThanWellFounded
<1>2. PICK n \in N : \A k \in N : <<k, n>> \notin OpToRel(<, Nat)
  BY <1>1, WFMin
<1>3. ASSUME NEW k \in N PROVE n <= k
  <2>1. ~(k < n)
    BY <1>2 DEF OpToRel
  <2> QED
    BY <2>1
<1> QED
  BY <1>3

-----------------------------------------------------------------------------
(* Sequences of sequences, flattened                                       *)

\* g holds what the first 1, 2, ... n elements of c flatten to.
Solves(c, n, g) == g = [i \in 1..n |-> IF i = 1 THEN c[i] ELSE g[i-1] \o c[i]]

\* The recursion that FlattenSeq uses has a solution.
LEMMA Solution ==
  ASSUME NEW c, NEW n \in Nat
  PROVE  \E g : Solves(c, n, g)
<1> DEFINE N == {k \in Nat : ~ \E g : Solves(c, k, g)}
<1> SUFFICES ASSUME N # {} PROVE FALSE
  OBVIOUS
<1>1. PICK k \in N : \A j \in N : k <= j
  <2>1. N \subseteq Nat
    OBVIOUS
  <2> HIDE DEF N
  <2> QED
    BY <2>1, Smallest
<1>2. CASE k = 0
  <2>1. Solves(c, 0, [i \in 1..0 |-> c[i]])
    BY DEF Solves
  <2> QED
    BY <1>1, <1>2, <2>1
<1>3. CASE k # 0
  <2>1. k - 1 \in Nat /\ k - 1 \notin N
    BY <1>1, <1>3
  <2>2. PICK g : Solves(c, k - 1, g)
    BY <2>1
  <2> DEFINE h == [i \in 1..k |-> IF i = k THEN IF k = 1 THEN c[k] ELSE g[k-1] \o c[k]
                                  ELSE g[i]]
  <2>3. \A i \in 1..(k - 1) : g[i] = IF i = 1 THEN c[i] ELSE g[i-1] \o c[i]
    BY <2>2 DEF Solves
  <2>4. ASSUME NEW i \in 1..k PROVE h[i] = IF i = 1 THEN c[i] ELSE h[i-1] \o c[i]
    <3>1. CASE i = k
      <4>1. k # 1 => k - 1 \in 1..k /\ k - 1 # k
        BY <1>3
      <4>2. k # 1 => h[k-1] = g[k-1]
        BY <4>1
      <4> QED
        BY <3>1, <4>2
    <3>2. CASE i # k
      <4>1. i \in 1..(k - 1) /\ (i # 1 => i - 1 \in 1..k /\ i - 1 # k)
        BY <3>2
      <4>2. h[i] = g[i] /\ (i # 1 => h[i-1] = g[i-1])
        BY <3>2, <4>1
      <4> QED
        BY <2>3, <4>1, <4>2
    <3> QED
      BY <3>1, <3>2
  <2>5. h = [i \in 1..k |-> IF i = 1 THEN c[i] ELSE h[i-1] \o c[i]]
    <3>1. h = [i \in 1..k |-> h[i]]
      OBVIOUS
    <3> HIDE DEF h
    <3> QED
      BY <2>4, <3>1
  <2>6. Solves(c, k, h)
    BY <2>5 DEF Solves
  <2> QED
    BY <1>1, <2>6
<1> QED
  BY <1>2, <1>3

\* ... and as far as two sequences agree, the same one.
LEMMA SameSolution ==
  ASSUME NEW c, NEW n \in Nat, NEW g, Solves(c, n, g),
         NEW d, NEW m \in Nat, NEW h, Solves(d, m, h),
         n <= m, \A i \in 1..n : c[i] = d[i]
  PROVE  \A i \in 1..n : g[i] = h[i]
<1> DEFINE N == {i \in 1..n : g[i] # h[i]}
<1> SUFFICES ASSUME N # {} PROVE FALSE
  OBVIOUS
<1>1. PICK i \in N : \A j \in N : i <= j
  <2>1. N \subseteq Nat
    OBVIOUS
  <2> HIDE DEF N
  <2> QED
    BY <2>1, Smallest
<1>2. /\ g[i] = IF i = 1 THEN c[i] ELSE g[i-1] \o c[i]
      /\ h[i] = IF i = 1 THEN d[i] ELSE h[i-1] \o d[i]
  <2>1. i \in 1..n /\ i \in 1..m
    OBVIOUS
  <2> QED
    BY <2>1 DEF Solves
<1>3. i # 1 => g[i-1] = h[i-1]
  <2>1. i # 1 => i - 1 \in 1..n /\ ~(i <= i - 1)
    OBVIOUS
  <2> QED
    BY <1>1, <2>1
<1> QED
  BY <1>1, <1>2, <1>3

\* What FlattenSeq returns.
LEMMA FlattenIs ==
  ASSUME NEW c, Len(c) \in Nat
  PROVE  \E g : /\ Solves(c, Len(c), g)
                /\ FlattenSeq(c) = IF Len(c) = 0 THEN c ELSE g[Len(c)]
<1> DEFINE f == CHOOSE g : g = [i \in 1..Len(c) |-> IF i = 1 THEN c[i] ELSE g[i-1] \o c[i]]
<1>1. Solves(c, Len(c), f)
  BY Solution DEF Solves
<1>2. FlattenSeq(c) = IF Len(c) = 0 THEN c ELSE f[Len(c)]
  BY DEF FlattenSeq
<1> QED
  BY <1>1, <1>2

\* Flattening nothing, and one element more.
LEMMA FlattenEmpty == FlattenSeq(<<>>) = <<>>
  BY DEF FlattenSeq

\* One element more is appended to what the others flatten to.
LEMMA FlattenAppend ==
  ASSUME NEW S, NEW c \in Seq(Seq(S)), NEW x \in Seq(S)
  PROVE  FlattenSeq(Append(c, x)) = FlattenSeq(c) \o x
<1> DEFINE d == Append(c, x)
           n == Len(c)
<1>1. /\ n \in Nat /\ Len(d) = n + 1 /\ d[n + 1] = x
      /\ \A i \in 1..n : d[i] = c[i]
  BY AppendProperties
<1> HIDE DEF d
<1>2. PICK g : Solves(c, n, g) /\ FlattenSeq(c) = IF n = 0 THEN c ELSE g[n]
  BY <1>1, FlattenIs
<1>3. PICK h : Solves(d, n + 1, h) /\ FlattenSeq(d) = IF n + 1 = 0 THEN d ELSE h[n + 1]
  BY <1>1, FlattenIs
<1>4. h[n + 1] = IF n = 0 THEN x ELSE h[n] \o x
  <2> HIDE DEF n
  <2>1. n + 1 \in 1..(n + 1) /\ n + 1 - 1 = n /\ (n + 1 = 1 <=> n = 0)
    BY <1>1
  <2>2. \A i \in 1..(n + 1) : h[i] = IF i = 1 THEN d[i] ELSE h[i - 1] \o d[i]
    BY <1>3 DEF Solves
  <2> QED
    BY <1>1, <2>1, <2>2
<1>5. n # 0 => h[n] = g[n]
  <2> HIDE DEF n
  <2>1. n \in Nat /\ n + 1 \in Nat /\ n <= n + 1 /\ n <= n /\ (n # 0 => n \in 1..n)
    BY <1>1
  <2>2. /\ Solves(c, n, g) /\ Solves(d, n + 1, h)
        /\ \A i \in 1..n : c[i] = d[i]
    BY <1>1, <1>2, <1>3
  <2>3. \A i \in 1..n : g[i] = h[i]
    BY <2>1, <2>2, SameSolution
  <2> QED
    BY <2>1, <2>3
<1>6. n = 0 => FlattenSeq(c) \o x = x
  <2>1. n = 0 => c = <<>>
    BY EmptySeq
  <2> QED
    BY <1>2, <2>1, ConcatEmptySeq
<1>7. n + 1 # 0
  BY <1>1
<1> QED
  BY <1>2, <1>3, <1>4, <1>5, <1>6, <1>7 DEF d

\* A sequence of sequences is flattened to a sequence.
LEMMA FlattenType ==
  ASSUME NEW S, NEW c \in Seq(Seq(S))
  PROVE  FlattenSeq(c) \in Seq(S)
<1> DEFINE N == {n \in Nat : \E d \in Seq(Seq(S)) : Len(d) = n /\ FlattenSeq(d) \notin Seq(S)}
<1>1. Len(c) \in Nat /\ (FlattenSeq(c) \notin Seq(S) => Len(c) \in N)
  BY LenProperties
<1> SUFFICES ASSUME N # {} PROVE FALSE
  BY <1>1
<1>2. PICK n \in N : \A k \in N : n <= k
  <2>1. N \subseteq Nat
    OBVIOUS
  <2> HIDE DEF N
  <2> QED
    BY <2>1, Smallest
<1>3. PICK d \in Seq(Seq(S)) : Len(d) = n /\ FlattenSeq(d) \notin Seq(S)
  BY <1>2
<1>4. d # <<>>
  BY <1>3, FlattenEmpty, EmptySeq
<1>5. PICK e \in Seq(Seq(S)), x \in Seq(S) : d = Append(e, x)
  BY <1>4, SequenceEmptyOrAppend
<1>6. Len(e) \in Nat /\ Len(d) = Len(e) + 1
  BY <1>5, AppendProperties
<1>7. FlattenSeq(e) \in Seq(S)
  <2>1. ~(n <= Len(e))
    BY <1>3, <1>6
  <2> QED
    BY <1>2, <1>6, <2>1
<1>8. FlattenSeq(d) = FlattenSeq(e) \o x
  BY <1>5, FlattenAppend
<1> QED
  BY <1>3, <1>7, <1>8, ConcatProperties

\* Concatenation is associative.
LEMMA Associative ==
  ASSUME NEW S
  PROVE  \A s, t, u \in Seq(S) : (s \o t) \o u = s \o (t \o u)
  BY ConcatAssociative

\* Flattening distributes over concatenation, for one more element on the right
LEMMA FlattenConcatStep ==
  ASSUME NEW S, NEW c \in Seq(Seq(S)), NEW f \in Seq(Seq(S)), NEW x \in Seq(S),
         FlattenSeq(c \o f) = FlattenSeq(c) \o FlattenSeq(f)
  PROVE  FlattenSeq(c \o Append(f, x)) = FlattenSeq(c) \o FlattenSeq(Append(f, x))
<1>1. c \o Append(f, x) = Append(c \o f, x) /\ c \o f \in Seq(Seq(S))
  OBVIOUS
<1>2. FlattenSeq(Append(c \o f, x)) = FlattenSeq(c \o f) \o x
  BY <1>1, FlattenAppend
<1>3. FlattenSeq(Append(f, x)) = FlattenSeq(f) \o x
  BY FlattenAppend
<1>4. FlattenSeq(c) \in Seq(S) /\ FlattenSeq(f) \in Seq(S)
  BY FlattenType
<1> DEFINE a == FlattenSeq(c)
           b == FlattenSeq(f)
<1>5. (a \o b) \o x = a \o (b \o x)
  <2>1. a \in Seq(S) /\ b \in Seq(S)
    BY <1>4
  <2> HIDE DEF a, b
  <2> QED
    BY <2>1, Associative
<1> QED
  BY <1>1, <1>2, <1>3, <1>5

\* ... and altogether.
LEMMA FlattenConcat ==
  ASSUME NEW S, NEW c \in Seq(Seq(S)), NEW d \in Seq(Seq(S))
  PROVE  FlattenSeq(c \o d) = FlattenSeq(c) \o FlattenSeq(d)
<1> DEFINE N == {n \in Nat : \E e \in Seq(Seq(S)) :
                    Len(e) = n /\ FlattenSeq(c \o e) # FlattenSeq(c) \o FlattenSeq(e)}
<1>1. Len(d) \in Nat /\ (FlattenSeq(c \o d) # FlattenSeq(c) \o FlattenSeq(d) => Len(d) \in N)
  BY LenProperties
<1> SUFFICES ASSUME N # {} PROVE FALSE
  BY <1>1
<1>2. PICK n \in N : \A k \in N : n <= k
  <2>1. N \subseteq Nat
    OBVIOUS
  <2> HIDE DEF N
  <2> QED
    BY <2>1, Smallest
<1>3. PICK e \in Seq(Seq(S)) : Len(e) = n /\ FlattenSeq(c \o e) # FlattenSeq(c) \o FlattenSeq(e)
  BY <1>2
<1>4. e # <<>>
  <2>1. c \o <<>> = c
    BY ConcatEmptySeq
  <2>2. FlattenSeq(c) \o <<>> = FlattenSeq(c)
    BY FlattenType, ConcatEmptySeq
  <2> QED
    BY <1>3, <2>1, <2>2, FlattenEmpty
<1>5. PICK f \in Seq(Seq(S)), x \in Seq(S) : e = Append(f, x)
  BY <1>4, SequenceEmptyOrAppend
<1>6. Len(f) \in Nat /\ Len(e) = Len(f) + 1
  BY <1>5, AppendProperties
<1>7. FlattenSeq(c \o f) = FlattenSeq(c) \o FlattenSeq(f)
  <2>1. ~(n <= Len(f))
    BY <1>3, <1>6
  <2> QED
    BY <1>2, <1>6, <2>1
<1>8. FlattenSeq(c \o Append(f, x)) = FlattenSeq(c) \o FlattenSeq(Append(f, x))
  BY <1>7, FlattenConcatStep
<1> QED
  BY <1>3, <1>5, <1>8

\* Flattening one sequence, and one with a sequence in front.
LEMMA FlattenOne ==
  ASSUME NEW S, NEW x \in Seq(S)
  PROVE  FlattenSeq(<<x>>) = x
<1>1. Append(<<>>, x) = <<x>> /\ <<>> \in Seq(Seq(S))
  BY EmptySeq
<1>2. FlattenSeq(Append(<<>>, x)) = FlattenSeq(<<>>) \o x
  BY <1>1, FlattenAppend
<1> QED
  BY <1>1, <1>2, FlattenEmpty, ConcatEmptySeq

\* A sequence in front comes first in what they flatten to.
LEMMA FlattenFront ==
  ASSUME NEW S, NEW x \in Seq(S), NEW c \in Seq(Seq(S))
  PROVE  <<x>> \o c \in Seq(Seq(S)) /\ FlattenSeq(<<x>> \o c) = x \o FlattenSeq(c)
<1>1. <<x>> \in Seq(Seq(S))
  OBVIOUS
<1>2. <<x>> \o c \in Seq(Seq(S))
  BY <1>1, ConcatProperties
<1>3. FlattenSeq(<<x>> \o c) = FlattenSeq(<<x>>) \o FlattenSeq(c)
  BY <1>1, FlattenConcat
<1> QED
  BY <1>2, <1>3, FlattenOne

-----------------------------------------------------------------------------
(* Prefixes and suffixes                                                   *)

\* A sequence is a prefix and the rest.
LEMMA Halves ==
  ASSUME NEW S, NEW s \in Seq(S), NEW n \in 0..Len(s)
  PROVE  /\ SubSeq(s, 1, n) \in Seq(S) /\ Len(SubSeq(s, 1, n)) = n
         /\ SubSeq(s, n + 1, Len(s)) \in Seq(S)
         /\ Len(SubSeq(s, n + 1, Len(s))) = Len(s) - n
         /\ s = SubSeq(s, 1, n) \o SubSeq(s, n + 1, Len(s))
<1>1. SubSeq(s, 1, n) \in Seq(S) /\ Len(SubSeq(s, 1, n)) = n
  OBVIOUS
<1>2. SubSeq(s, n + 1, Len(s)) \in Seq(S)
  OBVIOUS
<1>3. Len(SubSeq(s, n + 1, Len(s))) = Len(s) - n
  OBVIOUS
<1>4. SubSeq(s, 1, n) \o SubSeq(s, n + 1, Len(s)) = SubSeq(s, 1, Len(s))
  <2>1. 1 \in 1..Len(s) + 1 /\ n \in 1-1..Len(s) /\ Len(s) \in n..Len(s)
    BY LenProperties
  <2> QED
    BY <2>1, ConcatAdjacentSubSeq
<1>5. SubSeq(s, 1, Len(s)) = s
  BY SubSeqFull
<1> QED
  BY <1>1, <1>2, <1>3, <1>4, <1>5

\* The first n and the other elements of two sequences one behind the other, when
\* the cut is in the first,
LEMMA CutInFirst ==
  ASSUME NEW S, NEW s \in Seq(S), NEW t \in Seq(S), NEW n \in 0..Len(s)
  PROVE  /\ SubSeq(s \o t, 1, n) = SubSeq(s, 1, n)
         /\ SubSeq(s \o t, n + 1, Len(s \o t)) = SubSeq(s, n + 1, Len(s)) \o t
<1>1. SubSeq(s \o t, 1, n) = SubSeq(s, 1, n)
  OBVIOUS
<1>2. SubSeq(s \o t, n + 1, Len(s \o t)) = SubSeq(s, n + 1, Len(s)) \o t
  <2>0. \A x, y \in Seq(S) :
          /\ x \o y \in Seq(S) /\ Len(x \o y) = Len(x) + Len(y)
          /\ \A i \in 1..Len(x) : (x \o y)[i] = x[i]
          /\ \A i \in 1..Len(y) : (x \o y)[Len(x) + i] = y[i]
    BY ConcatProperties
  <2>1. Len(s) \in Nat /\ Len(t) \in Nat
    BY LenProperties
  <2>2. /\ s \o t \in Seq(S) /\ Len(s \o t) = Len(s) + Len(t)
        /\ \A i \in 1..Len(s) : (s \o t)[i] = s[i]
        /\ \A i \in 1..Len(t) : (s \o t)[Len(s) + i] = t[i]
    BY ConcatProperties
  <2> DEFINE l == SubSeq(s \o t, n + 1, Len(s \o t))
             h == SubSeq(s, n + 1, Len(s))
  <2>3. /\ h \in Seq(S) /\ Len(h) = Len(s) - n
        /\ \A i \in 1..(Len(s) - n) : h[i] = s[n + i]
    OBVIOUS
  <2>4. /\ l \in Seq(S) /\ Len(l) = Len(s) + Len(t) - n
        /\ \A i \in 1..(Len(s) + Len(t) - n) : l[i] = (s \o t)[n + i]
    BY <2>1, <2>2
  <2>5. /\ h \o t \in Seq(S) /\ Len(h \o t) = Len(s) - n + Len(t)
        /\ \A i \in 1..(Len(s) - n) : (h \o t)[i] = h[i]
        /\ \A i \in 1..Len(t) : (h \o t)[Len(s) - n + i] = t[i]
    <3>1. h \in Seq(S) /\ Len(h) = Len(s) - n
      BY <2>3
    <3> HIDE DEF h
    <3>2. /\ h \o t \in Seq(S) /\ Len(h \o t) = Len(h) + Len(t)
          /\ \A i \in 1..Len(h) : (h \o t)[i] = h[i]
          /\ \A i \in 1..Len(t) : (h \o t)[Len(h) + i] = t[i]
      BY <2>0, <3>1
    <3> QED
      BY <3>1, <3>2
  <2> HIDE DEF l, h
  <2>6. \A i \in 1..Len(l) : l[i] = (h \o t)[i]
    <3> SUFFICES ASSUME NEW i \in 1..Len(l) PROVE l[i] = (h \o t)[i]
      OBVIOUS
    <3>1. CASE i <= Len(s) - n
      <4>1. i \in 1..(Len(s) - n) /\ n + i \in 1..Len(s) /\ i \in 1..(Len(s) + Len(t) - n)
        BY <2>1, <2>4, <3>1
      <4>2. l[i] = (s \o t)[n + i]
        BY <2>4, <4>1
      <4>3. (h \o t)[i] = s[n + i]
        BY <2>3, <2>5, <4>1
      <4>4. (s \o t)[n + i] = s[n + i]
        BY <2>2, <4>1
      <4> QED
        BY <4>2, <4>3, <4>4, Zenon
    <3>2. CASE i > Len(s) - n
      <4> DEFINE j == n + i - Len(s)
      <4>1. /\ j \in 1..Len(t) /\ n + i = Len(s) + j /\ i = Len(s) - n + j
            /\ i \in 1..(Len(s) + Len(t) - n)
        BY <2>1, <2>4, <3>2
      <4> HIDE DEF j
      <4>2. l[i] = (s \o t)[Len(s) + j] /\ (h \o t)[i] = t[j]
        BY <2>4, <2>5, <4>1
      <4>3. (s \o t)[Len(s) + j] = t[j]
        BY <2>2, <4>1
      <4> QED
        BY <4>2, <4>3, Zenon
    <3>3. i <= Len(s) - n \/ i > Len(s) - n
      <4>1. i \in Int /\ Len(s) - n \in Int
        BY <2>1
      <4> QED
        BY <4>1
    <3> QED
      BY <3>1, <3>2, <3>3, Zenon
  <2>7. Len(l) = Len(h \o t)
    BY <2>1, <2>4, <2>5
  <2>8. l = h \o t
    BY <2>4, <2>5, <2>6, <2>7, SeqEqual
  <2> QED
    BY <2>8 DEF l, h
<1> QED
  BY <1>1, <1>2

\* and in the second.
LEMMA CutInSecond ==
  ASSUME NEW S, NEW s \in Seq(S), NEW t \in Seq(S), NEW n \in 0..Len(t)
  PROVE  /\ SubSeq(s \o t, 1, Len(s) + n) = s \o SubSeq(t, 1, n)
         /\ SubSeq(s \o t, Len(s) + n + 1, Len(s \o t)) = SubSeq(t, n + 1, Len(t))
  OBVIOUS

\* A sequence is its head and its tail.
LEMMA HeadAndTail ==
  ASSUME NEW S, NEW s \in Seq(S), s # <<>>
  PROVE  /\ Head(s) = s[1] /\ Head(s) \in S /\ Tail(s) \in Seq(S)
         /\ Len(s) \in Nat \ {0} /\ Len(Tail(s)) = Len(s) - 1
         /\ s = <<Head(s)>> \o Tail(s)
         /\ Tail(s) = SubSeq(s, 2, Len(s))
  OBVIOUS

\* One element more of a prefix.
LEMMA LongerPrefix ==
  ASSUME NEW S, NEW s \in Seq(S), NEW k \in 1..Len(s)
  PROVE  /\ s[k] \in S /\ k - 1 \in 0..Len(s)
         /\ SubSeq(s, 1, k) = Append(SubSeq(s, 1, k - 1), s[k])
  OBVIOUS

-----------------------------------------------------------------------------
(* Where a list of chunks is cut                                           *)

\* The bytes of a list are those of its first k chunks and those of the others.
LEMMA Parts ==
  ASSUME NEW S, NEW c \in Seq(Seq(S)), NEW k \in 0..Len(c)
  PROVE  /\ SubSeq(c, 1, k) \in Seq(Seq(S)) /\ SubSeq(c, k + 1, Len(c)) \in Seq(Seq(S))
         /\ FlattenSeq(SubSeq(c, 1, k)) \in Seq(S)
         /\ FlattenSeq(SubSeq(c, k + 1, Len(c))) \in Seq(S)
         /\ FlattenSeq(c) = FlattenSeq(SubSeq(c, 1, k)) \o FlattenSeq(SubSeq(c, k + 1, Len(c)))
<1> DEFINE a == SubSeq(c, 1, k)
           b == SubSeq(c, k + 1, Len(c))
<1>1. a \in Seq(Seq(S)) /\ b \in Seq(Seq(S)) /\ c = a \o b
  BY Halves
<1> HIDE DEF a, b
<1>2. FlattenSeq(a \o b) = FlattenSeq(a) \o FlattenSeq(b)
  BY <1>1, FlattenConcat
<1>3. FlattenSeq(a) \in Seq(S) /\ FlattenSeq(b) \in Seq(S)
  BY <1>1, FlattenType
<1> QED
  BY <1>1, <1>2, <1>3 DEF a, b

\* The bytes of the first k chunks, chunk by chunk.
LEMMA UptoIs ==
  ASSUME NEW S, NEW c \in Seq(Seq(S))
  PROVE  /\ Len(c) \in Nat
         /\ \A k \in 0..Len(c) : Upto(c, k) \in Nat
         /\ Upto(c, 0) = 0
         /\ Upto(c, Len(c)) = Len(FlattenSeq(c))
         /\ \A k \in 1..Len(c) : /\ c[k] \in Seq(S) /\ Len(c[k]) \in Nat
                                 /\ Upto(c, k) = Upto(c, k - 1) + Len(c[k])
<1>1. Len(c) \in Nat
  BY LenProperties
<1>2. ASSUME NEW k \in 0..Len(c) PROVE Upto(c, k) \in Nat
  BY Parts, LenProperties DEF Upto
<1>3. Upto(c, 0) = 0
  <2>1. SubSeq(c, 1, 0) = <<>>
    OBVIOUS
  <2>2. Len(<<>>) = 0
    OBVIOUS
  <2>3. Upto(c, 0) = Len(FlattenSeq(<<>>))
    BY <2>1, Zenon DEF Upto
  <2> QED
    BY <2>2, <2>3, FlattenEmpty
<1>4. Upto(c, Len(c)) = Len(FlattenSeq(c))
  BY SubSeqFull DEF Upto
<1>5. ASSUME NEW k \in 1..Len(c)
      PROVE  c[k] \in Seq(S) /\ Len(c[k]) \in Nat /\ Upto(c, k) = Upto(c, k - 1) + Len(c[k])
  <2> DEFINE a == SubSeq(c, 1, k - 1)
  <2>1. /\ c[k] \in Seq(S) /\ k - 1 \in 0..Len(c)
        /\ SubSeq(c, 1, k) = Append(a, c[k])
    BY LongerPrefix
  <2>2. a \in Seq(Seq(S)) /\ FlattenSeq(a) \in Seq(S)
    BY <2>1, Parts
  <2> HIDE DEF a
  <2>3. FlattenSeq(Append(a, c[k])) = FlattenSeq(a) \o c[k]
    BY <2>1, <2>2, FlattenAppend
  <2>4. Len(FlattenSeq(a) \o c[k]) = Len(FlattenSeq(a)) + Len(c[k])
    BY <2>1, <2>2, ConcatProperties
  <2>5. Upto(c, k - 1) = Len(FlattenSeq(a)) /\ Upto(c, k) = Len(FlattenSeq(Append(a, c[k])))
    BY <2>1 DEF Upto, a
  <2> QED
    BY <2>1, <2>3, <2>4, <2>5, LenProperties
<1> QED
  BY <1>1, <1>2, <1>3, <1>4, <1>5

\* Every byte is in some chunk.
LEMMA SomeCut ==
  ASSUME NEW S, NEW c \in Seq(Seq(S)), NEW n \in 1..Len(FlattenSeq(c))
  PROVE  \E k \in 1..Len(c) : Upto(c, k - 1) < n /\ n <= Upto(c, k)
<1> DEFINE N == {k \in 0..Len(c) : n <= Upto(c, k)}
<1>1. /\ Len(c) \in Nat /\ Upto(c, 0) = 0 /\ Upto(c, Len(c)) = Len(FlattenSeq(c))
      /\ \A k \in 0..Len(c) : Upto(c, k) \in Nat
  BY UptoIs
<1>2. Len(c) \in N /\ N \subseteq Nat
  BY <1>1
<1>3. PICK k \in N : \A j \in N : k <= j
  <2> HIDE DEF N
  <2> QED
    BY <1>2, Smallest
<1>4. k # 0
  BY <1>1
<1>5. k \in 1..Len(c) /\ k - 1 \in 0..Len(c) /\ ~(k <= k - 1) /\ n <= Upto(c, k)
  BY <1>1, <1>4
<1>6. k - 1 \notin N
  BY <1>3, <1>5
<1>7. ~(n <= Upto(c, k - 1)) /\ Upto(c, k - 1) \in Nat
  BY <1>1, <1>5, <1>6
<1> QED
  BY <1>5, <1>7

\* The chunk with the n-th byte and what is before and behind it.
LEMMA CutIs ==
  ASSUME NEW S, NEW c \in Seq(Seq(S)), NEW n \in 1..Len(FlattenSeq(c))
  PROVE  /\ Cut(c, n) \in 1..Len(c)
         /\ Upto(c, Cut(c, n) - 1) < n /\ n <= Upto(c, Cut(c, n))
<1>1. Len(c) \in Nat /\ DOMAIN c = 1..Len(c)
  BY LenProperties
<1>2. \E k \in DOMAIN c : Upto(c, k - 1) < n /\ n <= Upto(c, k)
  BY <1>1, SomeCut
<1> QED
  BY <1>1, <1>2 DEF Cut

\* A byte is in the first chunk if no chunk before its own has as many bytes as that.
LEMMA FirstChunk ==
  ASSUME NEW S, NEW c \in Seq(Seq(S)), NEW k \in 1..Len(c), NEW n \in Nat,
         n <= Len(Head(c)), Upto(c, k - 1) < n
  PROVE  k = 1
<1> SUFFICES ASSUME k # 1 PROVE FALSE
  OBVIOUS
<1> DEFINE a == SubSeq(c, 1, k - 1)
<1>1. k - 1 \in 1..Len(c)
  BY LenProperties
<1>2. a \in Seq(Seq(S)) /\ a # <<>> /\ Head(a) = Head(c)
  <2>1. Len(a) = k - 1 /\ a \in Seq(Seq(S)) /\ a[1] = c[1]
    BY <1>1
  <2>2. Len(c) \in Nat /\ c # <<>>
    BY <1>1, LenProperties
  <2> HIDE DEF a
  <2>3. a # <<>>
    BY <1>1, <2>1
  <2>4. Head(a) = a[1] /\ Head(c) = c[1]
    BY <2>1, <2>2, <2>3, HeadAndTail
  <2> QED
    BY <2>1, <2>3, <2>4
<1>3. Upto(c, k - 1) = Len(FlattenSeq(a))
  BY DEF Upto
<1> HIDE DEF a
<1>4. Head(a) \in Seq(S) /\ Tail(a) \in Seq(Seq(S)) /\ a = <<Head(a)>> \o Tail(a)
  BY <1>2, HeadAndTail
<1>5. FlattenSeq(a) = Head(a) \o FlattenSeq(Tail(a)) /\ FlattenSeq(Tail(a)) \in Seq(S)
  <2>1. FlattenSeq(<<Head(a)>> \o Tail(a)) = Head(a) \o FlattenSeq(Tail(a))
    BY <1>4, FlattenFront
  <2> QED
    BY <1>4, <2>1, FlattenType
<1>6. Len(FlattenSeq(a)) = Len(Head(a)) + Len(FlattenSeq(Tail(a)))
  BY <1>4, <1>5, ConcatProperties
<1>7. Len(Head(a)) \in Nat /\ Len(FlattenSeq(Tail(a))) \in Nat
  BY <1>4, <1>5, LenProperties
<1> QED
  BY <1>2, <1>3, <1>6, <1>7

\* The bytes before, in and behind the k-th chunk.
LEMMA AroundChunk ==
  ASSUME NEW S, NEW c \in Seq(Seq(S)), NEW k \in 1..Len(c)
  PROVE  /\ c[k] \in Seq(S)
         /\ SubSeq(c, 1, k - 1) \in Seq(Seq(S)) /\ SubSeq(c, k + 1, Len(c)) \in Seq(Seq(S))
         /\ FlattenSeq(SubSeq(c, 1, k - 1)) \in Seq(S)
         /\ FlattenSeq(SubSeq(c, k + 1, Len(c))) \in Seq(S)
         /\ FlattenSeq(c) = FlattenSeq(SubSeq(c, 1, k - 1))
                               \o (c[k] \o FlattenSeq(SubSeq(c, k + 1, Len(c))))
<1> DEFINE a == SubSeq(c, 1, k - 1)
           b == SubSeq(c, k + 1, Len(c))
           x == c[k]
<1>1. k - 1 \in 0..Len(c) /\ k \in 0..Len(c) /\ x \in Seq(S) /\ SubSeq(c, 1, k) = Append(a, x)
  BY LongerPrefix
<1>2. a \in Seq(Seq(S)) /\ FlattenSeq(a) \in Seq(S)
  BY <1>1, Parts
<1>3. /\ b \in Seq(Seq(S)) /\ FlattenSeq(b) \in Seq(S)
      /\ FlattenSeq(c) = FlattenSeq(Append(a, x)) \o FlattenSeq(b)
  BY <1>1, Parts
<1> HIDE DEF a, b, x
<1>4. FlattenSeq(Append(a, x)) = FlattenSeq(a) \o x
  BY <1>1, <1>2, FlattenAppend
<1>5. (FlattenSeq(a) \o x) \o FlattenSeq(b) = FlattenSeq(a) \o (x \o FlattenSeq(b))
  <2> DEFINE p == FlattenSeq(a)
             q == FlattenSeq(b)
  <2>1. p \in Seq(S) /\ q \in Seq(S)
    BY <1>2, <1>3
  <2> HIDE DEF p, q
  <2>2. (p \o x) \o q = p \o (x \o q)
    BY <1>1, <2>1, Associative
  <2> QED
    BY <2>2 DEF p, q
<1> QED
  BY <1>1, <1>2, <1>3, <1>4, <1>5 DEF a, b, x


\* The bytes of a list up to one in the k-th chunk, and those behind that.
LEMMA CutInChunk ==
  ASSUME NEW S, NEW c \in Seq(Seq(S)), NEW k \in 1..Len(c), NEW p \in 0..Len(c[k]),
         NEW n, n = Upto(c, k - 1) + p
  PROVE  /\ SubSeq(FlattenSeq(c), 1, n) = FlattenSeq(SubSeq(c, 1, k - 1)) \o SubSeq(c[k], 1, p)
         /\ SubSeq(FlattenSeq(c), n + 1, Len(FlattenSeq(c)))
               = SubSeq(c[k], p + 1, Len(c[k])) \o FlattenSeq(SubSeq(c, k + 1, Len(c)))
<1> DEFINE a == FlattenSeq(SubSeq(c, 1, k - 1))
           x == c[k]
           b == FlattenSeq(SubSeq(c, k + 1, Len(c)))
           y == x \o b
<1>1. x \in Seq(S) /\ a \in Seq(S) /\ b \in Seq(S) /\ FlattenSeq(c) = a \o y
  BY AroundChunk
<1>2. n = Len(a) + p /\ p \in 0..Len(x)
  BY DEF Upto
<1> HIDE DEF a, b, x
<1>3. /\ y \in Seq(S)
      /\ SubSeq(y, 1, p) = SubSeq(x, 1, p)
      /\ SubSeq(y, p + 1, Len(y)) = SubSeq(x, p + 1, Len(x)) \o b
  BY <1>1, <1>2, CutInFirst, ConcatProperties
<1>4. p \in 0..Len(y)
  <2>1. Len(x) \in Nat /\ Len(b) \in Nat
    BY <1>1, LenProperties
  <2>2. Len(y) = Len(x) + Len(b)
    BY <1>1, ConcatProperties
  <2> HIDE DEF y
  <2> QED
    BY <1>2, <2>1, <2>2
<1> HIDE DEF y
<1>5. /\ SubSeq(a \o y, 1, Len(a) + p) = a \o SubSeq(y, 1, p)
      /\ SubSeq(a \o y, Len(a) + p + 1, Len(a \o y)) = SubSeq(y, p + 1, Len(y))
  BY <1>1, <1>3, <1>4, CutInSecond
<1> QED
  BY <1>1, <1>2, <1>3, <1>5, Zenon DEF a, b, x

\* What is left behind the first n bytes.
LEMMA BehindIs ==
  ASSUME NEW S, NEW c \in Seq(Seq(S)), c # <<>>, NEW n \in 0..Len(FlattenSeq(c)),
         n = 0 => Len(Head(c)) = 0
  PROVE  /\ Behind(c, n) \in Seq(Seq(S))
         /\ FlattenSeq(Behind(c, n)) = SubSeq(FlattenSeq(c), n + 1, Len(FlattenSeq(c)))
<1>1. CASE n = Len(Head(c))
  <2> DEFINE h == Head(c)
             t == Tail(c)
             f == FlattenSeq(t)
  <2>1. h \in Seq(S) /\ t \in Seq(Seq(S)) /\ c = <<h>> \o t
    BY HeadAndTail
  <2>2. Behind(c, n) = t
    BY <1>1 DEF Behind
  <2> HIDE DEF h, t
  <2>3. f \in Seq(S) /\ FlattenSeq(c) = h \o f
    BY <2>1, FlattenFront, FlattenType
  <2> HIDE DEF f
  <2>4. Len(h) \in Nat /\ Len(f) \in Nat
    BY <2>1, <2>3, LenProperties
  <2>5. SubSeq(h \o f, Len(h) + 0 + 1, Len(h \o f)) = SubSeq(f, 0 + 1, Len(f))
    <3>1. 0 \in 0..Len(f)
      BY <2>4
    <3> QED
      BY <2>1, <2>3, <3>1, CutInSecond
  <2>6. SubSeq(f, 1, Len(f)) = f
    BY <2>3, SubSeqFull
  <2>7. 0 + 1 = 1 /\ Len(h) + 0 + 1 = n + 1
    BY <1>1, <2>4 DEF h
  <2> QED
    BY <2>1, <2>2, <2>3, <2>5, <2>6, <2>7, Zenon DEF f
<1>2. CASE n # Len(Head(c))
  <2> DEFINE k == Cut(c, n)
             x == c[k]
             p == n - Upto(c, k - 1)
             B == SubSeq(c, k + 1, Len(c))
             r == SubSeq(x, p + 1, Len(x))
  <2>1. n \in 1..Len(FlattenSeq(c))
    BY <1>2
  <2>2. k \in 1..Len(c) /\ Upto(c, k - 1) < n /\ n <= Upto(c, k)
    BY <2>1, CutIs
  <2>3. Behind(c, n) = <<r>> \o B
    BY <1>2 DEF Behind, Rest
  <2> HIDE DEF k
  <2>4. x \in Seq(S) /\ B \in Seq(Seq(S)) /\ FlattenSeq(B) \in Seq(S)
    BY <2>2, AroundChunk
  <2>5. p \in 0..Len(x) /\ n = Upto(c, k - 1) + p
    <3>1. /\ Upto(c, k) = Upto(c, k - 1) + Len(x) /\ Len(x) \in Nat
          /\ Upto(c, k - 1) \in Nat
      <4>1. k - 1 \in 0..Len(c)
        BY <2>2, LenProperties
      <4> QED
        BY <2>2, <4>1, UptoIs
    <3> HIDE DEF x
    <3> QED
      BY <2>1, <2>2, <3>1
  <2>6. SubSeq(FlattenSeq(c), n + 1, Len(FlattenSeq(c))) = r \o FlattenSeq(B)
    <3> HIDE DEF p
    <3> QED
      BY <2>2, <2>5, CutInChunk
  <2>7. r \in Seq(S)
    <3> HIDE DEF p, x
    <3> QED
      BY <2>4, <2>5, Halves
  <2> HIDE DEF r, B
  <2>8. <<r>> \o B \in Seq(Seq(S)) /\ FlattenSeq(<<r>> \o B) = r \o FlattenSeq(B)
    BY <2>4, <2>7, FlattenFront
  <2> QED
    BY <2>3, <2>6, <2>8, Zenon
<1> QED
  BY <1>1, <1>2

\* What msgSplit leaves in the first message, wherever the cut is,
LEMMA FirstPartIs ==
  ASSUME NEW S, NEW c \in Seq(Seq(S)), c # <<>>, NEW n \in 0..Len(FlattenSeq(c))
  PROVE  /\ FirstPart(c, n) \in Seq(Seq(S))
         /\ FlattenSeq(FirstPart(c, n)) = SubSeq(FlattenSeq(c), 1, n)
<1>1. CASE n = Len(Head(c))
  <2> DEFINE h == Head(c)
             f == FlattenSeq(Tail(c))
  <2>1. /\ h \in Seq(S) /\ Tail(c) \in Seq(Seq(S))
        /\ c = <<h>> \o Tail(c) /\ FirstPart(c, n) = <<h>>
    BY <1>1, HeadAndTail DEF FirstPart
  <2>2. f \in Seq(S) /\ FlattenSeq(c) = h \o f
    <3>1. FlattenSeq(<<h>> \o Tail(c)) = h \o f
      BY <2>1, FlattenFront
    <3> QED
      BY <2>1, <3>1, FlattenType
  <2>3. n = Len(h)
    BY <1>1
  <2> HIDE DEF h, f
  <2>4. SubSeq(h \o f, 1, Len(h)) = SubSeq(h, 1, Len(h))
    <3>1. Len(h) \in 0..Len(h)
      BY <2>1, LenProperties
    <3> QED
      BY <2>1, <2>2, <3>1, CutInFirst
  <2>5. SubSeq(h, 1, Len(h)) = h
    BY <2>1, SubSeqFull
  <2>6. <<h>> \in Seq(Seq(S)) /\ FlattenSeq(<<h>>) = h
    BY <2>1, FlattenOne
  <2> QED
    BY <2>1, <2>2, <2>3, <2>4, <2>5, <2>6, Zenon
<1>2. CASE n # Len(Head(c)) /\ n = 0
  <2>1. SubSeq(FlattenSeq(c), 1, 0) = <<>>
    OBVIOUS
  <2>2. FirstPart(c, n) = <<>>
    BY <1>2 DEF FirstPart
  <2> QED
    BY <1>2, <2>1, <2>2, FlattenEmpty, EmptySeq
<1>3. CASE n # Len(Head(c)) /\ n # 0
  <2> DEFINE k == Cut(c, n)
             x == c[k]
             p == n - Upto(c, k - 1)
             A == SubSeq(c, 1, k - 1)
             r == SubSeq(x, 1, p)
  <2>1. n \in 1..Len(FlattenSeq(c))
    BY <1>3
  <2>2. k \in 1..Len(c) /\ Upto(c, k - 1) < n /\ n <= Upto(c, k)
    BY <2>1, CutIs
  <2>3. FirstPart(c, n) = A \o <<r>>
    BY <1>3 DEF FirstPart
  <2> HIDE DEF k
  <2>4. x \in Seq(S) /\ A \in Seq(Seq(S))
    BY <2>2, AroundChunk
  <2>5. p \in 0..Len(x) /\ n = Upto(c, k - 1) + p
    <3>1. /\ Upto(c, k) = Upto(c, k - 1) + Len(x) /\ Len(x) \in Nat
          /\ Upto(c, k - 1) \in Nat
      <4>1. k - 1 \in 0..Len(c)
        BY <2>2, LenProperties
      <4> QED
        BY <2>2, <4>1, UptoIs
    <3> HIDE DEF x
    <3> QED
      BY <2>1, <2>2, <3>1
  <2>6. SubSeq(FlattenSeq(c), 1, n) = FlattenSeq(A) \o r
    <3> HIDE DEF p
    <3> QED
      BY <2>2, <2>5, CutInChunk
  <2>7. r \in Seq(S)
    <3> HIDE DEF p, x
    <3> QED
      BY <2>4, <2>5, Halves
  <2> HIDE DEF r, A
  <2>8. A \o <<r>> = Append(A, r) /\ Append(A, r) \in Seq(Seq(S))
    BY <2>4, <2>7, AppendIsConcat, AppendProperties
  <2>9. FlattenSeq(Append(A, r)) = FlattenSeq(A) \o r
    BY <2>4, <2>7, FlattenAppend
  <2> QED
    BY <2>3, <2>6, <2>8, <2>9, Zenon
<1> QED
  BY <1>1, <1>2, <1>3

\* and in the second.
LEMMA SecondPartIs ==
  ASSUME NEW S, NEW c \in Seq(Seq(S)), c # <<>>, NEW n \in 0..Len(FlattenSeq(c))
  PROVE  /\ SecondPart(c, n) \in Seq(Seq(S))
         /\ FlattenSeq(SecondPart(c, n)) = SubSeq(FlattenSeq(c), n + 1, Len(FlattenSeq(c)))
<1>1. CASE n = 0 /\ Head(c) # <<>>
  <2>1. FlattenSeq(c) \in Seq(S) /\ SecondPart(c, n) = c /\ n + 1 = 1
    BY <1>1, FlattenType DEF SecondPart
  <2>2. SubSeq(FlattenSeq(c), 1, Len(FlattenSeq(c))) = FlattenSeq(c)
    BY <2>1, SubSeqFull
  <2> QED
    BY <2>1, <2>2
<1>2. CASE ~(n = 0 /\ Head(c) # <<>>)
  <2>1. n = 0 => Len(Head(c)) = 0
    <3>1. Len(<<>>) = 0
      OBVIOUS
    <3> QED
      BY <1>2, <3>1
  <2> QED
    BY <1>2, <2>1, BehindIs DEF SecondPart
<1> QED
  BY <1>1, <1>2

-----------------------------------------------------------------------------
(* Where a list of fields is cut                                           *)

\* The two libraries count bytes alike.
LEMMA SameBytes ==
  /\ \A m : Fields!Flat(m) = Flat(m)
  /\ \A f, k : Fields!Upto(f, k) = Upto(f, k)
  /\ \A n : Fields!SizeT(n) = SizeT(n) /\ Fields!Fresh(n) = Fresh(n)
<1>0. \A c : Fields!FlattenSeq(c) = FlattenSeq(c)
  BY Zenon DEF Fields!FlattenSeq, FlattenSeq
<1>1. \A m : Fields!Flat(m) = Flat(m)
  BY <1>0, Zenon DEF Fields!Flat, Flat
<1>2. \A f, k : Fields!Upto(f, k) = Upto(f, k)
  BY <1>0, Zenon DEF Fields!Upto, Upto
<1>3. \A n : Fields!SizeT(n) = SizeT(n) /\ Fields!Fresh(n) = Fresh(n)
  BY DEF Fields!SizeT, SizeT, Fields!Fresh, Fresh
<1> QED
  BY <1>1, <1>2, <1>3

\* The fields in front of the one with the n-th byte.
LEMMA BeforeIs ==
  ASSUME NEW S, NEW c \in Seq(Seq(S)), NEW n \in 1..Len(FlattenSeq(c))
  PROVE  LET k == Fields!Before(c, n) IN
         k \in 0..(Len(c) - 1) /\ Upto(c, k) < n /\ n <= Upto(c, k + 1)
<1>1. PICK k \in 1..Len(c) : Upto(c, k - 1) < n /\ n <= Upto(c, k)
  BY SomeCut
<1>2. k - 1 \in 0..(Len(c) - 1) /\ k - 1 + 1 = k
  BY LenProperties
<1>3. \E j \in 0..(Len(c) - 1) : Fields!Upto(c, j) < n /\ n <= Fields!Upto(c, j + 1)
  BY <1>1, <1>2, SameBytes
<1>4. LET j == Fields!Before(c, n) IN
      j \in 0..(Len(c) - 1) /\ Fields!Upto(c, j) < n /\ n <= Fields!Upto(c, j + 1)
  BY <1>3, Zenon DEF Fields!Before
<1> QED
  BY <1>4, SameBytes

-----------------------------------------------------------------------------
(* The invariant                                                           *)

Content == Seq(Seq(Nat))
Text    == [m \in Msgs |-> Flat(m)]

\* No byte is in two places, and all have been handed in: of texts T after u bytes.
Once(T, u) ==
    /\ \A m \in Msgs : \A i \in 1..Len(T[m]) : T[m][i] \in 1..u
    /\ \A m, s \in Msgs : \A i \in 1..Len(T[m]) : \A j \in 1..Len(T[s]) :
          T[m][i] = T[s][j] => m = s /\ i = j

Lists ==
    /\ m_MsgContent \in [Msgs -> Content]
    /\ m_MsgLen \in [Msgs -> Nat]

LibInv ==
    /\ Lists
    /\ used \in 0..MaxBytes
    /\ LengthIsContent
    /\ Once(Text, used)

\* The texts are strings of bytes.
LEMMA TextType ==
  ASSUME Lists
  PROVE  /\ Text \in [Msgs -> Seq(Nat)]
         /\ \A m \in Msgs : Text[m] = Flat(m) /\ m_MsgContent[m] \in Content
<1>1. ASSUME NEW m \in Msgs PROVE Flat(m) \in Seq(Nat)
  BY FlattenType DEF Lists, Content, Flat
<1> QED
  BY <1>1 DEF Text, Lists

\* An arithmetic of size_t is exact for lengths; -1 is more than any length.
LEMMA SizeTIs ==
  /\ \A n \in 0..MaxBytes : SizeT(n) = n
  /\ SizeT(-1) \in Nat /\ SizeT(-1) > MaxBytes
<1> DEFINE w == 2 ^ Width
<1>1. w \in Nat /\ MaxBytes \in Nat /\ MaxBytes < w - 1
  BY MessageAssumption
<1>2. \A n : SizeT(n) = n % w
  BY DEF SizeT
<1> HIDE DEF w
<1>3. \A n \in 0..MaxBytes : n % w = n
  BY <1>1
<1>4. (-1) % w = w - 1
  BY <1>1
<1> QED
  BY <1>1, <1>2, <1>3, <1>4

\* Changing the list of one message changes its text,
LEMMA OneList ==
  ASSUME Lists, NEW m \in Msgs, NEW x \in Content,
         m_MsgContent' = [m_MsgContent EXCEPT ![m] = x]
  PROVE  /\ m_MsgContent' \in [Msgs -> Content]
         /\ Text' = [Text EXCEPT ![m] = FlattenSeq(x)]
<1>1. m_MsgContent' \in [Msgs -> Content]
  BY DEF Lists
<1>2. ASSUME NEW s \in Msgs PROVE Text'[s] = [Text EXCEPT ![m] = FlattenSeq(x)][s]
  BY DEF Text, Flat, Lists
<1>3. Text' = [s \in Msgs |-> Text'[s]]
  BY DEF Text
<1> QED
  BY <1>1, <1>2, <1>3 DEF Text

\* and those of two messages, two.
LEMMA TwoLists ==
  ASSUME Lists, NEW m \in Msgs, NEW s \in Msgs \ {m}, NEW x \in Content, NEW y \in Content,
         m_MsgContent' = [r \in Msgs |-> IF r = m THEN x
                                         ELSE IF r = s THEN y ELSE m_MsgContent[r]]
  PROVE  /\ m_MsgContent' \in [Msgs -> Content]
         /\ Text' = [r \in Msgs |-> IF r = m THEN FlattenSeq(x)
                                    ELSE IF r = s THEN FlattenSeq(y) ELSE Text[r]]
<1>1. m_MsgContent' \in [Msgs -> Content]
  BY DEF Lists
<1>2. ASSUME NEW r \in Msgs
      PROVE  Text'[r] = IF r = m THEN FlattenSeq(x)
                        ELSE IF r = s THEN FlattenSeq(y) ELSE Text[r]
  BY DEF Text, Flat, Lists
<1>3. Text' = [r \in Msgs |-> Text'[r]]
  BY DEF Text
<1> QED
  BY <1>1, <1>2, <1>3

\* The lengths are those of the texts.
LEMMA LengthsAre ==
  ASSUME Lists
  PROVE  LengthIsContent <=> \A m \in Msgs : m_MsgLen[m] = Len(Text[m])
  BY DEF LengthIsContent, Text

\* One message is no longer than what has been handed in.
LEMMA OneFits ==
  ASSUME NEW T \in [Msgs -> Seq(Nat)], NEW u \in Nat, Once(T, u), NEW m \in Msgs
  PROVE  Len(T[m]) \in Nat /\ Len(T[m]) <= u
<1> DEFINE a == Len(T[m])
           F == T[m]
<1>1. a \in Nat /\ F \in [1..a -> Nat]
  BY LenProperties
<1>2. /\ \A i \in 1..a : F[i] \in 1..u
      /\ \A i \in 1..a, j \in 1..a : F[i] = F[j] => i = j
  BY DEF Once
<1> HIDE DEF a, F
<1>3. F \in Injection(1..a, 1..u)
  <2>1. F \in [1..a -> 1..u]
    BY <1>1, <1>2
  <2> QED
    BY <1>2, <2>1 DEF Injection, IsInjective
<1>4. 1 \in Int /\ u \in Int /\ a \in Int
  BY <1>1
<1>5. IsFiniteSet(1..u) /\ Cardinality(1..u) = IF 1 > u THEN 0 ELSE u - 1 + 1
  BY <1>4, FS_Interval
<1>6. Cardinality(1..a) = IF 1 > a THEN 0 ELSE a - 1 + 1
  BY <1>4, FS_Interval
<1>7. Cardinality(1..a) <= Cardinality(1..u)
  BY <1>3, <1>5, FS_Injection
<1> QED
  BY <1>1, <1>5, <1>6, <1>7 DEF a

\* Two messages together are no longer than what has been handed in.
LEMMA TwoFit ==
  ASSUME NEW T \in [Msgs -> Seq(Nat)], NEW u \in Nat, Once(T, u),
         NEW m \in Msgs, NEW s \in Msgs, m # s
  PROVE  Len(T[m]) + Len(T[s]) <= u
<1> DEFINE a == Len(T[m])
           b == Len(T[s])
           F == [i \in 1..(a + b) |-> IF i <= a THEN T[m][i] ELSE T[s][i - a]]
<1>1. a \in Nat /\ b \in Nat
  BY LenProperties
<1>2. /\ \A i \in 1..a : T[m][i] \in 1..u
      /\ \A i \in 1..b : T[s][i] \in 1..u
      /\ \A i \in 1..a, j \in 1..a : T[m][i] = T[m][j] => i = j
      /\ \A i \in 1..b, j \in 1..b : T[s][i] = T[s][j] => i = j
      /\ \A i \in 1..a : \A j \in 1..b : T[m][i] # T[s][j]
  BY DEF Once
<1> HIDE DEF a, b
<1>3. \A i \in 1..(a + b) : i \in 1..a \/ (~(i <= a) /\ i - a \in 1..b)
  BY <1>1
<1>4. \A i \in 1..(a + b) : F[i] \in 1..u
  BY <1>1, <1>2, <1>3
<1>5. ASSUME NEW i \in 1..(a + b), NEW j \in 1..(a + b), F[i] = F[j] PROVE i = j
  <2>1. CASE i <= a /\ j <= a
    BY <1>1, <1>2, <1>3, <1>5, <2>1
  <2>2. CASE ~(i <= a) /\ ~(j <= a)
    <3>1. i - a = j - a
      BY <1>1, <1>2, <1>3, <1>5, <2>2
    <3> QED
      BY <1>1, <3>1
  <2>3. CASE i <= a /\ ~(j <= a)
    BY <1>1, <1>2, <1>3, <1>5, <2>3
  <2>4. CASE ~(i <= a) /\ j <= a
    BY <1>1, <1>2, <1>3, <1>5, <2>4
  <2> QED
    BY <2>1, <2>2, <2>3, <2>4
<1> DEFINE c == a + b
<1>6. F \in Injection(1..c, 1..u)
  <2>1. F \in [1..c -> 1..u]
    BY <1>4
  <2> HIDE DEF F
  <2>2. \A i, j \in 1..c : F[i] = F[j] => i = j
    BY <1>5
  <2> HIDE DEF c
  <2> QED
    BY <2>1, <2>2 DEF Injection, IsInjective
<1>7. c \in Nat
  BY <1>1
<1> HIDE DEF c, F
<1>8. IsFiniteSet(1..u) /\ Cardinality(1..u) = u
  <2>1. 1 \in Int /\ u \in Int
    OBVIOUS
  <2>2. IsFiniteSet(1..u) /\ Cardinality(1..u) = IF 1 > u THEN 0 ELSE u - 1 + 1
    BY <2>1, FS_Interval
  <2> QED
    BY <2>2
<1>9. Cardinality(1..c) = c
  <2>1. 1 \in Int /\ c \in Int
    BY <1>7
  <2>2. Cardinality(1..c) = IF 1 > c THEN 0 ELSE c - 1 + 1
    BY <2>1, FS_Interval
  <2> QED
    BY <1>7, <2>2
<1>10. Cardinality(1..c) <= Cardinality(1..u)
  BY <1>6, <1>8, FS_Injection
<1> QED
  BY <1>8, <1>9, <1>10 DEF a, b, c

-----------------------------------------------------------------------------
(* What the calls of both libraries do to the texts                        *)

\* What every call preserves.
Kept == Lists' /\ LengthIsContent'

\* Bytes have been put in front of m, the front of m has been taken off, m has been
\* cut in two, and s has been joined to it.
Added(m, n) ==
    /\ n \in Nat /\ used + n <= MaxBytes
    /\ Strings!Prepend(m, Fresh(n))
    /\ used' = used + n
    /\ Kept
Stripped(m, n)  == n \in Lengths /\ Strings!Strip(m, n) /\ used' = used /\ Kept
Halved(m, s, n) == n \in Lengths /\ Strings!Split(m, s, n) /\ used' = used /\ Kept
Joined(m, s)    == Strings!Concat(m, s) /\ used' = used /\ Kept

\* A list is kept if it is not touched.
LEMMA Untouched ==
  ASSUME LibInv, UNCHANGED <<m_MsgContent, m_MsgLen>>
  PROVE  Kept /\ Text' = Text
  BY DEF LibInv, Kept, Lists, LengthIsContent, Text, Flat

\* Lengths and texts that change together agree.
LEMMA StillAgree ==
  ASSUME Lists, Lists', \A m \in Msgs : m_MsgLen'[m] = Len(Text'[m])
  PROVE  Kept
  BY DEF Kept, Lists, LengthIsContent, Text

\* Message(msg, len) and msgAddHdr, which the libraries have alike.
LEMMA AddFits ==
  ASSUME LibInv, NEW m \in Msgs, NEW n \in Nat, used + n <= MaxBytes
  PROVE  /\ Fresh(n) \in Seq(Nat) /\ Len(Fresh(n)) = n
         /\ SizeT(m_MsgLen[m] + n) = m_MsgLen[m] + n
<1>1. used \in Nat /\ MaxBytes \in Nat
  BY MessageAssumption DEF LibInv
<1>2. Fresh(n) \in Seq(Nat) /\ Len(Fresh(n)) = n
  BY <1>1 DEF Fresh
<1>3. m_MsgLen[m] \in Nat /\ m_MsgLen[m] <= used
  <2>1. Lists /\ Once(Text, used) /\ m_MsgLen[m] = Len(Text[m])
    BY LengthsAre DEF LibInv
  <2>2. Text \in [Msgs -> Seq(Nat)]
    BY <2>1, TextType
  <2> QED
    BY <1>1, <2>1, <2>2, OneFits
<1>4. m_MsgLen[m] + n \in 0..MaxBytes
  BY <1>1, <1>3
<1> QED
  BY <1>2, <1>4, SizeTIs

\* A new message has its text put in front of nothing.
LEMMA ConstructAdds ==
  ASSUME LibInv, NEW m \in Msgs, NEW n \in 0..MaxChunk, Construct(m, n)
  PROVE  Added(m, n)
<1>1. n \in Nat /\ used + n <= MaxBytes
  BY MessageAssumption DEF Construct
<1>2. Fresh(n) \in Seq(Nat) /\ Len(Fresh(n)) = n
  BY <1>1, AddFits
<1>3. /\ Lists /\ Text \in [Msgs -> Seq(Nat)] /\ Text[m] = Flat(m)
      /\ Text[m] = <<>>
  <2>1. Lists
    BY DEF LibInv
  <2>2. Text \in [Msgs -> Seq(Nat)] /\ Text[m] = Flat(m)
    BY <2>1, TextType
  <2>3. Flat(m) = <<>>
    BY FlattenEmpty DEF Construct, Flat
  <2> QED
    BY <2>1, <2>2, <2>3
<1>4. /\ m_MsgContent' \in [Msgs -> Content]
      /\ Text' = [Text EXCEPT ![m] = Fresh(n)]
  <2>1. <<Fresh(n)>> \in Content /\ FlattenSeq(<<Fresh(n)>>) = Fresh(n)
    BY <1>2, FlattenOne DEF Content
  <2>2. m_MsgContent' = [m_MsgContent EXCEPT ![m] = <<Fresh(n)>>]
    BY DEF Construct
  <2>3. /\ m_MsgContent' \in [Msgs -> Content]
        /\ Text' = [Text EXCEPT ![m] = FlattenSeq(<<Fresh(n)>>)]
    BY <1>3, <2>1, <2>2, OneList
  <2> QED
    BY <2>1, <2>3
<1>5. Strings!Prepend(m, Fresh(n))
  <2>1. Fresh(n) \o Text[m] = Fresh(n)
    BY <1>2, <1>3, ConcatEmptySeq
  <2>2. Text' = [Text EXCEPT ![m] = Fresh(n) \o @]
    BY <1>3, <1>4, <2>1
  <2>3. UNCHANGED out
    BY DEF Construct
  <2> QED
    BY <2>2, <2>3 DEF Strings!Prepend, Text
<1>6. Kept
  <2>1. m_MsgLen' = [m_MsgLen EXCEPT ![m] = n]
    BY DEF Construct
  <2>2. m_MsgLen \in [Msgs -> Nat] /\ \A s \in Msgs : m_MsgLen[s] = Len(Text[s])
    BY LengthsAre DEF LibInv, Lists
  <2>3. Lists'
    BY <1>1, <1>4, <2>1, <2>2 DEF Lists
  <2>4. ASSUME NEW s \in Msgs PROVE m_MsgLen'[s] = Len(Text'[s])
    BY <1>2, <1>3, <1>4, <2>1, <2>2
  <2> QED
    BY <1>3, <2>3, <2>4, StillAgree
<1> QED
  BY <1>1, <1>5, <1>6 DEF Added, Construct

\* A header is put in front of the message's bytes.
LEMMA AddHdrAdds ==
  ASSUME LibInv, NEW m \in Msgs, NEW n \in 1..MaxChunk, msgAddHdr(m, n)
  PROVE  Added(m, n)
<1>1. n \in Nat /\ used + n <= MaxBytes
  BY MessageAssumption DEF msgAddHdr
<1>2. /\ Fresh(n) \in Seq(Nat) /\ Len(Fresh(n)) = n
      /\ SizeT(m_MsgLen[m] + n) = m_MsgLen[m] + n
  BY <1>1, AddFits
<1>3. /\ Lists /\ Text \in [Msgs -> Seq(Nat)]
      /\ Text[m] = FlattenSeq(m_MsgContent[m]) /\ m_MsgContent[m] \in Content
  BY TextType DEF LibInv, Flat
<1>4. /\ m_MsgContent' \in [Msgs -> Content]
      /\ Text' = [Text EXCEPT ![m] = Fresh(n) \o Text[m]]
  <2> DEFINE x == <<Fresh(n)>> \o m_MsgContent[m]
  <2>1. x \in Content /\ FlattenSeq(x) = Fresh(n) \o Text[m]
    <3> DEFINE c == m_MsgContent[m]
               f == Fresh(n)
    <3>1. c \in Seq(Seq(Nat)) /\ f \in Seq(Nat) /\ Text[m] = FlattenSeq(c)
      BY <1>2, <1>3 DEF Content
    <3> HIDE DEF c, f
    <3>2. <<f>> \o c \in Seq(Seq(Nat)) /\ FlattenSeq(<<f>> \o c) = f \o FlattenSeq(c)
      BY <3>1, FlattenFront
    <3> QED
      BY <3>1, <3>2 DEF Content, c, f
  <2>2. m_MsgContent' = [m_MsgContent EXCEPT ![m] = x]
    BY <1>3 DEF msgAddHdr, Lists
  <2> HIDE DEF x
  <2>3. /\ m_MsgContent' \in [Msgs -> Content]
        /\ Text' = [Text EXCEPT ![m] = FlattenSeq(x)]
    BY <1>3, <2>1, <2>2, OneList
  <2> QED
    BY <2>1, <2>3
<1>5. Strings!Prepend(m, Fresh(n))
  <2>1. Text' = [Text EXCEPT ![m] = Fresh(n) \o @]
    BY <1>3, <1>4
  <2>2. UNCHANGED out
    BY DEF msgAddHdr
  <2> QED
    BY <2>1, <2>2 DEF Strings!Prepend, Text
<1>6. Kept
  <2>1. m_MsgLen \in [Msgs -> Nat] /\ \A s \in Msgs : m_MsgLen[s] = Len(Text[s])
    BY LengthsAre DEF LibInv, Lists
  <2>2. m_MsgLen' = [m_MsgLen EXCEPT ![m] = m_MsgLen[m] + n]
    BY <1>2, <2>1 DEF msgAddHdr
  <2>3. Lists'
    BY <1>1, <1>4, <2>1, <2>2 DEF Lists
  <2>4. Len(Fresh(n) \o Text[m]) = n + Len(Text[m])
    BY <1>2, <1>3, ConcatProperties
  <2>5. ASSUME NEW s \in Msgs PROVE m_MsgLen'[s] = Len(Text'[s])
    <3>1. CASE s = m
      <4>1. m_MsgLen'[s] = m_MsgLen[m] + n /\ Text'[s] = Fresh(n) \o Text[m]
        BY <1>3, <1>4, <2>1, <2>2, <3>1
      <4>2. m_MsgLen[m] + n = n + Len(Text[m])
        BY <1>1, <2>1
      <4> QED
        BY <2>4, <4>1, <4>2
    <3>2. CASE s # m
      BY <1>3, <1>4, <2>1, <2>2, <3>2
    <3> QED
      BY <3>1, <3>2
  <2> QED
    BY <1>3, <2>3, <2>5, StillAgree
<1> QED
  BY <1>1, <1>5, <1>6 DEF Added, msgAddHdr

\* msgJoin, which they have alike too.
LEMMA JoinJoins ==
  ASSUME LibInv, NEW m \in Msgs, NEW s \in Msgs \ {m}, msgJoin(m, s)
  PROVE  Joined(m, s)
<1>1. /\ Lists /\ Text \in [Msgs -> Seq(Nat)]
      /\ \A r \in Msgs : Text[r] = FlattenSeq(m_MsgContent[r]) /\ m_MsgContent[r] \in Content
  BY TextType DEF LibInv, Flat
<1>2. m_MsgLen \in [Msgs -> Nat] /\ \A r \in Msgs : m_MsgLen[r] = Len(Text[r])
  BY LengthsAre DEF LibInv, Lists
<1>3. SizeT(m_MsgLen[m] + m_MsgLen[s]) = m_MsgLen[m] + m_MsgLen[s]
  <2>1. used \in Nat /\ used <= MaxBytes /\ MaxBytes \in Nat /\ Once(Text, used)
    BY MessageAssumption DEF LibInv
  <2>2. m_MsgLen[m] + m_MsgLen[s] <= used
    <3>1. m \in Msgs /\ s \in Msgs /\ m # s
      OBVIOUS
    <3>2. Text \in [Msgs -> Seq(Nat)] /\ used \in Nat /\ Once(Text, used)
      BY <1>1, <2>1
    <3>3. Len(Text[m]) + Len(Text[s]) <= used
      BY ONLY <3>1, <3>2, TwoFit
    <3>4. m_MsgLen[m] = Len(Text[m]) /\ m_MsgLen[s] = Len(Text[s])
      BY <1>2, <3>1
    <3> QED
      BY <3>3, <3>4
  <2>3. m_MsgLen[m] \in Nat /\ m_MsgLen[s] \in Nat
    BY <1>2
  <2>4. m_MsgLen[m] + m_MsgLen[s] \in 0..MaxBytes
    BY <2>1, <2>2, <2>3
  <2> QED
    BY <2>4, SizeTIs
<1>4. /\ m_MsgContent' \in [Msgs -> Content]
      /\ Text' = [r \in Msgs |-> IF r = m THEN Text[m] \o Text[s]
                                 ELSE IF r = s THEN <<>> ELSE Text[r]]
  <2> DEFINE x == m_MsgContent[m] \o m_MsgContent[s]
             y == <<>>
  <2>1. x \in Content /\ FlattenSeq(x) = Text[m] \o Text[s]
    <3>1. m_MsgContent[m] \in Seq(Seq(Nat)) /\ m_MsgContent[s] \in Seq(Seq(Nat))
      BY <1>1 DEF Content
    <3>2. x \in Seq(Seq(Nat))
      BY <3>1, ConcatProperties
    <3>3. FlattenSeq(x) = FlattenSeq(m_MsgContent[m]) \o FlattenSeq(m_MsgContent[s])
      BY <3>1, FlattenConcat
    <3> QED
      BY <1>1, <3>2, <3>3 DEF Content
  <2>2. y \in Content /\ FlattenSeq(y) = <<>>
    BY FlattenEmpty, EmptySeq DEF Content
  <2>3. m_MsgContent' = [r \in Msgs |-> IF r = m THEN x
                                        ELSE IF r = s THEN y ELSE m_MsgContent[r]]
    BY DEF msgJoin, LibInv, Lists
  <2> HIDE DEF x, y
  <2>4. /\ m_MsgContent' \in [Msgs -> Content]
        /\ Text' = [r \in Msgs |-> IF r = m THEN FlattenSeq(x)
                                   ELSE IF r = s THEN FlattenSeq(y) ELSE Text[r]]
    BY <1>1, <2>1, <2>2, <2>3, TwoLists
  <2> QED
    BY <2>1, <2>2, <2>4
<1>5. Strings!Concat(m, s)
  <2>1. Text' = [Text EXCEPT ![m] = @ \o Text[s], ![s] = <<>>]
    BY <1>1, <1>4
  <2>2. UNCHANGED out
    BY DEF msgJoin
  <2> QED
    BY <2>1, <2>2 DEF Strings!Concat, Text
<1>6. Kept
  <2>1. m_MsgLen' = [m_MsgLen EXCEPT ![m] = m_MsgLen[m] + m_MsgLen[s], ![s] = 0]
    BY <1>2, <1>3 DEF msgJoin
  <2>2. Lists'
    <3>1. m_MsgLen[m] + m_MsgLen[s] \in Nat
      BY <1>2
    <3> QED
      BY <1>2, <1>4, <2>1, <3>1 DEF Lists
  <2>3. Len(Text[m] \o Text[s]) = Len(Text[m]) + Len(Text[s]) /\ Len(<<>>) = 0
    BY <1>1, ConcatProperties
  <2>4. ASSUME NEW r \in Msgs PROVE m_MsgLen'[r] = Len(Text'[r])
    <3>1. CASE r = m
      <4>1. m_MsgLen'[r] = m_MsgLen[m] + m_MsgLen[s] /\ Text'[r] = Text[m] \o Text[s]
        BY <1>1, <1>2, <1>4, <2>1, <3>1
      <4> QED
        BY <1>2, <2>3, <4>1
    <3>2. CASE r = s
      <4>1. m_MsgLen'[r] = 0 /\ Text'[r] = <<>>
        BY <1>1, <1>2, <1>4, <2>1, <3>2
      <4> QED
        BY <2>3, <4>1
    <3>3. CASE r # m /\ r # s
      BY <1>1, <1>2, <1>4, <2>1, <3>3
    <3> QED
      BY <3>1, <3>2, <3>3
  <2> QED
    BY <1>1, <2>2, <2>4, StillAgree
<1> QED
  BY <1>5, <1>6 DEF Joined, msgJoin

\* What the invariant says of one message.
LEMMA OneMessage ==
  ASSUME LibInv, NEW m \in Msgs
  PROVE  /\ Lists /\ Text \in [Msgs -> Seq(Nat)]
         /\ Text[m] \in Seq(Nat) /\ m_MsgContent[m] \in Seq(Seq(Nat))
         /\ Text[m] = FlattenSeq(m_MsgContent[m]) /\ Text[m] = Flat(m)
         /\ m_MsgLen[m] = Len(Text[m]) /\ m_MsgLen[m] \in 0..MaxBytes
<1>1. /\ Lists /\ Text \in [Msgs -> Seq(Nat)] /\ Text[m] = Flat(m)
      /\ m_MsgContent[m] \in Content /\ m_MsgLen[m] = Len(Text[m])
  BY TextType, LengthsAre DEF LibInv
<1>2. used \in 0..MaxBytes /\ MaxBytes \in Nat /\ Once(Text, used)
  BY MessageAssumption DEF LibInv
<1>3. Len(Text[m]) \in Nat /\ Len(Text[m]) <= used
  BY <1>1, <1>2, OneFits
<1> QED
  BY <1>1, <1>2, <1>3 DEF Flat, Content

\* A length is refused if it is not one of a part of the message: a negative one is
\* larger than every length there is.
LEMMA RefusedIf ==
  ASSUME NEW n \in Lengths, NEW l \in 0..MaxBytes
  PROVE  l < SizeT(n) <=> n \notin 0..l
<1>1. MaxBytes \in Nat
  BY MessageAssumption
<1>2. CASE n = -1
  <2>1. l < SizeT(n)
    BY <1>1, <1>2, SizeTIs
  <2> QED
    BY <1>2, <2>1
<1>3. CASE n \in 0..MaxBytes
  <2>1. SizeT(n) = n
    BY <1>3, SizeTIs
  <2> QED
    BY <1>1, <1>3, <2>1
<1> QED
  BY <1>1, <1>2, <1>3 DEF Lengths

\* A strip that is refused, and one that is not.
LEMMA StripRefused ==
  ASSUME LibInv, NEW m \in Msgs, NEW n \in Lengths, n \notin 1..Len(Text[m]),
         out' = <<>>, UNCHANGED <<m_MsgContent, m_MsgLen, used>>
  PROVE  Stripped(m, n)
<1>1. Kept /\ Text' = Text
  BY Untouched
<1>2. Strings!Strip(m, n)
  <2>1. out' = IF n \in 1..Len(Text[m]) THEN SubSeq(Text[m], 1, n) ELSE <<>>
    OBVIOUS
  <2>2. Text' = IF n \in 1..Len(Text[m])
                THEN [Text EXCEPT ![m] = SubSeq(@, n + 1, Len(@))] ELSE Text
    BY <1>1
  <2> QED
    BY <2>1, <2>2 DEF Strings!Strip, Text
<1> QED
  BY <1>1, <1>2 DEF Stripped

\* A strip that leaves some list of the remaining bytes takes the front off.
LEMMA StripDone ==
  ASSUME LibInv, NEW m \in Msgs, NEW n \in 1..Len(Text[m]), NEW x \in Seq(Seq(Nat)),
         FlattenSeq(x) = SubSeq(Text[m], n + 1, Len(Text[m])),
         m_MsgContent' = [m_MsgContent EXCEPT ![m] = x],
         m_MsgLen' = [m_MsgLen EXCEPT ![m] = SizeT(@ - n)],
         out' = SubSeq(Text[m], 1, n), UNCHANGED used
  PROVE  Stripped(m, n)
<1> DEFINE t == Text[m]
           r == SubSeq(t, n + 1, Len(t))
<1>1. /\ Lists /\ Text \in [Msgs -> Seq(Nat)] /\ t \in Seq(Nat)
      /\ m_MsgLen[m] = Len(t) /\ Len(t) \in 0..MaxBytes
  BY OneMessage
<1>2. r \in Seq(Nat) /\ Len(r) = Len(t) - n
  <2>1. n \in 0..Len(t)
    BY <1>1
  <2> HIDE DEF t
  <2> QED
    BY <1>1, <2>1, Halves
<1>3. MaxBytes \in Nat /\ Len(t) - n \in 0..MaxBytes
  BY <1>1, MessageAssumption
<1>4. /\ m_MsgContent' \in [Msgs -> Content]
      /\ Text' = [Text EXCEPT ![m] = r]
  BY <1>1, OneList DEF Content
<1>5. m_MsgLen' = [m_MsgLen EXCEPT ![m] = Len(t) - n]
  <2>1. SizeT(Len(t) - n) = Len(t) - n
    BY <1>3, SizeTIs
  <2> QED
    BY <1>1, <2>1 DEF Lists
<1>6. Strings!Strip(m, n)
  <2>1. out' = IF n \in 1..Len(Text[m]) THEN SubSeq(Text[m], 1, n) ELSE <<>>
    OBVIOUS
  <2>2. Text' = IF n \in 1..Len(Text[m])
                THEN [Text EXCEPT ![m] = SubSeq(@, n + 1, Len(@))] ELSE Text
    BY <1>1, <1>4
  <2> QED
    BY <2>1, <2>2 DEF Strings!Strip, Text
<1>7. Kept
  <2>1. Lists'
    BY <1>1, <1>3, <1>4, <1>5 DEF Lists
  <2> HIDE DEF r
  <2>2. ASSUME NEW s \in Msgs PROVE m_MsgLen'[s] = Len(Text'[s])
    <3>1. m_MsgLen \in [Msgs -> Nat] /\ m_MsgLen[s] = Len(Text[s])
      BY OneMessage DEF Lists
    <3> QED
      BY <1>1, <1>2, <1>4, <1>5, <3>1
  <2> QED
    BY <1>1, <2>1, <2>2, StillAgree
<1>8. n \in Lengths
  BY <1>1, MessageAssumption DEF Lengths
<1> QED
  BY <1>6, <1>7, <1>8 DEF Stripped

\* A split that is refused, and one that is not.
LEMMA SplitRefused ==
  ASSUME LibInv, NEW m \in Msgs, NEW s \in Msgs \ {m}, NEW n \in Lengths,
         n \notin 0..Len(Text[m]),
         out' = <<>>, UNCHANGED <<m_MsgContent, m_MsgLen, used>>
  PROVE  Halved(m, s, n)
<1>1. Kept /\ Text' = Text
  BY Untouched
<1>2. Strings!Split(m, s, n)
  <2>1. out' = IF n \in 0..Len(Text[m]) THEN SubSeq(Text[m], 1, n) ELSE <<>>
    OBVIOUS
  <2>2. Text' = IF n \in 0..Len(Text[m])
                THEN [Text EXCEPT ![m] = SubSeq(@, 1, n),
                                  ![s] = SubSeq(Text[m], n + 1, Len(Text[m]))] ELSE Text
    BY <1>1
  <2> QED
    BY <2>1, <2>2 DEF Strings!Split, Text
<1> QED
  BY <1>1, <1>2 DEF Halved

\* A split into any lists of the first n bytes and of the rest cuts the message.
LEMMA SplitDone ==
  ASSUME LibInv, NEW m \in Msgs, NEW s \in Msgs \ {m}, NEW n \in 0..Len(Text[m]),
         NEW x \in Seq(Seq(Nat)), FlattenSeq(x) = SubSeq(Text[m], 1, n),
         NEW y \in Seq(Seq(Nat)), FlattenSeq(y) = SubSeq(Text[m], n + 1, Len(Text[m])),
         m_MsgContent' = [r \in Msgs |-> IF r = m THEN x
                                         ELSE IF r = s THEN y ELSE m_MsgContent[r]],
         m_MsgLen' = [r \in Msgs |-> IF r = m THEN n
                                     ELSE IF r = s THEN SizeT(m_MsgLen[m] - n) ELSE m_MsgLen[r]],
         out' = SubSeq(Text[m], 1, n), UNCHANGED used
  PROVE  Halved(m, s, n)
<1> DEFINE t == Text[m]
           p == SubSeq(t, 1, n)
           q == SubSeq(t, n + 1, Len(t))
<1>1. /\ Lists /\ Text \in [Msgs -> Seq(Nat)] /\ t \in Seq(Nat)
      /\ m_MsgLen[m] = Len(t) /\ Len(t) \in 0..MaxBytes
  BY OneMessage
<1>2. Len(p) = n /\ Len(q) = Len(t) - n
  <2>1. n \in 0..Len(t)
    OBVIOUS
  <2> HIDE DEF t
  <2> QED
    BY <1>1, <2>1, Halves
<1>3. MaxBytes \in Nat /\ n \in Nat /\ Len(t) - n \in 0..MaxBytes
  BY <1>1, MessageAssumption
<1>4. /\ m_MsgContent' \in [Msgs -> Content]
      /\ Text' = [r \in Msgs |-> IF r = m THEN p ELSE IF r = s THEN q ELSE Text[r]]
  <2>1. x \in Content /\ y \in Content /\ FlattenSeq(x) = p /\ FlattenSeq(y) = q
    BY DEF Content
  <2> HIDE DEF p, q
  <2>2. /\ m_MsgContent' \in [Msgs -> Content]
        /\ Text' = [r \in Msgs |-> IF r = m THEN FlattenSeq(x)
                                   ELSE IF r = s THEN FlattenSeq(y) ELSE Text[r]]
    <3>1. /\ Lists /\ m \in Msgs /\ s \in Msgs \ {m} /\ x \in Content /\ y \in Content
          /\ m_MsgContent' = [r \in Msgs |-> IF r = m THEN x
                                             ELSE IF r = s THEN y ELSE m_MsgContent[r]]
      BY <1>1, <2>1
    <3> QED
      BY ONLY <3>1, TwoLists
  <2> QED
    BY <2>1, <2>2
<1>5. SizeT(m_MsgLen[m] - n) = Len(t) - n
  BY <1>1, <1>3, SizeTIs
<1>6. Strings!Split(m, s, n)
  <2>1. out' = IF n \in 0..Len(Text[m]) THEN SubSeq(Text[m], 1, n) ELSE <<>>
    OBVIOUS
  <2>2. Text' = IF n \in 0..Len(Text[m])
                THEN [Text EXCEPT ![m] = SubSeq(@, 1, n),
                                  ![s] = SubSeq(Text[m], n + 1, Len(Text[m]))] ELSE Text
    BY <1>1, <1>4
  <2> QED
    BY <2>1, <2>2 DEF Strings!Split, Text
<1>7. Kept
  <2>1. m_MsgLen \in [Msgs -> Nat] /\ \A r \in Msgs : m_MsgLen[r] = Len(Text[r])
    BY LengthsAre DEF LibInv, Lists
  <2>2. Lists'
    BY <1>3, <1>4, <1>5, <2>1 DEF Lists
  <2> HIDE DEF p, q
  <2>3. ASSUME NEW r \in Msgs PROVE m_MsgLen'[r] = Len(Text'[r])
    BY <1>2, <1>4, <1>5, <2>1
  <2> QED
    BY <1>1, <2>2, <2>3, StillAgree
<1>8. n \in Lengths
  BY <1>1, MessageAssumption DEF Lengths
<1> QED
  BY <1>6, <1>7, <1>8 DEF Halved

-----------------------------------------------------------------------------
(* The calls of ourLibs                                                    *)

\* A message without chunks has no bytes.
LEMMA NoChunks ==
  ASSUME NEW c \in Seq(Seq(Nat)), 1 <= Len(FlattenSeq(c))
  PROVE  c # <<>>
<1>1. Len(<<>>) = 0
  OBVIOUS
<1> QED
  BY <1>1, FlattenEmpty

\* ourLibs strips the front, in whichever chunks it is, or refuses.
LEMMA StripStrips ==
  ASSUME LibInv, NEW m \in Msgs, NEW n \in Lengths, msgStripHdr(m, n)
  PROVE  Stripped(m, n)
<1> DEFINE c == m_MsgContent[m]
<1>1. /\ Lists /\ Text[m] \in Seq(Nat) /\ c \in Seq(Seq(Nat))
      /\ Text[m] = FlattenSeq(c) /\ Text[m] = Flat(m)
      /\ m_MsgLen[m] = Len(Text[m]) /\ m_MsgLen[m] \in 0..MaxBytes
  BY OneMessage
<1>2. m_MsgLen[m] < SizeT(n) <=> n \notin 0..Len(Text[m])
  BY <1>1, RefusedIf
<1>3. CASE n \notin 1..Len(Text[m])
  <2>1. m_MsgLen[m] < SizeT(n) \/ n = 0
    BY <1>1, <1>2, <1>3
  <2>2. out' = <<>> /\ UNCHANGED <<m_MsgContent, m_MsgLen, used>>
    BY <2>1 DEF msgStripHdr
  <2> QED
    BY <1>3, <2>2, StripRefused
<1>4. CASE n \in 1..Len(Text[m])
  <2>1. ~(m_MsgLen[m] < SizeT(n) \/ n = 0)
    BY <1>1, <1>2, <1>4
  <2>2. /\ out' = SubSeq(Text[m], 1, n)
        /\ m_MsgContent' = [m_MsgContent EXCEPT ![m] = Behind(c, n)]
        /\ m_MsgLen' = [m_MsgLen EXCEPT ![m] = SizeT(@ - n)]
        /\ UNCHANGED used
    BY <1>1, <2>1 DEF msgStripHdr, Lists
  <2> HIDE DEF c
  <2>3. c # <<>> /\ n \in 0..Len(FlattenSeq(c)) /\ n # 0
    <3>1. 1 <= Len(FlattenSeq(c)) /\ n \in 0..Len(FlattenSeq(c)) /\ n # 0
      BY <1>1, <1>4
    <3> QED
      BY <1>1, <3>1, NoChunks
  <2>4. /\ Behind(c, n) \in Seq(Seq(Nat))
        /\ FlattenSeq(Behind(c, n)) = SubSeq(FlattenSeq(c), n + 1, Len(FlattenSeq(c)))
    BY <1>1, <2>3, BehindIs
  <2> QED
    BY <1>1, <1>4, <2>2, <2>4, StripDone
<1> QED
  BY <1>3, <1>4

\* A cut in the first chunk takes no chunk off before it.
LEMMA CutInFirstChunk ==
  ASSUME LibInv, NEW m \in Msgs, m_MsgContent[m] # <<>>,
         NEW n \in 0..Len(Text[m]), n <= Len(Head(m_MsgContent[m]))
  PROVE  AfterChunks(m, n) = m_MsgLen[m]
<1> DEFINE c == m_MsgContent[m]
           k == Cut(c, n)
<1> SUFFICES ASSUME n # Len(Head(c)), n # 0
             PROVE  SizeT(m_MsgLen[m] - Upto(c, k - 1)) = m_MsgLen[m]
  BY DEF AfterChunks
<1>1. /\ c \in Seq(Seq(Nat)) /\ Text[m] = FlattenSeq(c)
      /\ m_MsgLen[m] \in 0..MaxBytes
  BY OneMessage
<1> HIDE DEF c
<1>2. n \in 1..Len(FlattenSeq(c)) /\ n \in Nat
  BY <1>1
<1>3. k \in 1..Len(c) /\ Upto(c, k - 1) < n
  BY <1>1, <1>2, CutIs
<1> HIDE DEF k
<1>4. k = 1
  BY <1>1, <1>2, <1>3, FirstChunk DEF c
<1>5. Upto(c, k - 1) = 0
  <2>1. Upto(c, 0) = 0 /\ 1 - 1 = 0
    BY <1>1, UptoIs
  <2> QED
    BY <1>4, <2>1
<1> QED
  BY <1>1, <1>5, SizeTIs

\* ourLibs splits a message within its first chunk, or refuses.
LEMMA SplitSplits ==
  ASSUME LibInv, ~AcrossChunks, NEW m \in Msgs, NEW s \in Msgs \ {m}, NEW n \in Lengths,
         msgSplit(m, s, n)
  PROVE  Halved(m, s, n)
<1> DEFINE c == m_MsgContent[m]
<1>1. /\ Lists /\ Text[m] \in Seq(Nat) /\ c \in Seq(Seq(Nat))
      /\ Text[m] = FlattenSeq(c) /\ Text[m] = Flat(m)
      /\ m_MsgLen[m] = Len(Text[m]) /\ m_MsgLen[m] \in 0..MaxBytes
  BY OneMessage
<1>2. m_MsgLen[m] < SizeT(n) <=> n \notin 0..Len(Text[m])
  BY <1>1, RefusedIf
<1>3. CASE n \notin 0..Len(Text[m])
  <2>1. out' = <<>> /\ UNCHANGED <<m_MsgContent, m_MsgLen, used>>
    BY <1>2, <1>3 DEF msgSplit
  <2> QED
    BY <1>3, <2>1, SplitRefused
<1>4. CASE n \in 0..Len(Text[m])
  <2>1. /\ c # <<>> /\ n <= Len(Head(c))
        /\ out' = SubSeq(Text[m], 1, n)
        /\ m_MsgContent' = [m_MsgContent EXCEPT ![m] = FirstPart(c, n),
                                                ![s] = SecondPart(c, n)]
        /\ m_MsgLen' = [m_MsgLen EXCEPT ![m] = n, ![s] = SizeT(AfterChunks(m, n) - n)]
        /\ UNCHANGED used
    BY <1>1, <1>2, <1>4 DEF msgSplit
  <2>2. AfterChunks(m, n) = m_MsgLen[m]
    BY <1>4, <2>1, CutInFirstChunk
  <2>3. m_MsgLen' = [r \in Msgs |-> IF r = m THEN n
                                    ELSE IF r = s THEN SizeT(m_MsgLen[m] - n) ELSE m_MsgLen[r]]
    BY <1>1, <2>1, <2>2 DEF Lists
  <2> DEFINE x == FirstPart(c, n)
             y == SecondPart(c, n)
  <2>4. m_MsgContent' = [r \in Msgs |-> IF r = m THEN x
                                        ELSE IF r = s THEN y ELSE m_MsgContent[r]]
    BY <1>1, <2>1 DEF Lists
  <2> HIDE DEF c
  <2>5. n \in 0..Len(FlattenSeq(c))
    BY <1>1, <1>4
  <2>6. /\ x \in Seq(Seq(Nat)) /\ FlattenSeq(x) = SubSeq(Text[m], 1, n)
        /\ y \in Seq(Seq(Nat)) /\ FlattenSeq(y) = SubSeq(Text[m], n + 1, Len(Text[m]))
    BY <1>1, <2>1, <2>5, FirstPartIs, SecondPartIs
  <2> HIDE DEF x, y
  <2> QED
    BY <1>4, <2>1, <2>3, <2>4, <2>6, SplitDone
<1> QED
  BY <1>3, <1>4

-----------------------------------------------------------------------------
(* The calls of newLibs                                                    *)

\* Three of its calls are those of ourLibs.
LEMMA AlikeCalls ==
  ASSUME NEW m \in Msgs
  PROVE  /\ \A n : Fields!Construct(m, n) => Construct(m, n)
         /\ \A n : Fields!msgAddHdr(m, n) => msgAddHdr(m, n)
         /\ \A s : Fields!msgJoin(m, s) => msgJoin(m, s)
  BY SameBytes DEF Fields!Construct, Construct, Fields!msgAddHdr, msgAddHdr,
                   Fields!msgJoin, msgJoin

\* newLibs strips the front if it is within one field, or refuses.
LEMMA FieldStripStrips ==
  ASSUME LibInv, ~AcrossChunks, NEW m \in Msgs, NEW n \in 0..MaxBytes, Fields!msgStripHdr(m, n)
  PROVE  Stripped(m, n)
<1> DEFINE f == m_MsgContent[m]
<1>1. /\ Lists /\ Text[m] \in Seq(Nat) /\ f \in Seq(Seq(Nat))
      /\ Text[m] = FlattenSeq(f) /\ Text[m] = Flat(m) /\ Fields!Flat(m) = Flat(m)
      /\ Len(Text[m]) \in Nat
  BY OneMessage, SameBytes, LenProperties
<1>2. /\ Fields!Strippable(m, n) /\ UNCHANGED used
      /\ Fields!StripNothing(n) \/ Fields!StripTooLong(m, n) \/ Fields!StripFits(m, n)
  BY DEF Fields!msgStripHdr
<1>3. n \in Lengths
  BY DEF Lengths
<1>4. f = <<>> \/ (/\ Head(f) \in Seq(Nat) /\ Head(f) = f[1] /\ (n = 0 \/ n < Len(Head(f)))
                   /\ Tail(f) \in Seq(Seq(Nat)) /\ FlattenSeq(Tail(f)) \in Seq(Nat)
                   /\ f = <<Head(f)>> \o Tail(f) /\ Len(f) \in Nat
                   /\ Text[m] = Head(f) \o FlattenSeq(Tail(f)))
  <2> SUFFICES ASSUME f # <<>>
               PROVE /\ Head(f) \in Seq(Nat) /\ Head(f) = f[1] /\ (n = 0 \/ n < Len(Head(f)))
                     /\ Tail(f) \in Seq(Seq(Nat)) /\ FlattenSeq(Tail(f)) \in Seq(Nat)
                     /\ f = <<Head(f)>> \o Tail(f) /\ Len(f) \in Nat
                     /\ Text[m] = Head(f) \o FlattenSeq(Tail(f))
    OBVIOUS
  <2>1. \A k \in DOMAIN f : k = 1 => n = 0 \/ n < Len(f[k])
    BY <1>2 DEF Fields!Strippable
  <2> HIDE DEF f
  <2>2. /\ Head(f) = f[1] /\ Head(f) \in Seq(Nat) /\ Tail(f) \in Seq(Seq(Nat))
        /\ Len(f) \in Nat \ {0} /\ f = <<Head(f)>> \o Tail(f)
    BY <1>1, HeadAndTail
  <2>3. 1 \in DOMAIN f
    BY <1>1, <2>2, LenProperties
  <2>4. FlattenSeq(Tail(f)) \in Seq(Nat)
    BY <2>2, FlattenType
  <2>5. FlattenSeq(<<Head(f)>> \o Tail(f)) = Head(f) \o FlattenSeq(Tail(f))
    BY <2>2, FlattenFront
  <2> QED
    BY <1>1, <2>1, <2>2, <2>3, <2>4, <2>5
<1>5. CASE Fields!StripNothing(n)
  <2>1. n \notin 1..Len(Text[m]) /\ out' = <<>> /\ UNCHANGED <<m_MsgContent, m_MsgLen, used>>
    BY <1>2, <1>5 DEF Fields!StripNothing
  <2> QED
    BY <1>3, <2>1, StripRefused
<1>6. CASE Fields!StripTooLong(m, n)
  <2>1. n > Len(Text[m]) /\ n # 0
    BY <1>1, <1>6 DEF Fields!StripTooLong
  <2>2. f = <<>>
    <3> SUFFICES ASSUME f # <<>> PROVE FALSE
      OBVIOUS
    <3> DEFINE h == Head(f)
               t == FlattenSeq(Tail(f))
    <3>1. h \in Seq(Nat) /\ t \in Seq(Nat) /\ Text[m] = h \o t /\ n < Len(h)
      BY <1>4, <2>1
    <3> HIDE DEF h, t
    <3>2. Len(h) \in Nat /\ Len(t) \in Nat /\ Len(h \o t) = Len(h) + Len(t)
      BY <3>1, ConcatProperties, LenProperties
    <3> QED
      BY <2>1, <3>1, <3>2
  <2>3. out' = <<>> /\ UNCHANGED <<m_MsgContent, m_MsgLen, used>>
    <3>1. m_MsgContent' = [m_MsgContent EXCEPT ![m] = <<>>] /\ out' = <<>> /\ UNCHANGED m_MsgLen
      BY <1>6 DEF Fields!StripTooLong
    <3> QED
      BY <1>1, <1>2, <2>2, <3>1 DEF Lists
  <2>4. n \notin 1..Len(Text[m])
    BY <1>1, <2>1
  <2> QED
    BY <1>3, <2>3, <2>4, StripRefused
<1>7. CASE Fields!StripFits(m, n)
  <2> DEFINE k == Fields!Before(f, n)
             h == Head(f)
             t == FlattenSeq(Tail(f))
             r == SubSeq(h, n + 1, Len(h))
  <2>1. n \in 1..Len(Text[m])
    BY <1>1, <1>7 DEF Fields!StripFits
  <2>2. f # <<>>
    <3> HIDE DEF f
    <3>1. 1 <= Len(FlattenSeq(f))
      BY <1>1, <2>1
    <3> QED
      BY <1>1, <3>1, NoChunks
  <2>3. /\ h \in Seq(Nat) /\ h = f[1] /\ n < Len(h) /\ t \in Seq(Nat) /\ Text[m] = h \o t
        /\ Tail(f) \in Seq(Seq(Nat)) /\ Len(f) \in Nat
    <3>1. n # 0
      BY <2>1
    <3> HIDE DEF f
    <3> QED
      BY <1>4, <2>2, <3>1
  <2>4. k = 0 /\ Fields!Upto(f, k) = 0
    <3>1. k \in 0..(Len(f) - 1) /\ Upto(f, k) < n
      BY <1>1, <2>1, BeforeIs
    <3> HIDE DEF k, f
    <3> DEFINE j == k + 1
    <3>2. j \in 1..Len(f) /\ j - 1 = k /\ n \in Nat
      BY <2>1, <2>3, <3>1
    <3>3. Len(h) \in Nat /\ n <= Len(h)
      BY <2>1, <2>3, LenProperties
    <3> HIDE DEF j
    <3>4. j = 1
      BY <1>1, <3>1, <3>2, <3>3, FirstChunk
    <3>5. k = 0
      BY <3>2, <3>4
    <3> QED
      BY <1>1, <3>5, UptoIs, SameBytes
  <2>5. SubSeq(f, 0 + 1, Len(f)) = f
    BY <1>1, SubSeqFull
  <2>6. /\ out' = SubSeq(h, 1, n)
        /\ m_MsgContent' = [m_MsgContent EXCEPT ![m] = <<r>> \o Tail(f)]
        /\ m_MsgLen' = [m_MsgLen EXCEPT ![m] = SizeT(@ - n)]
    <3>1. n - 0 = n /\ n # Len(h)
      BY <2>3
    <3> QED
      BY <1>7, <2>3, <2>4, <2>5, <3>1, SameBytes DEF Fields!StripFits
  <2> HIDE DEF f, h, t
  <2>7. n \in 0..Len(h)
    BY <2>1, <2>3
  <2>8. /\ SubSeq(h \o t, 1, n) = SubSeq(h, 1, n)
        /\ SubSeq(h \o t, n + 1, Len(h \o t)) = r \o t
    BY <2>3, <2>7, CutInFirst
  <2>9. r \in Seq(Nat)
    BY <2>3, <2>7, Halves
  <2> HIDE DEF r
  <2>10. <<r>> \o Tail(f) \in Seq(Seq(Nat)) /\ FlattenSeq(<<r>> \o Tail(f)) = r \o t
    BY <2>3, <2>9, FlattenFront DEF t
  <2> DEFINE x == <<r>> \o Tail(f)
  <2>11. /\ x \in Seq(Seq(Nat)) /\ FlattenSeq(x) = SubSeq(Text[m], n + 1, Len(Text[m]))
         /\ m_MsgContent' = [m_MsgContent EXCEPT ![m] = x]
         /\ out' = SubSeq(Text[m], 1, n)
    BY <2>3, <2>6, <2>8, <2>10
  <2> HIDE DEF x
  <2> QED
    BY <1>2, <2>1, <2>6, <2>11, StripDone
<1> QED
  BY <1>2, <1>5, <1>6, <1>7

\* Where the split of newLibs cuts is between two fields.
LEMMA LeftIs ==
  ASSUME NEW f \in Seq(Seq(Nat)), NEW n \in 0..Len(FlattenSeq(f)), Fields!AtBoundary(f, n)
  PROVE  LET k == Fields!Left(f, n) IN
         /\ k \in 0..Len(f)
         /\ SubSeq(f, 1, k) \in Seq(Seq(Nat)) /\ SubSeq(f, k + 1, Len(f)) \in Seq(Seq(Nat))
         /\ FlattenSeq(SubSeq(f, 1, k)) = SubSeq(FlattenSeq(f), 1, n)
         /\ FlattenSeq(SubSeq(f, k + 1, Len(f)))
               = SubSeq(FlattenSeq(f), n + 1, Len(FlattenSeq(f)))
<1> DEFINE k == Fields!Left(f, n)
           a == FlattenSeq(SubSeq(f, 1, k))
           b == FlattenSeq(SubSeq(f, k + 1, Len(f)))
<1>1. Upto(f, k) = n
  BY SameBytes DEF Fields!AtBoundary
<1>2. k \in 0..Len(f)
  <2>1. Len(f) \in Nat
    BY LenProperties
  <2>2. CASE n = 0
    BY <2>1, <2>2 DEF Fields!Left
  <2>3. CASE n # 0
    <3> DEFINE j == Fields!Before(f, n)
    <3>1. n \in 1..Len(FlattenSeq(f))
      BY <2>3
    <3>2. j \in 0..(Len(f) - 1)
      BY <3>1, BeforeIs
    <3>3. k = j + 1
      BY <2>3 DEF Fields!Left
    <3> HIDE DEF j, k
    <3> QED
      BY <2>1, <3>2, <3>3
  <2> QED
    BY <2>2, <2>3
<1> HIDE DEF k
<1>3. /\ SubSeq(f, 1, k) \in Seq(Seq(Nat)) /\ SubSeq(f, k + 1, Len(f)) \in Seq(Seq(Nat))
      /\ a \in Seq(Nat) /\ b \in Seq(Nat) /\ FlattenSeq(f) = a \o b
  BY <1>2, Parts
<1>4. Len(a) = n
  BY <1>1 DEF Upto
<1> HIDE DEF a, b
<1>5. SubSeq(a \o b, 1, Len(a)) = a
  <2>1. Len(a) \in 0..Len(a)
    BY <1>3, LenProperties
  <2>2. SubSeq(a \o b, 1, Len(a)) = SubSeq(a, 1, Len(a))
    BY <1>3, <2>1, CutInFirst
  <2> QED
    BY <1>3, <2>2, SubSeqFull
<1>6. SubSeq(a \o b, Len(a) + 1, Len(a \o b)) = b
  <2>1. 0 \in 0..Len(b) /\ Len(a) + 0 + 1 = Len(a) + 1 /\ 0 + 1 = 1
    BY <1>3, LenProperties
  <2>2. SubSeq(a \o b, Len(a) + 0 + 1, Len(a \o b)) = SubSeq(b, 0 + 1, Len(b))
    BY <1>3, <2>1, CutInSecond
  <2>3. SubSeq(b, 1, Len(b)) = b
    BY <1>3, SubSeqFull
  <2> QED
    BY <2>1, <2>2, <2>3, Zenon
<1> QED
  BY <1>2, <1>3, <1>4, <1>5, <1>6, Zenon DEF a, b, k

\* newLibs splits a message, or refuses.
LEMMA FieldSplitSplits ==
  ASSUME LibInv, ~AcrossChunks, NEW m \in Msgs, NEW s \in Msgs \ {m}, NEW n \in Lengths,
         Fields!msgSplit(m, s, n)
  PROVE  Halved(m, s, n)
<1> DEFINE f == m_MsgContent[m]
           k == Fields!Left(f, n)
<1>1. /\ Lists /\ f \in Seq(Seq(Nat))
      /\ Text[m] = FlattenSeq(f) /\ Text[m] = Flat(m) /\ Fields!Flat(m) = Flat(m)
      /\ m_MsgLen[m] = Len(Text[m]) /\ m_MsgLen[m] \in 0..MaxBytes
  BY OneMessage, SameBytes
<1>2. Len(Fields!Flat(m)) < Fields!SizeT(n) <=> n \notin 0..Len(Text[m])
  BY <1>1, RefusedIf, SameBytes
<1>3. CASE n \notin 0..Len(Text[m])
  <2>1. out' = <<>> /\ UNCHANGED <<m_MsgContent, m_MsgLen, used>>
    BY <1>2, <1>3 DEF Fields!msgSplit
  <2> QED
    BY <1>3, <2>1, SplitRefused
<1>4. CASE n \in 0..Len(Text[m])
  <2>1. /\ Fields!AtBoundary(f, n) /\ m_MsgContent[s] = <<>>
        /\ out' = SubSeq(Text[m], 1, n)
        /\ Fields!SplitLists(m, s, n)
        /\ m_MsgLen' = [m_MsgLen EXCEPT ![m] = n, ![s] = SizeT(m_MsgLen[m] - n)]
        /\ UNCHANGED used
    BY <1>1, <1>2, <1>4, SameBytes DEF Fields!msgSplit, Fields!Splittable
  <2>2. m_MsgLen' = [r \in Msgs |-> IF r = m THEN n
                                    ELSE IF r = s THEN SizeT(m_MsgLen[m] - n) ELSE m_MsgLen[r]]
    BY <1>1, <2>1 DEF Lists
  <2> DEFINE x == SubSeq(f, 1, k)
             y == SubSeq(f, k + 1, Len(f))
  <2> HIDE DEF f
  <2>3. /\ x \in Seq(Seq(Nat)) /\ FlattenSeq(x) = SubSeq(Text[m], 1, n)
        /\ y \in Seq(Seq(Nat)) /\ FlattenSeq(y) = SubSeq(Text[m], n + 1, Len(Text[m]))
    <3>1. n \in 0..Len(FlattenSeq(f))
      BY <1>1, <1>4
    <3> QED
      BY <1>1, <2>1, <3>1, LeftIs
  <2>4. m_MsgContent' = [r \in Msgs |-> IF r = m THEN x
                                        ELSE IF r = s THEN y ELSE m_MsgContent[r]]
    <3>1. m_MsgContent' = [m_MsgContent EXCEPT ![m] = x, ![s] = y \o m_MsgContent[s]]
      BY <1>1, <2>1 DEF Fields!SplitLists, f, Lists
    <3>2. y \o m_MsgContent[s] = y
      BY <2>1, <2>3, ConcatEmptySeq
    <3> HIDE DEF x, y
    <3> QED
      BY <1>1, <3>1, <3>2 DEF Lists
  <2> HIDE DEF x, y
  <2> QED
    BY <1>4, <2>1, <2>2, <2>3, <2>4, SplitDone
<1> QED
  BY <1>3, <1>4

-----------------------------------------------------------------------------
(* No byte gets into two places                                            *)

\* The i-th byte of text r in U is the J[r][i]-th of P[r][i] in T, and no two of them
\* are the same.
Moved(T, U, P, J) ==
    /\ \A r \in Msgs : \A i \in 1..Len(U[r]) :
          /\ P[r][i] \in Msgs /\ J[r][i] \in 1..Len(T[P[r][i]])
          /\ U[r][i] = T[P[r][i]][J[r][i]]
    /\ \A r, q \in Msgs : \A i \in 1..Len(U[r]) : \A j \in 1..Len(U[q]) :
          P[r][i] = P[q][j] /\ J[r][i] = J[q][j] => r = q /\ i = j

\* Moving bytes puts none of them in two places.
LEMMA OnceMoved ==
  ASSUME NEW T, NEW U, NEW u, NEW P, NEW J, Once(T, u), Moved(T, U, P, J)
  PROVE  Once(U, u)
<1>1. ASSUME NEW r \in Msgs, NEW i \in 1..Len(U[r]) PROVE U[r][i] \in 1..u
  <2> DEFINE p == P[r][i]
             a == J[r][i]
  <2>1. p \in Msgs /\ a \in 1..Len(T[p]) /\ U[r][i] = T[p][a]
    BY DEF Moved
  <2> HIDE DEF p, a
  <2> QED
    BY <2>1 DEF Once
<1>2. ASSUME NEW r \in Msgs, NEW q \in Msgs, NEW i \in 1..Len(U[r]), NEW j \in 1..Len(U[q]),
             U[r][i] = U[q][j]
      PROVE  r = q /\ i = j
  <2> DEFINE p == P[r][i]
             a == J[r][i]
             o == P[q][j]
             b == J[q][j]
  <2>1. /\ p \in Msgs /\ a \in 1..Len(T[p]) /\ U[r][i] = T[p][a]
        /\ o \in Msgs /\ b \in 1..Len(T[o]) /\ U[q][j] = T[o][b]
    BY DEF Moved
  <2>2. p = o /\ a = b => r = q /\ i = j
    BY DEF Moved
  <2> HIDE DEF p, a, o, b
  <2>3. p = o /\ a = b
    <3>1. T[p][a] = T[o][b]
      BY <1>2, <2>1
    <3>2. \A m, s \in Msgs : \A k \in 1..Len(T[m]) : \A l \in 1..Len(T[s]) :
             T[m][k] = T[s][l] => m = s /\ k = l
      BY DEF Once
    <3> QED
      BY <2>1, <3>1, <3>2
  <2> QED
    BY <2>2, <2>3
<1> QED
  BY <1>1, <1>2 DEF Once

\* Nor does taking some off a front,
LEMMA OnceStripped ==
  ASSUME NEW T \in [Msgs -> Seq(Nat)], NEW u \in Nat, Once(T, u),
         NEW m \in Msgs, NEW n \in 0..Len(T[m])
  PROVE  Once([T EXCEPT ![m] = SubSeq(T[m], n + 1, Len(T[m]))], u)
<1> DEFINE t == T[m]
           x == SubSeq(t, n + 1, Len(t))
           U == [T EXCEPT ![m] = x]
           P == [r \in Msgs |-> [i \in Nat |-> r]]
           J == [r \in Msgs |-> [i \in Nat |-> IF r = m THEN n + i ELSE i]]
<1>1. t \in Seq(Nat) /\ Len(t) \in Nat /\ n \in 0..Len(t)
  BY LenProperties
<1>2. Len(x) = Len(t) - n /\ \A i \in 1..(Len(t) - n) : x[i] = t[n + i]
  <2> HIDE DEF t
  <2>1. Len(x) = Len(t) - n
    BY <1>1, Halves
  <2>2. \A i \in 1..(Len(t) - n) : x[i] = t[n + i]
    BY <1>1
  <2> QED
    BY <2>1, <2>2
<1>3. /\ U[m] = x /\ T[m] = t
      /\ \A r \in Msgs \ {m} : U[r] = T[r]
      /\ \A r \in Msgs : Len(T[r]) \in Nat
  BY LenProperties
<1> HIDE DEF t, x, U
<1>4. ASSUME NEW r \in Msgs, NEW i \in 1..Len(U[r])
      PROVE  /\ P[r][i] \in Msgs /\ J[r][i] \in 1..Len(T[P[r][i]])
             /\ U[r][i] = T[P[r][i]][J[r][i]]
             /\ i \in Nat
  <2>1. CASE r = m
    <3>1. i \in 1..(Len(t) - n) /\ i \in Nat /\ n + i \in 1..Len(t)
      BY <1>1, <1>2, <1>3, <2>1
    <3>2. P[r][i] = m /\ J[r][i] = n + i
      BY <2>1, <3>1
    <3> QED
      BY <1>2, <1>3, <2>1, <3>1, <3>2
  <2>2. CASE r # m
    <3>1. i \in Nat /\ i \in 1..Len(T[r]) /\ U[r] = T[r]
      BY <1>3, <2>2
    <3>2. P[r][i] = r /\ J[r][i] = i
      BY <2>2, <3>1
    <3> QED
      BY <3>1, <3>2
  <2> QED
    BY <2>1, <2>2
<1>5. \A r, q \in Msgs : \A i \in 1..Len(U[r]) : \A j \in 1..Len(U[q]) :
         P[r][i] = P[q][j] /\ J[r][i] = J[q][j] => r = q /\ i = j
  <2> TAKE r, q \in Msgs
  <2> TAKE i \in 1..Len(U[r])
  <2> TAKE j \in 1..Len(U[q])
  <2> HAVE P[r][i] = P[q][j] /\ J[r][i] = J[q][j]
  <2>1. i \in Nat /\ j \in Nat
    BY <1>4
  <2>2. r = q
    BY <2>1
  <2>3. CASE r = m
    <3>1. n + i = n + j /\ n \in Nat
      BY <1>1, <2>1, <2>2, <2>3
    <3> QED
      BY <2>1, <2>2, <3>1
  <2>4. CASE r # m
    BY <2>1, <2>2, <2>4
  <2> QED
    BY <2>3, <2>4
<1> HIDE DEF P, J
<1>6. Once(U, u)
  <2>1. \A r \in Msgs : \A i \in 1..Len(U[r]) :
          /\ P[r][i] \in Msgs /\ J[r][i] \in 1..Len(T[P[r][i]])
          /\ U[r][i] = T[P[r][i]][J[r][i]]
    BY <1>4
  <2>2. Moved(T, U, P, J)
    BY <1>5, <2>1, Zenon DEF Moved
  <2> QED
    BY <2>2, OnceMoved
<1> QED
  BY <1>6 DEF U, x, t

\* The length and the elements of two sequences one behind the other.
LEMMA ConcatIs ==
  \A s, t \in Seq(Nat) : /\ Len(s \o t) = Len(s) + Len(t)
                         /\ \A i \in 1..Len(s) : (s \o t)[i] = s[i]
                         /\ \A i \in 1..Len(t) : (s \o t)[Len(s) + i] = t[i]
  BY ConcatProperties

\* cutting a message in two, or
LEMMA OnceHalved ==
  ASSUME NEW T \in [Msgs -> Seq(Nat)], NEW u \in Nat, Once(T, u),
         NEW m \in Msgs, NEW s \in Msgs, m # s, NEW n \in 0..Len(T[m])
  PROVE  Once([T EXCEPT ![m] = SubSeq(T[m], 1, n),
                        ![s] = SubSeq(T[m], n + 1, Len(T[m]))], u)
<1> DEFINE t == T[m]
           x == SubSeq(t, 1, n)
           y == SubSeq(t, n + 1, Len(t))
           U == [T EXCEPT ![m] = x, ![s] = y]
           P == [r \in Msgs |-> [i \in Nat |-> IF r = s THEN m ELSE r]]
           J == [r \in Msgs |-> [i \in Nat |-> IF r = s THEN n + i ELSE i]]
<1>1. t \in Seq(Nat) /\ Len(t) \in Nat /\ n \in 0..Len(t)
  BY LenProperties
<1>2. /\ Len(x) = n /\ \A i \in 1..n : x[i] = t[i]
      /\ Len(y) = Len(t) - n /\ \A i \in 1..(Len(t) - n) : y[i] = t[n + i]
  <2> HIDE DEF t
  <2>1. Len(x) = n /\ Len(y) = Len(t) - n
    BY <1>1, Halves
  <2>2. \A i \in 1..n : x[i] = t[i]
    BY <1>1
  <2>3. \A i \in 1..(Len(t) - n) : y[i] = t[n + i]
    BY <1>1
  <2> QED
    BY <2>1, <2>2, <2>3
<1>3. /\ U[m] = x /\ U[s] = y /\ T[m] = t
      /\ \A r \in Msgs : r # m /\ r # s => U[r] = T[r]
      /\ \A r \in Msgs : Len(T[r]) \in Nat
  BY LenProperties
<1> HIDE DEF t, x, y, U
<1>4. ASSUME NEW r \in Msgs, NEW i \in 1..Len(U[r])
      PROVE  /\ P[r][i] \in Msgs /\ J[r][i] \in 1..Len(T[P[r][i]])
             /\ U[r][i] = T[P[r][i]][J[r][i]]
             /\ i \in Nat /\ (r = m => i <= n)
  <2>1. CASE r = m
    <3>1. i \in 1..n /\ i \in Nat /\ i \in 1..Len(t)
      BY <1>1, <1>2, <1>3, <2>1
    <3>2. P[r][i] = m /\ J[r][i] = i
      BY <2>1, <3>1
    <3> QED
      BY <1>2, <1>3, <2>1, <3>1, <3>2
  <2>2. CASE r = s
    <3>1. i \in 1..(Len(t) - n) /\ i \in Nat /\ n + i \in 1..Len(t)
      BY <1>1, <1>2, <1>3, <2>2
    <3>2. P[r][i] = m /\ J[r][i] = n + i
      BY <2>2, <3>1
    <3> QED
      BY <1>2, <1>3, <2>2, <3>1, <3>2
  <2>3. CASE r # m /\ r # s
    <3>1. i \in Nat /\ i \in 1..Len(T[r]) /\ U[r] = T[r]
      BY <1>3, <2>3
    <3>2. P[r][i] = r /\ J[r][i] = i
      BY <2>3, <3>1
    <3> QED
      BY <2>3, <3>1, <3>2
  <2> QED
    BY <2>1, <2>2, <2>3
<1>5. \A r, q \in Msgs : \A i \in 1..Len(U[r]) : \A j \in 1..Len(U[q]) :
         P[r][i] = P[q][j] /\ J[r][i] = J[q][j] => r = q /\ i = j
  <2> HIDE DEF P, J
  <2> TAKE r, q \in Msgs
  <2> TAKE i \in 1..Len(U[r])
  <2> TAKE j \in 1..Len(U[q])
  <2> HAVE P[r][i] = P[q][j] /\ J[r][i] = J[q][j]
  <2>1. /\ i \in Nat /\ j \in Nat /\ n \in Nat /\ i >= 1 /\ j >= 1
        /\ (r = m => i <= n) /\ (q = m => j <= n)
    <3>1. i \in Nat /\ (r = m => i <= n)
      BY <1>4
    <3>2. j \in Nat /\ (q = m => j <= n)
      BY <1>4
    <3> QED
      BY <1>1, <3>1, <3>2
  <2>2. /\ (IF r = s THEN m ELSE r) = (IF q = s THEN m ELSE q)
        /\ (IF r = s THEN n + i ELSE i) = (IF q = s THEN n + j ELSE j)
    BY <2>1 DEF P, J
  <2> QED
    BY <2>1, <2>2
<1> HIDE DEF P, J
<1>6. Once(U, u)
  <2>1. \A r \in Msgs : \A i \in 1..Len(U[r]) :
          /\ P[r][i] \in Msgs /\ J[r][i] \in 1..Len(T[P[r][i]])
          /\ U[r][i] = T[P[r][i]][J[r][i]]
    BY <1>4
  <2>2. Moved(T, U, P, J)
    BY <1>5, <2>1, Zenon DEF Moved
  <2> QED
    BY <2>2, OnceMoved
<1> QED
  BY <1>6 DEF U, x, y, t

\* joining two of them;
LEMMA OnceJoined ==
  ASSUME NEW T \in [Msgs -> Seq(Nat)], NEW u \in Nat, Once(T, u),
         NEW m \in Msgs, NEW s \in Msgs, m # s
  PROVE  Once([T EXCEPT ![m] = T[m] \o T[s], ![s] = <<>>], u)
<1> DEFINE t == T[m]
           w == T[s]
           x == t \o w
           U == [T EXCEPT ![m] = x, ![s] = <<>>]
           P == [r \in Msgs |-> [i \in Nat |-> IF r = m /\ i > Len(t) THEN s ELSE r]]
           J == [r \in Msgs |-> [i \in Nat |-> IF r = m /\ i > Len(t) THEN i - Len(t) ELSE i]]
<1>1. t \in Seq(Nat) /\ Len(t) \in Nat /\ w \in Seq(Nat) /\ Len(w) \in Nat
  BY LenProperties
<1>2. /\ Len(x) = Len(t) + Len(w)
      /\ \A i \in 1..Len(t) : x[i] = t[i]
      /\ \A i \in 1..Len(w) : x[Len(t) + i] = w[i]
  <2> HIDE DEF t, w
  <2> QED
    BY <1>1, ConcatProperties
<1>3. /\ U[m] = x /\ U[s] = <<>> /\ T[m] = t /\ T[s] = w
      /\ \A r \in Msgs : r # m /\ r # s => U[r] = T[r]
      /\ \A r \in Msgs : Len(T[r]) \in Nat
      /\ Len(U[s]) = 0
  BY LenProperties
<1> HIDE DEF t, w, x, U
<1>4. ASSUME NEW r \in Msgs, NEW i \in 1..Len(U[r])
      PROVE  /\ P[r][i] \in Msgs /\ J[r][i] \in 1..Len(T[P[r][i]])
             /\ U[r][i] = T[P[r][i]][J[r][i]]
             /\ i \in Nat /\ r # s
  <2>1. CASE r = m /\ i > Len(t)
    <3> DEFINE j == i - Len(t)
    <3>1. i \in Nat /\ j \in 1..Len(w) /\ i = Len(t) + j
      BY <1>1, <1>2, <1>3, <2>1
    <3>2. P[r][i] = s /\ J[r][i] = j
      BY <2>1, <3>1
    <3> HIDE DEF j
    <3>3. U[r][i] = w[j]
      BY <1>2, <1>3, <2>1, <3>1
    <3> QED
      BY <1>3, <2>1, <3>1, <3>2, <3>3
  <2>2. CASE r = m /\ ~(i > Len(t))
    <3>1. i \in Nat /\ i \in 1..Len(t)
      BY <1>1, <1>2, <1>3, <2>2
    <3>2. P[r][i] = m /\ J[r][i] = i
      BY <2>2, <3>1
    <3> QED
      BY <1>2, <1>3, <2>2, <3>1, <3>2
  <2>3. r # s
    BY <1>3
  <2>4. CASE r # m
    <3>1. i \in Nat /\ i \in 1..Len(T[r]) /\ U[r] = T[r]
      BY <1>3, <2>3, <2>4
    <3>2. P[r][i] = r /\ J[r][i] = i
      BY <2>4, <3>1
    <3> QED
      BY <2>3, <3>1, <3>2
  <2> QED
    BY <2>1, <2>2, <2>4
<1>5. \A r, q \in Msgs : \A i \in 1..Len(U[r]) : \A j \in 1..Len(U[q]) :
         P[r][i] = P[q][j] /\ J[r][i] = J[q][j] => r = q /\ i = j
  <2> HIDE DEF P, J
  <2> TAKE r, q \in Msgs
  <2> TAKE i \in 1..Len(U[r])
  <2> TAKE j \in 1..Len(U[q])
  <2> HAVE P[r][i] = P[q][j] /\ J[r][i] = J[q][j]
  <2>1. i \in Nat /\ j \in Nat /\ r # s /\ q # s
    BY <1>4
  <2>2. /\ (IF r = m /\ i > Len(t) THEN s ELSE r) = (IF q = m /\ j > Len(t) THEN s ELSE q)
        /\ (IF r = m /\ i > Len(t) THEN i - Len(t) ELSE i)
              = (IF q = m /\ j > Len(t) THEN j - Len(t) ELSE j)
    BY <2>1 DEF P, J
  <2> QED
    BY <1>1, <2>1, <2>2
<1> HIDE DEF P, J
<1>6. Once(U, u)
  <2>1. \A r \in Msgs : \A i \in 1..Len(U[r]) :
          /\ P[r][i] \in Msgs /\ J[r][i] \in 1..Len(T[P[r][i]])
          /\ U[r][i] = T[P[r][i]][J[r][i]]
    BY <1>4
  <2>2. Moved(T, U, P, J)
    BY <1>5, <2>1, Zenon DEF Moved
  <2> QED
    BY <2>2, OnceMoved
<1> QED
  BY <1>6 DEF U, x, t, w

\* and bytes put in front are new ones.
LEMMA OnceAdded ==
  ASSUME NEW T \in [Msgs -> Seq(Nat)], used \in Nat, Once(T, used),
         NEW m \in Msgs, NEW n \in Nat
  PROVE  Once([T EXCEPT ![m] = Fresh(n) \o T[m]], used + n)
<1> DEFINE t == T[m]
           w == Fresh(n)
           x == w \o t
           U == [T EXCEPT ![m] = x]
<1>1. /\ t \in Seq(Nat) /\ Len(t) \in Nat
      /\ w \in Seq(Nat) /\ Len(w) = n /\ \A i \in 1..n : w[i] = used + i
  BY LenProperties DEF Fresh
<1>2. /\ Len(x) = n + Len(t)
      /\ \A i \in 1..n : x[i] = used + i
      /\ \A i \in 1..Len(t) : x[n + i] = t[i]
  <2> HIDE DEF t, w
  <2>1. /\ Len(x) = Len(w) + Len(t)
        /\ \A i \in 1..Len(w) : x[i] = w[i]
        /\ \A i \in 1..Len(t) : x[Len(w) + i] = t[i]
    BY <1>1, ConcatIs
  <2> HIDE DEF x
  <2> QED
    BY <1>1, <2>1
<1>3. /\ U[m] = x /\ T[m] = t
      /\ \A r \in Msgs : r # m => U[r] = T[r]
      /\ \A r \in Msgs : Len(T[r]) \in Nat
  BY LenProperties
<1> HIDE DEF t, w, x, U
<1>4. ASSUME NEW r \in Msgs, NEW i \in 1..Len(U[r])
      PROVE  \/ r = m /\ i \in 1..n /\ U[r][i] = used + i
             \/ LET j == IF r = m THEN i - n ELSE i IN
                /\ j \in 1..Len(T[r]) /\ U[r][i] = T[r][j]
                /\ U[r][i] \in 1..used
  <2>1. CASE r = m /\ i <= n
    <3>1. i \in 1..n
      BY <2>1
    <3> QED
      BY <1>2, <1>3, <2>1, <3>1
  <2>2. CASE r = m /\ ~(i <= n)
    <3> DEFINE j == i - n
    <3>1. j \in 1..Len(t) /\ i = n + j
      BY <1>1, <1>2, <1>3, <2>2
    <3>2. U[r][i] = t[j]
      <4> HIDE DEF j
      <4> QED
        BY <1>2, <1>3, <2>2, <3>1
    <3>3. t[j] \in 1..used
      <4> HIDE DEF j
      <4> QED
        BY <1>3, <3>1 DEF Once
    <3> QED
      BY <1>3, <2>2, <3>1, <3>2, <3>3
  <2>3. CASE r # m
    <3>1. U[r] = T[r] /\ i \in 1..Len(T[r])
      BY <1>3, <2>3
    <3>2. T[r][i] \in 1..used
      BY <3>1 DEF Once
    <3> QED
      BY <2>3, <3>1, <3>2
  <2> QED
    BY <2>1, <2>2, <2>3
<1>5. ASSUME NEW r \in Msgs, NEW i \in 1..Len(U[r]) PROVE U[r][i] \in 1..(used + n)
  BY <1>4
<1>6. ASSUME NEW r \in Msgs, NEW q \in Msgs, NEW i \in 1..Len(U[r]), NEW j \in 1..Len(U[q]),
             U[r][i] = U[q][j]
      PROVE  r = q /\ i = j
  <2> DEFINE k == IF r = m THEN i - n ELSE i
             l == IF q = m THEN j - n ELSE j
  <2>1. i \in Int /\ j \in Int
    OBVIOUS
  <2>2. \/ r = m /\ i \in 1..n /\ U[r][i] = used + i
        \/ k \in 1..Len(T[r]) /\ U[r][i] = T[r][k] /\ U[r][i] \in 1..used
    BY <1>4
  <2>3. \/ q = m /\ j \in 1..n /\ U[q][j] = used + j
        \/ l \in 1..Len(T[q]) /\ U[q][j] = T[q][l] /\ U[q][j] \in 1..used
    BY <1>4
  <2>4. CASE r = m /\ i \in 1..n /\ U[r][i] = used + i
    BY <1>6, <2>1, <2>3, <2>4
  <2>5. CASE q = m /\ j \in 1..n /\ U[q][j] = used + j
    BY <1>6, <2>1, <2>2, <2>5
  <2>6. CASE /\ k \in 1..Len(T[r]) /\ U[r][i] = T[r][k]
             /\ l \in 1..Len(T[q]) /\ U[q][j] = T[q][l]
    <3>1. r = q /\ k = l
      <4> HIDE DEF k, l
      <4>1. T[r][k] = T[q][l]
        BY <1>6, <2>6
      <4>2. \A a, b \in Msgs : \A c \in 1..Len(T[a]) : \A d \in 1..Len(T[b]) :
               T[a][c] = T[b][d] => a = b /\ c = d
        BY DEF Once
      <4> QED
        BY <2>6, <4>1, <4>2
    <3> QED
      BY <2>1, <3>1
  <2> QED
    BY <2>2, <2>3, <2>4, <2>5, <2>6
<1>7. Once(U, used + n)
  BY <1>5, <1>6 DEF Once
<1> QED
  BY <1>7 DEF U, x, w, t

-----------------------------------------------------------------------------
(* The invariant holds                                                     *)

\* What a call does to the texts, whichever library it is a call of.
Effect ==
    \E m \in Msgs :
       \/ \E n \in Nat : Added(m, n)
       \/ \E n \in Lengths : Stripped(m, n)
       \/ \E s \in Msgs \ {m} : Joined(m, s) \/ \E n \in Lengths : Halved(m, s, n)

\* Every call of ourLibs that does not split beyond the first chunk is one of these,
LEMMA ChunkEffect == ASSUME LibInv, ~AcrossChunks, Next PROVE Effect
<1> PICK m \in Msgs :
       \/ \E n \in 0..MaxChunk : Construct(m, n)
       \/ \E n \in 1..MaxChunk : msgAddHdr(m, n)
       \/ \E n \in Lengths : msgStripHdr(m, n)
       \/ \E s \in Msgs \ {m} : msgJoin(m, s) \/ \E n \in Lengths : msgSplit(m, s, n)
  BY DEF Next
<1>1. CASE \E n \in 0..MaxChunk : Construct(m, n)
  <2>1. PICK n \in 0..MaxChunk : Construct(m, n)
    BY <1>1
  <2>2. Added(m, n) /\ n \in Nat
    BY <2>1, ConstructAdds DEF Added
  <2> QED
    BY <2>2 DEF Effect
<1>2. CASE \E n \in 1..MaxChunk : msgAddHdr(m, n)
  <2>1. PICK n \in 1..MaxChunk : msgAddHdr(m, n)
    BY <1>2
  <2>2. Added(m, n) /\ n \in Nat
    BY <2>1, AddHdrAdds DEF Added
  <2> QED
    BY <2>2 DEF Effect
<1>3. CASE \E n \in Lengths : msgStripHdr(m, n)
  BY <1>3, StripStrips DEF Effect
<1>4. CASE \E s \in Msgs \ {m} : msgJoin(m, s)
  BY <1>4, JoinJoins DEF Effect
<1>5. CASE \E s \in Msgs \ {m} : \E n \in Lengths : msgSplit(m, s, n)
  BY <1>5, SplitSplits DEF Effect
<1> QED
  BY <1>1, <1>2, <1>3, <1>4, <1>5

\* and so is every call of newLibs that it answers as it should.
LEMMA FieldEffect == ASSUME LibInv, ~AcrossChunks, Fields!Next PROVE Effect
<1> PICK m \in Msgs :
       \/ \E n \in 0..MaxChunk : Fields!Construct(m, n)
       \/ \E n \in 1..MaxChunk : Fields!msgAddHdr(m, n)
       \/ \E n \in 0..MaxBytes : Fields!msgStripHdr(m, n)
       \/ \E s \in Msgs \ {m} : \/ Fields!msgJoin(m, s)
                                \/ \E n \in Lengths : Fields!msgSplit(m, s, n)
  BY DEF Fields!Next, Lengths
<1>1. CASE \E n \in 0..MaxChunk : Fields!Construct(m, n)
  <2>1. PICK n \in 0..MaxChunk : Construct(m, n)
    BY <1>1, AlikeCalls
  <2>2. Added(m, n) /\ n \in Nat
    BY <2>1, ConstructAdds DEF Added
  <2> QED
    BY <2>2 DEF Effect
<1>2. CASE \E n \in 1..MaxChunk : Fields!msgAddHdr(m, n)
  <2>1. PICK n \in 1..MaxChunk : msgAddHdr(m, n)
    BY <1>2, AlikeCalls
  <2>2. Added(m, n) /\ n \in Nat
    BY <2>1, AddHdrAdds DEF Added
  <2> QED
    BY <2>2 DEF Effect
<1>3. CASE \E n \in 0..MaxBytes : Fields!msgStripHdr(m, n)
  <2>1. PICK n \in 0..MaxBytes : Fields!msgStripHdr(m, n)
    BY <1>3
  <2>2. Stripped(m, n) /\ n \in Lengths
    BY <2>1, FieldStripStrips DEF Lengths
  <2> QED
    BY <2>2 DEF Effect
<1>4. CASE \E s \in Msgs \ {m} : Fields!msgJoin(m, s)
  BY <1>4, AlikeCalls, JoinJoins DEF Effect
<1>5. CASE \E s \in Msgs \ {m} : \E n \in Lengths : Fields!msgSplit(m, s, n)
  BY <1>5, FieldSplitSplits DEF Effect
<1> QED
  BY <1>1, <1>2, <1>3, <1>4, <1>5

\* It keeps the invariant,
LEMMA EffectKeeps == ASSUME LibInv, Effect PROVE LibInv'
<1>1. /\ used \in Nat /\ MaxBytes \in Nat /\ Once(Text, used)
      /\ Text \in [Msgs -> Seq(Nat)]
  BY TextType, MessageAssumption DEF LibInv
<1> PICK m \in Msgs :
       \/ \E n \in Nat : Added(m, n)
       \/ \E n \in Lengths : Stripped(m, n)
       \/ \E s \in Msgs \ {m} : Joined(m, s) \/ \E n \in Lengths : Halved(m, s, n)
  BY DEF Effect
<1>2. ASSUME NEW n \in Nat, Added(m, n) PROVE LibInv'
  <2>1. /\ used' = used + n /\ used + n <= MaxBytes /\ Kept
        /\ Text' = [Text EXCEPT ![m] = Fresh(n) \o Text[m]]
    BY <1>1, <1>2 DEF Added, Strings!Prepend, Text
  <2>2. Once(Text', used')
    BY <1>1, <2>1, OnceAdded
  <2>3. used' \in 0..MaxBytes
    BY <1>1, <2>1
  <2> QED
    BY <2>1, <2>2, <2>3 DEF LibInv, Kept, Once
<1>3. ASSUME NEW n \in Lengths, Stripped(m, n) PROVE LibInv'
  <2>1. used' = used /\ Kept
    BY <1>3 DEF Stripped
  <2>2. Once(Text', used)
    <3>1. CASE n \in 1..Len(Text[m])
      <4>1. Text' = [Text EXCEPT ![m] = SubSeq(Text[m], n + 1, Len(Text[m]))]
        BY <1>1, <1>3, <3>1 DEF Stripped, Strings!Strip, Text
      <4>2. n \in 0..Len(Text[m])
        BY <3>1
      <4> QED
        BY <1>1, <4>1, <4>2, OnceStripped
    <3>2. CASE n \notin 1..Len(Text[m])
      <4>1. Text' = Text
        BY <1>3, <3>2 DEF Stripped, Strings!Strip, Text
      <4> QED
        BY <1>1, <4>1
    <3> QED
      BY <3>1, <3>2
  <2> QED
    BY <2>1, <2>2 DEF LibInv, Kept, Once
<1>4. ASSUME NEW s \in Msgs \ {m}, Joined(m, s) PROVE LibInv'
  <2>1. /\ used' = used /\ Kept
        /\ Text' = [Text EXCEPT ![m] = Text[m] \o Text[s], ![s] = <<>>]
    BY <1>1, <1>4 DEF Joined, Strings!Concat, Text
  <2>2. Once(Text', used)
    BY <1>1, <2>1, OnceJoined
  <2> QED
    BY <2>1, <2>2 DEF LibInv, Kept, Once
<1>5. ASSUME NEW s \in Msgs \ {m}, NEW n \in Lengths, Halved(m, s, n) PROVE LibInv'
  <2>1. used' = used /\ Kept
    BY <1>5 DEF Halved
  <2>2. Once(Text', used)
    <3>1. CASE n \in 0..Len(Text[m])
      <4>1. Text' = [Text EXCEPT ![m] = SubSeq(Text[m], 1, n),
                                 ![s] = SubSeq(Text[m], n + 1, Len(Text[m]))]
        BY <1>1, <1>5, <3>1 DEF Halved, Strings!Split, Text
      <4> QED
        BY <1>1, <3>1, <4>1, OnceHalved
    <3>2. CASE n \notin 0..Len(Text[m])
      <4>1. Text' = Text
        BY <1>5, <3>2 DEF Halved, Strings!Split, Text
      <4> QED
        BY <1>1, <4>1
    <3> QED
      BY <3>1, <3>2
  <2> QED
    BY <2>1, <2>2 DEF LibInv, Kept, Once
<1> QED
  BY <1>2, <1>3, <1>4, <1>5

\* and is a step of ByteStrings.
LEMMA EffectIsStep == ASSUME LibInv, Effect PROVE Strings!Next
<1>1. used \in Nat /\ MaxBytes \in Nat
  BY MessageAssumption DEF LibInv
<1> PICK m \in Msgs :
       \/ \E n \in Nat : Added(m, n)
       \/ \E n \in Lengths : Stripped(m, n)
       \/ \E s \in Msgs \ {m} : Joined(m, s) \/ \E n \in Lengths : Halved(m, s, n)
  BY DEF Effect
<1>2. ASSUME NEW n \in Nat, Added(m, n) PROVE Strings!Next
  <2> DEFINE a == used
             b == used + n
  <2>1. a \in 0..MaxBytes /\ b \in 0..MaxBytes /\ b - a = n
    BY <1>1, <1>2 DEF Added
  <2>2. Strings!Prepend(m, [i \in 1..n |-> a + i])
    BY <1>2 DEF Added, Fresh
  <2> HIDE DEF a, b
  <2>3. Strings!Prepend(m, [i \in 1..(b - a) |-> a + i])
    BY <2>1, <2>2
  <2> QED
    BY <2>1, <2>3 DEF Strings!Next
<1>3. ASSUME NEW n \in Lengths, Stripped(m, n) PROVE Strings!Next
  BY <1>3 DEF Stripped, Strings!Next
<1>4. ASSUME NEW s \in Msgs \ {m}, Joined(m, s) PROVE Strings!Next
  BY <1>4 DEF Joined, Strings!Next
<1>5. ASSUME NEW s \in Msgs \ {m}, NEW n \in Lengths, Halved(m, s, n) PROVE Strings!Next
  BY <1>5 DEF Halved, Strings!Next
<1> QED
  BY <1>2, <1>3, <1>4, <1>5

\* At first there are no chunks.
LEMMA LibInvInit == ASSUME Init PROVE LibInv /\ Strings!Init
<1>1. m_MsgContent = [m \in Msgs |-> <<>>] /\ m_MsgLen = [m \in Msgs |-> 0] /\ used = 0 /\ out = <<>>
  BY DEF Init
<1>2. \A m \in Msgs : Flat(m) = <<>>
  BY <1>1, FlattenEmpty DEF Flat
<1>3. Len(<<>>) = 0 /\ <<>> \in Content /\ 0 \in 0..MaxBytes
  BY EmptySeq, MessageAssumption DEF Content
<1>4. Lists /\ LengthIsContent
  BY <1>1, <1>2, <1>3 DEF Lists, LengthIsContent
<1>5. Text = [m \in Msgs |-> <<>>]
  BY <1>2 DEF Text
<1>6. Once(Text, used)
  <2>1. \A m \in Msgs : 1..Len(Text[m]) = {}
    BY <1>3, <1>5
  <2> QED
    BY <2>1 DEF Once
<1>7. Strings!Init
  BY <1>1, <1>5 DEF Strings!Init, Text
<1> QED
  BY <1>1, <1>3, <1>4, <1>6, <1>7 DEF LibInv

\* The invariant is inductive, for the calls the libraries handle.
LEMMA LibInvStep ==
  ASSUME LibInv, ~AcrossChunks, [LibsNext]_<<vars, library>>
  PROVE  LibInv' /\ [Strings!Next]_<<Text, out>>
<1>1. CASE LibsNext
  <2>1. Effect
    BY <1>1, ChunkEffect, FieldEffect DEF LibsNext
  <2> QED
    BY <2>1, EffectKeeps, EffectIsStep
<1>2. CASE UNCHANGED <<vars, library>>
  <2>1. Text' = Text /\ UNCHANGED <<m_MsgContent, m_MsgLen, used, out>>
    BY <1>2 DEF vars, Text, Flat
  <2> QED
    BY <2>1 DEF LibInv, Lists, LengthIsContent, Flat, Once
<1> QED
  BY <1>1, <1>2

-----------------------------------------------------------------------------
(* Theorems                                                                *)

\* Both libraries, however the program cuts texts and headers into chunks: the
\* length kept beside the list is the number of bytes in it, as long as no call is
\* made that a library answers wrongly.
THEOREM LengthsRight == ASSUME ~AcrossChunks PROVE LibsSpec => []LengthIsContent
<1>1. LibsInit => LibInv
  BY LibInvInit DEF LibsInit
<1>2. LibInv /\ [LibsNext]_<<vars, library>> => LibInv'
  BY LibInvStep
<1>3. LibInv => LengthIsContent
  BY DEF LibInv
<1> QED
  BY <1>1, <1>2, <1>3, PTL DEF LibsSpec

\* No byte that was handed to a library is ever in two messages or twice in one.
THEOREM BytesOnce == ASSUME ~AcrossChunks PROVE LibsSpec => []Once(Text, used)
<1>1. LibsInit => LibInv
  BY LibInvInit DEF LibsInit
<1>2. LibInv /\ [LibsNext]_<<vars, library>> => LibInv'
  BY LibInvStep
<1>3. LibInv => Once(Text, used)
  BY DEF LibInv
<1> QED
  BY <1>1, <1>2, <1>3, PTL DEF LibsSpec

\* Both libraries behave like strings of bytes, in what they keep and in what they
\* hand out.
THEOREM LibsAreByteStrings == ASSUME ~AcrossChunks PROVE LibsSpec => ImplementsByteStrings
<1>1. LibsInit => LibInv /\ Strings!Init
  BY LibInvInit DEF LibsInit
<1>2. LibInv /\ [LibsNext]_<<vars, library>> => LibInv' /\ [Strings!Next]_(Strings!vars)
  BY LibInvStep DEF Strings!vars, Text
<1> QED
  BY <1>1, <1>2, PTL DEF LibsSpec, ImplementsByteStrings, Strings!Spec
=============================================================================

------------------------------- MODULE ListFacts -------------------------------
(*************************************************************************)
(* Facts that the proofs about several components share: the least of a  *)
(* set of numbers, the list that SetToSeq makes of a set, the list that  *)
(* FlattenSeq makes of a list of lists, and the functions that recursion *)
(* over a finite set defines.  What is proved of every number is proved  *)
(* by the least number it would be wrong of.                             *)
(*************************************************************************)
EXTENDS Integers, SequencesExt, FiniteSetTheorems, SequenceTheorems, WellFoundedInduction, TLAPS

\* Before a number comes every lesser one.
Before == {pair \in Nat \X Nat : pair[1] < pair[2]}

LEMMA BeforeIsWellFounded == IsWellFoundedOn(Before, Nat)
BY NatLessThanWellFounded DEF OpToRel, Before

LEMMA LeastNatural ==
    ASSUME NEW S \in SUBSET Nat, S # {}
    PROVE  \E m \in S : \A n \in S : m <= n
<1>1. PICK m \in S : \A n \in S : <<n, m>> \notin Before
  BY BeforeIsWellFounded, WFMin
<1>2. ASSUME NEW n \in S PROVE m <= n
  <2>1. ~(n < m)
    BY <1>1 DEF Before
  <2> QED
    BY <2>1
<1> QED
  BY <1>2

-----------------------------------------------------------------------------
(* Lists.                                                                  *)

\* A list without its last element.
LEMMA FrontIsSeq ==
    ASSUME NEW S, NEW s \in Seq(S)
    PROVE  Front(s) \in Seq(S)
<1>1. Len(s) \in Nat
  BY LenProperties
<1>2. CASE Len(s) \in {0, 1}
  BY <1>1, <1>2, SubSeqEmpty, EmptySeq DEF Front
<1>3. CASE Len(s) \notin {0, 1}
  BY <1>1, <1>3, SubSeqProperties DEF Front
<1>4. QED BY <1>2, <1>3

\* The list of a set holds its elements.
LEMMA ListOfSet ==
    ASSUME NEW S, IsFiniteSet(S)
    PROVE  SetToSeq(S) \in Seq(S) /\ \A x \in S : \E i \in 1 .. Len(SetToSeq(S)) : SetToSeq(S)[i] = x
<1> DEFINE n == Cardinality(S)
<1>1. n \in Nat /\ ExistsBijection(1 .. n, S)
  BY FS_CardinalityType
<1>2. PICK f \in [1 .. n -> S] : IsInjective(f)
  BY <1>1 DEF ExistsBijection, Bijection, Injection
<1>3. SetToSeq(S) \in [1 .. n -> S] /\ IsInjective(SetToSeq(S))
  BY <1>2 DEF SetToSeq
<1>4. SetToSeq(S) \in Seq(S) /\ Len(SetToSeq(S)) = n
  BY <1>1, <1>3, SeqDef
<1>5. \A x \in S : \E i \in 1 .. n : SetToSeq(S)[i] = x
  <2> DEFINE g == SetToSeq(S)
             image == {g[i] : i \in 1 .. n}
  <2>1. image \subseteq S
    BY <1>3
  <2>2. g \in Bijection(1 .. n, image)
    BY <1>3 DEF Bijection, Injection, Surjection, IsInjective
  <2>3. Cardinality(image) = n
    BY <1>1, <2>2, FS_CountingElements DEF ExistsBijection
  <2>4. image = S
    BY <2>1, <2>3, FS_Subset
  <2>5. QED BY <2>4
<1>6. QED BY <1>4, <1>5

\* The concatenations of the first sequences of a list of sequences: there is
\* such a list of concatenations, and its last one is FlattenSeq's value.
Concatenations(ss, g, k) ==
    g = [i \in 1 .. k |-> IF i = 1 THEN ss[i] ELSE g[i - 1] \o ss[i]]

LEMMA ConcatenationsExist ==
    ASSUME NEW ss, NEW n \in Nat
    PROVE  \E g : Concatenations(ss, g, n)
<1> DEFINE T == {k \in Nat : ~\E g : Concatenations(ss, g, k)}
<1> SUFFICES ASSUME T # {} PROVE FALSE
  OBVIOUS
<1>1. PICK k \in T : \A y \in T : k <= y
  BY LeastNatural
<1>2. k \in Nat /\ ~\E g : Concatenations(ss, g, k)
  OBVIOUS
<1>3. CASE k = 0
  <2>1. Concatenations(ss, <<>>, 0)
    BY DEF Concatenations
  <2>2. QED BY <1>2, <1>3, <2>1
<1>4. CASE k > 0
  <2>1. k - 1 \in Nat /\ k - 1 \notin T
    BY <1>1, <1>2, <1>4
  <2>2. PICK g : Concatenations(ss, g, k - 1)
    BY <2>1
  <2> DEFINE h == [i \in 1 .. k |-> IF i < k THEN g[i] ELSE IF k = 1 THEN ss[1] ELSE g[k - 1] \o ss[k]]
  <2>3. ASSUME NEW i \in 1 .. k
        PROVE  h[i] = IF i = 1 THEN ss[i] ELSE h[i - 1] \o ss[i]
    <3>1. CASE i = k
      BY <1>2, <3>1
    <3>2. CASE i < k
      <4>1. g[i] = IF i = 1 THEN ss[i] ELSE g[i - 1] \o ss[i]
        <5>1. i \in 1 .. (k - 1)
          BY <1>2, <3>2
        <5>2. QED BY <2>2, <5>1, Zenon DEF Concatenations
      <4>2. i # 1 => h[i - 1] = g[i - 1]
        BY <1>2, <3>2
      <4>3. QED BY <3>2, <4>1, <4>2
    <3>3. QED BY <1>2, <3>1, <3>2
  <2>4. Concatenations(ss, h, k)
    <3>1. h = [i \in 1 .. k |-> h[i]]
      OBVIOUS
    <3> HIDE DEF h
    <3>2. [i \in 1 .. k |-> h[i]] = [i \in 1 .. k |-> IF i = 1 THEN ss[i] ELSE h[i - 1] \o ss[i]]
      BY <2>3
    <3>3. QED BY <3>1, <3>2 DEF Concatenations
  <2>5. QED BY <1>2, <2>4
<1>5. QED BY <1>2, <1>3, <1>4

\* Each of the lists has its place in the list of them all, directly after the
\* one before it.
Offsets(ss, start, n) ==
    /\ start[1] = 0 /\ start[n + 1] \in Nat
    /\ \A i \in 1 .. n : start[i] \in Nat /\ start[i + 1] = start[i] + Len(ss[i])

LEMMA FlattenPlaces ==
    ASSUME NEW S, NEW ss \in Seq(Seq(S))
    PROVE  /\ FlattenSeq(ss) \in Seq(S)
           /\ \E start :
                /\ Offsets(ss, start, Len(ss))
                /\ Len(FlattenSeq(ss)) = start[Len(ss) + 1]
                /\ \A i \in 1 .. Len(ss) : \A j \in 1 .. Len(ss[i]) :
                     /\ start[i] + j <= Len(FlattenSeq(ss))
                     /\ FlattenSeq(ss)[start[i] + j] = ss[i][j]
<1> DEFINE n == Len(ss)
           flatten == CHOOSE g : Concatenations(ss, g, n)
           start == [i \in 1 .. n + 1 |-> IF i = 1 THEN 0 ELSE Len(flatten[i - 1])]
           Placed(i) == /\ flatten[i] \in Seq(S)
                        /\ Len(flatten[i]) = start[i] + Len(ss[i])
                        /\ \A m \in 1 .. i : \A j \in 1 .. Len(ss[m]) :
                             /\ start[m] + j <= Len(flatten[i])
                             /\ flatten[i][start[m] + j] = ss[m][j]
           T == {i \in 1 .. n : ~Placed(i)}
<1>1. n \in Nat /\ \A i \in 1 .. n : ss[i] \in Seq(S) /\ Len(ss[i]) \in Nat
  BY LenProperties, ElementOfSeq
<1>2. Concatenations(ss, flatten, n)
  BY <1>1, ConcatenationsExist
<1>3. n # 0 => FlattenSeq(ss) = flatten[n]
  BY DEF FlattenSeq, Concatenations
<1>4. \A i \in 1 .. n : flatten[i] = IF i = 1 THEN ss[i] ELSE flatten[i - 1] \o ss[i]
  <2> HIDE DEF flatten, n
  <2>1. QED BY <1>2, Zenon DEF Concatenations
<1> HIDE DEF flatten, n
<1>s. start[1] = 0 /\ \A i \in 1 .. n : start[i + 1] = Len(flatten[i])
  <2>1. \A i \in 1 .. n : i + 1 \in 1 .. n + 1 /\ i + 1 # 1 /\ (i + 1) - 1 = i
    BY <1>1
  <2>2. 1 \in 1 .. n + 1
    BY <1>1
  <2>3. QED BY <2>1, <2>2
<1> HIDE DEF start
<1>5. T = {}
  <2> SUFFICES ASSUME T # {} PROVE FALSE
    OBVIOUS
  <2>0. T \in SUBSET Nat
    <3> HIDE DEF Placed
    <3>1. QED BY <1>1
  <2>1. PICK i \in T : \A y \in T : i <= y
    <3> HIDE DEF T
    <3>1. QED BY <2>0, LeastNatural
  <2>2. i \in 1 .. n /\ ~Placed(i)
    OBVIOUS
  <2>3. CASE i = 1
    <3>1. flatten[1] = ss[1] /\ ss[1] \in Seq(S) /\ Len(ss[1]) \in Nat
      <4> HIDE DEF Placed
      <4>1. QED BY <1>1, <1>4, <2>2, <2>3
    <3>2. Len(flatten[1]) = start[1] + Len(ss[1])
      BY <1>s, <3>1
    <3>3. \A m \in 1 .. 1 : m = 1
      OBVIOUS
    <3>4. \A j \in 1 .. Len(ss[1]) : start[1] + j = j /\ j <= Len(ss[1])
      BY <1>s, <3>1
    <3>5. Placed(1)
      BY <3>1, <3>2, <3>3, <3>4
    <3>6. QED BY <2>2, <2>3, <3>5
  <2>4. CASE i > 1
    <3>0. i - 1 \in 1 .. n /\ i \in Nat
      <4> HIDE DEF Placed
      <4>1. QED BY <1>1, <2>2, <2>4
    <3>1. i - 1 \notin T
      <4>1. i - 1 \in T => i <= i - 1
        <5> HIDE DEF T
        <5>1. QED BY <2>1
      <4>2. ~(i <= i - 1)
        BY <3>0
      <4>3. QED BY <4>1, <4>2, Zenon
    <3>2. Placed(i - 1)
      <4> HIDE DEF Placed
      <4>1. QED BY <3>0, <3>1
    <3> DEFINE a == flatten[i - 1]
               b == ss[i]
    <3>3. flatten[i] = a \o b /\ a \in Seq(S) /\ b \in Seq(S)
      <4>1. a \in Seq(S)
        BY <3>2
      <4>2. b \in Seq(S)
        BY <1>1, <2>2
      <4>3. flatten[i] = a \o b
        <5> HIDE DEF Placed
        <5>1. i # 1
          BY <2>4
        <5>2. QED BY <1>4, <2>2, <5>1
      <4>4. QED BY <4>1, <4>2, <4>3
    <3>4. /\ flatten[i] \in Seq(S)
          /\ Len(flatten[i]) = Len(a) + Len(b) /\ Len(a) \in Nat /\ Len(b) \in Nat
          /\ \A k \in 1 .. Len(a) : flatten[i][k] = a[k]
          /\ \A k \in 1 .. Len(b) : flatten[i][Len(a) + k] = b[k]
      <4> HIDE DEF a, b
      <4>1. Len(a) \in Nat /\ Len(b) \in Nat
        BY <3>3, LenProperties
      <4>2. QED BY <3>3, <4>1, ConcatProperties
    <3>s. start[i] = Len(a)
      <4>1. (i - 1) + 1 = i
        BY <3>0
      <4>2. QED BY <1>s, <3>0, <4>1
    <3>n. ASSUME NEW m \in 1 .. i PROVE start[m] \in Nat
      <4>1. CASE m = 1
        BY <1>s, <4>1
      <4>2. CASE m # 1
        <5> DEFINE l == m - 1
        <5>1. l \in 1 .. n /\ l + 1 = m /\ l < i
          <6> HIDE DEF Placed
          <6>1. QED BY <1>1, <2>2, <4>2
        <5> HIDE DEF l
        <5>2. l \notin T
          <6>1. l \in T => i <= l
            <7> HIDE DEF T
            <7>1. QED BY <2>1
          <6>2. ~(i <= l)
            BY <3>0, <5>1
          <6>3. QED BY <6>1, <6>2, Zenon
        <5>3. Placed(l)
          <6> HIDE DEF Placed
          <6>1. QED BY <5>1, <5>2
        <5>4. flatten[l] \in Seq(S)
          BY <5>3
        <5>5. Len(flatten[l]) \in Nat
          BY <5>4, LenProperties
        <5> HIDE DEF Placed
        <5>6. QED BY <1>s, <5>1, <5>5
      <4>3. QED BY <4>1, <4>2
    <3>5. ASSUME NEW m \in 1 .. i, NEW j \in 1 .. Len(ss[m])
          PROVE  start[m] + j <= Len(flatten[i]) /\ flatten[i][start[m] + j] = ss[m][j]
      <4>1. CASE m = i
        <5>1. j \in 1 .. Len(b) /\ ss[m][j] = b[j]
          BY <4>1
        <5> HIDE DEF a, b
        <5>2. Len(a) + j <= Len(flatten[i]) /\ flatten[i][Len(a) + j] = b[j]
          BY <3>4, <5>1
        <5>3. QED BY <3>s, <4>1, <5>1, <5>2
      <4>2. CASE m # i
        <5>1. m \in 1 .. (i - 1) /\ m \in 1 .. n
          <6> HIDE DEF Placed, T
          <6>1. QED BY <1>1, <3>0, <4>2
        <5>2. start[m] + j <= Len(a) /\ a[start[m] + j] = ss[m][j]
          BY <3>2, <5>1
        <5>3. start[m] \in Nat /\ j \in Nat /\ j >= 1
          <6> HIDE DEF Placed
          <6>1. start[m] \in Nat
            BY <3>n
          <6>2. QED BY <6>1
        <5> HIDE DEF a, b, Placed
        <5>4. start[m] + j \in 1 .. Len(a)
          <6>1. Len(a) \in Nat
            BY <3>4
          <6>2. QED BY <5>2, <5>3, <6>1
        <5>5. flatten[i][start[m] + j] = a[start[m] + j]
          BY <3>4, <5>4
        <5>6. start[m] + j <= Len(flatten[i])
          BY <3>4, <5>2, <5>3
        <5>7. QED BY <5>2, <5>5, <5>6
      <4>3. QED BY <4>1, <4>2
    <3>6. Len(flatten[i]) = start[i] + Len(ss[i])
      BY <3>4, <3>s
    <3>7. QED BY <2>2, <3>4, <3>5, <3>6
  <2>5. QED BY <2>2, <2>3, <2>4
<1>6. \A i \in 1 .. n : Placed(i)
  <2> HIDE DEF Placed
  <2>1. QED BY <1>5
<1>7. \A i \in 1 .. n : Len(flatten[i]) \in Nat
  BY <1>6, LenProperties
<1>8. \A i \in 1 .. n + 1 : start[i] \in Nat
  <2> SUFFICES ASSUME NEW i \in 1 .. n + 1 PROVE start[i] \in Nat
    OBVIOUS
  <2>1. CASE i = 1
    BY <1>s, <2>1
  <2>2. CASE i # 1
    <3>1. i - 1 \in 1 .. n /\ (i - 1) + 1 = i
      BY <1>1, <2>2
    <3>2. QED BY <1>s, <1>7, <3>1
  <2>3. QED BY <2>1, <2>2
<1>9. Offsets(ss, start, n)
  <2>1. \A i \in 1 .. n : i \in 1 .. n + 1
    BY <1>1
  <2>2. n + 1 \in 1 .. n + 1
    BY <1>1
  <2>3. \A i \in 1 .. n : start[i + 1] = start[i] + Len(ss[i])
    BY <1>s, <1>6
  <2> HIDE DEF Placed
  <2>4. QED BY <1>s, <1>8, <2>1, <2>2, <2>3 DEF Offsets
<1>10. CASE n = 0
  <2>1. ss = <<>>
    BY <1>10, EmptySeq DEF n
  <2>2. FlattenSeq(ss) = <<>>
    BY <1>10, <2>1 DEF FlattenSeq, n
  <2>3. Len(FlattenSeq(ss)) = start[n + 1]
    BY <1>10, <1>s, <2>2, EmptySeq
  <2>4. FlattenSeq(ss) \in Seq(S) /\ 1 .. n = {}
    BY <1>10, <2>2, EmptySeq
  <2>5. QED BY <1>9, <2>3, <2>4 DEF n
<1>11. CASE n # 0
  <2>1. n \in 1 .. n
    BY <1>1, <1>11
  <2>2. Placed(n) /\ FlattenSeq(ss) = flatten[n] /\ start[n + 1] = Len(flatten[n])
    <3> HIDE DEF Placed
    <3>1. QED BY <1>3, <1>6, <1>11, <1>s, <2>1
  <2>3. FlattenSeq(ss) \in Seq(S)
    BY <2>2
  <2>4. \A i \in 1 .. n : \A j \in 1 .. Len(ss[i]) :
           start[i] + j <= Len(FlattenSeq(ss)) /\ FlattenSeq(ss)[start[i] + j] = ss[i][j]
    BY <2>2
  <2>5. Len(FlattenSeq(ss)) = start[n + 1]
    BY <2>2
  <2> HIDE DEF Placed
  <2>6. QED BY <1>9, <2>3, <2>4, <2>5 DEF n
<1>12. QED BY <1>10, <1>11

\* What is in one of the lists is in the list of them all.
LEMMA FlattenHolds ==
    ASSUME NEW S, NEW ss \in Seq(Seq(S))
    PROVE  /\ FlattenSeq(ss) \in Seq(S)
           /\ \A i \in 1 .. Len(ss) : \A j \in 1 .. Len(ss[i]) :
                \E k \in 1 .. Len(FlattenSeq(ss)) : FlattenSeq(ss)[k] = ss[i][j]
<1> DEFINE all == FlattenSeq(ss)
<1>1. all \in Seq(S) /\ Len(all) \in Nat
  BY FlattenPlaces, LenProperties
<1>2. PICK start :
        /\ Offsets(ss, start, Len(ss))
        /\ \A i \in 1 .. Len(ss) : \A j \in 1 .. Len(ss[i]) :
             start[i] + j <= Len(all) /\ all[start[i] + j] = ss[i][j]
  BY FlattenPlaces
<1> HIDE DEF all
<1>3. ASSUME NEW i \in 1 .. Len(ss), NEW j \in 1 .. Len(ss[i])
      PROVE  \E k \in 1 .. Len(all) : all[k] = ss[i][j]
  <2>1. start[i] + j <= Len(all) /\ all[start[i] + j] = ss[i][j]
    BY <1>2
  <2>2. start[i] \in Nat
    BY <1>2 DEF Offsets
  <2>3. start[i] + j \in 1 .. Len(all)
    BY <1>1, <2>1, <2>2
  <2>4. QED BY <2>1, <2>3
<1>4. QED BY <1>1, <1>3 DEF all

-----------------------------------------------------------------------------
(* Recursion over a finite set in which nothing goes round.                 *)

\* Everything that x needs is among the elements that are solved already.
ClosedIn(S, D, needs) == \A x \in S, y \in D : <<x, y>> \in needs => y \in S

\* Of every set of elements one needs no other of the set.
Grounded(D, needs) ==
    \A R \in SUBSET D : R # {} => \E x \in R : \A y \in R : <<x, y>> \notin needs

\* F gives a value to an element from the values of what the element needs.
Determined(D, V, needs, F) ==
    /\ F \in [[D -> V] \X D -> V]
    /\ \A g, h \in [D -> V] : \A x \in D :
          (\A y \in D : <<x, y>> \in needs => g[y] = h[y]) => F[<<g, x>>] = F[<<h, x>>]

SolutionOf(D, V, F, f) == f \in [D -> V] /\ \A x \in D : f[x] = F[<<f, x>>]

LEMMA RecursionExists ==
    ASSUME NEW D, IsFiniteSet(D), NEW V, V # {}, NEW needs, Grounded(D, needs),
           NEW F, Determined(D, V, needs, F)
    PROVE  \E f : SolutionOf(D, V, F, f)
<1> DEFINE Solves(S, g) == ClosedIn(S, D, needs) /\ \A x \in S : g[x] = F[<<g, x>>]
           Solved(S) == \E g \in [D -> V] : Solves(S, g)
           Sizes == {Cardinality(D \ S) : S \in {T \in SUBSET D : Solved(T)}}
<1>1. Sizes # {}
  <2>1. PICK v \in V : TRUE
    OBVIOUS
  <2>2. [x \in D |-> v] \in [D -> V] /\ Solves({}, [x \in D |-> v])
    BY DEF ClosedIn
  <2>3. {} \in SUBSET D /\ Solved({})
    BY <2>2
  <2> HIDE DEF Solved
  <2>4. QED BY <2>3
<1>2. Sizes \subseteq Nat
  <2>1. ASSUME NEW S \in SUBSET D PROVE Cardinality(D \ S) \in Nat
    BY FS_CardinalityType, FS_Subset
  <2> HIDE DEF Solved
  <2>2. QED BY <2>1
<1>3. PICK m \in Sizes : \A n \in Sizes : m <= n
  <2> HIDE DEF Sizes
  <2>1. QED BY <1>1, <1>2, LeastNatural
<1>4. PICK S \in SUBSET D : Solved(S) /\ m = Cardinality(D \ S)
  <2> HIDE DEF Solved
  <2>1. QED OBVIOUS
<1>5. PICK g \in [D -> V] : Solves(S, g)
  BY <1>4
<1>6. S = D
  <2> SUFFICES ASSUME S # D PROVE FALSE
    OBVIOUS
  <2>1. PICK x \in D \ S : \A y \in D \ S : <<x, y>> \notin needs
    <3>1. D \ S \in SUBSET D /\ D \ S # {}
      OBVIOUS
    <3>2. QED BY <3>1 DEF Grounded
  <2> DEFINE h == [g EXCEPT ![x] = F[<<g, x>>]]
  <2>2. h \in [D -> V] /\ h[x] = F[<<g, x>>] /\ \A y \in D : y # x => h[y] = g[y]
    <3>1. F[<<g, x>>] \in V
      BY DEF Determined
    <3>2. QED BY <3>1
  <2> HIDE DEF h
  <2>3. ClosedIn(S \cup {x}, D, needs)
    BY <1>5, <2>1 DEF ClosedIn
  <2>4. ASSUME NEW y \in S \cup {x} PROVE h[y] = F[<<h, y>>]
    <3>1. ASSUME NEW z \in D, <<y, z>> \in needs PROVE g[z] = h[z]
      <4>1. z \in S
        <5>1. y \in S => z \in S
          BY <1>5, <3>1 DEF ClosedIn
        <5>2. y = x => z \in S
          BY <2>1, <3>1
        <5>3. QED BY <5>1, <5>2
      <4>2. QED BY <2>1, <2>2, <4>1
    <3>2. y \in D
      OBVIOUS
    <3>3. F[<<g, y>>] = F[<<h, y>>]
      BY <2>2, <3>1, <3>2 DEF Determined
    <3>4. h[y] = F[<<g, y>>]
      BY <1>5, <2>1, <2>2, <3>2
    <3>5. QED BY <3>3, <3>4
  <2>5. Solved(S \cup {x})
    BY <2>2, <2>3, <2>4
  <2>6. Cardinality(D \ (S \cup {x})) \in Sizes
    <3>1. S \cup {x} \in SUBSET D
      OBVIOUS
    <3> HIDE DEF Solved
    <3>2. QED BY <2>5, <3>1
  <2>7. Cardinality(D \ (S \cup {x})) = Cardinality(D \ S) - 1 /\ Cardinality(D \ S) \in Nat
    <3>1. IsFiniteSet(D \ S) /\ x \in D \ S /\ D \ (S \cup {x}) = (D \ S) \ {x}
      BY FS_Subset
    <3> DEFINE rest == D \ S
    <3> HIDE DEF rest
    <3>2. IsFiniteSet(rest) /\ x \in rest
          => Cardinality(rest \ {x}) = Cardinality(rest) - 1 /\ Cardinality(rest) \in Nat
      BY FS_RemoveElement, FS_CardinalityType
    <3>3. QED BY <3>1, <3>2 DEF rest
  <2>8. Cardinality(D \ (S \cup {x})) >= m
    <3> HIDE DEF Sizes
    <3>1. QED BY <1>3, <2>6
  <2> HIDE DEF Sizes
  <2>9. QED BY <1>4, <2>7, <2>8
<1>7. QED BY <1>5, <1>6 DEF SolutionOf

\* Numbers do not go round.
LEMMA StepsGoDown ==
    ASSUME NEW n \in Nat, NEW R \in SUBSET (0 .. n), R # {}
    PROVE  \E x \in R : \A y \in R : y # x - 1
<1>1. PICK x \in R : \A y \in R : x <= y
  <2>1. R \in SUBSET Nat
    OBVIOUS
  <2>2. QED BY <2>1, LeastNatural
<1>2. QED BY <1>1

-----------------------------------------------------------------------------
(* One list more at the end of a list of lists.                             *)

LEMMA FlattenLast ==
    ASSUME NEW S, NEW ss \in Seq(Seq(S)), NEW x \in Seq(S)
    PROVE  FlattenSeq(Append(ss, x)) = FlattenSeq(ss) \o x
<1> DEFINE n == Len(ss)
           tt == Append(ss, x)
           f == CHOOSE g : Concatenations(ss, g, n)
           h == CHOOSE g : Concatenations(tt, g, Len(tt))
<1>1. n \in Nat /\ Len(tt) = n + 1 /\ tt[n + 1] = x /\ \A i \in 1 .. n : tt[i] = ss[i]
  BY LenProperties, AppendProperties
<1>2. Concatenations(ss, f, n) /\ Concatenations(tt, h, Len(tt))
  <2>1. \A k \in Nat : Concatenations(ss, CHOOSE g : Concatenations(ss, g, k), k)
    BY ConcatenationsExist
  <2>2. \A k \in Nat : Concatenations(tt, CHOOSE g : Concatenations(tt, g, k), k)
    <3> HIDE DEF tt
    <3>1. QED BY ConcatenationsExist
  <2>3. n \in Nat /\ Len(tt) \in Nat
    BY <1>1
  <2> HIDE DEF n, tt
  <2>4. QED BY <2>1, <2>2, <2>3
<1>3. n # 0 => FlattenSeq(ss) = f[n]
  BY DEF FlattenSeq, Concatenations
<1>4. FlattenSeq(tt) = h[n + 1]
  <2>1. Len(tt) # 0
    BY <1>1
  <2>2. FlattenSeq(tt) = h[Len(tt)]
    BY <2>1 DEF FlattenSeq, Concatenations
  <2>3. QED BY <1>1, <2>2
<1> HIDE DEF f, h, n, tt
<1>5. \A i \in 1 .. n : f[i] = IF i = 1 THEN ss[i] ELSE f[i - 1] \o ss[i]
  BY <1>2, Zenon DEF Concatenations
<1>6. \A i \in 1 .. n + 1 : h[i] = IF i = 1 THEN tt[i] ELSE h[i - 1] \o tt[i]
  BY <1>1, <1>2, Zenon DEF Concatenations
<1>7. \A i \in 1 .. n : f[i] = h[i]
  <2> DEFINE T == {i \in 1 .. n : f[i] # h[i]}
  <2> SUFFICES ASSUME T # {} PROVE FALSE
    OBVIOUS
  <2>1. PICK i \in T : \A y \in T : i <= y
    <3>1. T \in SUBSET Nat
      BY <1>1
    <3> HIDE DEF T
    <3>2. QED BY <3>1, LeastNatural
  <2>2. i \in 1 .. n /\ f[i] # h[i] /\ i \in 1 .. n + 1 /\ tt[i] = ss[i]
    BY <1>1
  <2>3. i - 1 \notin T
    <3> HIDE DEF T
    <3>1. i - 1 \in T => i <= i - 1
      BY <2>1
    <3>2. QED BY <1>1, <2>2, <3>1
  <2>n. i # 1 => i - 1 \in 1 .. n
    BY <1>1, <2>2
  <2>4. i # 1 => f[i - 1] = h[i - 1]
    BY <2>3, <2>n
  <2>5. QED BY <1>5, <1>6, <2>2, <2>4
<1>8. CASE n = 0
  <2>1. h[1] = x
    BY <1>1, <1>6, <1>8
  <2>2. FlattenSeq(ss) = <<>>
    <3>1. ss = <<>>
      BY <1>8, EmptySeq DEF n
    <3>2. QED BY <3>1, EmptySeq DEF FlattenSeq
  <2>3. <<>> \o x = x
    BY ConcatEmptySeq
  <2>4. QED BY <1>4, <1>8, <2>1, <2>2, <2>3 DEF tt
<1>9. CASE n # 0
  <2>1. h[n + 1] = h[n] \o x
    <3>1. n + 1 \in 1 .. n + 1 /\ n + 1 # 1 /\ (n + 1) - 1 = n
      BY <1>1, <1>9
    <3>2. QED BY <1>1, <1>6, <3>1
  <2>2. h[n] = f[n]
    BY <1>1, <1>7, <1>9
  <2>3. QED BY <1>3, <1>4, <1>9, <2>1, <2>2 DEF tt
<1>10. QED BY <1>8, <1>9

\* Lists are put together in any order.
LEMMA Associates ==
    ASSUME NEW S
    PROVE  \A a, b, c \in Seq(S) : (a \o b) \o c = a \o (b \o c)
<1> SUFFICES ASSUME NEW a \in Seq(S), NEW b \in Seq(S), NEW c \in Seq(S)
             PROVE  (a \o b) \o c = a \o (b \o c)
  OBVIOUS
<1>1. QED BY ConcatAssociative, SMT

LEMMA FlattenOneMore ==
    ASSUME NEW S, NEW ss \in Seq(Seq(S)), NEW f \in Seq(Seq(S)), NEW x \in Seq(S),
           FlattenSeq(ss \o f) = FlattenSeq(ss) \o FlattenSeq(f)
    PROVE  FlattenSeq(ss \o Append(f, x)) = FlattenSeq(ss) \o FlattenSeq(Append(f, x))
<1> DEFINE sf == ss \o f
           a == FlattenSeq(ss)
           b == FlattenSeq(f)
<1>1. ss \o Append(f, x) = Append(sf, x)
  OBVIOUS
<1>2. sf \in Seq(Seq(S)) /\ a \in Seq(S) /\ b \in Seq(S)
  BY ConcatProperties, FlattenPlaces
<1>3. FlattenSeq(sf) = a \o b /\ FlattenSeq(Append(f, x)) = b \o x
  BY FlattenLast
<1> HIDE DEF sf, a, b
<1>4. FlattenSeq(Append(sf, x)) = (a \o b) \o x
  BY <1>2, <1>3, FlattenLast
<1>5. (a \o b) \o x = a \o (b \o x)
  BY <1>2, Associates
<1>6. QED BY <1>1, <1>3, <1>4, <1>5 DEF a

LEMMA FlattenBoth ==
    ASSUME NEW S, NEW ss \in Seq(Seq(S)), NEW tt \in Seq(Seq(S))
    PROVE  FlattenSeq(ss \o tt) = FlattenSeq(ss) \o FlattenSeq(tt)
<1> DEFINE T == {n \in Nat : \E uu \in Seq(Seq(S)) :
                   Len(uu) = n /\ FlattenSeq(ss \o uu) # FlattenSeq(ss) \o FlattenSeq(uu)}
<1> SUFFICES ASSUME T # {} PROVE FALSE
  <2>1. Len(tt) \in Nat
    BY LenProperties
  <2>2. QED BY <2>1
<1>1. PICK n \in T : \A y \in T : n <= y
  <2>1. T \in SUBSET Nat
    OBVIOUS
  <2> HIDE DEF T
  <2>2. QED BY <2>1, LeastNatural
<1>2. n \in Nat
  OBVIOUS
<1>3. PICK uu \in Seq(Seq(S)) : Len(uu) = n /\ FlattenSeq(ss \o uu) # FlattenSeq(ss) \o FlattenSeq(uu)
  OBVIOUS
<1>4. FlattenSeq(ss) \in Seq(S)
  BY FlattenPlaces
<1>5. n # 0
  <2> SUFFICES ASSUME n = 0 PROVE FALSE
    OBVIOUS
  <2>1. uu = <<>>
    BY <1>3, EmptySeq
  <2>2. ss \o uu = ss
    BY <2>1, ConcatEmptySeq
  <2>3. FlattenSeq(uu) = <<>>
    BY <2>1, EmptySeq DEF FlattenSeq
  <2>4. FlattenSeq(ss) \o <<>> = FlattenSeq(ss)
    BY <1>4, ConcatEmptySeq
  <2>5. QED BY <1>3, <2>2, <2>3, <2>4
<1> DEFINE f == Front(uu)
           x == uu[n]
<1>6. f \in Seq(Seq(S)) /\ Len(f) = n - 1 /\ x \in Seq(S) /\ uu = Append(f, x)
  <2>1. uu # <<>>
    BY <1>2, <1>3, <1>5, EmptySeq
  <2>2. f \in Seq(Seq(S))
    BY FrontIsSeq
  <2>3. x \in Seq(S)
    BY <1>2, <1>3, <1>5, ElementOfSeq
  <2>4. Len(f) = n - 1 /\ \A i \in 1 .. n - 1 : f[i] = uu[i]
    BY <1>2, <1>3, <1>5, SubSeqProperties DEF Front
  <2> HIDE DEF f, x
  <2>5. Len(Append(f, x)) = n /\ \A i \in 1 .. n : Append(f, x)[i] = uu[i]
    <3>1. /\ Len(Append(f, x)) = Len(f) + 1 /\ Append(f, x)[Len(f) + 1] = x
          /\ \A i \in 1 .. Len(f) : Append(f, x)[i] = f[i]
      BY <2>2, <2>3, AppendProperties
    <3>2. ASSUME NEW i \in 1 .. n PROVE Append(f, x)[i] = uu[i]
      <4>1. CASE i = n
        <5>1. Len(f) + 1 = i
          BY <1>2, <2>4, <4>1
        <5>2. QED BY <3>1, <4>1, <5>1 DEF x
      <4>2. CASE i # n
        <5>1. i \in 1 .. n - 1 /\ i \in 1 .. Len(f)
          BY <1>2, <2>4, <4>2
        <5>2. QED BY <2>4, <3>1, <5>1
      <4>3. QED BY <4>1, <4>2
    <3>3. Len(Append(f, x)) = n
      BY <1>2, <1>5, <2>4, <3>1
    <3>4. QED BY <3>2, <3>3
  <2>6. Append(f, x) = uu
    <3>1. Append(f, x) \in Seq(Seq(S))
      BY <2>2, <2>3, AppendProperties
    <3>2. QED BY <1>2, <1>3, <2>5, <3>1, SeqEqual
  <2>7. QED BY <2>2, <2>3, <2>4, <2>6
<1> HIDE DEF f, x
<1>7. n - 1 \in Nat /\ n - 1 \notin T
  <2> HIDE DEF T
  <2>1. n - 1 \in T => n <= n - 1
    BY <1>1
  <2>2. QED BY <1>2, <1>5, <2>1
<1>8. FlattenSeq(ss \o f) = FlattenSeq(ss) \o FlattenSeq(f)
  BY <1>6, <1>7
<1>9. FlattenSeq(ss \o Append(f, x)) = FlattenSeq(ss) \o FlattenSeq(Append(f, x))
  BY <1>6, <1>8, FlattenOneMore
<1>10. QED BY <1>3, <1>6, <1>9

\* The first lists of a list of lists.
LEMMA FirstOnes ==
    ASSUME NEW S, NEW ss \in Seq(S), NEW n \in 1 .. Len(ss)
    PROVE  /\ [i \in 1 .. n - 1 |-> ss[i]] \in Seq(S)
           /\ ss[n] \in S
           /\ [i \in 1 .. n |-> ss[i]] = Append([i \in 1 .. n - 1 |-> ss[i]], ss[n])
<1>1. Len(ss) \in Nat /\ n \in Nat /\ n - 1 \in Nat /\ \A i \in 1 .. Len(ss) : ss[i] \in S
  <2>1. Len(ss) \in Nat
    BY LenProperties
  <2>2. QED BY <2>1, ElementOfSeq
<1> DEFINE a == [i \in 1 .. n - 1 |-> ss[i]]
           b == [i \in 1 .. n |-> ss[i]]
<1>2. a \in Seq(S) /\ b \in Seq(S) /\ Len(a) = n - 1 /\ Len(b) = n
  BY <1>1
<1>3. /\ \A i \in 1 .. n - 1 : a[i] = ss[i]
      /\ \A i \in 1 .. n : b[i] = ss[i]
  OBVIOUS
<1> HIDE DEF a, b
<1>4. /\ Append(a, ss[n]) \in Seq(S) /\ Len(Append(a, ss[n])) = n
      /\ Append(a, ss[n])[n] = ss[n] /\ \A i \in 1 .. n - 1 : Append(a, ss[n])[i] = a[i]
  BY <1>1, <1>2, AppendProperties
<1>5. b = Append(a, ss[n])
  <2>1. \A i \in 1 .. n : i = n \/ i \in 1 .. n - 1
    BY <1>1
  <2>2. \A i \in 1 .. Len(b) : b[i] = Append(a, ss[n])[i]
    BY <1>2, <1>3, <1>4, <2>1
  <2>3. QED BY <1>2, <1>4, <2>2, SeqEqual
<1>6. QED BY <1>1, <1>2, <1>5 DEF a, b
=============================================================================

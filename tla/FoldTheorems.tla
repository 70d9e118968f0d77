---------------------------- MODULE FoldTheorems ----------------------------
(***************************************************************************)
(* Induction over the natural numbers stated with a set instead of an      *)
(* operator, and what follows from it for sums over sequences.             *)
(***************************************************************************)
EXTENDS Integers, Sequences, FiniteSets, SequencesExt, FiniteSetTheorems, WellFoundedInduction, TLAPS

(* A set with 0 and the successor of each of its numbers has all of them:  *)
(* otherwise, the intervals 0 .. k with k outside would have no least.     *)
LEMMA NatSetInduction ==
  ASSUME NEW S, 0 \in S, \A n \in Nat : n \in S => n + 1 \in S
  PROVE  Nat \subseteq S
<1> SUFFICES ASSUME NEW n \in Nat, n \notin S
             PROVE  FALSE
  OBVIOUS
<1> DEFINE T == {0 .. k : k \in Nat \ S}
<1>1. T \subseteq FiniteSubsetsOf(Nat) /\ T # {}
  <2>1. \A k \in Nat : 0 .. k \in SUBSET Nat /\ IsFiniteSet(0 .. k)
    BY FS_Interval
  <2> QED
    BY <2>1 DEF FiniteSubsetsOf
<1>2. IsWellFoundedOn(StrictSubsetOrdering(Nat), FiniteSubsetsOf(Nat))
  BY FS_StrictSubsetOrderingWellFounded
<1> HIDE DEF T
<1>3. PICK x \in T : \A y \in T : <<y, x>> \notin StrictSubsetOrdering(Nat)
  BY <1>1, <1>2, WFMin
<1>4. PICK k \in Nat \ S : x = 0 .. k
  BY <1>3 DEF T
<1>5. k # 0 /\ k - 1 \in Nat \ S
  BY <1>4
<1>6. 0 .. k - 1 \in T
  BY <1>5 DEF T
<1>7. 0 .. k - 1 \subseteq 0 .. k /\ k \in 0 .. k /\ k \notin 0 .. k - 1
  BY <1>5
<1>8. <<0 .. k - 1, 0 .. k>> \in StrictSubsetOrdering(Nat)
  BY <1>7 DEF StrictSubsetOrdering
<1> QED
  BY <1>3, <1>4, <1>6, <1>8

-----------------------------------------------------------------------------
(* A set of positions has a last one. *)
LEMMA LastPosition ==
  ASSUME NEW n \in Nat, NEW s \in SUBSET (1 .. n), s # {}
  PROVE  Max(s) \in s /\ \A i \in s : Max(s) >= i
<1> DEFINE S == {m \in Nat : \A u \in SUBSET (1 .. m) : u # {} => \E x \in u : \A y \in u : x >= y}
<1>1. 0 \in S
  <2>1. 1 .. 0 = {}
    OBVIOUS
  <2> QED
    BY <2>1
<1>2. ASSUME NEW m \in Nat, m \in S
      PROVE  m + 1 \in S
  <2>1. ASSUME NEW u \in SUBSET (1 .. m + 1), u # {}
        PROVE  \E x \in u : \A y \in u : x >= y
    <3>1. CASE m + 1 \in u
      BY <3>1
    <3>2. CASE m + 1 \notin u
      <4>1. u \in SUBSET (1 .. m)
        BY <3>2
      <4> QED
        BY <1>2, <2>1, <4>1
    <3> QED
      BY <3>1, <3>2
  <2> QED
    BY <2>1
<1> HIDE DEF S
<1>3. n \in S
  BY <1>1, <1>2, NatSetInduction
<1>4. \E x \in s : \A y \in s : x >= y
  BY <1>3 DEF S
<1> QED
  BY <1>4 DEF Max

(* The last position of an interval, and what is left without it. *)
LEMMA LastOfInterval ==
  ASSUME NEW n \in Nat, n # 0
  PROVE  Max(1 .. n) = n /\ (1 .. n) \ {n} = 1 .. n - 1
<1>1. 1 .. n \in SUBSET (1 .. n) /\ n \in 1 .. n
  OBVIOUS
<1>2. Max(1 .. n) \in 1 .. n /\ Max(1 .. n) >= n
  BY <1>1, LastPosition
<1> QED
  BY <1>2

-----------------------------------------------------------------------------
(* What FoldLeft makes of a sequence of numbers and an addition.           *)
Sum(size) == FoldLeft(LAMBDA sum, n : sum + n, 0, size)

(* FoldLeft goes from the last position of a set to the set without it.    *)
SumsOver(h, size, S) ==
  h = [s \in SUBSET S |-> IF s = {} THEN 0 ELSE h[s \ {Max(s)}] + size[Max(s)]]

(* The function that FoldLeft chooses exists. *)
LEMMA SumsExist ==
  ASSUME NEW n \in Nat, NEW size
  PROVE  \E h : SumsOver(h, size, 1 .. n)
<1> DEFINE S == {m \in Nat : \E h : SumsOver(h, size, 1 .. m)}
<1>1. 0 \in S
  <2>1. 1 .. 0 = {}
    OBVIOUS
  <2>2. [s \in SUBSET {} |-> 0] = [s \in SUBSET {} |-> IF s = {} THEN 0 ELSE [u \in SUBSET {} |-> 0][s \ {Max(s)}] + size[Max(s)]]
    OBVIOUS
  <2> QED
    BY <2>1, <2>2 DEF SumsOver
<1>2. ASSUME NEW m \in Nat, m \in S
      PROVE  m + 1 \in S
  <2>1. PICK h : SumsOver(h, size, 1 .. m)
    BY <1>2
  <2> DEFINE g == [s \in SUBSET (1 .. m + 1) |->
                     IF m + 1 \in s THEN h[s \ {m + 1}] + size[m + 1] ELSE h[s]]
  <2>2. ASSUME NEW s \in SUBSET (1 .. m + 1)
        PROVE  g[s] = IF s = {} THEN 0 ELSE g[s \ {Max(s)}] + size[Max(s)]
    <3>1. CASE m + 1 \in s
      <4>1. Max(s) = m + 1
        <5>1. s # {} /\ m + 1 \in Nat
          BY <3>1
        <5>2. Max(s) \in s /\ Max(s) >= m + 1
          BY <3>1, <5>1, LastPosition
        <5>3. Max(s) \in 1 .. m + 1
          BY <5>2
        <5> HIDE DEF g
        <5> QED
          BY <5>2, <5>3
      <4>2. s \ {m + 1} \in SUBSET (1 .. m + 1) /\ m + 1 \notin s \ {m + 1}
        OBVIOUS
      <4> QED
        BY <3>1, <4>1, <4>2
    <3>2. CASE m + 1 \notin s
      <4>1. s \in SUBSET (1 .. m)
        BY <3>2
      <4>2. h[s] = IF s = {} THEN 0 ELSE h[s \ {Max(s)}] + size[Max(s)]
        BY <2>1, <4>1 DEF SumsOver
      <4>3. s \ {Max(s)} \in SUBSET (1 .. m + 1) /\ m + 1 \notin s \ {Max(s)}
        BY <3>2
      <4> QED
        BY <3>2, <4>2, <4>3
    <3> QED
      BY <3>1, <3>2
  <2>3. g = [s \in SUBSET (1 .. m + 1) |-> g[s]]
    OBVIOUS
  <2> HIDE DEF g
  <2>4. SumsOver(g, size, 1 .. m + 1)
    BY <2>2, <2>3 DEF SumsOver
  <2> QED
    BY <2>4
<1> HIDE DEF S
<1>3. n \in S
  BY <1>1, <1>2, NatSetInduction
<1> QED
  BY <1>3 DEF S

(* The sums of the beginnings of a sequence. *)
IsUpTo(upTo, size) ==
  /\ upTo \in [0 .. Len(size) -> Nat]
  /\ upTo[0] = 0
  /\ \A k \in 1 .. Len(size) : upTo[k] = upTo[k - 1] + size[k]

(* FoldLeft's sum is the last of the sums of the beginnings. *)
LEMMA SumIsUpTo ==
  ASSUME NEW size \in Seq(Nat)
  PROVE  \E upTo : IsUpTo(upTo, size) /\ upTo[Len(size)] = Sum(size)
<1> DEFINE n == Len(size)
<1> DEFINE h == CHOOSE h : SumsOver(h, size, 1 .. n)
<1>1. n \in Nat /\ DOMAIN size = 1 .. n
  OBVIOUS
<1>2. SumsOver(h, size, 1 .. n)
  BY <1>1, SumsExist
<1>3. Sum(size) = h[1 .. n]
  BY <1>1 DEF Sum, FoldLeft, MapThenFoldSet, SumsOver
<1> HIDE DEF h
<1> DEFINE upTo == [k \in 0 .. n |-> h[1 .. k]]
<1>4. upTo[0] = 0
  <2>1. 1 .. 0 = {} /\ {} \in SUBSET (1 .. n)
    OBVIOUS
  <2> QED
    BY <1>2, <2>1 DEF SumsOver
<1>5. ASSUME NEW k \in 1 .. n
      PROVE  upTo[k] = upTo[k - 1] + size[k]
  <2>1. Max(1 .. k) = k /\ (1 .. k) \ {k} = 1 .. k - 1
    BY LastOfInterval
  <2>2. 1 .. k \in SUBSET (1 .. n) /\ 1 .. k # {}
    BY <1>1
  <2>3. h[1 .. k] = h[1 .. k - 1] + size[k]
    BY <1>2, <2>1, <2>2 DEF SumsOver
  <2>4. k \in 0 .. n /\ k - 1 \in 0 .. n
    BY <1>1
  <2> QED
    BY <2>3, <2>4
<1> DEFINE S == {k \in Nat : k <= n => upTo[k] \in Nat}
<1>6. 0 \in S
  BY <1>4
<1>7. ASSUME NEW k \in Nat, k \in S
      PROVE  k + 1 \in S
  <2>1. CASE k + 1 <= n
    <3>1. k + 1 \in 1 .. n /\ size[k + 1] \in Nat /\ upTo[k] \in Nat
      BY <1>1, <1>7, <2>1
    <3>2. (k + 1) - 1 = k
      OBVIOUS
    <3>3. upTo[k + 1] = upTo[(k + 1) - 1] + size[k + 1]
      <4> HIDE DEF upTo
      <4> QED
        BY <1>5, <3>1
    <3> QED
      BY <3>1, <3>2, <3>3
  <2> QED
    BY <2>1
<1>8. upTo \in [0 .. n -> Nat]
  <2> HIDE DEF upTo
  <2>1. Nat \subseteq S
    BY <1>6, <1>7, NatSetInduction
  <2>2. \A k \in 0 .. n : upTo[k] \in Nat
    BY <2>1
  <2> QED
    BY <2>2 DEF upTo
<1>9. upTo[n] = Sum(size)
  BY <1>1, <1>3
<1> HIDE DEF upTo
<1> QED
  BY <1>4, <1>5, <1>8, <1>9 DEF IsUpTo

(* Sums of the same beginning are the same. *)
LEMMA UpToAgree ==
  ASSUME NEW a \in Seq(Nat), NEW b \in Seq(Nat), NEW f, NEW g, IsUpTo(f, a), IsUpTo(g, b),
         NEW n \in Nat, n <= Len(a), n <= Len(b), \A i \in 1 .. n : a[i] = b[i]
  PROVE  f[n] = g[n]
<1> DEFINE S == {k \in Nat : k <= n => f[k] = g[k]}
<1>1. 0 \in S
  BY DEF IsUpTo
<1>2. ASSUME NEW k \in Nat, k \in S
      PROVE  k + 1 \in S
  <2>1. CASE k + 1 <= n
    <3>1. k + 1 \in 1 .. Len(a) /\ k + 1 \in 1 .. Len(b) /\ (k + 1) - 1 = k /\ f[k] = g[k]
      BY <1>2, <2>1
    <3>2. f[k + 1] = f[k] + a[k + 1] /\ g[k + 1] = g[k] + b[k + 1]
      BY <3>1 DEF IsUpTo
    <3> QED
      BY <2>1, <3>1, <3>2
  <2> QED
    BY <2>1
<1> HIDE DEF S
<1>3. n \in S
  BY <1>1, <1>2, NatSetInduction
<1> QED
  BY <1>3 DEF S

(* A sum is a natural number, and grows by what is appended. *)
LEMMA SumProperties ==
  /\ Sum(<<>>) = 0
  /\ \A size \in Seq(Nat), n \in Nat :
       Sum(size) \in Nat /\ Sum(Append(size, n)) = Sum(size) + n
<1>1. Sum(<<>>) = 0
  <2>1. <<>> \in Seq(Nat) /\ Len(<<>>) = 0
    OBVIOUS
  <2>2. PICK f : IsUpTo(f, <<>>) /\ f[Len(<<>>)] = Sum(<<>>)
    BY <2>1, SumIsUpTo
  <2> QED
    BY <2>1, <2>2 DEF IsUpTo
<1>2. ASSUME NEW size \in Seq(Nat), NEW n \in Nat
      PROVE  Sum(size) \in Nat /\ Sum(Append(size, n)) = Sum(size) + n
  <2> DEFINE more == Append(size, n)
  <2>1. /\ more \in Seq(Nat) /\ Len(more) = Len(size) + 1 /\ more[Len(size) + 1] = n
        /\ \A i \in 1 .. Len(size) : more[i] = size[i]
    OBVIOUS
  <2> HIDE DEF more
  <2>2. PICK f : IsUpTo(f, size) /\ f[Len(size)] = Sum(size)
    BY SumIsUpTo
  <2>3. PICK g : IsUpTo(g, more) /\ g[Len(more)] = Sum(more)
    BY <2>1, SumIsUpTo
  <2>4. Len(size) \in Nat /\ Len(size) + 1 \in 1 .. Len(more) /\ (Len(size) + 1) - 1 = Len(size)
    BY <2>1
  <2>5. f[Len(size)] = g[Len(size)]
    <3>1. PICK k \in Nat : k = Len(size)
      BY <2>4
    <3>2. k <= Len(size) /\ k <= Len(more) /\ \A i \in 1 .. k : size[i] = more[i]
      BY <2>1, <3>1
    <3>3. IsUpTo(f, size) /\ IsUpTo(g, more) /\ more \in Seq(Nat)
      BY <2>1, <2>2, <2>3
    <3>4. f[k] = g[k]
      BY <3>2, <3>3, UpToAgree
    <3> QED
      BY <3>1, <3>4
  <2>6. g[Len(size) + 1] = g[Len(size)] + n
    BY <2>1, <2>3, <2>4 DEF IsUpTo
  <2>7. Sum(size) \in Nat
    BY <2>2, <2>4 DEF IsUpTo
  <2> QED
    BY <2>1, <2>2, <2>3, <2>5, <2>6, <2>7 DEF more
<1> QED
  BY <1>1, <1>2

(* The sums of the beginnings lie between 0 and the whole. *)
LEMMA UpToGrows ==
  ASSUME NEW size \in Seq(Nat), NEW upTo, IsUpTo(upTo, size), NEW k \in 0 .. Len(size)
  PROVE  upTo[k] <= upTo[Len(size)]
<1> DEFINE S == {d \in Nat : k + d <= Len(size) => upTo[k] <= upTo[k + d]}
<1>1. 0 \in S
  BY DEF IsUpTo
<1>2. ASSUME NEW d \in Nat, d \in S
      PROVE  d + 1 \in S
  <2>1. CASE k + (d + 1) <= Len(size)
    <3>1. /\ k + (d + 1) \in 1 .. Len(size) /\ k + (d + 1) - 1 = k + d
          /\ upTo[k] <= upTo[k + d] /\ k + d \in 0 .. Len(size)
      BY <1>2, <2>1
    <3>2. upTo[k + (d + 1)] = upTo[k + d] + size[k + (d + 1)] /\ size[k + (d + 1)] \in Nat
      BY <3>1 DEF IsUpTo
    <3>3. upTo[k] \in Nat /\ upTo[k + d] \in Nat
      BY <3>1 DEF IsUpTo
    <3> QED
      BY <3>1, <3>2, <3>3
  <2> QED
    BY <2>1
<1> HIDE DEF S
<1>3. Len(size) - k \in Nat /\ k + (Len(size) - k) = Len(size)
  OBVIOUS
<1>4. Nat \subseteq S
  BY <1>1, <1>2, NatSetInduction
<1> QED
  BY <1>3, <1>4 DEF S
=============================================================================

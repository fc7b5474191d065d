-------------------------- MODULE TransportProofs --------------------------
(***************************************************************************)
(* Both halves of TransportLevelHandler.                                   *)
(*                                                                         *)
(* The receiver: whatever the line brings and however it is cut into       *)
(* reads, positions and counts of the parser agree with its buffer (IInv), *)
(* and what it knows of the line is true of it (LineInv): where its buffer *)
(* begins, which header it has read, and which frames may be ahead.  From  *)
(* these follow the properties about frames: those found are on the line,  *)
(* none is missed, and none is found late.                                 *)
(*                                                                         *)
(* The sender: what fill_buffer lays out is read back as the frame that    *)
(* was asked for (SenderInv), as long as a uint8_t counts its bytes.       *)
(*                                                                         *)
(* The first sections are about sequences without some of their elements,  *)
(* which is what unescaping leaves, and about frames on a line; they know  *)
(* nothing of the parser, and the last ones rest on them again.            *)
(***************************************************************************)
EXTENDS TransportReceiver, TransportSender, SequenceTheorems, FiniteSetTheorems, TLAPS

-----------------------------------------------------------------------------
(* Counting positions                                                      *)

\* A nonempty set of naturals has a least element.
LEMMA LeastNatural ==
  ASSUME NEW T, T \subseteq Nat, T # {}
  PROVE  \E m \in T : \A k \in T : m <= k
<1>1. PICK m \in T : \A k \in T : ~ (<<k, m>> \in OpToRel(<, Nat))
  BY NatLessThanWellFounded, WFMin
<1>2. ASSUME NEW k \in T PROVE m <= k
  <2>1. k \in Nat /\ m \in Nat
    OBVIOUS
  <2>2. ~ (k < m)
    BY <1>1, <2>1 DEF OpToRel
  <2>3. QED
    BY <2>1, <2>2
<1>3. QED
  BY <1>2

\* A set of positions moved by d has as many.
LEMMA ShiftedCount ==
  ASSUME NEW S, S \subseteq Int, IsFiniteSet(S), NEW d \in Int
  PROVE  /\ IsFiniteSet({i + d : i \in S})
         /\ Cardinality({i + d : i \in S}) = Cardinality(S)
<1> DEFINE T == {i + d : i \in S}
           f == [i \in S |-> i + d]
<1>1. f \in [S -> T]
  OBVIOUS
<1>2. \A i, j \in S : f[i] = f[j] => i = j
  OBVIOUS
<1>3. \A t \in T : \E i \in S : f[i] = t
  OBVIOUS
<1>4. f \in Bijection(S, T)
  BY <1>1, <1>2, <1>3 DEF Bijection, Injection, Surjection, IsInjective
<1>5. ExistsBijection(S, T)
  BY <1>4 DEF ExistsBijection
<1>6. QED
  BY <1>5, FS_Bijection

\* Positions between two positions: finite, and no more than there are.
LEMMA BetweenCount ==
  ASSUME NEW lo \in Int, NEW hi \in Int, NEW S, S \subseteq lo .. hi
  PROVE  /\ IsFiniteSet(S) /\ Cardinality(S) \in Nat
         /\ lo <= hi + 1 => Cardinality(S) <= hi - lo + 1
<1>1. IsFiniteSet(lo .. hi) /\ Cardinality(lo .. hi) = IF lo > hi THEN 0 ELSE hi - lo + 1
  BY FS_Interval
<1>2. IsFiniteSet(S) /\ Cardinality(S) <= Cardinality(lo .. hi)
  BY <1>1, FS_Subset
<1>3. Cardinality(S) \in Nat
  BY <1>2, FS_CardinalityType
<1>4. QED
  BY <1>1, <1>2, <1>3

\* What lies in two parts that do not meet is counted part by part.
LEMMA SplitCount ==
  ASSUME NEW A, NEW B, IsFiniteSet(A), IsFiniteSet(B), A \cap B = {}
  PROVE  /\ IsFiniteSet(A \cup B)
         /\ Cardinality(A \cup B) = Cardinality(A) + Cardinality(B)
<1>1. Cardinality(A) \in Nat /\ Cardinality(B) \in Nat /\ Cardinality({}) = 0
  BY FS_CardinalityType, FS_EmptySet
<1>2. IsFiniteSet(A \cup B)
      /\ Cardinality(A \cup B) = Cardinality(A) + Cardinality(B) - Cardinality(A \cap B)
  BY FS_Union
<1>3. Cardinality(A \cap B) = 0
  BY <1>1
<1>4. QED
  BY <1>1, <1>2, <1>3

\* Two sets of which one is the other, element for element, have as many.
LEMMA SameCount ==
  ASSUME NEW U, NEW V, IsFiniteSet(U), NEW f \in [U -> V],
         \A j, k \in U : f[j] = f[k] => j = k, \A v \in V : \E j \in U : f[j] = v
  PROVE  IsFiniteSet(V) /\ Cardinality(V) = Cardinality(U)
<1>1. f \in Bijection(U, V)
  BY DEF Bijection, Injection, Surjection, IsInjective
<1>2. ExistsBijection(U, V)
  BY <1>1 DEF ExistsBijection
<1>3. QED
  BY <1>2, FS_Bijection

-----------------------------------------------------------------------------
(* Sequences without some of their elements                                *)

\* One position more leaves out at most that one.
LEMMA OmittedStep ==
  ASSUME NEW n \in Nat, NEW D \in SUBSET (1 .. n), NEW i \in Nat
  PROVE  /\ OmittedBefore(D, i) \in Nat /\ OmittedBefore(D, 0) = 0 /\ OmittedBefore(D, 1) = 0
         /\ OmittedBefore(D, i + 1) = OmittedBefore(D, i) + (IF i \in D THEN 1 ELSE 0)
<1> DEFINE Before(j) == {k \in D : k < j}
<1>0. \A k \in D : k \in Nat /\ 1 <= k /\ k <= n
  OBVIOUS
<1>1. IsFiniteSet(Before(i)) /\ Cardinality(Before(i)) \in Nat
  <2>1. Before(i) \subseteq 1 .. n
    BY <1>0
  <2>2. QED
    BY <2>1, BetweenCount
<1>2. Before(0) = {} /\ Before(1) = {}
  <2>1. \A k \in D : ~(k < 0) /\ ~(k < 1)
    BY <1>0
  <2>2. QED
    BY <2>1
<1>3. Before(i + 1) = IF i \in D THEN Before(i) \cup {i} ELSE Before(i)
  <2>1. \A k \in D : k < i + 1 <=> k < i \/ k = i
    BY <1>0
  <2>2. QED
    BY <2>1
<1>4. i \notin Before(i)
  OBVIOUS
<1>5. Cardinality(Before(i + 1)) = Cardinality(Before(i)) + (IF i \in D THEN 1 ELSE 0)
  <2>1. CASE i \in D
    <3>1. Cardinality(Before(i) \cup {i}) = Cardinality(Before(i)) + 1
      BY <1>1, <1>4, FS_AddElement
    <3>2. QED
      BY <2>1, <3>1, <1>3
  <2>2. CASE i \notin D
    BY <2>2, <1>1, <1>3
  <2>3. QED
    BY <2>1, <2>2
<1>6. QED
  BY <1>1, <1>2, <1>5, FS_EmptySet DEF OmittedBefore

\* Between two positions no more is left out than there is.
LEMMA OmittedBetween ==
  ASSUME NEW n \in Nat, NEW D \in SUBSET (1 .. n), NEW i \in Nat, NEW j \in Nat, i <= j
  PROVE  /\ OmittedBefore(D, i) \in Nat /\ OmittedBefore(D, j) \in Nat
         /\ OmittedBefore(D, i) <= OmittedBefore(D, j)
         /\ OmittedBefore(D, j) <= OmittedBefore(D, i) + (j - i)
<1> DEFINE Low == {k \in D : k < i}
           Middle == {k \in D : i <= k /\ k < j}
<1>0. \A k \in D : k \in Nat /\ 1 <= k /\ k <= n
  OBVIOUS
<1>1. Low \subseteq 1 .. n /\ Middle \subseteq i .. j - 1
  <2>1. \A k \in D : i <= k /\ k < j => k \in i .. j - 1
    BY <1>0
  <2>2. QED
    BY <2>1
<1>2. /\ IsFiniteSet(Low) /\ Cardinality(Low) \in Nat
      /\ IsFiniteSet(Middle) /\ Cardinality(Middle) \in Nat /\ Cardinality(Middle) <= j - i
  <2>1. IsFiniteSet(Low) /\ Cardinality(Low) \in Nat
    BY <1>1, BetweenCount
  <2>2. i \in Int /\ j - 1 \in Int /\ i <= (j - 1) + 1
    OBVIOUS
  <2>3. IsFiniteSet(Middle) /\ Cardinality(Middle) \in Nat /\ Cardinality(Middle) <= (j - 1) - i + 1
    BY <1>1, <2>2, BetweenCount
  <2>4. QED
    BY <2>1, <2>3
<1>3. {k \in D : k < j} = Low \cup Middle /\ Low \cap Middle = {}
  <2>1. \A k \in D : (k < j <=> k < i \/ (i <= k /\ k < j)) /\ ~(k < i /\ i <= k)
    BY <1>0
  <2>2. QED
    BY <2>1
<1>4. Cardinality({k \in D : k < j}) = Cardinality(Low) + Cardinality(Middle)
  BY <1>2, <1>3, SplitCount
<1>5. QED
  BY <1>2, <1>4 DEF OmittedBefore

\* All that is left out stands before the end.
LEMMA OmittedInAll ==
  ASSUME NEW n \in Nat, NEW D \in SUBSET (1 .. n)
  PROVE  Cardinality(D) = OmittedBefore(D, n + 1) /\ Cardinality(D) \in 0 .. n
<1>1. D = {k \in D : k < n + 1}
  <2>1. \A k \in D : k < n + 1
    OBVIOUS
  <2>2. QED
    BY <2>1
<1>2. Cardinality(D) \in Nat /\ Cardinality(D) <= n
  <2>1. 1 <= n + 1 /\ n \in Int /\ 1 \in Int
    OBVIOUS
  <2>2. Cardinality(D) \in Nat /\ Cardinality(D) <= n - 1 + 1
    BY <2>1, BetweenCount
  <2>3. QED
    BY <2>2
<1>3. QED
  BY <1>1, <1>2 DEF OmittedBefore

\* Both for every position.
LEMMA OmittedCounts ==
  ASSUME NEW n \in Nat, NEW D \in SUBSET (1 .. n)
  PROVE  /\ OmittedBefore(D, 1) = 0
         /\ \A i \in Nat :
              /\ OmittedBefore(D, i) \in Nat
              /\ i \in D => OmittedBefore(D, i + 1) = OmittedBefore(D, i) + 1
              /\ i \notin D => OmittedBefore(D, i + 1) = OmittedBefore(D, i)
         /\ \A i, j \in Nat :
              i <= j => /\ OmittedBefore(D, i) <= OmittedBefore(D, j)
                        /\ OmittedBefore(D, j) <= OmittedBefore(D, i) + (j - i)
<1>1. OmittedBefore(D, 1) = 0
  BY OmittedStep
<1>2. \A i \in Nat : /\ OmittedBefore(D, i) \in Nat
                     /\ OmittedBefore(D, i + 1) = OmittedBefore(D, i) + (IF i \in D THEN 1 ELSE 0)
  BY OmittedStep
<1>3. ASSUME NEW i \in Nat, NEW j \in Nat, i <= j
      PROVE  /\ OmittedBefore(D, i) <= OmittedBefore(D, j)
             /\ OmittedBefore(D, j) <= OmittedBefore(D, i) + (j - i)
  BY <1>3, OmittedBetween
<1>4. ASSUME NEW i \in Nat
      PROVE  /\ OmittedBefore(D, i) \in Nat
             /\ i \in D => OmittedBefore(D, i + 1) = OmittedBefore(D, i) + 1
             /\ i \notin D => OmittedBefore(D, i + 1) = OmittedBefore(D, i)
  BY <1>2
<1>5. QED
  BY <1>1, <1>3, <1>4

\* The element at a position that is not left out has the number that Omit looks
\* for, and is the only one.
LEMMA OmitKeeps ==
  ASSUME NEW S, NEW s \in Seq(S), NEW D \in SUBSET (1 .. Len(s)),
         NEW i \in 1 .. Len(s), i \notin D
  PROVE  /\ i - OmittedBefore(D, i) \in 1 .. Len(s) - Cardinality(D)
         /\ Omit(s, D)[i - OmittedBefore(D, i)] = s[i]
<1> DEFINE n == i - OmittedBefore(D, i)
           m == Len(s)
<1>0. /\ OmittedBefore(D, 1) = 0
      /\ \A k \in Nat : /\ OmittedBefore(D, k) \in Nat
                        /\ k \notin D => OmittedBefore(D, k + 1) = OmittedBefore(D, k)
      /\ \A k, l \in Nat : k <= l => /\ OmittedBefore(D, k) <= OmittedBefore(D, l)
                                     /\ OmittedBefore(D, l) <= OmittedBefore(D, k) + (l - k)
  <2>1. m \in Nat /\ D \in SUBSET (1 .. m)
    OBVIOUS
  <2>2. QED
    BY <2>1, OmittedCounts
<1>1. m \in Nat /\ i \in Nat /\ i + 1 \in Nat /\ m + 1 \in Nat
  OBVIOUS
<1>2. OmittedBefore(D, i + 1) = OmittedBefore(D, i) /\ OmittedBefore(D, i) \in Nat
  BY <1>1, <1>0
<1>3. OmittedBefore(D, i) <= i - 1
  <2>1. OmittedBefore(D, i) <= OmittedBefore(D, 1) + (i - 1)
    BY <1>1, <1>0
  <2>2. OmittedBefore(D, 1) = 0
    BY <1>1, <1>0
  <2>3. QED
    BY <2>1, <2>2, <1>2
<1>4. Cardinality(D) = OmittedBefore(D, m + 1) /\ Cardinality(D) \in 0 .. m
  BY <1>1, OmittedInAll
<1>5. OmittedBefore(D, m + 1) <= OmittedBefore(D, i + 1) + (m - i)
  <2>1. i + 1 <= m + 1
    BY <1>1
  <2>2. OmittedBefore(D, m + 1) <= OmittedBefore(D, i + 1) + ((m + 1) - (i + 1))
    BY <1>1, <2>1, <1>0
  <2>3. QED
    BY <2>2, <1>1, <1>2
<1>6. n \in 1 .. m - Cardinality(D)
  BY <1>1, <1>2, <1>3, <1>4, <1>5
<1>7. i \in n .. m /\ i = n + OmittedBefore(D, i)
  BY <1>1, <1>2
<1>8. ASSUME NEW j \in n .. m, j \notin D, j = n + OmittedBefore(D, j)
      PROVE  j = i
  <2>1. j \in Nat /\ j + 1 \in Nat /\ OmittedBefore(D, j) \in Nat
        /\ OmittedBefore(D, j + 1) = OmittedBefore(D, j)
    <3>1. j \in Nat
      BY <1>6, <1>1
    <3>2. QED
      BY <3>1, <1>1, <1>8, <1>0
  <2>2. CASE i < j
    <3>1. OmittedBefore(D, j) <= OmittedBefore(D, i + 1) + (j - (i + 1))
      BY <1>1, <2>1, <2>2, <1>0
    <3>2. QED
      BY <3>1, <1>1, <1>2, <2>1, <2>2, <1>7, <1>8
  <2>3. CASE j < i
    <3>1. OmittedBefore(D, i) <= OmittedBefore(D, j + 1) + (i - (j + 1))
      BY <1>1, <2>1, <2>3, <1>0
    <3>2. QED
      BY <3>1, <1>1, <1>2, <2>1, <2>3, <1>7, <1>8
  <2>4. QED
    BY <1>1, <2>1, <2>2, <2>3
<1>9. (CHOOSE j \in n .. m : j \notin D /\ j = n + OmittedBefore(D, j)) = i
  BY <1>7, <1>8
<1>10. QED
  BY <1>6, <1>9 DEF Omit

\* Every element of what is left was at a position that is not left out.
LEMMA OmitComesFrom ==
  ASSUME NEW S, NEW s \in Seq(S), NEW D \in SUBSET (1 .. Len(s)),
         NEW n \in 1 .. Len(s) - Cardinality(D)
  PROVE  \E i \in 1 .. Len(s) : i \notin D /\ n = i - OmittedBefore(D, i)
<1> DEFINE m == Len(s)
           Enough == {i \in 1 .. m : i - OmittedBefore(D, i + 1) >= n}
<1>1. m \in Nat /\ Cardinality(D) = OmittedBefore(D, m + 1) /\ Cardinality(D) \in 0 .. m
  BY OmittedInAll
<1>2. m \in Enough
  BY <1>1
<1>3. PICK i \in Enough : \A j \in Enough : i <= j
  BY <1>2, LeastNatural, Enough \subseteq Nat
<1>4. i \in Nat /\ i >= 1 /\ i <= m /\ i - OmittedBefore(D, i + 1) >= n
  BY <1>3
<1>5. /\ OmittedBefore(D, i) \in Nat /\ OmittedBefore(D, 1) = 0
      /\ OmittedBefore(D, i + 1) = OmittedBefore(D, i) + (IF i \in D THEN 1 ELSE 0)
  BY <1>1, <1>4, OmittedStep
<1>6. (i - 1) - OmittedBefore(D, i) < n
  <2>1. CASE i = 1
    BY <2>1, <1>5
  <2>2. CASE i # 1
    <3>1. i - 1 \in 1 .. m /\ ~ (i <= i - 1) /\ (i - 1) + 1 = i
      BY <1>4, <2>2
    <3>2. i - 1 \notin Enough
      BY <1>3, <3>1
    <3>3. ~ ((i - 1) - OmittedBefore(D, i) >= n)
      BY <3>1, <3>2
    <3>4. QED
      BY <3>3, <1>4, <1>5
  <2>3. QED
    BY <2>1, <2>2
<1>7. i \notin D /\ n = i - OmittedBefore(D, i)
  BY <1>4, <1>5, <1>6
<1>8. QED
  BY <1>7, <1>4

\* What is left out of n positions is finite.
LEMMA OmittedIsFinite ==
  ASSUME NEW n \in Nat, NEW D \in SUBSET (1 .. n)
  PROVE  /\ IsFiniteSet(D) /\ Cardinality(D) \in 0 .. n
         /\ \A k \in D : k \in Nat /\ 1 <= k /\ k <= n
<1>1. Cardinality(D) \in 0 .. n
  BY OmittedInAll
<1>2. IsFiniteSet(D)
  <2>1. 1 \in Int /\ n \in Int
    OBVIOUS
  <2>2. QED
    BY <2>1, BetweenCount
<1>3. QED
  BY <1>1, <1>2

\* What is left is a sequence of the same elements.
LEMMA OmitIsSeq ==
  ASSUME NEW S, NEW s \in Seq(S), NEW D \in SUBSET (1 .. Len(s))
  PROVE  /\ Omit(s, D) \in Seq(S)
         /\ Len(Omit(s, D)) = Len(s) - Cardinality(D)
         /\ Len(s) - Cardinality(D) \in Nat
<1> DEFINE m == Len(s) - Cardinality(D)
           o == Omit(s, D)
<1>1. m \in Nat
  <2>1. Len(s) \in Nat
    OBVIOUS
  <2>2. Cardinality(D) \in 0 .. Len(s)
    BY <2>1, OmittedInAll
  <2>3. QED
    BY <2>1, <2>2
<1>2. ASSUME NEW n \in 1 .. m PROVE o[n] \in S
  <2>1. PICK i \in 1 .. Len(s) : i \notin D /\ n = i - OmittedBefore(D, i)
    BY OmitComesFrom
  <2>2. o[n] = s[i]
    BY <2>1, OmitKeeps
  <2>3. s[i] \in S
    BY <2>1, ElementOfSeq
  <2>4. QED
    BY <2>2, <2>3
<1>3. DOMAIN o = 1 .. m /\ o = [n \in 1 .. m |-> o[n]]
  BY DEF Omit
<1> HIDE DEF o, m
<1>4. o \in [1 .. m -> S]
  BY <1>2, <1>3
<1>5. o \in Seq(S) /\ Len(o) = m
  BY <1>1, <1>3, <1>4
<1>6. QED
  BY <1>1, <1>5 DEF o, m

\* What is left out of two sequences of m and n elements, as positions of both together.
Together(both, m, D, n, E) ==
  /\ \A i \in 1 .. m : i \in both <=> i \in D
  /\ \A j \in 1 .. n : j + m \in both <=> j \in E

\* Leaving out in two sequences is leaving out in what they make together.
LEMMA OmitConcat ==
  ASSUME NEW S, NEW s \in Seq(S), NEW t \in Seq(S),
         NEW D \in SUBSET (1 .. Len(s)), NEW E \in SUBSET (1 .. Len(t)),
         NEW both \in SUBSET (1 .. Len(s \o t)),
         Together(both, Len(s), D, Len(t), E)
  PROVE  Omit(s \o t, both) = Omit(s, D) \o Omit(t, E)
<1> DEFINE st == s \o t
           moved == {k + Len(s) : k \in E}
           kept == Len(s) - Cardinality(D)
           rest == Len(t) - Cardinality(E)
<1>1. /\ Len(s) \in Nat /\ Len(t) \in Nat /\ st \in Seq(S) /\ Len(st) = Len(s) + Len(t)
      /\ \A i \in 1 .. Len(st) : st[i] = IF i <= Len(s) THEN s[i] ELSE t[i - Len(s)]
  BY ConcatProperties
<1>2. /\ \A k \in D : k \in Nat /\ 1 <= k /\ k <= Len(s)
      /\ \A k \in E : k \in Nat /\ 1 <= k /\ k <= Len(t)
  OBVIOUS
<1>0. /\ \A i \in 1 .. Len(s) : i \in both <=> i \in D
      /\ \A j \in 1 .. Len(t) : j + Len(s) \in both <=> j \in E
  BY DEF Together
<1>3. both \in SUBSET (1 .. Len(st)) /\ both = D \cup moved
  <2>1. ASSUME NEW i \in both PROVE i \in D \cup moved
    <3>1. i \in 1 .. Len(s) + Len(t)
      BY <1>1
    <3>2. CASE i <= Len(s)
      BY <3>1, <3>2, <1>0, <1>1
    <3>3. CASE i > Len(s)
      <4> DEFINE j == i - Len(s)
      <4>1. j \in 1 .. Len(t) /\ i = j + Len(s)
        BY <3>1, <3>3, <1>1
      <4> HIDE DEF j
      <4>2. j \in E
        BY <4>1, <1>0
      <4>3. QED
        BY <4>1, <4>2
    <3>4. QED
      BY <3>1, <3>2, <3>3, <1>1
  <2>2. ASSUME NEW i \in D PROVE i \in both
    BY <1>0
  <2>3. ASSUME NEW k \in E PROVE k + Len(s) \in both
    BY <1>0
  <2>4. QED
    BY <2>1, <2>2, <2>3, <1>1
<1>4. /\ IsFiniteSet(D) /\ Cardinality(D) \in 0 .. Len(s)
      /\ IsFiniteSet(E) /\ Cardinality(E) \in 0 .. Len(t)
  BY <1>1, OmittedIsFinite
<1>5. \A i \in 1 .. Len(s) : OmittedBefore(both, i) = OmittedBefore(D, i)
  <2> SUFFICES ASSUME NEW i \in 1 .. Len(s) PROVE OmittedBefore(both, i) = OmittedBefore(D, i)
    OBVIOUS
  <2>1. \A k \in moved : ~(k < i)
    BY <1>1, <1>2
  <2>2. {k \in both : k < i} = {k \in D : k < i}
    BY <2>1, <1>3
  <2>3. QED
    BY <2>2 DEF OmittedBefore
<1>6. \A j \in 1 .. Len(t) :
        OmittedBefore(both, j + Len(s)) = Cardinality(D) + OmittedBefore(E, j)
  <2> SUFFICES ASSUME NEW j \in 1 .. Len(t)
               PROVE  OmittedBefore(both, j + Len(s)) = Cardinality(D) + OmittedBefore(E, j)
    OBVIOUS
  <2> DEFINE low == {k \in E : k < j}
             up == {k + Len(s) : k \in low}
  <2>1. low \subseteq Int /\ IsFiniteSet(low) /\ Len(s) \in Int
    <3>1. low \in SUBSET E
      OBVIOUS
    <3>2. IsFiniteSet(low)
      BY <3>1, <1>4, FS_Subset
    <3>3. low \subseteq Int
      <4>1. \A k \in E : k \in Int
        BY <1>2
      <4>2. QED
        BY <4>1
    <3>4. QED
      BY <3>2, <3>3, <1>1
  <2>2. IsFiniteSet(up) /\ Cardinality(up) = Cardinality(low)
    BY <2>1, ShiftedCount
  <2>3. \A k \in D : k < j + Len(s)
    BY <1>1, <1>2
  <2>4. \A k \in E : k + Len(s) < j + Len(s) <=> k < j
    BY <1>1, <1>2
  <2>5. {k \in both : k < j + Len(s)} = D \cup up
    BY <2>3, <2>4, <1>3
  <2>6. D \cap up = {}
    <3>1. \A k \in E : ~(k + Len(s) \in D)
      BY <1>1, <1>2
    <3>2. QED
      BY <3>1
  <2>7. Cardinality(D \cup up) = Cardinality(D) + Cardinality(up)
    BY <2>2, <2>6, <1>4, SplitCount
  <2>8. QED
    BY <2>2, <2>5, <2>7 DEF OmittedBefore
<1>7. Cardinality(both) = Cardinality(D) + Cardinality(E)
  <2>1. IsFiniteSet(moved) /\ Cardinality(moved) = Cardinality(E)
    <3>1. E \subseteq Int /\ IsFiniteSet(E) /\ Len(s) \in Int
      BY <1>1, <1>2, <1>4
    <3>2. QED
      BY <3>1, ShiftedCount
  <2>2. D \cap moved = {}
    <3>1. \A k \in E : ~(k + Len(s) \in D)
      BY <1>1, <1>2
    <3>2. QED
      BY <3>1
  <2>3. QED
    BY <2>1, <2>2, <1>3, <1>4, SplitCount
<1>8. Len(st) - Cardinality(both) = kept + rest /\ kept \in Nat /\ rest \in Nat
  BY <1>1, <1>4, <1>7
<1>9. Omit(s, D) \in Seq(S) /\ Len(Omit(s, D)) = kept
  BY OmitIsSeq
<1>10. Omit(t, E) \in Seq(S) /\ Len(Omit(t, E)) = rest
  BY OmitIsSeq
<1>11. ASSUME NEW n \in 1 .. kept + rest
       PROVE  Omit(st, both)[n] = IF n <= kept THEN Omit(s, D)[n] ELSE Omit(t, E)[n - kept]
  <2>1. n \in 1 .. Len(st) - Cardinality(both)
    BY <1>8
  <2>2. PICK i \in 1 .. Len(st) : i \notin both /\ n = i - OmittedBefore(both, i)
    <3>1. st \in Seq(S) /\ both \in SUBSET (1 .. Len(st))
      BY <1>1, <1>3
    <3> HIDE DEF st, kept, rest
    <3>2. QED
      BY <3>1, <2>1, OmitComesFrom
  <2>3. Omit(st, both)[n] = st[i]
    <3>1. st \in Seq(S) /\ both \in SUBSET (1 .. Len(st))
      BY <1>1, <1>3
    <3> HIDE DEF st, kept, rest
    <3>2. QED
      BY <3>1, <2>2, OmitKeeps
  <2>4. CASE i <= Len(s)
    <3>1. i \in 1 .. Len(s) /\ i \notin D /\ OmittedBefore(both, i) = OmittedBefore(D, i)
      BY <1>1, <1>3, <1>5, <2>2, <2>4
    <3>2. n \in 1 .. kept /\ Omit(s, D)[n] = s[i]
      BY <3>1, <2>2, OmitKeeps
    <3>3. QED
      BY <3>2, <1>1, <2>3, <2>4, <1>8
  <2>5. CASE i > Len(s)
    <3> DEFINE j == i - Len(s)
    <3>1. j \in 1 .. Len(t) /\ i = j + Len(s)
      BY <1>1, <2>5
    <3>2. j \notin E
      BY <3>1, <2>2, <1>3
    <3>3. j - OmittedBefore(E, j) \in 1 .. rest /\ Omit(t, E)[j - OmittedBefore(E, j)] = t[j]
      BY <3>1, <3>2, OmitKeeps
    <3>4. OmittedBefore(both, i) = Cardinality(D) + OmittedBefore(E, j)
      BY <3>1, <1>6
    <3>5. OmittedBefore(E, j) \in Nat
      <4>1. j \in Nat
        BY <1>1, <3>1
      <4>2. QED
        BY <4>1, <1>1, OmittedCounts
    <3>6. n - kept = j - OmittedBefore(E, j)
      BY <1>1, <1>4, <2>2, <3>1, <3>4, <3>5
    <3>7. ~(n <= kept)
      BY <3>3, <3>6, <1>8
    <3>8. st[i] = t[j]
      BY <1>1, <2>5
    <3>9. QED
      BY <3>3, <3>6, <3>7, <3>8, <2>3
  <2>6. QED
    BY <2>4, <2>5, <1>1
<1>12. Omit(st, both) \in Seq(S) /\ Len(Omit(st, both)) = kept + rest
  <2> HIDE DEF st
  <2>1. QED
    BY <1>1, <1>3, <1>8, OmitIsSeq
<1>13. QED
  <2> DEFINE o == Omit(s, D)
             p == Omit(t, E)
             q == Omit(st, both)
  <2>0. o \in Seq(S) /\ p \in Seq(S) /\ q \in Seq(S) /\ Len(q) = kept + rest
        /\ Len(o) = kept /\ Len(p) = rest
        /\ \A n \in 1 .. kept + rest : q[n] = IF n <= kept THEN o[n] ELSE p[n - kept]
    BY <1>9, <1>10, <1>11, <1>12
  <2> HIDE DEF o, p, q, kept, rest, st
  <2>1. /\ o \o p \in Seq(S) /\ Len(o \o p) = kept + rest
        /\ \A n \in 1 .. kept + rest : (o \o p)[n] = IF n <= kept THEN o[n] ELSE p[n - kept]
    BY <2>0, ConcatProperties
  <2>2. q = o \o p
    BY <2>0, <2>1, SeqEqual
  <2>3. QED
    BY <2>2 DEF o, p, q, st

\* A part of bytes is bytes.
LEMMA SubSeqIsBytes ==
  ASSUME NEW s \in Bytes, NEW m \in Nat \ {0}, NEW n \in Nat, n <= Len(s)
  PROVE  /\ SubSeq(s, m, n) \in Bytes
         /\ Len(SubSeq(s, m, n)) = IF m <= n THEN n - m + 1 ELSE 0
<1>1. \A i \in m .. n : s[i] \in Byte
  BY DEF Bytes
<1>2. QED
  BY <1>1, SubSeqProperties DEF Bytes

-----------------------------------------------------------------------------
(* Bytes that are not separators, and parts of a line                      *)

Raw(s, lo, hi) == Cardinality({i \in lo .. hi : s[i] # SEPARATOR_BYTE})

\* The count of a stretch is that of its two parts.
LEMMA RawSplit ==
  ASSUME NEW s, NEW lo \in Int, NEW m \in Int, NEW hi \in Int, lo <= m + 1, m <= hi
  PROVE  /\ Raw(s, lo, m) \in Nat /\ Raw(s, m + 1, hi) \in Nat /\ Raw(s, lo, hi) \in Nat
         /\ Raw(s, lo, hi) = Raw(s, lo, m) + Raw(s, m + 1, hi)
<1> DEFINE Part(a, b) == {i \in a .. b : s[i] # SEPARATOR_BYTE}
<1>1. \A a, b \in Int : IsFiniteSet(Part(a, b)) /\ Cardinality(Part(a, b)) \in Nat
  <2> SUFFICES ASSUME NEW a \in Int, NEW b \in Int
               PROVE  IsFiniteSet(Part(a, b)) /\ Cardinality(Part(a, b)) \in Nat
    OBVIOUS
  <2>1. Part(a, b) \subseteq a .. b
    OBVIOUS
  <2>2. QED
    BY <2>1, BetweenCount
<1>2. m + 1 \in Int
  OBVIOUS
<1>3. Part(lo, hi) = Part(lo, m) \cup Part(m + 1, hi)
  OBVIOUS
<1>4. Part(lo, m) \cap Part(m + 1, hi) = {}
  OBVIOUS
<1>5. Cardinality(Part(lo, hi)) = Cardinality(Part(lo, m)) + Cardinality(Part(m + 1, hi))
  <2> HIDE DEF Part
  <2>1. QED
    BY <1>1, <1>2, <1>3, <1>4, SplitCount
<1>6. QED
  BY <1>1, <1>2, <1>5 DEF Raw

\* None in no bytes, and one byte at a time.
LEMMA RawSteps ==
  ASSUME NEW s
  PROVE  /\ \A lo, hi \in Int : Raw(s, lo, hi) \in Nat
         /\ \A lo, hi \in Int : hi < lo => Raw(s, lo, hi) = 0
         /\ \A lo, hi \in Int : lo <= hi + 1 /\ s[hi + 1] # SEPARATOR_BYTE
                                  => Raw(s, lo, hi + 1) = Raw(s, lo, hi) + 1
         /\ \A lo, hi \in Int : lo <= hi + 1 /\ s[hi + 1] = SEPARATOR_BYTE
                                  => Raw(s, lo, hi + 1) = Raw(s, lo, hi)
<1>1. ASSUME NEW lo \in Int, NEW hi \in Int, hi < lo
      PROVE  Raw(s, lo, hi) = 0
  <2>1. {i \in lo .. hi : s[i] # SEPARATOR_BYTE} = {}
    BY <1>1
  <2>2. QED
    BY <2>1, FS_EmptySet DEF Raw
<1>2. ASSUME NEW lo \in Int, NEW hi \in Int, lo <= hi + 1
      PROVE  /\ Raw(s, lo, hi + 1) = Raw(s, lo, hi) + Raw(s, hi + 1, hi + 1)
             /\ Raw(s, lo, hi) \in Nat
             /\ s[hi + 1] = SEPARATOR_BYTE => Raw(s, hi + 1, hi + 1) = 0
             /\ s[hi + 1] # SEPARATOR_BYTE => Raw(s, hi + 1, hi + 1) = 1
  <2>1. hi <= hi + 1 /\ hi + 1 \in Int
    OBVIOUS
  <2>2. Raw(s, lo, hi + 1) = Raw(s, lo, hi) + Raw(s, hi + 1, hi + 1) /\ Raw(s, lo, hi) \in Nat
    BY <2>1, <1>2, RawSplit
  <2>3. CASE s[hi + 1] = SEPARATOR_BYTE
    <3>1. {i \in hi + 1 .. hi + 1 : s[i] # SEPARATOR_BYTE} = {}
      BY <2>3
    <3>2. QED
      BY <3>1, <2>2, <2>3, FS_EmptySet DEF Raw
  <2>4. CASE s[hi + 1] # SEPARATOR_BYTE
    <3>1. {i \in hi + 1 .. hi + 1 : s[i] # SEPARATOR_BYTE} = {hi + 1}
      BY <2>4
    <3>2. QED
      BY <3>1, <2>2, <2>4, FS_Singleton DEF Raw
  <2>5. QED
    BY <2>3, <2>4
<1>3. ASSUME NEW lo \in Int, NEW hi \in Int
      PROVE  Raw(s, lo, hi) \in Nat
  <2>1. CASE hi < lo
    BY <2>1, <1>1
  <2>2. CASE lo <= hi
    <3>1. lo <= hi + 1 /\ hi <= hi
      BY <2>2
    <3>2. QED
      BY <3>1, RawSplit
  <2>3. QED
    BY <2>1, <2>2
<1>4. ASSUME NEW lo \in Int, NEW hi \in Int, lo <= hi + 1
      PROVE  /\ s[hi + 1] # SEPARATOR_BYTE => Raw(s, lo, hi + 1) = Raw(s, lo, hi) + 1
             /\ s[hi + 1] = SEPARATOR_BYTE => Raw(s, lo, hi + 1) = Raw(s, lo, hi)
  BY <1>2, <1>4
<1>5. \A lo, hi \in Int : hi < lo => Raw(s, lo, hi) = 0
  BY <1>1
<1>6. \A lo, hi \in Int : Raw(s, lo, hi) \in Nat
  BY <1>3
<1>7. QED
  BY <1>4, <1>5, <1>6

\* Fewer bytes, fewer that are no separators; and strictly fewer when the last is none.
LEMMA RawLess ==
  ASSUME NEW s, NEW lo \in Int, NEW m \in Int, NEW hi \in Int, lo <= m + 1, m < hi
  PROVE  /\ Raw(s, lo, m) <= Raw(s, lo, hi)
         /\ s[hi] # SEPARATOR_BYTE => Raw(s, lo, m) < Raw(s, lo, hi)
<1>1. hi - 1 \in Int /\ m <= hi - 1 /\ lo <= (hi - 1) + 1 /\ (hi - 1) + 1 = hi
  OBVIOUS
<1>2. Raw(s, lo, m) <= Raw(s, lo, hi - 1) /\ Raw(s, lo, m) \in Nat /\ Raw(s, lo, hi - 1) \in Nat
  BY <1>1, RawSplit
<1>3. /\ s[hi] # SEPARATOR_BYTE => Raw(s, lo, hi) = Raw(s, lo, hi - 1) + 1
      /\ s[hi] = SEPARATOR_BYTE => Raw(s, lo, hi) = Raw(s, lo, hi - 1)
  <2>1. /\ s[(hi - 1) + 1] # SEPARATOR_BYTE => Raw(s, lo, (hi - 1) + 1) = Raw(s, lo, hi - 1) + 1
        /\ s[(hi - 1) + 1] = SEPARATOR_BYTE => Raw(s, lo, (hi - 1) + 1) = Raw(s, lo, hi - 1)
    BY <1>1, RawSteps
  <2>2. QED
    BY <2>1, <1>1
<1>4. QED
  BY <1>2, <1>3

\* Counting backwards from a position that does not follow lo.
LEMMA RawFrom ==
  ASSUME NEW s, NEW lo \in Int, NEW m \in Int, NEW hi \in Int, lo <= m
  PROVE  Raw(s, m, hi) <= Raw(s, lo, hi)
<1>1. Raw(s, m, hi) \in Nat /\ Raw(s, lo, hi) \in Nat
  BY RawSteps
<1>2. CASE hi < m
  <2>1. Raw(s, m, hi) = 0
    BY <1>2, RawSteps
  <2>2. QED
    BY <2>1, <1>1
<1>3. CASE m <= hi
  <2>1. m - 1 \in Int /\ lo <= (m - 1) + 1 /\ m - 1 <= hi /\ (m - 1) + 1 = m
    BY <1>3
  <2>2. Raw(s, lo, hi) = Raw(s, lo, m - 1) + Raw(s, (m - 1) + 1, hi) /\ Raw(s, lo, m - 1) \in Nat
    BY <2>1, RawSplit
  <2>3. QED
    BY <2>1, <2>2, <1>1
<1>4. QED
  BY <1>2, <1>3

\* A part of a line: its bytes are the line's.
LEMMA PartOf ==
  ASSUME NEW s \in Bytes, NEW lo \in Nat \ {0}, NEW hi \in Nat, lo <= hi, hi <= Len(s)
  PROVE  /\ SubSeq(s, lo, hi) \in Bytes
         /\ Len(SubSeq(s, lo, hi)) = hi - lo + 1
         /\ \A i \in 1 .. hi - lo + 1 : SubSeq(s, lo, hi)[i] = s[lo + i - 1]
<1>1. SubSeq(s, lo, hi) \in Bytes /\ Len(SubSeq(s, lo, hi)) = hi - lo + 1
  BY SubSeqIsBytes
<1>2. SubSeq(s, lo, hi) = [i \in 1 .. hi - lo + 1 |-> s[lo + i - 1]]
  OBVIOUS
<1>3. QED
  BY <1>1, <1>2

\* A post byte at position i that is none.
WrongAt(s, i) == s[i - 1] = SEPARATOR_BYTE /\ s[i] # SEPARATOR_POST_BYTE

\* The wrong post bytes of a part are those of the line, but for its first byte.
LEMMA MisescapedPart ==
  ASSUME NEW s \in Bytes, NEW lo \in Nat \ {0}, NEW hi \in Nat, lo <= hi, hi <= Len(s)
  PROVE  /\ \A w \in Misescaped(SubSeq(s, lo, hi)) :
              w \in 2 .. hi - lo + 1 /\ WrongAt(s, lo + w - 1)
         /\ \A i \in lo + 1 .. hi : WrongAt(s, i) => i - lo + 1 \in Misescaped(SubSeq(s, lo, hi))
<1> DEFINE h == SubSeq(s, lo, hi)
<1>1. Len(h) = hi - lo + 1 /\ \A i \in 1 .. hi - lo + 1 : h[i] = s[lo + i - 1]
  BY PartOf
<1> HIDE DEF h
<1>2. ASSUME NEW w \in Misescaped(h)
      PROVE  w \in 2 .. hi - lo + 1 /\ WrongAt(s, lo + w - 1)
  <2>1. w \in 2 .. hi - lo + 1 /\ h[w - 1] = SEPARATOR_BYTE /\ h[w] # SEPARATOR_POST_BYTE
    BY <1>1 DEF Misescaped, AfterSeparator
  <2>2. h[w] = s[lo + w - 1] /\ h[w - 1] = s[(lo + w - 1) - 1]
    <3>1. w \in 1 .. hi - lo + 1 /\ w - 1 \in 1 .. hi - lo + 1
      BY <2>1
    <3>2. h[w] = s[lo + w - 1] /\ h[w - 1] = s[lo + (w - 1) - 1]
      BY <3>1, <1>1
    <3>3. lo + (w - 1) - 1 = (lo + w - 1) - 1
      BY <2>1
    <3>4. QED
      BY <3>2, <3>3
  <2>3. QED
    BY <2>1, <2>2 DEF WrongAt
<1>3. ASSUME NEW i \in lo + 1 .. hi, WrongAt(s, i)
      PROVE  i - lo + 1 \in Misescaped(h)
  <2> DEFINE w == i - lo + 1
  <2>1. w \in 2 .. hi - lo + 1 /\ w - 1 \in 1 .. hi - lo + 1 /\ w \in 1 .. hi - lo + 1
    OBVIOUS
  <2>2. h[w] = s[lo + w - 1] /\ h[w - 1] = s[lo + (w - 1) - 1]
    BY <2>1, <1>1
  <2>3. lo + w - 1 = i /\ lo + (w - 1) - 1 = i - 1
    OBVIOUS
  <2> HIDE DEF w
  <2>4. QED
    BY <1>1, <1>3, <2>1, <2>2, <2>3 DEF WrongAt, Misescaped, AfterSeparator, w
<1>4. QED
  BY <1>2, <1>3 DEF h

\* Unescaped, a part that does not end in a separator has the bytes that are none.
LEMMA UnstuffedPart ==
  ASSUME NEW s \in Bytes, NEW lo \in Nat \ {0}, NEW hi \in Nat, lo <= hi, hi <= Len(s),
         s[hi] # SEPARATOR_BYTE
  PROVE  /\ Unstuffed(SubSeq(s, lo, hi)) \in Bytes
         /\ Len(Unstuffed(SubSeq(s, lo, hi))) = Raw(s, lo, hi)
<1> DEFINE h == SubSeq(s, lo, hi)
           seps == {i \in lo .. hi : s[i] = SEPARATOR_BYTE}
           raws == {i \in lo .. hi : s[i] # SEPARATOR_BYTE}
<1>1. h \in Bytes /\ Len(h) = hi - lo + 1 /\ \A i \in 1 .. hi - lo + 1 : h[i] = s[lo + i - 1]
  BY PartOf
<1>2. AfterSeparator(h) \in SUBSET (1 .. Len(h))
  <2>1. \A i \in 2 .. Len(h) : i \in 1 .. Len(h)
    BY <1>1
  <2>2. QED
    BY <2>1 DEF AfterSeparator
<1>3. AfterSeparator(h) = {i + (2 - lo) : i \in seps}
  <2> HIDE DEF h
  <2>1. ASSUME NEW k \in AfterSeparator(h)
        PROVE  k \in {i + (2 - lo) : i \in seps}
    <3>1. k \in 2 .. hi - lo + 1 /\ h[k - 1] = SEPARATOR_BYTE
      BY <1>1 DEF AfterSeparator
    <3>2. k - 1 \in 1 .. hi - lo + 1 /\ lo + (k - 1) - 1 = lo + k - 2
      BY <3>1
    <3>3. s[lo + k - 2] = SEPARATOR_BYTE /\ lo + k - 2 \in lo .. hi
      BY <3>1, <3>2, <1>1
    <3>4. k = (lo + k - 2) + (2 - lo)
      BY <3>1
    <3>5. QED
      BY <3>3, <3>4
  <2>2. ASSUME NEW i \in seps
        PROVE  i + (2 - lo) \in AfterSeparator(h)
    <3> DEFINE k == i + (2 - lo)
    <3>1. i # hi
      OBVIOUS
    <3>2. k \in 2 .. hi - lo + 1 /\ k - 1 \in 1 .. hi - lo + 1 /\ lo + (k - 1) - 1 = i
      BY <3>1
    <3>3. h[k - 1] = s[lo + (k - 1) - 1]
      BY <3>2, <1>1
    <3>4. h[k - 1] = SEPARATOR_BYTE
      BY <3>2, <3>3
    <3> HIDE DEF k
    <3>5. k \in AfterSeparator(h)
      BY <3>2, <3>4, <1>1 DEF AfterSeparator
    <3>6. QED
      BY <3>5 DEF k
  <2>3. QED
    BY <2>1, <2>2
<1>4. IsFiniteSet(seps) /\ IsFiniteSet(raws)
      /\ Cardinality(seps) \in Nat /\ Cardinality(raws) \in Nat
  <2>1. seps \subseteq lo .. hi /\ raws \subseteq lo .. hi /\ lo \in Int /\ hi \in Int
    OBVIOUS
  <2> HIDE DEF seps, raws
  <2>2. QED
    BY <2>1, BetweenCount
<1>5. Cardinality(AfterSeparator(h)) = Cardinality(seps)
  <2>1. seps \subseteq Int /\ 2 - lo \in Int
    OBVIOUS
  <2> HIDE DEF seps
  <2>2. QED
    BY <2>1, <1>3, <1>4, ShiftedCount
<1>6. Cardinality(seps) + Cardinality(raws) = hi - lo + 1
  <2>1. seps \cup raws = lo .. hi /\ seps \cap raws = {}
    OBVIOUS
  <2>2. Cardinality(lo .. hi) = hi - lo + 1
    BY FS_Interval
  <2> HIDE DEF seps, raws
  <2>3. QED
    BY <2>1, <2>2, <1>4, SplitCount
<1>7. Unstuffed(h) \in Bytes /\ Len(Unstuffed(h)) = Len(h) - Cardinality(AfterSeparator(h))
  <2> HIDE DEF h
  <2>1. QED
    BY <1>1, <1>2, OmitIsSeq DEF Unstuffed, Bytes
<1>8. Raw(s, lo, hi) = Cardinality(raws)
  BY DEF Raw
<1>9. QED
  BY <1>1, <1>4, <1>5, <1>6, <1>7, <1>8

\* The same of bytes.
LEMMA OmitConcatBytes ==
  ASSUME NEW s \in Seq(Byte), NEW t \in Seq(Byte),
         NEW D \in SUBSET (1 .. Len(s)), NEW E \in SUBSET (1 .. Len(t)),
         NEW both \in SUBSET (1 .. Len(s \o t)),
         Together(both, Len(s), D, Len(t), E)
  PROVE  Omit(s \o t, both) = Omit(s, D) \o Omit(t, E)
BY OmitConcat, SMTT(30)

\* Unescaped in two parts, the first of which does not end in a separator.
LEMMA UnstuffedParts ==
  ASSUME NEW s \in Bytes, NEW lo \in Nat \ {0}, NEW m \in Nat, NEW hi \in Nat,
         lo <= m, m < hi, hi <= Len(s), s[m] # SEPARATOR_BYTE
  PROVE  Unstuffed(SubSeq(s, lo, hi))
           = Unstuffed(SubSeq(s, lo, m)) \o Unstuffed(SubSeq(s, m + 1, hi))
<1> DEFINE a == SubSeq(s, lo, m)
           b == SubSeq(s, m + 1, hi)
<1>1. /\ a \in Bytes /\ Len(a) = m - lo + 1
      /\ \A i \in 1 .. m - lo + 1 : a[i] = s[lo + i - 1]
  <2>1. m <= Len(s)
    BY DEF Bytes
  <2>2. QED
    BY <2>1, PartOf
<1>2. /\ b \in Bytes /\ Len(b) = hi - m
      /\ \A i \in 1 .. hi - m : b[i] = s[m + i]
  <2>1. m + 1 \in Nat \ {0} /\ m + 1 <= hi /\ hi - (m + 1) + 1 = hi - m
    OBVIOUS
  <2>2. /\ b \in Bytes /\ Len(b) = hi - m
        /\ \A i \in 1 .. hi - m : b[i] = s[(m + 1) + i - 1]
    BY <2>1, PartOf
  <2>3. \A i \in 1 .. hi - m : (m + 1) + i - 1 = m + i
    OBVIOUS
  <2>4. QED
    BY <2>2, <2>3
<1>3. SubSeq(s, lo, hi) = a \o b
  BY ConcatAdjacentSubSeq DEF Bytes
<1> HIDE DEF a, b
<1>4. /\ Len(a) \in Nat \ {0} /\ Len(b) \in Nat \ {0} /\ a[Len(a)] # SEPARATOR_BYTE
      /\ Len(a \o b) = Len(a) + Len(b)
      /\ \A i \in 1 .. Len(a) + Len(b) : (a \o b)[i] = IF i <= Len(a) THEN a[i] ELSE b[i - Len(a)]
  <2>1. Len(a) \in 1 .. m - lo + 1 /\ lo + Len(a) - 1 = m
    BY <1>1
  <2>2. a[Len(a)] = s[m]
    BY <2>1, <1>1
  <2>3. a[Len(a)] # SEPARATOR_BYTE
    BY <2>2
  <2>4. Len(a) \in Nat \ {0} /\ Len(b) \in Nat \ {0}
    BY <1>1, <1>2
  <2>5. /\ Len(a \o b) = Len(a) + Len(b)
        /\ \A i \in 1 .. Len(a) + Len(b) :
             (a \o b)[i] = IF i <= Len(a) THEN a[i] ELSE b[i - Len(a)]
    <3>1. a \in Seq(Byte) /\ b \in Seq(Byte)
      BY <1>1, <1>2 DEF Bytes
    <3>2. QED
      BY <3>1, ConcatProperties
  <2>6. QED
    BY <2>3, <2>4, <2>5
<1>5. ASSUME NEW i \in 1 .. Len(a)
      PROVE  i \in AfterSeparator(a \o b) <=> i \in AfterSeparator(a)
  <2>1. CASE i = 1
    BY <2>1 DEF AfterSeparator
  <2>2. CASE i # 1
    <3>1. /\ i \in 2 .. Len(a) /\ i \in 2 .. Len(a) + Len(b)
          /\ i - 1 \in 1 .. Len(a) + Len(b) /\ i - 1 <= Len(a)
      BY <2>2, <1>4
    <3>2. (a \o b)[i - 1] = a[i - 1]
      BY <3>1, <1>4
    <3>3. QED
      BY <3>1, <3>2, <1>4 DEF AfterSeparator
  <2>3. QED
    BY <2>1, <2>2
<1>6. ASSUME NEW k \in 1 .. Len(b)
      PROVE  k + Len(a) \in AfterSeparator(a \o b) <=> k \in AfterSeparator(b)
  <2>1. /\ k + Len(a) \in 2 .. Len(a) + Len(b) /\ k + Len(a) - 1 \in 1 .. Len(a) + Len(b)
    BY <1>4
  <2>2. CASE k = 1
    <3>1. (a \o b)[k + Len(a) - 1] = a[Len(a)]
      BY <2>1, <2>2, <1>4
    <3>2. QED
      BY <3>1, <2>2, <1>4 DEF AfterSeparator
  <2>3. CASE k # 1
    <3>1. k \in 2 .. Len(b) /\ ~(k + Len(a) - 1 <= Len(a)) /\ (k + Len(a) - 1) - Len(a) = k - 1
      BY <2>3, <1>4
    <3>2. (a \o b)[k + Len(a) - 1] = b[k - 1]
      BY <2>1, <3>1, <1>4
    <3>3. QED
      BY <2>1, <3>1, <3>2, <1>4 DEF AfterSeparator
  <2>4. QED
    BY <2>2, <2>3
<1>7. /\ AfterSeparator(a) \in SUBSET (1 .. Len(a)) /\ AfterSeparator(b) \in SUBSET (1 .. Len(b))
      /\ AfterSeparator(a \o b) \in SUBSET (1 .. Len(a) + Len(b))
  <2>1. /\ \A i \in 2 .. Len(a) : i \in 1 .. Len(a)
        /\ \A i \in 2 .. Len(b) : i \in 1 .. Len(b)
        /\ \A i \in 2 .. Len(a) + Len(b) : i \in 1 .. Len(a) + Len(b)
    BY <1>4
  <2>2. QED
    BY <2>1, <1>4 DEF AfterSeparator
<1>8. Omit(a \o b, AfterSeparator(a \o b))
      = Omit(a, AfterSeparator(a)) \o Omit(b, AfterSeparator(b))
  <2>1. a \in Seq(Byte) /\ b \in Seq(Byte)
    BY <1>1, <1>2 DEF Bytes
  <2> DEFINE A == AfterSeparator(a)
             B == AfterSeparator(b)
             C == AfterSeparator(a \o b)
  <2>2. /\ A \in SUBSET (1 .. Len(a)) /\ B \in SUBSET (1 .. Len(b))
        /\ C \in SUBSET (1 .. Len(a \o b))
        /\ Together(C, Len(a), A, Len(b), B)
    BY <1>4, <1>5, <1>6, <1>7 DEF Together
  <2> HIDE DEF A, B, C
  <2>3. Omit(a \o b, C) = Omit(a, A) \o Omit(b, B)
    BY <2>1, <2>2, OmitConcatBytes
  <2>4. QED
    BY <2>3 DEF A, B, C
<1>9. QED
  BY <1>3, <1>8 DEF Unstuffed, a, b

-----------------------------------------------------------------------------
(* Frames on a line, by what the parser sees of them                       *)

\* Two separators at b, then to c the bytes of a header that fits.
HeaderAt(s, b, c, header) ==
  /\ s[b] = SEPARATOR_BYTE /\ s[b + 1] = SEPARATOR_BYTE
  /\ s[b + 2] # SEPARATOR_BYTE /\ s[c] # SEPARATOR_BYTE
  /\ \A i \in b + 3 .. c : ~WrongAt(s, i)
  /\ Raw(s, b + 2, c) = PURE_HEADER_SIZE
  /\ header = Unstuffed(SubSeq(s, b + 2, c))
  /\ HeaderSizeFits(header)

\* From behind c to z, the body that belongs to this header.
BodyAt(s, c, z, header) ==
  /\ s[z] # SEPARATOR_BYTE
  /\ \A i \in c + 2 .. z : ~WrongAt(s, i)
  /\ Raw(s, c + 1, z) = BodySize(header)
  /\ BodyIsRight(header, Unstuffed(SubSeq(s, c + 1, z)))

PlaceAt(s, b, c, z, header) ==
  [first |-> b, last |-> z,
   frame |-> ParsedFrame(header, Unstuffed(SubSeq(s, c + 1, z)))]

\* The sizes that the assumptions on the constants give.
LEMMA HeaderSizes ==
  /\ PURE_HEADER_SIZE \in Nat /\ PURE_HEADER_SIZE >= 3
  /\ FRAME_HEADER_SIZE = PURE_HEADER_SIZE + 2 /\ LongestBody \in Nat /\ LongestBody >= 3
  /\ \A header : HeaderSizeFits(header) =>
       BodySize(header) \in Nat /\ 1 <= BodySize(header) /\ BodySize(header) <= LongestBody
<1>1. /\ PURE_HEADER_SIZE \in Nat /\ PURE_HEADER_SIZE >= 3
      /\ FRAME_HEADER_SIZE = PURE_HEADER_SIZE + 2 /\ MAX_FRAME_SIZE \in Nat
      /\ MAX_FRAME_SIZE >= PURE_HEADER_SIZE
  BY SizesAssumption DEF PURE_HEADER_SIZE, FRAME_SEPARATORS_COUNT
<1>2. ASSUME NEW header, HeaderSizeFits(header)
      PROVE  BodySize(header) \in Nat /\ 1 <= BodySize(header) /\ BodySize(header) <= LongestBody
  <2>1. header[1] \in PURE_HEADER_SIZE .. MAX_FRAME_SIZE
    BY <1>2 DEF HeaderSizeFits
  <2>2. BodySize(header) = header[1] - PURE_HEADER_SIZE + 1
        \/ BodySize(header) = header[1] - PURE_HEADER_SIZE + 3
    BY Zenon DEF BodySize, HeaderDataSize
  <2>3. QED
    BY <1>1, <2>1, <2>2 DEF LongestBody
<1>3. QED
  BY <1>1, <1>2 DEF LongestBody

\* The header of a frame ends where the last of its bytes is no separator.
LEMMA HeaderEndsAt ==
  ASSUME NEW s \in Bytes, NEW a \in Nat \ {0}, NEW z \in Nat, a <= z, z <= Len(s),
         s[a] # SEPARATOR_BYTE, Raw(s, a, z) > PURE_HEADER_SIZE
  PROVE  \E c \in Nat : /\ a < c /\ c < z /\ s[c] # SEPARATOR_BYTE
                        /\ Raw(s, a, c) = PURE_HEADER_SIZE
<1> DEFINE Enough == {i \in a .. z : Raw(s, a, i) >= PURE_HEADER_SIZE}
           size == PURE_HEADER_SIZE
<1>0. size \in Nat /\ size >= 3
  BY HeaderSizes
<1>1. z \in Enough /\ Enough \subseteq Nat
  <2>1. Raw(s, a, z) \in Nat
    BY RawSteps
  <2>2. QED
    BY <2>1, <1>0
<1>2. PICK c \in Enough : \A i \in Enough : c <= i
  BY <1>1, LeastNatural
<1>3. c \in Nat /\ a <= c /\ c <= z /\ Raw(s, a, c) >= size /\ Raw(s, a, c) \in Nat
  BY <1>2, RawSteps
<1>4. Raw(s, a, a - 1) = 0 /\ Raw(s, a, a) = 1
  <2>1. a - 1 \in Int /\ a \in Int /\ a - 1 < a /\ a <= (a - 1) + 1 /\ (a - 1) + 1 = a
    OBVIOUS
  <2>2. Raw(s, a, a - 1) = 0
    BY <2>1, RawSteps
  <2>3. s[(a - 1) + 1] # SEPARATOR_BYTE
    BY <2>1
  <2>4. Raw(s, a, (a - 1) + 1) = Raw(s, a, a - 1) + 1
    BY <2>1, <2>3, RawSteps
  <2>5. QED
    BY <2>1, <2>2, <2>4
<1>5. a < c
  BY <1>0, <1>3, <1>4
<1>6. ~(Raw(s, a, c - 1) >= size) /\ Raw(s, a, c - 1) \in Nat
  <2>1. c - 1 \in a .. z /\ ~(c <= c - 1)
    BY <1>3, <1>5
  <2>2. c - 1 \notin Enough
    BY <2>1, <1>2
  <2>3. Raw(s, a, c - 1) \in Nat
    BY <2>1, RawSteps
  <2>4. QED
    BY <2>1, <2>2, <2>3
<1>7. /\ s[c] # SEPARATOR_BYTE => Raw(s, a, c) = Raw(s, a, c - 1) + 1
      /\ s[c] = SEPARATOR_BYTE => Raw(s, a, c) = Raw(s, a, c - 1)
  <2>1. c - 1 \in Int /\ a <= (c - 1) + 1 /\ (c - 1) + 1 = c
    BY <1>3
  <2>2. /\ s[(c - 1) + 1] # SEPARATOR_BYTE => Raw(s, a, (c - 1) + 1) = Raw(s, a, c - 1) + 1
        /\ s[(c - 1) + 1] = SEPARATOR_BYTE => Raw(s, a, (c - 1) + 1) = Raw(s, a, c - 1)
    BY <2>1, RawSteps
  <2>3. QED
    BY <2>1, <2>2
<1>8. s[c] # SEPARATOR_BYTE /\ Raw(s, a, c) = size
  BY <1>0, <1>3, <1>6, <1>7
<1>9. c # z
  BY <1>0, <1>8
<1>10. QED
  BY <1>3, <1>5, <1>8, <1>9

\* The payload of a frame, in its two parts.
LEMMA PayloadParts ==
  ASSUME NEW s \in Bytes, NEW a \in Nat \ {0}, NEW c \in Nat, NEW z \in Nat,
         a <= c, c < z, z <= Len(s), s[c] # SEPARATOR_BYTE, s[z] # SEPARATOR_BYTE,
         Raw(s, a, c) = PURE_HEADER_SIZE
  PROVE  LET payload == Unstuffed(SubSeq(s, a, z))
         IN  /\ Len(payload) = PURE_HEADER_SIZE + Raw(s, c + 1, z)
             /\ SubSeq(payload, 1, PURE_HEADER_SIZE) = Unstuffed(SubSeq(s, a, c))
             /\ SubSeq(payload, PURE_HEADER_SIZE + 1, Len(payload))
                  = Unstuffed(SubSeq(s, c + 1, z))
             /\ Len(Unstuffed(SubSeq(s, c + 1, z))) = Raw(s, c + 1, z)
<1> DEFINE size == PURE_HEADER_SIZE
           head == Unstuffed(SubSeq(s, a, c))
           body == Unstuffed(SubSeq(s, c + 1, z))
           payload == Unstuffed(SubSeq(s, a, z))
<1>1. head \in Bytes /\ Len(head) = size
  <2>1. c <= Len(s)
    BY DEF Bytes
  <2>2. QED
    BY <2>1, UnstuffedPart
<1>2. body \in Bytes /\ Len(body) = Raw(s, c + 1, z)
  <2>1. c + 1 \in Nat \ {0} /\ c + 1 <= z
    OBVIOUS
  <2>2. QED
    BY <2>1, UnstuffedPart
<1>3. payload = head \o body
  BY UnstuffedParts
<1> HIDE DEF head, body, payload, size
<1>4. head \in Seq(Byte) /\ body \in Seq(Byte) /\ Len(head) \in Nat /\ Len(body) \in Nat
  BY <1>1, <1>2 DEF Bytes
<1>5. head \o body \in Seq(Byte) /\ Len(head \o body) = Len(head) + Len(body)
  BY <1>4, ConcatProperties
<1>6. SubSeq(head \o body, 1, Len(head)) = head
  BY <1>4
<1>7. SubSeq(head \o body, Len(head) + 1, Len(head) + Len(body)) = body
  BY <1>4
<1>8. QED
  BY <1>1, <1>2, <1>3, <1>5, <1>6, <1>7 DEF head, body, payload, size

\* What the parser sees of a frame on the line.
LEMMA FrameParts ==
  ASSUME NEW s \in Bytes, NEW e \in FramesOn(s)
  PROVE  /\ e.first \in Nat \ {0} /\ e.last \in Nat /\ e.last <= Len(s)
         /\ \E c, header :
              /\ c \in Nat
              /\ e.first + 2 < c /\ c < e.last
              /\ HeaderAt(s, e.first, c, header) /\ BodyAt(s, c, e.last, header)
              /\ e = PlaceAt(s, e.first, c, e.last, header)
<1>1. PICK b \in 1 .. Len(s) - FRAME_HEADER_SIZE, z \in 1 .. Len(s) :
        /\ s[b] = SEPARATOR_BYTE /\ s[b + 1] = SEPARATOR_BYTE
        /\ z >= b + FRAME_HEADER_SIZE
        /\ IsFrame(SubSeq(s, b + FRAME_SEPARATORS_COUNT, z))
        /\ e = [first |-> b, last |-> z,
                frame |-> FrameOf(SubSeq(s, b + FRAME_SEPARATORS_COUNT, z))]
  <2>1. DOMAIN s = 1 .. Len(s)
    BY DEF Bytes
  <2>2. QED
    BY <2>1 DEF FramesOn
<1> DEFINE a == b + 2
           bytes == SubSeq(s, a, z)
           payload == Unstuffed(bytes)
<1>2. /\ b \in Nat \ {0} /\ z \in Nat /\ z <= Len(s) /\ a \in Nat \ {0} /\ a < z
      /\ PURE_HEADER_SIZE \in Nat
  <2>1. Len(s) \in Nat /\ FRAME_HEADER_SIZE \in Nat /\ FRAME_HEADER_SIZE >= 5
        /\ PURE_HEADER_SIZE \in Nat
    BY HeaderSizes DEF Bytes
  <2>2. QED
    BY <2>1, <1>1
<1>3. e.first = b /\ e.last = z /\ e.frame = FrameOf(bytes) /\ IsFrame(bytes)
  BY <1>1 DEF FRAME_SEPARATORS_COUNT
<1>4. Len(bytes) = z - a + 1 /\ bytes[1] = s[a] /\ bytes[Len(bytes)] = s[z]
  <2>1. Len(bytes) = z - a + 1 /\ \A i \in 1 .. z - a + 1 : bytes[i] = s[a + i - 1]
    BY <1>2, PartOf
  <2>2. 1 \in 1 .. z - a + 1 /\ z - a + 1 \in 1 .. z - a + 1 /\ a + 1 - 1 = a
        /\ a + (z - a + 1) - 1 = z
    BY <1>2
  <2> HIDE DEF a, bytes
  <2>3. bytes[1] = s[a + 1 - 1] /\ bytes[z - a + 1] = s[a + (z - a + 1) - 1]
    BY <2>1, <2>2
  <2>4. QED
    BY <2>1, <2>2, <2>3
<1>5. s[a] # SEPARATOR_BYTE /\ s[z] # SEPARATOR_BYTE /\ Misescaped(bytes) = {}
      /\ Len(payload) > PURE_HEADER_SIZE
  BY <1>3, <1>4 DEF IsFrame
<1> HIDE DEF a
<1>6. \A i \in a + 1 .. z : ~WrongAt(s, i)
  BY <1>2, <1>5, MisescapedPart
<1>7. Len(payload) = Raw(s, a, z)
  BY <1>2, <1>5, UnstuffedPart
<1>8. PICK c \in Nat : /\ a < c /\ c < z /\ s[c] # SEPARATOR_BYTE
                       /\ Raw(s, a, c) = PURE_HEADER_SIZE
  <2>1. Raw(s, a, z) > PURE_HEADER_SIZE /\ a <= z
    BY <1>2, <1>5, <1>7
  <2>2. QED
    BY <2>1, <1>2, <1>5, HeaderEndsAt
<1> DEFINE header == Unstuffed(SubSeq(s, a, c))
           body == Unstuffed(SubSeq(s, c + 1, z))
<1>9. /\ Len(payload) = PURE_HEADER_SIZE + Raw(s, c + 1, z)
      /\ SubSeq(payload, 1, PURE_HEADER_SIZE) = header
      /\ SubSeq(payload, PURE_HEADER_SIZE + 1, Len(payload)) = body
      /\ Len(body) = Raw(s, c + 1, z)
  <2>1. a <= c
    BY <1>2, <1>8
  <2>2. QED
    BY <2>1, <1>2, <1>5, <1>8, PayloadParts
<1> HIDE DEF header, body, payload, bytes
<1>10. HeaderSizeFits(header) /\ Len(body) = BodySize(header) /\ BodyIsRight(header, body)
  BY <1>3, <1>9 DEF IsFrame, payload
<1>11. e.frame = ParsedFrame(header, body)
  BY <1>3, <1>9 DEF FrameOf, payload
<1>12. HeaderAt(s, b, c, header)
  <2>1. \A i \in b + 3 .. c : ~WrongAt(s, i)
    BY <1>2, <1>6, <1>8 DEF a
  <2>2. QED
    BY <2>1, <1>1, <1>5, <1>8, <1>10 DEF HeaderAt, header, a
<1>13. BodyAt(s, c, z, header)
  <2>1. \A i \in c + 2 .. z : ~WrongAt(s, i)
    BY <1>2, <1>6, <1>8
  <2>2. QED
    BY <2>1, <1>5, <1>9, <1>10 DEF BodyAt, body
<1>14. e = PlaceAt(s, b, c, z, header)
  BY <1>1, <1>3, <1>11 DEF PlaceAt, body
<1>15. b + 2 < c
  BY <1>8 DEF a
<1>16. QED
  BY <1>2, <1>3, <1>8, <1>12, <1>13, <1>14, <1>15

\* A place of a line where a frame is, is one of its frames.
LEMMA FrameHere ==
  ASSUME NEW s \in Bytes, NEW b \in Nat \ {0}, NEW z \in Nat,
         b + FRAME_HEADER_SIZE <= z, z <= Len(s),
         s[b] = SEPARATOR_BYTE, s[b + 1] = SEPARATOR_BYTE,
         IsFrame(SubSeq(s, b + FRAME_SEPARATORS_COUNT, z))
  PROVE  [first |-> b, last |-> z,
          frame |-> FrameOf(SubSeq(s, b + FRAME_SEPARATORS_COUNT, z))] \in FramesOn(s)
<1> DEFINE Starts == {i \in 1 .. Len(s) - FRAME_HEADER_SIZE :
                        s[i] = SEPARATOR_BYTE /\ s[i + 1] = SEPARATOR_BYTE}
           Places == {p \in Starts \X DOMAIN s :
                        p[2] >= p[1] + FRAME_HEADER_SIZE
                        /\ IsFrame(SubSeq(s, p[1] + FRAME_SEPARATORS_COUNT, p[2]))}
<1>1. /\ FRAME_HEADER_SIZE \in Nat /\ FRAME_HEADER_SIZE >= 5 /\ Len(s) \in Nat
      /\ DOMAIN s = 1 .. Len(s)
  BY SizesAssumption DEF Bytes
<1>2. b \in Starts /\ z \in DOMAIN s
  BY <1>1
<1>3. <<b, z>> \in Places
  BY <1>1, <1>2
<1>4. FramesOn(s) = {[first |-> p[1], last |-> p[2],
                      frame |-> FrameOf(SubSeq(s, p[1] + FRAME_SEPARATORS_COUNT, p[2]))]
                      : p \in Places}
  BY DEF FramesOn
<1> HIDE DEF Places
<1>5. QED
  BY <1>3, <1>4

\* What the parser takes for a frame is one.
LEMMA PartsAreFrame ==
  ASSUME NEW s \in Bytes, NEW b \in Nat \ {0}, NEW c \in Nat, NEW z \in Nat, NEW header,
         b + 2 < c, c < z, z <= Len(s), HeaderAt(s, b, c, header), BodyAt(s, c, z, header)
  PROVE  PlaceAt(s, b, c, z, header) \in FramesOn(s)
<1> DEFINE a == b + 2
           bytes == SubSeq(s, a, z)
           payload == Unstuffed(bytes)
           body == Unstuffed(SubSeq(s, c + 1, z))
<1>1. /\ s[b] = SEPARATOR_BYTE /\ s[b + 1] = SEPARATOR_BYTE
      /\ s[a] # SEPARATOR_BYTE /\ s[c] # SEPARATOR_BYTE /\ s[z] # SEPARATOR_BYTE
      /\ Raw(s, a, c) = PURE_HEADER_SIZE /\ Raw(s, c + 1, z) = BodySize(header)
      /\ header = Unstuffed(SubSeq(s, a, c))
      /\ HeaderSizeFits(header) /\ BodyIsRight(header, body)
  BY DEF HeaderAt, BodyAt
<1>2. \A i \in a + 1 .. z : ~WrongAt(s, i)
  <2>1. ASSUME NEW i \in a + 1 .. z PROVE ~WrongAt(s, i)
    <3>1. CASE i <= c
      <4>1. i \in b + 3 .. c
        BY <3>1
      <4>2. QED
        BY <4>1 DEF HeaderAt
    <3>2. CASE i = c + 1
      BY <1>1, <3>2 DEF WrongAt
    <3>3. CASE i >= c + 2
      <4>1. i \in c + 2 .. z
        BY <3>3
      <4>2. QED
        BY <4>1 DEF BodyAt
    <3>4. QED
      BY <3>1, <3>2, <3>3
  <2>2. QED
    BY <2>1
<1>3. a \in Nat \ {0} /\ a < c /\ a < z /\ a <= c /\ a <= z
  OBVIOUS
<1>4. bytes[1] = s[a] /\ bytes[Len(bytes)] = s[z]
  <2>1. Len(bytes) = z - a + 1 /\ \A i \in 1 .. z - a + 1 : bytes[i] = s[a + i - 1]
    BY <1>3, PartOf
  <2>2. 1 \in 1 .. z - a + 1 /\ z - a + 1 \in 1 .. z - a + 1 /\ a + 1 - 1 = a
        /\ a + (z - a + 1) - 1 = z
    BY <1>3
  <2> HIDE DEF a, bytes
  <2>3. bytes[1] = s[a + 1 - 1] /\ bytes[z - a + 1] = s[a + (z - a + 1) - 1]
    BY <2>1, <2>2
  <2>4. QED
    BY <2>1, <2>2, <2>3
<1> HIDE DEF a
<1>5. Misescaped(bytes) = {}
  <2>1. \A w \in Misescaped(bytes) : w \in 2 .. z - a + 1 /\ WrongAt(s, a + w - 1)
    BY <1>3, MisescapedPart
  <2>2. ASSUME NEW w \in Misescaped(bytes) PROVE FALSE
    <3>1. w \in 2 .. z - a + 1 /\ WrongAt(s, a + w - 1)
      BY <2>1
    <3>2. a + w - 1 \in a + 1 .. z
      BY <3>1, <1>3
    <3>3. QED
      BY <3>1, <3>2, <1>2
  <2>3. QED
    BY <2>2
<1>6. /\ Len(payload) = PURE_HEADER_SIZE + Raw(s, c + 1, z)
      /\ SubSeq(payload, 1, PURE_HEADER_SIZE) = header
      /\ SubSeq(payload, PURE_HEADER_SIZE + 1, Len(payload)) = body
      /\ Len(body) = Raw(s, c + 1, z)
  BY <1>1, <1>3, PayloadParts, SMTT(30)
<1> HIDE DEF body, payload, bytes
<1>7. BodySize(header) \in Nat /\ BodySize(header) >= 1 /\ PURE_HEADER_SIZE \in Nat
      /\ FRAME_HEADER_SIZE = PURE_HEADER_SIZE + 2
  BY <1>1, HeaderSizes
<1>8. IsFrame(bytes)
  <2>1. Len(payload) > PURE_HEADER_SIZE
    BY <1>1, <1>6, <1>7
  <2>2. QED
    BY <2>1, <1>1, <1>4, <1>5, <1>6 DEF IsFrame, payload
<1>9. FrameOf(bytes) = ParsedFrame(header, body)
  BY <1>6 DEF FrameOf, payload
<1>10. z >= b + FRAME_HEADER_SIZE
  <2>1. Raw(s, a, z) = Raw(s, a, c) + Raw(s, c + 1, z)
    BY <1>3, RawSplit
  <2>2. Raw(s, a, z) <= z - a + 1
    <3>1. {i \in a .. z : s[i] # SEPARATOR_BYTE} \subseteq a .. z /\ a \in Int /\ z \in Int
          /\ a <= z + 1
      BY <1>3
    <3>2. QED
      BY <3>1, BetweenCount DEF Raw
  <2>3. QED
    BY <2>1, <2>2, <1>1, <1>3, <1>7 DEF a
<1>11. b \in 1 .. Len(s) - FRAME_HEADER_SIZE /\ z \in DOMAIN s
  <2>1. Len(s) \in Nat /\ DOMAIN s = 1 .. Len(s)
    BY DEF Bytes
  <2>2. QED
    BY <2>1, <1>7, <1>10
<1>12. bytes = SubSeq(s, b + FRAME_SEPARATORS_COUNT, z)
  BY DEF bytes, a, FRAME_SEPARATORS_COUNT
<1> HIDE DEF a
<1>13. [first |-> b, last |-> z, frame |-> FrameOf(bytes)] \in FramesOn(s)
  <2>1. b + FRAME_HEADER_SIZE <= z /\ z <= Len(s)
    BY <1>10, <1>7
  <2>2. IsFrame(SubSeq(s, b + FRAME_SEPARATORS_COUNT, z))
    BY <1>8, <1>12
  <2>3. QED
    BY <1>1, <1>12, <2>1, <2>2, FrameHere
<1>14. QED
  BY <1>9, <1>13 DEF PlaceAt, body

\* The count of bytes that are no separators says where such a byte is.
LEMMA RawPlace ==
  ASSUME NEW s, NEW lo \in Int, NEW p \in Int, NEW q \in Int, lo <= p, lo <= q,
         s[p] # SEPARATOR_BYTE, s[q] # SEPARATOR_BYTE, Raw(s, lo, p) = Raw(s, lo, q)
  PROVE  p = q
<1>1. Raw(s, lo, p) \in Nat /\ Raw(s, lo, q) \in Nat
  BY RawSteps
<1>2. ~(p < q)
  <2> SUFFICES ASSUME p < q PROVE FALSE
    OBVIOUS
  <2>1. lo <= p + 1
    OBVIOUS
  <2>2. Raw(s, lo, p) < Raw(s, lo, q)
    BY <2>1, RawLess
  <2>3. QED
    BY <2>2, <1>1
<1>3. ~(q < p)
  <2> SUFFICES ASSUME q < p PROVE FALSE
    OBVIOUS
  <2>1. lo <= q + 1
    OBVIOUS
  <2>2. Raw(s, lo, q) < Raw(s, lo, p)
    BY <2>1, RawLess
  <2>3. QED
    BY <2>2, <1>1
<1>4. QED
  BY <1>2, <1>3

\* What a frame on the line looks like to who has not yet seen its header.
LEMMA FrameOnLine ==
  ASSUME NEW s \in Bytes, NEW e \in FramesOn(s)
  PROVE  /\ e.first \in Nat \ {0} /\ e.last \in Nat /\ e.last <= Len(s)
         /\ e.first + 2 < e.last
         /\ s[e.first] = SEPARATOR_BYTE /\ s[e.first + 1] = SEPARATOR_BYTE
         /\ s[e.first + 2] # SEPARATOR_BYTE /\ s[e.last] # SEPARATOR_BYTE
         /\ \A i \in e.first + 3 .. e.last : ~WrongAt(s, i)
         /\ Raw(s, e.first + 2, e.last) > PURE_HEADER_SIZE
<1>1. PICK c, header :
        /\ c \in Nat
        /\ e.first + 2 < c /\ c < e.last
        /\ HeaderAt(s, e.first, c, header) /\ BodyAt(s, c, e.last, header)
  BY FrameParts
<1>2. e.first \in Nat \ {0} /\ e.last \in Nat /\ e.last <= Len(s)
  BY FrameParts
<1> DEFINE b == e.first
           z == e.last
<1> HIDE DEF b, z
<1>3. /\ s[b] = SEPARATOR_BYTE /\ s[b + 1] = SEPARATOR_BYTE
      /\ s[b + 2] # SEPARATOR_BYTE /\ s[c] # SEPARATOR_BYTE /\ s[z] # SEPARATOR_BYTE
      /\ HeaderSizeFits(header) /\ Raw(s, b + 2, c) = PURE_HEADER_SIZE
      /\ Raw(s, c + 1, z) = BodySize(header)
  BY <1>1 DEF HeaderAt, BodyAt, b, z
<1>4. b \in Nat /\ z \in Nat /\ c \in Nat /\ b + 2 < c /\ c < z
  BY <1>1, <1>2 DEF b, z
<1>5. ASSUME NEW i \in b + 3 .. z PROVE ~WrongAt(s, i)
  <2>1. CASE i <= c
    <3>1. i \in b + 3 .. c
      BY <2>1, <1>4
    <3>2. QED
      BY <3>1, <1>1 DEF HeaderAt, b
  <2>2. CASE i = c + 1
    BY <1>3, <2>2, <1>4 DEF WrongAt
  <2>3. CASE i >= c + 2
    <3>1. i \in c + 2 .. z
      BY <2>3, <1>4
    <3>2. QED
      BY <3>1, <1>1 DEF BodyAt, z
  <2>4. QED
    BY <2>1, <2>2, <2>3, <1>4
<1>6. Raw(s, b + 2, z) > PURE_HEADER_SIZE
  <2>1. b + 2 \in Int /\ z \in Int /\ c \in Int /\ b + 2 <= c + 1 /\ c < z
    BY <1>4
  <2>2. Raw(s, b + 2, c) < Raw(s, b + 2, z)
    BY <2>1, <1>3, RawLess
  <2>3. Raw(s, b + 2, z) \in Nat /\ PURE_HEADER_SIZE \in Nat
    BY <2>1, RawSteps, HeaderSizes
  <2>4. QED
    BY <2>2, <2>3, <1>3
<1>7. b + 2 < z
  BY <1>4
<1>8. QED
  BY <1>2, <1>3, <1>5, <1>6, <1>7 DEF b, z

\* Where escapes are right, no frame begins: its second separator would be a wrong
\* post byte.
LEMMA NoFrameBegins ==
  ASSUME NEW s \in Bytes, NEW e \in FramesOn(s), NEW g \in Nat, NEW q \in Nat,
         \A i \in g + 2 .. q : ~WrongAt(s, i)
  PROVE  ~(g < e.first /\ e.first < q)
<1> SUFFICES ASSUME g < e.first, e.first < q PROVE FALSE
  OBVIOUS
<1>1. e.first \in Nat \ {0} /\ s[e.first] = SEPARATOR_BYTE /\ s[e.first + 1] = SEPARATOR_BYTE
  BY FrameOnLine
<1>2. e.first + 1 \in g + 2 .. q /\ (e.first + 1) - 1 = e.first
  BY <1>1
<1>3. WrongAt(s, e.first + 1)
  <2>1. SEPARATOR_BYTE # SEPARATOR_POST_BYTE
    BY SizesAssumption DEF SEPARATOR_BYTE
  <2>2. QED
    BY <1>1, <1>2, <2>1 DEF WrongAt
<1>4. QED
  BY <1>2, <1>3

\* The same behind the start of a header, where the third byte is no separator.
LEMMA NoFrameBeginsInHeader ==
  ASSUME NEW s \in Bytes, NEW e \in FramesOn(s), NEW g \in Nat, NEW q \in Nat,
         s[g + 3] # SEPARATOR_BYTE, \A i \in g + 4 .. q : ~WrongAt(s, i)
  PROVE  ~(g + 1 < e.first /\ e.first < q)
<1> SUFFICES ASSUME g + 1 < e.first, e.first < q PROVE FALSE
  OBVIOUS
<1>1. e.first \in Nat \ {0} /\ s[e.first] = SEPARATOR_BYTE /\ s[e.first + 1] = SEPARATOR_BYTE
  BY FrameOnLine
<1>2. e.first # g + 2
  <2>1. e.first = g + 2 => e.first + 1 = g + 3
    OBVIOUS
  <2>2. QED
    BY <2>1, <1>1
<1>3. g + 2 < e.first
  BY <1>1, <1>2
<1>4. \A i \in (g + 2) + 2 .. q : ~WrongAt(s, i)
  OBVIOUS
<1>5. ~(g + 2 < e.first /\ e.first < q)
  <2>1. g + 2 \in Nat
    OBVIOUS
  <2>2. QED
    BY <2>1, <1>4, NoFrameBegins
<1>6. QED
  BY <1>3, <1>5

\* Two headers that begin at the same place are one.
LEMMA SameHeader ==
  ASSUME NEW s \in Bytes, NEW b \in Nat, NEW c \in Nat, NEW q \in Nat, NEW header,
         b + 2 <= c, b + 2 <= q, HeaderAt(s, b, c, header), s[q] # SEPARATOR_BYTE,
         Raw(s, b + 2, q) = PURE_HEADER_SIZE
  PROVE  q = c /\ header = Unstuffed(SubSeq(s, b + 2, q))
<1>1. Raw(s, b + 2, c) = PURE_HEADER_SIZE /\ s[c] # SEPARATOR_BYTE
      /\ header = Unstuffed(SubSeq(s, b + 2, c))
  BY DEF HeaderAt
<1>2. b + 2 \in Int /\ c \in Int /\ q \in Int
  OBVIOUS
<1>3. q = c
  BY <1>1, <1>2, RawPlace
<1>4. QED
  BY <1>1, <1>3

-----------------------------------------------------------------------------
(* The buffer                                                              *)

\* Bytes after bytes are bytes.
LEMMA ConcatIsBytes ==
  ASSUME NEW s \in Bytes, NEW t \in Bytes
  PROVE  s \o t \in Bytes /\ Len(s \o t) = Len(s) + Len(t)
BY ConcatProperties DEF Bytes

\* Dropping no more than there is.
LEMMA WithoutIsShorter ==
  ASSUME buffer_ \in Bytes, NEW n \in Nat, n <= Len(buffer_)
  PROVE  Without(n) \in Bytes /\ Len(Without(n)) = Len(buffer_) - n
<1>1. Len(buffer_) \in Nat
  BY DEF Bytes
<1>2. QED
  BY <1>1, SubSeqIsBytes DEF Without

\* Dropping no more than the buffer has keeps it a buffer.
LEMMA GiveUpKeeps ==
  ASSUME BufferTypes
  PROVE  /\ Least(Len(buffer_), pos_) \in Nat
         /\ Least(Len(buffer_), pos_) <= Len(buffer_)
         /\ Len(buffer_) \in Nat
BY DEF BufferTypes, Least, Bytes

-----------------------------------------------------------------------------
(* Positions agree with the buffer                                         *)

\* With these two, PositionsAgree is inductive: bytes wait to be dropped only while
\* the loop looks for a frame, separators are counted only in a frame.
NothingToDrop == phase # "loop" \/ frame_start_found_ => bytes_to_drop = 0
NothingCounted == ~frame_start_found_ => sep_count_ = 0
IInv == BufferTypes /\ PositionsAgree /\ NothingToDrop /\ NothingCounted

\* The parser starts with positions that agree.
LEMMA InitIInv == Init => IInv
<1> SUFFICES ASSUME Init PROVE IInv
  OBVIOUS
<1>1. <<>> \in Bytes /\ Len(<<>>) = 0
  BY DEF Bytes
<1>2. line \in Bytes /\ Len(line) \in Nat
  BY ReceiverAssumption DEF Init, Bytes
<1>3. received = 0 /\ buffer_ = <<>> /\ pos_ = 0 /\ sep_count_ = 0 /\ bytes_to_drop = 0
      /\ buf_size = 0 /\ phase = "read" /\ frame_start_found_ = FALSE
  BY DEF Init
<1>4. frame_start_found_ \in BOOLEAN /\ (phase # "loop" \/ frame_start_found_ => bytes_to_drop = 0)
  BY <1>3, Zenon
<1>5. received \in 0 .. Len(line) /\ 0 <= Capacity
  BY <1>2, <1>3, ReceiverAssumption
<1>6. BufferTypes
  BY <1>1, <1>2, <1>3, <1>4, <1>5 DEF BufferTypes
<1>7. PositionsAgree
  BY <1>1, <1>3 DEF PositionsAgree
<1>8. QED
  BY <1>3, <1>4, <1>6, <1>7 DEF IInv, NothingToDrop, NothingCounted

\* A step that leaves line and received, and drops n bytes of the buffer.
LEMMA DropKeepsTypes ==
  ASSUME BufferTypes, NEW n \in Nat, n <= Len(buffer_),
         buffer_' = Without(n), UNCHANGED <<line, received>>
  PROVE  /\ line' \in Bytes /\ received' \in 0 .. Len(line')
         /\ buffer_' \in Bytes /\ Len(buffer_') = Len(buffer_) - n
         /\ Len(buffer_') \in Nat /\ Len(buffer_') <= Capacity
<1>1. buffer_' \in Bytes /\ Len(buffer_') = Len(buffer_) - n
  BY WithoutIsShorter DEF BufferTypes
<1>2. Len(buffer_) \in Nat /\ Len(buffer_) <= Capacity
  BY DEF BufferTypes, Bytes
<1>3. QED
  BY <1>1, <1>2, ReceiverAssumption DEF BufferTypes

\* read_data adds bytes behind those looked at, or gives the partial frame up.
LEMMA ReadKeepsIInv ==
  ASSUME IInv, NEW count \in Counts, read_data(count)
  PROVE  IInv'
<1> DEFINE chunk == SubSeq(line, received + 1, received + count)
<1> USE DEF IInv
<1>1. count \in Nat /\ received \in Nat /\ Len(line) \in Nat /\ Len(buffer_) \in Nat
      /\ Capacity \in Nat
  BY ReceiverAssumption DEF BufferTypes, Bytes
<1>2. count <= Capacity /\ received + count <= Len(line)
  BY <1>1 DEF read_data, Least
<1>3. chunk \in Bytes /\ Len(chunk) = count
  <2>1. received + count \in Nat /\ received + 1 \in Nat \ {0}
    BY <1>1
  <2>2. QED
    BY <2>1, <1>1, <1>2, SubSeqIsBytes DEF BufferTypes
<1>4. CASE ReadWithSpace(count)
  <2>1. buffer_' \in Bytes /\ Len(buffer_') = Len(buffer_) + count
    BY <1>3, <1>4, ConcatIsBytes DEF BufferTypes, ReadWithSpace
  <2>2. Len(buffer_') <= Capacity
    BY <2>1, <1>1, <1>4 DEF ReadWithSpace
  <2>3. BufferTypes' /\ PositionsAgree' /\ NothingToDrop'
    BY <1>1, <1>2, <1>4, <2>1, <2>2
    DEF BufferTypes, PositionsAgree, NothingToDrop, read_data, ReadWithSpace, parser
  <2>4. NothingCounted'
    BY <1>4 DEF NothingCounted, ReadWithSpace, parser
  <2>5. QED
    BY <2>3, <2>4
<1>5. CASE ReadWithOverflow(count)
  <2> DEFINE excess == count - (Capacity - Len(buffer_))
  <2>1. excess \in Nat /\ excess <= Len(buffer_) /\ Len(buffer_) <= Capacity
    BY <1>1, <1>2, <1>5 DEF ReadWithOverflow, BufferTypes
  <2>2. Without(excess) \in Bytes /\ Len(Without(excess)) = Len(buffer_) - excess
    BY <2>1, WithoutIsShorter DEF BufferTypes
  <2>3. buffer_' \in Bytes /\ Len(buffer_') = Len(buffer_) - excess + count
    BY <1>3, <1>5, <2>2, ConcatIsBytes DEF ReadWithOverflow
  <2>4. Len(buffer_') = Capacity
    BY <1>1, <2>1, <2>3
  <2>5. pos_' \in Nat /\ sep_count_' \in Nat /\ frame_start_found_' \in BOOLEAN
        /\ pos_' <= pos_ /\ sep_count_' <= pos_' /\ NothingCounted'
    <3>1. CASE frame_start_found_
      <4>1. ForgetFrame
        BY <1>5, <3>1, Zenon DEF ReadWithOverflow, ForgetStarted
      <4>2. frame_start_found_' \in BOOLEAN
        BY <4>1, Zenon DEF ForgetFrame
      <4>3. QED
        BY <4>1, <4>2 DEF ForgetFrame, BufferTypes, NothingCounted
    <3>2. CASE ~frame_start_found_
      <4>1. UNCHANGED parser
        BY <1>5, <3>2, Zenon DEF ReadWithOverflow, ForgetStarted
      <4>2. QED
        BY <4>1 DEF parser, BufferTypes, PositionsAgree, NothingCounted
    <3>3. QED
      BY <3>1, <3>2
  <2>6. bytes_to_drop' = 0 /\ phase' = "process" /\ buf_size' = buf_size
        /\ line' = line /\ received' = received + count
    BY DEF read_data, NothingToDrop
  <2>7. BufferTypes'
    <3>1. received' \in 0 .. Len(line')
      BY <1>1, <1>2, <2>6
    <3>2. QED
      BY <3>1, <1>1, <2>3, <2>4, <2>5, <2>6 DEF BufferTypes
  <2>8. PositionsAgree'
    <3>1. pos_' <= Len(buffer_')
      BY <1>1, <2>1, <2>4, <2>5 DEF BufferTypes, PositionsAgree
    <3>2. bytes_to_drop' <= pos_'
      BY <2>5, <2>6
    <3>3. QED
      BY <3>1, <3>2, <2>5, <2>6 DEF PositionsAgree
  <2>9. NothingToDrop'
    BY <2>6 DEF NothingToDrop
  <2>10. QED
    BY <2>5, <2>7, <2>8, <2>9
<1>6. QED
  BY <1>4, <1>5 DEF read_data

\* Where every step that gives up the partial frame ends.
LEMMA ForgetGivesIInv ==
  ASSUME ForgetFrame, line' \in Bytes, received' \in 0 .. Len(line'),
         buffer_' \in Bytes, Len(buffer_') \in Nat, Len(buffer_') <= Capacity,
         buf_size' \in Nat, bytes_to_drop' = 0,
         phase' \in {"read", "process", "loop"},
         phase' = "loop" => buf_size' = Len(buffer_')
  PROVE  IInv'
<1>1. pos_' = 0 /\ sep_count_' = 0 /\ frame_start_found_' = FALSE
  BY DEF ForgetFrame
<1>2. frame_start_found_' \in BOOLEAN
  BY <1>1, Zenon
<1>3. BufferTypes'
  BY <1>1, <1>2 DEF BufferTypes
<1>4. PositionsAgree'
  BY <1>1 DEF PositionsAgree
<1>5. QED
  BY <1>1, <1>3, <1>4 DEF IInv, NothingToDrop, NothingCounted

\* reset_protocol and clear_ give the partial frame up.
LEMMA ResetKeepsIInv ==
  ASSUME IInv, Reset
  PROVE  IInv'
<1> USE DEF IInv
<1>1. CASE reset_protocol
  <2>1. bytes_to_drop' = 0 /\ UNCHANGED <<line, received, phase, buf_size>>
        /\ phase' = "read" /\ ForgetFrame
        /\ buffer_' = Without(Least(Len(buffer_), pos_))
    BY <1>1 DEF reset_protocol, NothingToDrop
  <2>2. /\ line' \in Bytes /\ received' \in 0 .. Len(line') /\ buffer_' \in Bytes
        /\ Len(buffer_') \in Nat /\ Len(buffer_') <= Capacity
    BY <2>1, GiveUpKeeps, DropKeepsTypes
  <2>3. QED
    BY <2>1, <2>2, ForgetGivesIInv DEF BufferTypes
<1>2. CASE clear_
  <2>1. bytes_to_drop' = 0 /\ UNCHANGED <<line, received, phase, buf_size>>
        /\ phase' = "read" /\ ForgetFrame /\ buffer_' = <<>>
    BY <1>2 DEF clear_, NothingToDrop
  <2>2. buffer_' \in Bytes /\ Len(buffer_') = 0
    BY <2>1 DEF Bytes
  <2>3. QED
    BY <2>1, <2>2, ForgetGivesIInv, ReceiverAssumption DEF BufferTypes
<1>3. QED
  BY <1>1, <1>2 DEF Reset

\* process_data starts its loop with the size that the buffer has, after a timeout too.
LEMMA ProcessKeepsIInv ==
  ASSUME IInv, process_data
  PROVE  IInv'
<1> USE DEF IInv
<1>1. bytes_to_drop' = 0 /\ UNCHANGED <<line, received>> /\ buf_size' = Len(buffer_')
      /\ phase' \in {"read", "loop"}
  BY DEF process_data
<1>2. CASE FrameTimesOut
  <2>1. /\ line' \in Bytes /\ received' \in 0 .. Len(line') /\ buffer_' \in Bytes
        /\ Len(buffer_') \in Nat /\ Len(buffer_') <= Capacity
    BY <1>1, <1>2, GiveUpKeeps, DropKeepsTypes DEF FrameTimesOut
  <2>2. ForgetFrame
    BY <1>2 DEF FrameTimesOut
  <2>3. QED
    BY <1>1, <2>1, <2>2, ForgetGivesIInv
<1>3. CASE UNCHANGED <<buffer_, parser, lost, age>>
  <2>1. BufferTypes'
    <3>1. Len(buffer_) \in Nat
      BY DEF BufferTypes, Bytes
    <3>2. QED
      BY <1>1, <1>3, <3>1 DEF BufferTypes, parser
  <2>2. PositionsAgree'
    BY <1>1, <1>3 DEF PositionsAgree, parser, BufferTypes
  <2>3. QED
    BY <1>1, <1>3, <2>1, <2>2 DEF NothingToDrop, NothingCounted, parser
<1>4. FrameTimesOut \/ UNCHANGED <<buffer_, parser, lost, age>>
  BY Zenon DEF process_data
<1>5. QED
  BY <1>2, <1>3, <1>4

\* pop, drop and Tick leave alone what IInv speaks of.
LEMMA OthersKeepIInv ==
  ASSUME IInv, UNCHANGED <<line, received, buffer_, pos_, sep_count_, frame_start_found_,
                           bytes_to_drop, buf_size, phase>>
  PROVE  IInv'
BY DEF IInv, BufferTypes, PositionsAgree, NothingToDrop, NothingCounted

-----------------------------------------------------------------------------
(* The turns of the loop                                                   *)

\* A turn has a byte to look at.
LEMMA TurnHasByte ==
  ASSUME IInv, Turn
  PROVE  /\ phase = "loop" /\ buf_size = Len(buffer_) /\ Len(buffer_) \in Nat
         /\ pos_ + 1 \in Nat \ {0} /\ pos_ + 1 <= Len(buffer_)
BY DEF IInv, Turn, MoreBytes, BufferTypes, PositionsAgree, Bytes

\* A byte that is no more than looked at moves pos_ on.
LEMMA LookKeepsIInv ==
  ASSUME IInv, Turn, UNCHANGED <<line, received, buffer_, frame_start_found_, phase, buf_size>>,
         pos_' = pos_ + 1, sep_count_' \in Nat, sep_count_' <= pos_',
         bytes_to_drop' \in Nat, bytes_to_drop' <= pos_',
         frame_start_found_ => bytes_to_drop' = 0,
         ~frame_start_found_ => sep_count_' = 0
  PROVE  IInv'
<1>1. BufferTypes'
  BY DEF IInv, BufferTypes
<1>2. PositionsAgree'
  BY TurnHasByte DEF IInv, PositionsAgree
<1>3. NothingToDrop'
  <2>1. phase' = "loop"
    BY TurnHasByte
  <2>2. QED
    BY <2>1, Zenon DEF NothingToDrop
<1>4. NothingCounted'
  BY Zenon DEF NothingCounted
<1>5. QED
  BY <1>1, <1>2, <1>3, <1>4 DEF IInv

\* Before a frame, a turn drops no more than it has looked at.
LEMMA ScanKeepsIInv ==
  ASSUME IInv, ScanSeparator \/ ScanGarbage
  PROVE  IInv'
<1>1. Turn /\ ~frame_start_found_ /\ pos_' = pos_ + 1
      /\ UNCHANGED <<line, received, buffer_, sep_count_, frame_start_found_, phase, buf_size>>
  BY DEF ScanSeparator, ScanGarbage
<1>2. pos_ \in Nat /\ sep_count_ \in Nat /\ sep_count_ <= pos_ /\ bytes_to_drop \in Nat
      /\ bytes_to_drop <= pos_
  BY DEF IInv, BufferTypes, PositionsAgree
<1>3. bytes_to_drop' \in Nat /\ bytes_to_drop' <= pos_ + 1
  BY <1>2 DEF ScanSeparator, ScanGarbage, FRAME_SEPARATORS_COUNT
<1>4. sep_count_' = 0
  BY <1>1 DEF IInv, NothingCounted
<1>5. QED
  BY <1>1, <1>2, <1>3, <1>4, LookKeepsIInv

\* The start of a frame moves to the front of the buffer.
LEMMA ScanStartKeepsIInv ==
  ASSUME IInv, ScanStart
  PROVE  IInv'
<1>1. Turn /\ phase' = phase /\ frame_start_found_' = TRUE /\ bytes_to_drop' = 0
      /\ UNCHANGED <<line, received, sep_count_>>
      /\ buffer_' = Without(bytes_to_drop) /\ buf_size' = buf_size - bytes_to_drop
      /\ pos_' = pos_ - bytes_to_drop + 1 /\ pos_ - bytes_to_drop = FRAME_SEPARATORS_COUNT
  BY DEF ScanStart
<1>2. pos_ \in Nat /\ sep_count_ \in Nat /\ sep_count_ <= pos_ /\ bytes_to_drop \in Nat
      /\ bytes_to_drop <= pos_
  BY DEF IInv, BufferTypes, PositionsAgree
<1>3. sep_count_ = 0
  BY DEF IInv, NothingCounted, ScanStart
<1>4. bytes_to_drop <= Len(buffer_) /\ pos_ <= Len(buffer_) /\ Len(buffer_) \in Nat
      /\ buf_size = Len(buffer_) /\ pos_ + 1 <= Len(buffer_) /\ phase = "loop"
  BY <1>1, <1>2, TurnHasByte
<1>5. /\ line' \in Bytes /\ received' \in 0 .. Len(line') /\ buffer_' \in Bytes
      /\ Len(buffer_') = Len(buffer_) - bytes_to_drop
      /\ Len(buffer_') \in Nat /\ Len(buffer_') <= Capacity
  BY <1>1, <1>2, <1>4, DropKeepsTypes DEF IInv
<1>6. frame_start_found_' \in BOOLEAN
  BY <1>1, Zenon
<1>7. BufferTypes'
  BY <1>1, <1>2, <1>4, <1>5, <1>6 DEF BufferTypes
<1>8. PositionsAgree'
  BY <1>1, <1>2, <1>3, <1>4, <1>5 DEF PositionsAgree
<1>9. NothingToDrop' /\ NothingCounted'
  BY <1>1, <1>3 DEF NothingToDrop, NothingCounted
<1>10. QED
  BY <1>7, <1>8, <1>9 DEF IInv

\* The end of the loop drops no more than was looked at.
LEMMA ScanEndKeepsIInv ==
  ASSUME IInv, ScanEnd
  PROVE  IInv'
<1>1. phase' = "read" /\ bytes_to_drop' = 0 /\ UNCHANGED <<line, received, sep_count_, buf_size>>
      /\ buffer_' = Without(bytes_to_drop) /\ pos_' = pos_ - bytes_to_drop
      /\ frame_start_found_' = frame_start_found_
  BY DEF ScanEnd
<1>2. pos_ \in Nat /\ sep_count_ \in Nat /\ sep_count_ <= pos_ /\ bytes_to_drop \in Nat
      /\ bytes_to_drop <= pos_ /\ pos_ <= Len(buffer_) /\ Len(buffer_) \in Nat
  BY DEF IInv, BufferTypes, PositionsAgree, Bytes
<1>3. /\ line' \in Bytes /\ received' \in 0 .. Len(line') /\ buffer_' \in Bytes
      /\ Len(buffer_') = Len(buffer_) - bytes_to_drop
      /\ Len(buffer_') \in Nat /\ Len(buffer_') <= Capacity
  BY <1>1, <1>2, DropKeepsTypes DEF IInv
<1>4. sep_count_ <= pos_ - bytes_to_drop
  <2>1. CASE frame_start_found_
    BY <1>2, <2>1 DEF IInv, NothingToDrop
  <2>2. CASE ~frame_start_found_
    BY <1>2, <2>2 DEF IInv, NothingCounted
  <2>3. QED
    BY <2>1, <2>2
<1>5. BufferTypes'
  BY <1>1, <1>2, <1>3 DEF IInv, BufferTypes
<1>6. PositionsAgree'
  BY <1>1, <1>2, <1>3, <1>4 DEF PositionsAgree
<1>7. NothingToDrop' /\ NothingCounted'
  BY <1>1 DEF IInv, NothingToDrop, NothingCounted
<1>8. QED
  BY <1>5, <1>6, <1>7 DEF IInv

\* A byte of a frame is counted once, as a separator or not.
LEMMA FrameByteKeepsIInv ==
  ASSUME IInv, FrameByte
  PROVE  IInv'
<1>1. Turn /\ frame_start_found_ /\ pos_' = pos_ + 1 /\ sep_count_' = sep_count_ + Separator
      /\ UNCHANGED <<line, received, buffer_, frame_start_found_, phase, buf_size, bytes_to_drop>>
  BY DEF FrameByte
<1>2. pos_ \in Nat /\ sep_count_ \in Nat /\ sep_count_ <= pos_ /\ bytes_to_drop \in Nat
      /\ bytes_to_drop <= pos_ /\ Separator \in {0, 1}
  BY DEF IInv, BufferTypes, PositionsAgree, Separator
<1>3. bytes_to_drop = 0
  BY <1>1, Zenon DEF IInv, NothingToDrop
<1>4. QED
  BY <1>1, <1>2, <1>3, LookKeepsIInv

\* Positions of wrong post bytes are positions of the buffer looked at, from the
\* second on.
LEMMA WrongIsInStage ==
  ASSUME IInv, Turn, NEW w \in Wrong
  PROVE  w \in Nat /\ 2 <= w /\ w <= pos_ + 1
<1>1. Len(Stage) = pos_ + 1
  BY TurnHasByte, SubSeqIsBytes DEF Stage, IInv, BufferTypes
<1>2. w \in 2 .. Len(Stage)
  BY DEF Wrong, Misescaped, AfterSeparator
<1>3. QED
  BY <1>1, <1>2, TurnHasByte

\* After a wrong post byte the buffer starts at the separator before it.
LEMMA WrongPostByteKeepsIInv ==
  ASSUME IInv, WrongPostByte
  PROVE  IInv'
<1>1. PICK w \in Wrong : buffer_' = Without(w - 2)
  BY DEF WrongPostByte, Resume
<1>2. Turn /\ frame_start_found_ /\ ForgetFrame /\ buf_size' = Len(buffer_')
      /\ UNCHANGED <<line, received, phase, bytes_to_drop>>
  BY DEF WrongPostByte
<1>3. w - 2 \in Nat /\ w - 2 <= Len(buffer_)
  BY <1>2, WrongIsInStage, TurnHasByte
<1>4. /\ line' \in Bytes /\ received' \in 0 .. Len(line') /\ buffer_' \in Bytes
      /\ Len(buffer_') \in Nat /\ Len(buffer_') <= Capacity
  BY <1>1, <1>2, <1>3, DropKeepsTypes DEF IInv
<1>5. bytes_to_drop = 0
  BY <1>2, Zenon DEF IInv, NothingToDrop
<1>6. phase' = "loop"
  BY <1>2, TurnHasByte
<1>7. QED
  BY <1>2, <1>4, <1>5, <1>6, ForgetGivesIInv

\* What both ends of a stage do to the buffer.
LEMMA StageGone ==
  ASSUME IInv, Turn, frame_start_found_, buffer_' = Without(pos_ + 1),
         UNCHANGED <<line, received, phase, bytes_to_drop>>
  PROVE  /\ line' \in Bytes /\ received' \in 0 .. Len(line') /\ buffer_' \in Bytes
         /\ Len(buffer_') \in Nat /\ Len(buffer_') <= Capacity
         /\ Len(buffer_') = buf_size - (pos_ + 1)
         /\ bytes_to_drop' = 0 /\ phase' = "loop"
<1>1. bytes_to_drop = 0
  BY Zenon DEF IInv, NothingToDrop
<1>2. QED
  BY <1>1, TurnHasByte, DropKeepsTypes DEF IInv

\* The end of a header takes the header out of the buffer.
LEMMA HeaderEndKeepsIInv ==
  ASSUME IInv, HeaderEnd
  PROVE  IInv'
<1>1. Turn /\ frame_start_found_ /\ buffer_' = Without(pos_ + 1)
      /\ UNCHANGED <<line, received, phase, bytes_to_drop>>
      /\ buf_size' = buf_size - (pos_ + 1)
  BY DEF HeaderEnd
<1>2. /\ line' \in Bytes /\ received' \in 0 .. Len(line') /\ buffer_' \in Bytes
      /\ Len(buffer_') \in Nat /\ Len(buffer_') <= Capacity
      /\ buf_size' = Len(buffer_') /\ bytes_to_drop' = 0 /\ phase' = "loop"
  BY <1>1, StageGone
<1>3. CASE ForgetFrame
  BY <1>2, <1>3, ForgetGivesIInv
<1>4. CASE pos_' = 0 /\ sep_count_' = 0 /\ frame_start_found_' = frame_start_found_
  <2>1. BufferTypes'
    BY <1>2, <1>4 DEF IInv, BufferTypes
  <2>2. PositionsAgree'
    BY <1>2, <1>4 DEF PositionsAgree
  <2>3. QED
    BY <1>2, <1>4, <2>1, <2>2 DEF IInv, NothingToDrop, NothingCounted
<1>5. ForgetFrame \/ (pos_' = 0 /\ sep_count_' = 0 /\ frame_start_found_' = frame_start_found_)
  BY Zenon DEF HeaderEnd
<1>6. QED
  BY <1>3, <1>4, <1>5

\* The end of a body takes the body out of the buffer.
LEMMA BodyEndKeepsIInv ==
  ASSUME IInv, BodyEnd
  PROVE  IInv'
<1>1. Turn /\ frame_start_found_ /\ buffer_' = Without(pos_ + 1)
      /\ UNCHANGED <<line, received, phase, bytes_to_drop>>
      /\ buf_size' = Len(buffer_') /\ ForgetFrame
  BY DEF BodyEnd
<1>2. QED
  BY <1>1, StageGone, ForgetGivesIInv

-----------------------------------------------------------------------------
(* Every step keeps the positions                                          *)

\* So every step keeps IInv.
LEMMA NextKeepsIInv ==
  ASSUME IInv, [Next \/ Reset]_vars
  PROVE  IInv'
<1>1. CASE \E count \in Counts : read_data(count)
  BY <1>1, ReadKeepsIInv
<1>2. CASE process_data
  BY <1>2, ProcessKeepsIInv
<1>3. CASE Loop
  BY <1>3, ScanKeepsIInv, ScanStartKeepsIInv, ScanEndKeepsIInv, FrameByteKeepsIInv,
     WrongPostByteKeepsIInv, HeaderEndKeepsIInv, BodyEndKeepsIInv DEF Loop
<1>4. CASE pop \/ \E n \in 1 .. Len(incoming_queue_) : drop(n)
  BY <1>4, OthersKeepIInv DEF pop, drop, parser
<1>5. CASE Tick
  BY <1>5, OthersKeepIInv DEF Tick, parser
<1>6. CASE Reset
  BY <1>6, ResetKeepsIInv
<1>7. CASE UNCHANGED vars
  BY <1>7, OthersKeepIInv DEF vars, parser
<1>8. QED
  BY <1>1, <1>2, <1>3, <1>4, <1>5, <1>6, <1>7 DEF Next

\* The invariant of the receiver is inductive: for every line, every way of cutting
\* it into reads and every capacity, also with resets in between.
THEOREM ReceiverInvariant == SpecWithResets => []IInv
<1>1. Init => IInv
  BY InitIInv
<1>2. IInv /\ [Next \/ Reset]_vars => IInv'
  BY NextKeepsIInv
<1>3. QED
  BY <1>1, <1>2, PTL DEF SpecWithResets

\* process_data never looks outside its buffer, and none of its unsigned
\* differences (pos_ - sep_count_, pos_ - bytes_to_drop, buf_size - pos_) wraps.
THEOREM PositionsAlwaysAgree == SpecWithResets => []PositionsAgree
<1>1. IInv => PositionsAgree
  BY DEF IInv
<1>2. QED
  BY <1>1, ReceiverInvariant, PTL

-----------------------------------------------------------------------------
(* The loop ends                                                           *)

\* What is left to do for process_data: bytes of the buffer, the header that is
\* given up with a wrong body, and bytes not looked at, in this order.  A wrong
\* post byte at the front of a body makes the parser start over with the bytes it
\* has, so the bytes alone do not tell that it comes to an end.
HeaderRead == IF current_frame_ = <<>> THEN 0 ELSE 1
TurnsLeft ==
  (2 * Len(buffer_) + HeaderRead) * (Capacity + 1) + (Len(buffer_) - pos_)

\* A smaller first part makes up for any second part.
LEMMA FirstPartDecides ==
  ASSUME NEW a \in Nat, NEW b \in Nat, NEW c \in Nat, NEW x \in 0 .. c, NEW y \in 0 .. c,
         a < b \/ (a = b /\ x < y)
  PROVE  a * (c + 1) + x < b * (c + 1) + y
<1>1. CASE a = b /\ x < y
  <2>1. a * (c + 1) \in Int
    OBVIOUS
  <2>. QED
    BY <1>1, <2>1
<1>2. CASE a < b
  <2>1. PICK k \in Nat : b = a + 1 + k
    <3>1. b - a - 1 \in Nat /\ b = a + 1 + (b - a - 1)
      BY <1>2
    <3>. QED
      BY <3>1
  <2>2. b * (c + 1) = a * (c + 1) + (c + 1) + k * (c + 1)
    BY <2>1
  <2>3. k * (c + 1) \in Nat /\ a * (c + 1) \in Nat
    OBVIOUS
  <2>. QED
    BY <2>2, <2>3
<1>. QED
  BY <1>1, <1>2

LEMMA TurnsLeftNatural ==
  ASSUME IInv
  PROVE  /\ Len(buffer_) \in Nat /\ pos_ \in Nat /\ Len(buffer_) - pos_ \in 0 .. Capacity
         /\ 2 * Len(buffer_) + HeaderRead \in Nat /\ Capacity \in Nat /\ TurnsLeft \in Nat
<1>1. /\ Len(buffer_) \in Nat /\ pos_ \in Nat /\ Len(buffer_) - pos_ \in 0 .. Capacity
      /\ Capacity \in Nat
  BY ReceiverAssumption DEF IInv, BufferTypes, PositionsAgree, Bytes
<1>2. 2 * Len(buffer_) + HeaderRead \in Nat
  BY <1>1 DEF HeaderRead
<1>3. (2 * Len(buffer_) + HeaderRead) * (Capacity + 1) \in Nat
  BY <1>1, <1>2
<1>. QED
  BY <1>1, <1>2, <1>3 DEF TurnsLeft

\* The buffer, then the header, then the bytes not looked at become less.
LEMMA LessLeft ==
  ASSUME IInv, IInv',
         \/ Len(buffer_') < Len(buffer_)
         \/ Len(buffer_') <= Len(buffer_) /\ HeaderRead' < HeaderRead
         \/ /\ Len(buffer_') <= Len(buffer_) /\ HeaderRead' <= HeaderRead
            /\ Len(buffer_') - pos_' < Len(buffer_) - pos_
  PROVE  TurnsLeft' < TurnsLeft
<1>. DEFINE b == 2 * Len(buffer_) + HeaderRead
            a == 2 * Len(buffer_') + HeaderRead'
            y == Len(buffer_) - pos_
            x == Len(buffer_') - pos_'
<1>1. /\ Len(buffer_) \in Nat /\ b \in Nat /\ y \in 0 .. Capacity /\ Capacity \in Nat
      /\ Len(buffer_') \in Nat /\ a \in Nat /\ x \in 0 .. Capacity
  <2>1. /\ Len(buffer_) \in Nat /\ Len(buffer_') \in Nat /\ Capacity \in Nat
        /\ y \in 0 .. Capacity /\ x \in 0 .. Capacity
    <3>1. /\ buffer_' \in Seq(Byte) /\ Len(buffer_') <= Capacity /\ pos_' \in Nat
          /\ pos_' <= Len(buffer_')
      BY DEF IInv, BufferTypes, PositionsAgree, Bytes
    <3>2. Len(buffer_') \in Nat
      BY <3>1, LenProperties
    <3>. QED
      BY <3>1, <3>2, TurnsLeftNatural
  <2>2. HeaderRead \in {0, 1} /\ HeaderRead' \in {0, 1}
    BY DEF HeaderRead
  <2>. QED
    BY <2>1, <2>2
<1>2. HeaderRead \in {0, 1} /\ HeaderRead' \in {0, 1}
  BY DEF HeaderRead
<1>3. a < b \/ (a = b /\ x < y)
  BY <1>1, <1>2
<1>4. TurnsLeft = b * (Capacity + 1) + y /\ TurnsLeft' = a * (Capacity + 1) + x
  BY DEF TurnsLeft
<1>. HIDE DEF a, b, x, y
<1>. QED
  BY <1>1, <1>3, <1>4, FirstPartDecides

\* Each turn but the last leaves less to do.
LEMMA TurnShrinks ==
  ASSUME IInv, IInv', Loop, phase' = "loop"
  PROVE  TurnsLeft' < TurnsLeft
<1>. Len(buffer_) \in Nat /\ pos_ \in Nat /\ bytes_to_drop \in Nat /\ buffer_ \in Bytes
  BY DEF IInv, BufferTypes, Bytes
<1>1. CASE ScanSeparator \/ ScanGarbage \/ FrameByte
  <2>1. buffer_' = buffer_ /\ pos_' = pos_ + 1 /\ current_frame_' = current_frame_
    BY <1>1 DEF ScanSeparator, ScanGarbage, FrameByte
  <2>2. HeaderRead' = HeaderRead /\ HeaderRead \in {0, 1}
    BY <2>1 DEF HeaderRead
  <2>. QED
    BY <2>1, <2>2, LessLeft
<1>2. CASE ScanStart
  <2>1. /\ Turn /\ buffer_' = Without(bytes_to_drop) /\ pos_' = pos_ - bytes_to_drop + 1
        /\ current_frame_' = current_frame_
    BY <1>2 DEF ScanStart
  <2>2. HeaderRead' = HeaderRead /\ HeaderRead \in {0, 1}
    BY <2>1 DEF HeaderRead
  <2>3. bytes_to_drop <= Len(buffer_)
    BY DEF IInv, PositionsAgree
  <2>4. Len(buffer_') = Len(buffer_) - bytes_to_drop
    BY <2>1, <2>3, WithoutIsShorter DEF IInv, BufferTypes
  <2>. QED
    BY <2>1, <2>2, <2>4, LessLeft
<1>3. CASE WrongPostByte
  <2>1. PICK w \in Wrong : buffer_' = Without(w - 2)
    BY <1>3 DEF WrongPostByte, Resume
  <2>2. Turn /\ current_frame_' = <<>>
    BY <1>3 DEF WrongPostByte, ForgetFrame
  <2>3. w \in Nat /\ 2 <= w /\ w <= pos_ + 1 /\ pos_ + 1 <= Len(buffer_)
    BY <2>2, WrongIsInStage, TurnHasByte
  <2>4. Len(buffer_') = Len(buffer_) - (w - 2)
    <3>1. w - 2 \in Nat /\ w - 2 <= Len(buffer_)
      BY <2>3
    <3>. QED
      BY <2>1, <3>1, WithoutIsShorter DEF IInv, BufferTypes
  <2>5. CASE current_frame_ = <<>>
    <3>1. w \notin 1 .. 3
      BY <2>5 DEF Wrong, FRAME_SEPARATORS_COUNT
    <3>. QED
      BY <2>3, <2>4, <3>1, LessLeft
  <2>6. CASE current_frame_ # <<>>
    <3>1. HeaderRead' = 0 /\ HeaderRead = 1
      BY <2>2, <2>6 DEF HeaderRead
    <3>. QED
      BY <2>3, <2>4, <3>1, LessLeft
  <2>. QED
    BY <2>5, <2>6
<1>4. CASE HeaderEnd \/ BodyEnd
  <2>1. Turn /\ buffer_' = Without(pos_ + 1)
    BY <1>4 DEF HeaderEnd, BodyEnd
  <2>2. pos_ + 1 \in Nat /\ pos_ + 1 <= Len(buffer_)
    BY <2>1, TurnHasByte
  <2>3. Len(buffer_') = Len(buffer_) - (pos_ + 1)
    BY <2>1, <2>2, WithoutIsShorter DEF IInv, BufferTypes
  <2>. QED
    BY <2>2, <2>3, LessLeft
<1>5. ~ScanEnd
  BY DEF ScanEnd
<1>. QED
  BY <1>1, <1>2, <1>3, <1>4, <1>5 DEF Loop

\* Each turn of process_data's loop, for any bytes in the buffer and any frames it
\* has begun, ends the call or leaves less of a natural number: it cannot turn for
\* ever.  What LoopEnds adds is that some turn is always possible and taken.
THEOREM LoopComesToAnEnd ==
  SpecWithResets =>
    [][Loop => phase' = "read" \/ (TurnsLeft \in Nat /\ TurnsLeft' < TurnsLeft)]_vars
<1>1. ASSUME IInv, [Next \/ Reset]_vars, Loop
      PROVE  phase' = "read" \/ (TurnsLeft \in Nat /\ TurnsLeft' < TurnsLeft)
  <2>1. IInv'
    BY <1>1, NextKeepsIInv
  <2>2. phase' \in {"read", "loop"}
    BY <1>1 DEF Loop, ScanSeparator, ScanGarbage, ScanStart, ScanEnd, FrameByte,
                WrongPostByte, HeaderEnd, BodyEnd, Turn
  <2>. QED
    BY <1>1, <2>1, <2>2, TurnShrinks, TurnsLeftNatural
<1>2. IInv /\ [Next \/ Reset]_vars =>
        [Loop => phase' = "read" \/ (TurnsLeft \in Nat /\ TurnsLeft' < TurnsLeft)]_vars
  BY <1>1
<1>. QED
  BY ReceiverInvariant, <1>2, PTL DEF SpecWithResets

-----------------------------------------------------------------------------
(* What the parser knows of the line                                       *)

\* The buffer holds the bytes of the line from Gone + 1 on.
Held ==
  /\ Len(buffer_) <= received
  /\ \A i \in 1 .. Len(buffer_) : buffer_[i] = line[Gone + i]

\* Not more than two bytes, the last of them, may be separators of a frame.
Looking == ~frame_start_found_ => current_frame_ = <<>> /\ pos_ <= bytes_to_drop + 2

\* In a header, the count is that of the line from the first byte behind two bytes.
InHeader ==
  frame_start_found_ /\ current_frame_ = <<>> =>
    /\ pos_ >= 3 /\ line[Gone + 3] # SEPARATOR_BYTE
    /\ pos_ = sep_count_ + 2 + Raw(line, Gone + 3, Gone + pos_)
    /\ pos_ < sep_count_ + FRAME_HEADER_SIZE

\* In a body, its header is on the line, just before the buffer.
InBody ==
  current_frame_ # <<>> =>
    /\ frame_start_found_
    /\ start \in Nat \ {0} /\ start + 2 < Gone
    /\ HeaderAt(line, start, Gone, current_frame_)
    /\ pos_ = sep_count_ + Raw(line, Gone + 1, Gone + pos_)
    /\ pos_ < sep_count_ + BodySize(current_frame_)

\* What was found lies before what is being looked at.
FoundBehind ==
  /\ \A k, l \in DOMAIN found : k < l => found[k].last < found[l].first
  /\ \A k \in DOMAIN found :
       found[k].last <= Gone /\ (current_frame_ # <<>> => found[k].last < start)

\* A frame is found, given up for lost, ahead, or the one whose body is read.
Ahead ==
  \A e \in intact : \/ Settled(e)
                    \/ e.first > Gone + bytes_to_drop
                    \/ current_frame_ # <<>> /\ e.first = start

AtRest == phase = "read" => pos_ = Len(buffer_)

Records ==
  /\ intact = FramesOn(line) /\ found \in Seq(intact)
  /\ start \in Nat /\ lost \in Nat /\ age \in Nat

LineInv ==
  Held /\ Looking /\ InHeader /\ InBody /\ FoundBehind /\ Ahead /\ AtRest /\ Records

\* The numbers that the lemmas below reckon with.
LEMMA Numbers ==
  ASSUME IInv, Held
  PROVE  /\ line \in Bytes /\ Len(line) \in Nat /\ Gone \in Nat /\ received \in Nat
         /\ received <= Len(line) /\ Len(buffer_) \in Nat /\ Gone + Len(buffer_) = received
         /\ pos_ \in Nat /\ sep_count_ \in Nat /\ bytes_to_drop \in Nat
         /\ pos_ <= Len(buffer_) /\ sep_count_ <= pos_ /\ bytes_to_drop <= pos_
BY DEF IInv, BufferTypes, PositionsAgree, Held, Gone, Bytes

\* A turn looks at a byte of the line.
LEMMA TurnOnLine ==
  ASSUME IInv, Held, Turn
  PROVE  /\ Here = line[Gone + pos_ + 1]
         /\ Gone + pos_ + 1 \in Nat \ {0} /\ Gone + pos_ + 1 <= Len(line)
         /\ \A i \in 1 .. pos_ + 1 : buffer_[i] = line[Gone + i]
         /\ Stage = SubSeq(line, Gone + 1, Gone + pos_ + 1)
<1>1. pos_ + 1 \in 1 .. Len(buffer_) /\ pos_ \in Nat /\ Gone \in Nat /\ Len(buffer_) \in Nat
      /\ Gone + Len(buffer_) <= Len(line) /\ buffer_ \in Bytes /\ line \in Bytes
  BY TurnHasByte, Numbers DEF IInv, BufferTypes
<1>2. \A i \in 1 .. pos_ + 1 : buffer_[i] = line[Gone + i]
  BY <1>1 DEF Held
<1>3. Gone + pos_ + 1 \in Nat \ {0} /\ Gone + pos_ + 1 <= Len(line)
  BY <1>1
<1>4. Here = line[Gone + pos_ + 1]
  <2>1. pos_ + 1 \in 1 .. pos_ + 1 /\ Gone + (pos_ + 1) = Gone + pos_ + 1
    BY <1>1
  <2>2. QED
    BY <2>1, <1>2 DEF Here
<1>5. Stage = SubSeq(line, Gone + 1, Gone + pos_ + 1)
  <2> DEFINE n == pos_ + 1
             part == SubSeq(line, Gone + 1, Gone + n)
  <2>0. Gone + n = Gone + pos_ + 1 /\ n \in Nat /\ 1 <= n /\ n <= Len(buffer_)
    BY <1>1
  <2>1. Stage \in Bytes /\ Len(Stage) = n /\ \A i \in 1 .. n : Stage[i] = buffer_[i]
    <3>1. /\ SubSeq(buffer_, 1, n) \in Bytes /\ Len(SubSeq(buffer_, 1, n)) = n - 1 + 1
          /\ \A i \in 1 .. n - 1 + 1 : SubSeq(buffer_, 1, n)[i] = buffer_[1 + i - 1]
      BY <1>1, <2>0, PartOf
    <3>2. n - 1 + 1 = n /\ \A i \in 1 .. n : 1 + i - 1 = i
      BY <2>0
    <3>3. QED
      BY <3>1, <3>2 DEF Stage
  <2>2. part \in Bytes /\ Len(part) = n /\ \A i \in 1 .. n : part[i] = line[Gone + i]
    <3>1. Gone + 1 \in Nat \ {0} /\ Gone + n \in Nat /\ Gone + 1 <= Gone + n /\ Gone + n <= Len(line)
      BY <1>1, <2>0
    <3>2. /\ part \in Bytes /\ Len(part) = (Gone + n) - (Gone + 1) + 1
          /\ \A i \in 1 .. (Gone + n) - (Gone + 1) + 1 : part[i] = line[(Gone + 1) + i - 1]
      BY <3>1, <1>1, PartOf
    <3>3. (Gone + n) - (Gone + 1) + 1 = n /\ \A i \in 1 .. n : (Gone + 1) + i - 1 = Gone + i
      BY <1>1, <2>0
    <3>4. QED
      BY <3>2, <3>3
  <2> HIDE DEF n, part
  <2>3. Stage = part
    <3>1. \A i \in 1 .. n : Stage[i] = part[i]
      BY <2>1, <2>2, <1>2 DEF n
    <3>2. Stage \in Seq(Byte) /\ part \in Seq(Byte)
      BY <2>1, <2>2 DEF Bytes
    <3>3. QED
      BY <3>1, <3>2, <2>1, <2>2, SeqEqual
  <2>4. QED
    BY <2>3, <2>0 DEF part
<1>6. QED
  BY <1>2, <1>3, <1>4, <1>5

\* The wrong post bytes of a stage, by their places on the line.
LEMMA WrongOnLine ==
  ASSUME IInv, Held, Turn
  PROVE  /\ \A w \in Misescaped(Stage) : w \in 2 .. pos_ + 1 /\ WrongAt(line, Gone + w)
         /\ \A i \in Gone + 2 .. Gone + pos_ + 1 :
              WrongAt(line, i) => i - Gone \in Misescaped(Stage)
<1> DEFINE lo == Gone + 1
           hi == Gone + pos_ + 1
<1>1. lo \in Nat \ {0} /\ hi \in Nat /\ lo <= hi /\ hi <= Len(line) /\ line \in Bytes
      /\ Gone \in Nat /\ pos_ \in Nat /\ Stage = SubSeq(line, lo, hi)
  <2>1. Gone \in Nat /\ pos_ \in Nat /\ line \in Bytes
    BY Numbers
  <2>2. hi \in Nat /\ hi <= Len(line) /\ Stage = SubSeq(line, lo, hi)
    BY TurnOnLine
  <2>3. QED
    BY <2>1, <2>2
<1> HIDE DEF lo, hi
<1>2. /\ \A w \in Misescaped(Stage) : w \in 2 .. hi - lo + 1 /\ WrongAt(line, lo + w - 1)
      /\ \A i \in lo + 1 .. hi : WrongAt(line, i) => i - lo + 1 \in Misescaped(Stage)
  BY <1>1, MisescapedPart
<1>3. hi - lo + 1 = pos_ + 1 /\ lo + 1 = Gone + 2 /\ hi = Gone + pos_ + 1
      /\ \A w \in Int : lo + w - 1 = Gone + w /\ w - lo + 1 = w - Gone
  BY <1>1 DEF lo, hi
<1>4. ASSUME NEW w \in Misescaped(Stage)
      PROVE  w \in 2 .. pos_ + 1 /\ WrongAt(line, Gone + w)
  <2>1. w \in 2 .. hi - lo + 1 /\ WrongAt(line, lo + w - 1)
    BY <1>2
  <2>2. w \in Int /\ w \in 2 .. pos_ + 1
    BY <2>1, <1>3
  <2>3. lo + w - 1 = Gone + w
    BY <2>2, <1>3
  <2>4. QED
    BY <2>1, <2>2, <2>3
<1>5. ASSUME NEW i \in Gone + 2 .. Gone + pos_ + 1, WrongAt(line, i)
      PROVE  i - Gone \in Misescaped(Stage)
  <2>1. i \in lo + 1 .. hi /\ i \in Int
    BY <1>3, <1>1
  <2>2. i - lo + 1 \in Misescaped(Stage)
    BY <2>1, <1>2, <1>5
  <2>3. i - lo + 1 = i - Gone
    BY <2>1, <1>3
  <2>4. QED
    BY <2>2, <2>3
<1>6. QED
  BY <1>4, <1>5

-----------------------------------------------------------------------------
(* Bytes come and go                                                       *)

\* Dropping from the front of the buffer moves Gone on.
LEMMA DropKeepsHeld ==
  ASSUME IInv, Held, NEW n \in Nat, n <= Len(buffer_),
         buffer_' = Without(n), UNCHANGED <<line, received>>
  PROVE  Held' /\ Gone' = Gone + n /\ Len(buffer_') = Len(buffer_) - n
<1>1. Len(buffer_) \in Nat /\ received \in Nat /\ buffer_ \in Bytes /\ Gone \in Nat
      /\ Len(buffer_) <= received
  BY Numbers DEF IInv, BufferTypes, Held
<1>2. buffer_' \in Bytes /\ Len(buffer_') = Len(buffer_) - n
  BY <1>1, WithoutIsShorter
<1>3. Gone' = Gone + n
  BY <1>1, <1>2 DEF Gone
<1>4. ASSUME NEW i \in 1 .. Len(buffer_')
      PROVE  buffer_'[i] = line'[Gone' + i]
  <2>1. n + 1 \in Nat \ {0} /\ n + 1 <= Len(buffer_) /\ n + i \in 1 .. Len(buffer_)
        /\ i \in 1 .. Len(buffer_) - (n + 1) + 1 /\ (n + 1) + i - 1 = n + i
    BY <1>1, <1>2
  <2>2. \A j \in 1 .. Len(buffer_) - (n + 1) + 1 :
          SubSeq(buffer_, n + 1, Len(buffer_))[j] = buffer_[(n + 1) + j - 1]
    BY <2>1, <1>1, PartOf
  <2>3. buffer_'[i] = buffer_[n + i]
    BY <2>1, <2>2 DEF Without
  <2>4. buffer_[n + i] = line[Gone + (n + i)]
    BY <2>1 DEF Held
  <2>5. Gone' + i = Gone + (n + i)
    BY <1>1, <1>3
  <2>6. QED
    BY <2>3, <2>4, <2>5
<1>5. Len(buffer_') <= received'
  BY <1>1, <1>2
<1>6. QED
  BY <1>2, <1>3, <1>4, <1>5 DEF Held

\* The buffer without its n oldest bytes, with the next bytes of the line.
Refilled(n, count) == Without(n) \o SubSeq(line, received + 1, received + count)

\* Reading adds the next bytes of the line, after an overflow too.
LEMMA ReadKeepsHeld ==
  ASSUME IInv, Held, NEW n \in Nat, n <= Len(buffer_), NEW count \in Nat,
         received + count <= Len(line),
         buffer_' = Refilled(n, count),
         line' = line, received' = received + count
  PROVE  Held' /\ Gone' = Gone + n
<1> DEFINE rest == Without(n)
           chunk == SubSeq(line, received + 1, received + count)
           both == rest \o chunk
<1>1. Len(buffer_) \in Nat /\ received \in Nat /\ buffer_ \in Bytes /\ Gone \in Nat
      /\ Len(buffer_) <= received /\ line \in Bytes /\ Gone + Len(buffer_) = received
  BY Numbers DEF IInv, BufferTypes, Held
<1>2. rest \in Bytes /\ Len(rest) = Len(buffer_) - n
  BY <1>1, WithoutIsShorter
<1>3. chunk \in Bytes /\ Len(chunk) = count
  <2>1. received + count \in Nat /\ received + 1 \in Nat \ {0}
    BY <1>1
  <2>2. QED
    BY <2>1, <1>1, SubSeqIsBytes
<1>4. \A i \in 1 .. Len(rest) : rest[i] = line[Gone + n + i]
  <2> SUFFICES ASSUME NEW i \in 1 .. Len(rest) PROVE rest[i] = line[Gone + n + i]
    OBVIOUS
  <2>1. n + 1 \in Nat \ {0} /\ n + 1 <= Len(buffer_) /\ n + i \in 1 .. Len(buffer_)
        /\ i \in 1 .. Len(buffer_) - (n + 1) + 1 /\ (n + 1) + i - 1 = n + i
    BY <1>1, <1>2
  <2>2. \A j \in 1 .. Len(buffer_) - (n + 1) + 1 :
          SubSeq(buffer_, n + 1, Len(buffer_))[j] = buffer_[(n + 1) + j - 1]
    BY <2>1, <1>1, PartOf
  <2>3. rest[i] = buffer_[n + i]
    BY <2>1, <2>2 DEF Without
  <2>4. buffer_[n + i] = line[Gone + (n + i)]
    BY <2>1 DEF Held
  <2>5. Gone + n + i = Gone + (n + i)
    BY <1>1
  <2>6. QED
    BY <2>3, <2>4, <2>5
<1>5. \A i \in 1 .. count : chunk[i] = line[received + i]
  <2> SUFFICES ASSUME NEW i \in 1 .. count PROVE chunk[i] = line[received + i]
    OBVIOUS
  <2>1. received + 1 \in Nat \ {0} /\ received + count \in Nat /\ received + 1 <= received + count
        /\ i \in 1 .. (received + count) - (received + 1) + 1
        /\ (received + 1) + i - 1 = received + i
    BY <1>1
  <2>2. \A j \in 1 .. (received + count) - (received + 1) + 1 :
          chunk[j] = line[(received + 1) + j - 1]
    BY <2>1, <1>1, PartOf
  <2>3. QED
    BY <2>1, <2>2
<1> HIDE DEF rest, chunk
<1>6. /\ Len(both) = Len(rest) + Len(chunk)
      /\ \A i \in 1 .. Len(rest) + Len(chunk) :
           both[i] = IF i <= Len(rest) THEN rest[i] ELSE chunk[i - Len(rest)]
  <2>1. rest \in Seq(Byte) /\ chunk \in Seq(Byte)
    BY <1>2, <1>3 DEF Bytes
  <2>2. QED
    BY <2>1, ConcatProperties
<1>7. buffer_' = both
  BY DEF rest, chunk, Refilled
<1> HIDE DEF both
<1>8. Len(buffer_') = Len(buffer_) - n + count /\ Gone' = Gone + n
  <2>1. Len(both) = Len(buffer_) - n + count
    BY <1>1, <1>2, <1>3, <1>6
  <2>2. Gone' = received + count - Len(both)
    <3>1. Len(buffer_') = Len(both) /\ Len(both) \in Int
      BY <2>1, <1>1, <1>7
    <3>2. QED
      BY <3>1, <1>1 DEF Gone
  <2>3. QED
    BY <2>1, <2>2, <1>1, <1>7
<1>9. ASSUME NEW i \in 1 .. Len(buffer_')
      PROVE  buffer_'[i] = line[Gone + n + i]
  <2>0. i \in 1 .. Len(rest) + Len(chunk)
    BY <1>6, <1>7
  <2>1. CASE i <= Len(rest)
    <3>1. both[i] = rest[i] /\ i \in 1 .. Len(rest)
      BY <2>0, <2>1, <1>1, <1>2, <1>6
    <3>2. QED
      BY <3>1, <1>4, <1>7
  <2>2. CASE i > Len(rest)
    <3> DEFINE j == i - Len(rest)
    <3>1. j \in 1 .. count /\ ~(i <= Len(rest)) /\ i \in Nat
      BY <2>0, <2>2, <1>1, <1>2, <1>3
    <3>2. buffer_'[i] = chunk[j]
      BY <2>0, <3>1, <1>6, <1>7
    <3>3. chunk[j] = line[received + j]
      BY <3>1, <1>5
    <3>4. received + j = Gone + n + i
      BY <3>1, <1>1, <1>2, SMTT(30)
    <3>5. QED
      BY <3>2, <3>3, <3>4
  <2>3. QED
    BY <2>1, <2>2, <1>1, <1>2
<1>10. Len(buffer_') <= received'
  BY <1>1, <1>8
<1>11. QED
  BY <1>8, <1>9, <1>10 DEF Held

\* A frame of the line, as the receiver's history has it.
LEMMA IntactFrame ==
  ASSUME IInv, LineInv
  PROVE  /\ \A e \in intact : /\ e \in FramesOn(line)
                              /\ e.first \in Nat \ {0} /\ e.last \in Nat /\ e.first + 2 < e.last
         /\ \A k \in DOMAIN found : found[k] \in intact
<1>1. line \in Bytes /\ intact = FramesOn(line) /\ found \in Seq(intact)
  BY Numbers DEF LineInv, Records
<1>2. \A e \in FramesOn(line) : e.first \in Nat \ {0} /\ e.last \in Nat /\ e.first + 2 < e.last
  BY <1>1, FrameOnLine
<1>3. QED
  BY <1>1, <1>2

\* Nothing is known of the line at first, and nothing is behind.
LEMMA InitLineInv == Init => LineInv
<1> SUFFICES ASSUME Init PROVE LineInv
  OBVIOUS
<1>1. /\ received = 0 /\ buffer_ = <<>> /\ pos_ = 0 /\ sep_count_ = 0 /\ bytes_to_drop = 0
      /\ frame_start_found_ = FALSE /\ current_frame_ = <<>> /\ intact = FramesOn(line)
      /\ start = 0 /\ found = <<>> /\ lost = 0 /\ age = 0
  BY DEF Init
<1>2. Len(buffer_) = 0 /\ Gone = 0 /\ DOMAIN found = {}
  <2>1. Len(buffer_) = 0 /\ received = 0
    BY <1>1
  <2>2. Gone = 0
    BY <2>1 DEF Gone
  <2>3. DOMAIN found = {}
    BY <1>1
  <2>4. QED
    BY <2>1, <2>2, <2>3
<1>3. Held
  BY <1>1, <1>2 DEF Held
<1>4. Looking /\ InHeader /\ InBody /\ AtRest
  BY <1>1, <1>2 DEF Looking, InHeader, InBody, AtRest
<1>5. FoundBehind
  BY <1>2 DEF FoundBehind
<1>6. Records
  <2>1. found \in Seq(intact)
    BY <1>1
  <2>2. QED
    BY <1>1, <2>1 DEF Records
<1>7. Ahead
  <2>1. line \in Bytes
    BY ReceiverAssumption DEF Init
  <2>2. \A e \in intact : e.first \in Nat \ {0}
    BY <1>1, <2>1, FrameOnLine
  <2>3. \A e \in intact : e.first > Gone + bytes_to_drop
    BY <2>2, <1>1, <1>2
  <2>4. QED
    BY <2>3 DEF Ahead
<1>8. QED
  BY <1>3, <1>4, <1>5, <1>6, <1>7 DEF LineInv

\* Where bytes are thrown away unprocessed, what began in them is lost.
LEMMA ThrownAway ==
  ASSUME IInv, LineInv, Held', Gone' \in Nat, Gone <= Gone',
         UNCHANGED <<line, intact, start, found>>,
         ~frame_start_found_', current_frame_' = <<>>,
         bytes_to_drop' = 0, pos_' \in Nat, pos_' <= 2, lost' = Gone', age' \in Nat, AtRest'
  PROVE  LineInv'
<1>1. Looking' /\ InHeader' /\ InBody'
  <2>1. current_frame_' = <<>> /\ pos_' <= bytes_to_drop' + 2
    OBVIOUS
  <2>2. Looking'
    BY <2>1 DEF Looking
  <2>3. InHeader'
    BY Zenon DEF InHeader
  <2>4. InBody'
    BY <2>1, Zenon DEF InBody
  <2>5. QED
    BY <2>2, <2>3, <2>4
<1>2. FoundBehind'
  <2>1. \A k \in DOMAIN found : found[k].last \in Nat /\ found[k].last <= Gone
    BY IntactFrame DEF LineInv, FoundBehind
  <2>2. \A k \in DOMAIN found : found[k].last <= Gone'
    BY <2>1, Numbers DEF LineInv
  <2>3. QED
    BY <2>2 DEF LineInv, FoundBehind
<1>3. Records'
  BY DEF LineInv, Records
<1>4. Ahead'
  <2>1. ASSUME NEW e \in intact
        PROVE  e.first <= lost' \/ e.first > Gone' + bytes_to_drop'
    BY IntactFrame
  <2>2. QED
    BY <2>1 DEF Ahead, Settled
<1>5. QED
  BY <1>1, <1>2, <1>3, <1>4 DEF LineInv

\* Steps that leave the parser where it is.
LEMMA PlacesStay ==
  ASSUME IInv, LineInv, Held', Gone' = Gone, AtRest', age' \in Nat,
         UNCHANGED <<line, intact, start, found, lost, parser, bytes_to_drop>>
  PROVE  LineInv'
<1>1. /\ line' = line /\ intact' = intact /\ start' = start /\ found' = found /\ lost' = lost
      /\ pos_' = pos_ /\ sep_count_' = sep_count_ /\ bytes_to_drop' = bytes_to_drop
      /\ frame_start_found_' = frame_start_found_ /\ current_frame_' = current_frame_
  BY DEF parser
<1>2. Looking'
  BY <1>1 DEF LineInv, Looking
<1>3. InHeader'
  BY <1>1 DEF LineInv, InHeader
<1>4. InBody'
  BY <1>1 DEF LineInv, InBody
<1>5. FoundBehind'
  BY <1>1 DEF LineInv, FoundBehind
<1>6. Records'
  BY <1>1 DEF LineInv, Records
<1>7. Ahead'
  BY <1>1 DEF LineInv, Ahead, Settled
<1>8. QED
  BY <1>2, <1>3, <1>4, <1>5, <1>6, <1>7 DEF LineInv

\* read_data: what an overflow throws away is settled.
LEMMA ReadKeepsLineInv ==
  ASSUME IInv, LineInv, NEW count \in Counts, read_data(count)
  PROVE  LineInv'
<1>1. /\ count \in Nat /\ received \in Nat /\ Len(line) \in Nat /\ Len(buffer_) \in Nat
      /\ Capacity \in Nat /\ Gone \in Nat /\ buffer_ \in Bytes /\ pos_ \in Nat
      /\ pos_ <= Len(buffer_) /\ Len(buffer_) <= Capacity
  BY ReceiverAssumption, Numbers DEF LineInv, IInv, BufferTypes
<1>2. count <= Capacity /\ received + count <= Len(line) /\ phase = "read"
      /\ received' = received + count /\ phase' = "process"
      /\ UNCHANGED <<line, intact, bytes_to_drop, start, found>>
  BY <1>1 DEF read_data, Least
<1>3. AtRest'
  BY <1>2 DEF AtRest
<1>4. bytes_to_drop' = 0
  BY <1>2 DEF IInv, NothingToDrop
<1>5. CASE ReadWithSpace(count)
  <2>1. Without(0) = buffer_
    BY <1>1, SubSeqFull DEF Without, Bytes
  <2>2. buffer_' = Refilled(0, count)
    BY <1>5, <2>1 DEF ReadWithSpace, Refilled
  <2>3. Held' /\ Gone' = Gone
    BY <1>1, <1>2, <2>2, ReadKeepsHeld DEF LineInv
  <2>4. UNCHANGED <<parser, lost, age>>
    BY <1>5 DEF ReadWithSpace
  <2>5. QED
    BY <1>2, <1>3, <2>3, <2>4, PlacesStay DEF LineInv, Records
<1>6. CASE ReadWithOverflow(count)
  <2> DEFINE excess == count - (Capacity - Len(buffer_))
  <2>1. excess \in Nat /\ excess <= Len(buffer_)
    BY <1>1, <1>2, <1>6 DEF ReadWithOverflow
  <2>2. buffer_' = Refilled(excess, count) /\ lost' = Gone + excess /\ ForgetStarted
    BY <1>6 DEF ReadWithOverflow, Refilled
  <2> HIDE DEF excess
  <2>3. Held' /\ Gone' = Gone + excess
    BY <1>1, <1>2, <2>1, <2>2, ReadKeepsHeld DEF LineInv
  <2>4. /\ ~frame_start_found_' /\ current_frame_' = <<>>
        /\ pos_' \in Nat /\ pos_' <= 2 /\ age' \in Nat
    <3>1. CASE frame_start_found_
      <4>1. ForgetFrame
        BY <2>2, <3>1, Zenon DEF ForgetStarted
      <4>2. QED
        BY <4>1 DEF ForgetFrame
    <3>2. CASE ~frame_start_found_
      <4>1. UNCHANGED <<parser, age>>
        BY <2>2, <3>2, Zenon DEF ForgetStarted
      <4>2. frame_start_found_ = FALSE
        BY <3>2 DEF IInv, BufferTypes
      <4>3. bytes_to_drop = 0
        BY <1>2, <1>4
      <4>4. QED
        BY <1>1, <3>2, <4>1, <4>2, <4>3 DEF parser, LineInv, Looking, Records
    <3>3. QED
      BY <3>1, <3>2
  <2>5. QED
    BY <1>1, <1>2, <1>3, <1>4, <2>1, <2>2, <2>3, <2>4, ThrownAway
<1>7. QED
  BY <1>5, <1>6 DEF read_data

\* So is what reset_protocol and clear_ throw away.
LEMMA ResetKeepsLineInv ==
  ASSUME IInv, LineInv, Reset
  PROVE  LineInv'
<1>1. Gone \in Nat /\ Len(buffer_) \in Nat /\ pos_ \in Nat /\ buffer_ \in Bytes
      /\ Gone + Len(buffer_) = received /\ received \in Nat
  BY Numbers DEF LineInv, IInv, BufferTypes
<1>2. phase = "read" => pos_ = Len(buffer_)
  BY DEF LineInv, AtRest
<1>3. CASE reset_protocol
  <2>1. /\ phase = "read" /\ buffer_' = Without(Least(Len(buffer_), pos_)) /\ ForgetFrame
        /\ lost' = Gone + Least(Len(buffer_), pos_)
        /\ UNCHANGED <<line, intact, received, phase, bytes_to_drop, start, found>>
    BY <1>3 DEF reset_protocol
  <2>2. Least(Len(buffer_), pos_) = Len(buffer_)
    BY <1>1, <1>2, <2>1 DEF Least
  <2>3. Held' /\ Gone' = Gone + Len(buffer_) /\ Len(buffer_') = 0
    <3>1. buffer_' = Without(Len(buffer_))
      BY <2>1, <2>2
    <3>2. Held' /\ Gone' = Gone + Len(buffer_) /\ Len(buffer_') = Len(buffer_) - Len(buffer_)
      BY <1>1, <2>1, <3>1, DropKeepsHeld DEF LineInv
    <3>3. QED
      BY <3>2, <1>1
  <2>4. bytes_to_drop' = 0
    BY <2>1 DEF IInv, NothingToDrop
  <2>5. /\ ~frame_start_found_' /\ current_frame_' = <<>> /\ pos_' = 0 /\ age' = 0
    BY <2>1 DEF ForgetFrame
  <2>6. AtRest'
    BY <2>3, <2>5 DEF AtRest
  <2>7. QED
    BY <1>1, <2>1, <2>2, <2>3, <2>4, <2>5, <2>6, ThrownAway
<1>4. CASE clear_
  <2>1. /\ phase = "read" /\ buffer_' = <<>> /\ ForgetFrame /\ lost' = received
        /\ UNCHANGED <<line, intact, received, phase, bytes_to_drop, start, found>>
    BY <1>4 DEF clear_
  <2>2. Len(buffer_') = 0
    BY <2>1
  <2>3. Gone' = received
    BY <2>1, <2>2, <1>1 DEF Gone
  <2>4. Held'
    BY <2>1, <2>2, <1>1 DEF Held
  <2>5. bytes_to_drop' = 0
    BY <2>1 DEF IInv, NothingToDrop
  <2>6. /\ ~frame_start_found_' /\ current_frame_' = <<>> /\ pos_' = 0 /\ age' = 0
    BY <2>1 DEF ForgetFrame
  <2>7. AtRest'
    BY <2>2, <2>6 DEF AtRest
  <2>8. Gone <= received
    BY <1>1
  <2>9. QED
    BY <1>1, <2>1, <2>3, <2>4, <2>5, <2>6, <2>7, <2>8, ThrownAway
<1>5. QED
  BY <1>3, <1>4 DEF Reset

\* And what a timeout does.
LEMMA ProcessKeepsLineInv ==
  ASSUME IInv, LineInv, process_data
  PROVE  LineInv'
<1>1. /\ phase = "process" /\ bytes_to_drop' = 0
      /\ phase' = IF buffer_' = <<>> THEN "read" ELSE "loop"
      /\ UNCHANGED <<line, intact, received, start, found>>
  BY DEF process_data
<1>2. Gone \in Nat /\ Len(buffer_) \in Nat /\ pos_ \in Nat /\ buffer_ \in Bytes
      /\ pos_ <= Len(buffer_)
  BY Numbers DEF LineInv, IInv, BufferTypes
<1>3. bytes_to_drop = 0
  BY <1>1 DEF IInv, NothingToDrop
<1>4. phase' = "read" => buffer_' = <<>> /\ Len(buffer_') = 0
  BY <1>1
<1>5. CASE FrameTimesOut
  <2> DEFINE n == Least(Len(buffer_), pos_)
  <2>1. n \in Nat /\ n <= Len(buffer_)
    BY <1>2 DEF Least
  <2>2. buffer_' = Without(n) /\ ForgetFrame /\ lost' = Gone + n
    BY <1>5 DEF FrameTimesOut
  <2> HIDE DEF n
  <2>3. Held' /\ Gone' = Gone + n
    BY <1>1, <2>1, <2>2, DropKeepsHeld DEF LineInv
  <2>4. /\ ~frame_start_found_' /\ current_frame_' = <<>> /\ pos_' = 0 /\ age' = 0
    BY <2>2 DEF ForgetFrame
  <2>5. AtRest'
    BY <1>4, <2>4 DEF AtRest
  <2>6. QED
    BY <1>1, <1>2, <2>1, <2>2, <2>3, <2>4, <2>5, ThrownAway
<1>6. CASE UNCHANGED <<buffer_, parser, lost, age>>
  <2>1. Gone' = Gone /\ Held'
    BY <1>1, <1>6 DEF Gone, Held, LineInv
  <2>2. AtRest'
    BY <1>2, <1>4, <1>6 DEF AtRest, parser
  <2>3. QED
    BY <1>1, <1>3, <1>6, <2>1, <2>2, PlacesStay DEF LineInv, Records
<1>7. FrameTimesOut \/ UNCHANGED <<buffer_, parser, lost, age>>
  BY Zenon DEF process_data
<1>8. QED
  BY <1>5, <1>6, <1>7

\* pop, drop and Tick, and steps that change nothing.
LEMMA OthersKeepLineInv ==
  ASSUME IInv, LineInv, age' \in Nat,
         UNCHANGED <<line, intact, received, buffer_, parser, phase, bytes_to_drop, start,
                     found, lost>>
  PROVE  LineInv'
<1>1. Gone' = Gone /\ Held'
  BY DEF Gone, Held, LineInv
<1>2. AtRest'
  BY DEF AtRest, parser, LineInv
<1>3. QED
  BY <1>1, <1>2, PlacesStay

-----------------------------------------------------------------------------
(* Turns that look for a frame                                             *)

\* A turn without a frame keeps the frames ahead that were.
LEMMA LookOn ==
  ASSUME IInv, LineInv, Turn, ~frame_start_found_,
         UNCHANGED <<line, intact, received, buffer_, sep_count_, frame_start_found_,
                     current_frame_, phase, history>>,
         pos_' = pos_ + 1, bytes_to_drop' \in Nat, pos_ + 1 <= bytes_to_drop' + 2,
         \A e \in intact : e.first > Gone + bytes_to_drop => e.first > Gone + bytes_to_drop'
  PROVE  LineInv'
<1>0. /\ line' = line /\ intact' = intact /\ start' = start /\ found' = found /\ lost' = lost
      /\ frame_start_found_' = frame_start_found_ /\ current_frame_' = current_frame_
      /\ age' = age
  BY DEF history
<1>1. Gone' = Gone /\ Held'
  BY DEF Gone, Held, LineInv
<1>2. AtRest'
  BY TurnHasByte DEF AtRest
<1>3. current_frame_ = <<>>
  BY DEF LineInv, Looking
<1>4. Looking'
  BY <1>0, <1>3 DEF Looking
<1>5. InHeader'
  <2>1. ~frame_start_found_'
    BY <1>0
  <2>2. QED
    BY <2>1, Zenon DEF InHeader
<1>6. InBody'
  BY <1>0, <1>3 DEF InBody
<1>7. FoundBehind' /\ Records'
  BY <1>0, <1>1, <1>3 DEF LineInv, FoundBehind, Records
<1>8. Ahead'
  BY <1>0, <1>1, <1>3 DEF LineInv, Ahead, Settled
<1>9. QED
  BY <1>1, <1>2, <1>4, <1>5, <1>6, <1>7, <1>8 DEF LineInv

\* A third separator in a row makes the first of them go: no frame begins there.
LEMMA ScanSeparatorKeepsLineInv ==
  ASSUME IInv, LineInv, ScanSeparator
  PROVE  LineInv'
<1>1. /\ Turn /\ ~frame_start_found_ /\ Here = SEPARATOR_BYTE /\ pos_' = pos_ + 1
      /\ bytes_to_drop' = IF pos_ + 1 - bytes_to_drop > 2 THEN pos_ + 1 - 2 ELSE bytes_to_drop
      /\ UNCHANGED <<line, intact, received, buffer_, sep_count_, frame_start_found_,
                     current_frame_, phase, history>>
  BY DEF ScanSeparator, FRAME_SEPARATORS_COUNT
<1>2. Gone \in Nat /\ pos_ \in Nat /\ bytes_to_drop \in Nat /\ pos_ <= bytes_to_drop + 2
      /\ line \in Bytes /\ intact = FramesOn(line)
  BY <1>1, Numbers DEF LineInv, Looking, Records
<1>3. Here = line[Gone + pos_ + 1]
  BY <1>1, TurnOnLine DEF LineInv
<1>4. bytes_to_drop' \in Nat /\ pos_ + 1 <= bytes_to_drop' + 2
  <2>1. CASE pos_ + 1 - bytes_to_drop > 2
    <3>1. bytes_to_drop' = pos_ + 1 - 2
      BY <1>1, <2>1
    <3>2. QED
      BY <3>1, <2>1, <1>2
  <2>2. CASE ~(pos_ + 1 - bytes_to_drop > 2)
    <3>1. bytes_to_drop' = bytes_to_drop
      BY <1>1, <2>2
    <3>2. QED
      BY <3>1, <2>2, <1>2
  <2>3. QED
    BY <2>1, <2>2
<1>5. ASSUME NEW e \in intact, e.first > Gone + bytes_to_drop
      PROVE  e.first > Gone + bytes_to_drop'
  <2>1. e.first \in Nat /\ line[e.first + 2] # SEPARATOR_BYTE
    BY <1>2, FrameOnLine
  <2>2. CASE pos_ + 1 - bytes_to_drop > 2
    <3>1. bytes_to_drop' = pos_ + 1 - 2
      BY <1>1, <2>2
    <3>2. bytes_to_drop' = bytes_to_drop + 1 /\ Gone + pos_ + 1 = (Gone + bytes_to_drop + 1) + 2
      BY <3>1, <2>2, <1>2
    <3>3. e.first # Gone + bytes_to_drop + 1
      BY <3>2, <2>1, <1>1, <1>3
    <3>4. QED
      BY <3>2, <3>3, <2>1, <1>2, <1>5
  <2>3. CASE ~(pos_ + 1 - bytes_to_drop > 2)
    <3>1. bytes_to_drop' = bytes_to_drop
      BY <1>1, <2>3
    <3>2. QED
      BY <3>1, <1>5
  <2>4. QED
    BY <2>2, <2>3
<1>6. QED
  BY <1>1, <1>4, <1>5, LookOn

\* A byte that is no separator, behind fewer than two of them, begins no frame.
LEMMA ScanGarbageKeepsLineInv ==
  ASSUME IInv, LineInv, ScanGarbage
  PROVE  LineInv'
<1>1. /\ Turn /\ ~frame_start_found_ /\ Here # SEPARATOR_BYTE /\ pos_' = pos_ + 1
      /\ bytes_to_drop' = pos_ + 1 /\ pos_ - bytes_to_drop # 2
      /\ UNCHANGED <<line, intact, received, buffer_, sep_count_, frame_start_found_,
                     current_frame_, phase, history>>
  BY DEF ScanGarbage, FRAME_SEPARATORS_COUNT
<1>2. Gone \in Nat /\ pos_ \in Nat /\ bytes_to_drop \in Nat /\ pos_ <= bytes_to_drop + 2
      /\ bytes_to_drop <= pos_ /\ line \in Bytes /\ intact = FramesOn(line)
  BY <1>1, Numbers DEF LineInv, Looking, Records
<1>3. line[Gone + pos_ + 1] # SEPARATOR_BYTE
  BY <1>1, TurnOnLine DEF LineInv
<1>4. bytes_to_drop' \in Nat /\ pos_ + 1 <= bytes_to_drop' + 2
  BY <1>1, <1>2
<1>5. ASSUME NEW e \in intact, e.first > Gone + bytes_to_drop
      PROVE  e.first > Gone + bytes_to_drop'
  <2>1. /\ e.first \in Nat /\ line[e.first] = SEPARATOR_BYTE
        /\ line[e.first + 1] = SEPARATOR_BYTE
    BY <1>2, FrameOnLine
  <2>2. e.first # Gone + pos_ + 1 /\ e.first + 1 # Gone + pos_ + 1
    BY <2>1, <1>3
  <2>3. e.first > Gone + (pos_ + 1)
    BY <2>1, <2>2, <1>1, <1>2, <1>5
  <2>4. QED
    BY <2>3, <1>1
<1>6. QED
  BY <1>1, <1>4, <1>5, LookOn

\* Two separators and another byte: what is before them goes.
LEMMA ScanStartKeepsLineInv ==
  ASSUME IInv, LineInv, ScanStart
  PROVE  LineInv'
<1>1. /\ Turn /\ ~frame_start_found_ /\ Here # SEPARATOR_BYTE /\ pos_ - bytes_to_drop = 2
      /\ frame_start_found_' = TRUE /\ buffer_' = Without(bytes_to_drop)
      /\ pos_' = pos_ - bytes_to_drop + 1 /\ bytes_to_drop' = 0
      /\ UNCHANGED <<line, intact, received, sep_count_, current_frame_, phase, history>>
  BY DEF ScanStart, FRAME_SEPARATORS_COUNT
<1>2. /\ line' = line /\ intact' = intact /\ start' = start /\ found' = found /\ lost' = lost
      /\ current_frame_' = current_frame_ /\ age' = age
  BY <1>1 DEF history
<1>3. Gone \in Nat /\ pos_ \in Nat /\ bytes_to_drop \in Nat /\ Len(buffer_) \in Nat
      /\ bytes_to_drop <= Len(buffer_) /\ pos_ = bytes_to_drop + 2
  BY <1>1, Numbers DEF LineInv
<1>4. Held' /\ Gone' = Gone + bytes_to_drop
  BY <1>1, <1>3, DropKeepsHeld DEF LineInv
<1>5. current_frame_ = <<>>
  BY <1>1 DEF LineInv, Looking
<1>6. AtRest'
  BY <1>1, TurnHasByte DEF AtRest
<1>7. sep_count_' = 0 /\ pos_' = 3
  BY <1>1, <1>3 DEF IInv, NothingCounted
<1>8. line[Gone' + 3] # SEPARATOR_BYTE
  <2>1. Gone + pos_ + 1 = Gone' + 3
    BY <1>3, <1>4
  <2>2. line[Gone + pos_ + 1] # SEPARATOR_BYTE
    BY <1>1, TurnOnLine DEF LineInv
  <2>3. QED
    BY <2>1, <2>2
<1>9. Raw(line, Gone' + 3, Gone' + 3) = 1
  <2>1. Gone' + 3 \in Int /\ Gone' + 2 \in Int /\ (Gone' + 2) + 1 = Gone' + 3
        /\ Gone' + 2 < Gone' + 3 /\ Gone' + 3 <= (Gone' + 2) + 1
    BY <1>3, <1>4
  <2>2. Raw(line, Gone' + 3, Gone' + 2) = 0
    BY <2>1, RawSteps
  <2>3. Raw(line, Gone' + 3, (Gone' + 2) + 1) = Raw(line, Gone' + 3, Gone' + 2) + 1
    BY <2>1, <1>8, RawSteps
  <2>4. QED
    BY <2>1, <2>2, <2>3
<1>10. InHeader'
  <2>1. 3 < 0 + FRAME_HEADER_SIZE /\ 3 = 0 + 2 + 1
    BY HeaderSizes
  <2>2. QED
    BY <1>2, <1>7, <1>8, <1>9, <2>1 DEF InHeader
<1>11. Looking'
  BY <1>1 DEF Looking
<1>12. InBody'
  BY <1>2, <1>5 DEF InBody
<1>13. FoundBehind'
  <2>1. \A k \in DOMAIN found : found[k].last \in Nat /\ found[k].last <= Gone
    BY IntactFrame DEF LineInv, FoundBehind
  <2>2. \A k \in DOMAIN found : found[k].last <= Gone'
    BY <2>1, <1>3, <1>4
  <2>3. QED
    BY <2>2, <1>2, <1>5 DEF LineInv, FoundBehind
<1>14. Records'
  BY <1>2 DEF LineInv, Records
<1>15. Ahead'
  <2>1. Gone' + bytes_to_drop' = Gone + bytes_to_drop
    BY <1>1, <1>3, <1>4
  <2>2. QED
    BY <2>1, <1>2, <1>5 DEF LineInv, Ahead, Settled
<1>16. QED
  BY <1>4, <1>6, <1>10, <1>11, <1>12, <1>13, <1>14, <1>15 DEF LineInv

\* At the end only bytes go that no frame begins at.
LEMMA ScanEndKeepsLineInv ==
  ASSUME IInv, LineInv, ScanEnd
  PROVE  LineInv'
<1>1. /\ phase = "loop" /\ ~(pos_ < buf_size) /\ buffer_' = Without(bytes_to_drop)
      /\ pos_' = pos_ - bytes_to_drop /\ bytes_to_drop' = 0 /\ phase' = "read"
      /\ UNCHANGED <<line, intact, received, sep_count_, frame_start_found_, current_frame_,
                     history>>
  BY DEF ScanEnd, MoreBytes
<1>2. /\ line' = line /\ intact' = intact /\ start' = start /\ found' = found /\ lost' = lost
      /\ current_frame_' = current_frame_ /\ age' = age
      /\ frame_start_found_' = frame_start_found_ /\ sep_count_' = sep_count_
  BY <1>1 DEF history
<1>3. Gone \in Nat /\ pos_ \in Nat /\ bytes_to_drop \in Nat /\ Len(buffer_) \in Nat
      /\ bytes_to_drop <= Len(buffer_) /\ pos_ = Len(buffer_) /\ bytes_to_drop <= pos_
  BY <1>1, Numbers DEF LineInv, IInv, PositionsAgree
<1>4. Held' /\ Gone' = Gone + bytes_to_drop /\ Len(buffer_') = Len(buffer_) - bytes_to_drop
  BY <1>1, <1>3, DropKeepsHeld DEF LineInv
<1>5. AtRest'
  BY <1>1, <1>3, <1>4 DEF AtRest
<1>6. frame_start_found_ => pos_' = pos_ /\ Gone' = Gone
  <2>1. frame_start_found_ => bytes_to_drop = 0
    BY Zenon DEF IInv, NothingToDrop
  <2>2. QED
    BY <2>1, <1>1, <1>3, <1>4
<1>7. Looking'
  <2>1. ASSUME ~frame_start_found_'
        PROVE  current_frame_' = <<>> /\ pos_' <= bytes_to_drop' + 2
    <3>1. current_frame_ = <<>> /\ pos_ <= bytes_to_drop + 2
      BY <2>1, <1>2 DEF LineInv, Looking
    <3>2. pos_ - bytes_to_drop <= 2
      BY <3>1, <1>3
    <3>3. QED
      BY <3>1, <3>2, <1>1, <1>2
  <2>2. QED
    BY <2>1 DEF Looking
<1>8. InHeader'
  BY <1>2, <1>6 DEF LineInv, InHeader
<1>9. InBody'
  BY <1>2, <1>6 DEF LineInv, InBody
<1>10. FoundBehind'
  <2>1. \A k \in DOMAIN found : found[k].last \in Nat /\ found[k].last <= Gone
    BY IntactFrame DEF LineInv, FoundBehind
  <2>2. \A k \in DOMAIN found : found[k].last <= Gone'
    BY <2>1, <1>3, <1>4
  <2>3. QED
    BY <2>2, <1>2 DEF LineInv, FoundBehind
<1>11. Records'
  BY <1>2 DEF LineInv, Records
<1>12. Ahead'
  <2>1. Gone' + bytes_to_drop' = Gone + bytes_to_drop
    BY <1>1, <1>3, <1>4
  <2>2. QED
    BY <2>1, <1>2 DEF LineInv, Ahead, Settled
<1>13. QED
  BY <1>4, <1>5, <1>7, <1>8, <1>9, <1>10, <1>11, <1>12 DEF LineInv

-----------------------------------------------------------------------------
(* Turns inside a frame                                                    *)

\* The count of the line's bytes with the one a turn looks at.
LEMMA OneMoreByte ==
  ASSUME IInv, LineInv, Turn, NEW lo \in Nat, lo <= Gone + pos_ + 1
  PROVE  /\ Separator \in {0, 1} /\ Raw(line, lo, Gone + pos_) \in Nat
         /\ Raw(line, lo, Gone + pos_ + 1) + Separator = Raw(line, lo, Gone + pos_) + 1
         /\ Separator = 0 <=> line[Gone + pos_ + 1] # SEPARATOR_BYTE
<1>1. Here = line[Gone + pos_ + 1] /\ Gone \in Nat /\ pos_ \in Nat
  BY Numbers, TurnOnLine DEF LineInv
<1> DEFINE hi == Gone + pos_
<1>2. lo \in Int /\ hi \in Int /\ lo <= hi + 1 /\ hi + 1 = Gone + pos_ + 1
  BY <1>1
<1> HIDE DEF hi
<1>3. /\ Raw(line, lo, hi) \in Nat
      /\ line[hi + 1] # SEPARATOR_BYTE => Raw(line, lo, hi + 1) = Raw(line, lo, hi) + 1
      /\ line[hi + 1] = SEPARATOR_BYTE => Raw(line, lo, hi + 1) = Raw(line, lo, hi)
  BY <1>2, RawSteps
<1>4. Here = line[hi + 1]
  BY <1>1, <1>2
<1>5. CASE Here = SEPARATOR_BYTE
  <2>1. Separator = 1
    BY <1>5 DEF Separator
  <2>2. QED
    BY <2>1, <1>2, <1>3, <1>4, <1>5 DEF hi
<1>6. CASE Here # SEPARATOR_BYTE
  <2>1. Separator = 0
    BY <1>6 DEF Separator
  <2>2. QED
    BY <2>1, <1>2, <1>3, <1>4, <1>6 DEF hi
<1>7. QED
  BY <1>5, <1>6

\* One turn on, with the counts kept, still short of the size that is needed.
LEMMA OneTurnOn ==
  ASSUME NEW p \in Int, NEW c \in Int, NEW r \in Int, NEW r1 \in Int, NEW size \in Int,
         NEW sep \in {0, 1}, p = c + r, r1 + sep = r + 1, p < c + size,
         p + 1 - (c + sep) # size
  PROVE  /\ p + 1 = (c + sep) + r1
         /\ p + 1 < (c + sep) + size
OBVIOUS

\* A byte within a stage is counted on the line as in the buffer.
LEMMA FrameByteKeepsLineInv ==
  ASSUME IInv, LineInv, FrameByte
  PROVE  LineInv'
<1>1. /\ Turn /\ frame_start_found_ /\ Logical # Needed
      /\ sep_count_' = sep_count_ + Separator /\ pos_' = pos_ + 1
      /\ UNCHANGED <<line, intact, received, buffer_, frame_start_found_, current_frame_,
                     phase, bytes_to_drop, history>>
  BY DEF FrameByte
<1>2. /\ line' = line /\ intact' = intact /\ start' = start /\ found' = found /\ lost' = lost
      /\ current_frame_' = current_frame_ /\ age' = age /\ bytes_to_drop' = bytes_to_drop
      /\ frame_start_found_' = frame_start_found_
  BY <1>1 DEF history
<1>3. Gone' = Gone /\ Held'
  BY <1>1 DEF Gone, Held, LineInv
<1>4. Gone \in Nat /\ pos_ \in Nat /\ sep_count_ \in Nat /\ Separator \in {0, 1}
  BY Numbers DEF LineInv, Separator
<1>5. Gone' + pos_' = Gone + pos_ + 1
  BY <1>1, <1>3, <1>4
<1>6. AtRest'
  BY <1>1, TurnHasByte DEF AtRest
<1>7. Looking'
  <2>1. frame_start_found_'
    BY <1>1, <1>2
  <2>2. QED
    BY <2>1, Zenon DEF Looking
<1>8. InHeader'
  <2> SUFFICES ASSUME current_frame_ = <<>>
               PROVE  /\ pos_' >= 3 /\ line[Gone + 3] # SEPARATOR_BYTE
                      /\ pos_' = sep_count_' + 2 + Raw(line, Gone + 3, Gone + pos_ + 1)
                      /\ pos_' < sep_count_' + FRAME_HEADER_SIZE
    BY <1>2, <1>3, <1>5 DEF InHeader
  <2>1. /\ pos_ >= 3 /\ line[Gone + 3] # SEPARATOR_BYTE
        /\ pos_ = sep_count_ + 2 + Raw(line, Gone + 3, Gone + pos_)
        /\ pos_ < sep_count_ + FRAME_HEADER_SIZE
    BY <1>1 DEF LineInv, InHeader
  <2>2. /\ Raw(line, Gone + 3, Gone + pos_) \in Nat
        /\ Raw(line, Gone + 3, Gone + pos_ + 1) + Separator
             = Raw(line, Gone + 3, Gone + pos_) + 1
        /\ Raw(line, Gone + 3, Gone + pos_ + 1) \in Nat
    <3>1. Gone + 3 \in Nat /\ Gone + 3 <= Gone + pos_ + 1 /\ Gone + pos_ + 1 \in Int
      BY <1>4, <2>1
    <3>2. QED
      BY <3>1, <1>1, OneMoreByte, RawSteps
  <2>3. Logical # FRAME_HEADER_SIZE /\ Logical = pos_ + 1 - (sep_count_ + Separator)
    BY <1>1 DEF Needed, Logical
  <2>4. FRAME_HEADER_SIZE \in Nat
    BY HeaderSizes
  <2> DEFINE r == 2 + Raw(line, Gone + 3, Gone + pos_)
             r1 == 2 + Raw(line, Gone + 3, Gone + pos_ + 1)
  <2>5. r \in Int /\ r1 \in Int /\ r1 + Separator = r + 1 /\ pos_ = sep_count_ + r
    BY <1>4, <2>1, <2>2, SMTT(30)
  <2>6. pos_ + 1 - (sep_count_ + Separator) # FRAME_HEADER_SIZE
    BY <2>3
  <2>7. FRAME_HEADER_SIZE \in Int /\ pos_ \in Int /\ sep_count_ \in Int
    BY <1>4, <2>4
  <2>8. r1 = 2 + Raw(line, Gone + 3, Gone + pos_ + 1)
    OBVIOUS
  <2> HIDE DEF r, r1
  <2>9. /\ pos_ + 1 = (sep_count_ + Separator) + r1
        /\ pos_ + 1 < (sep_count_ + Separator) + FRAME_HEADER_SIZE
    BY <1>4, <2>1, <2>5, <2>6, <2>7, OneTurnOn
  <2>10. pos_ + 1 = sep_count_ + Separator + 2 + Raw(line, Gone + 3, Gone + pos_ + 1)
    BY <1>4, <2>2, <2>7, <2>8, <2>9
  <2>11. pos_ + 1 >= 3
    BY <2>1, <2>7
  <2>12. QED
    BY <1>1, <2>1, <2>9, <2>10, <2>11
<1>9. InBody'
  <2> SUFFICES ASSUME current_frame_ # <<>>
               PROVE  /\ pos_' = sep_count_' + Raw(line, Gone + 1, Gone + pos_ + 1)
                      /\ pos_' < sep_count_' + BodySize(current_frame_)
    BY <1>2, <1>3, <1>5 DEF LineInv, InBody
  <2>1. /\ pos_ = sep_count_ + Raw(line, Gone + 1, Gone + pos_)
        /\ pos_ < sep_count_ + BodySize(current_frame_)
        /\ HeaderSizeFits(current_frame_)
    BY <1>1 DEF LineInv, InBody, HeaderAt
  <2>2. /\ Raw(line, Gone + 1, Gone + pos_) \in Nat
        /\ Raw(line, Gone + 1, Gone + pos_ + 1) + Separator
             = Raw(line, Gone + 1, Gone + pos_) + 1
        /\ Raw(line, Gone + 1, Gone + pos_ + 1) \in Nat
    <3>1. Gone + 1 \in Nat /\ Gone + 1 <= Gone + pos_ + 1 /\ Gone + pos_ + 1 \in Int
      BY <1>4, <2>1
    <3>2. QED
      BY <3>1, <1>1, OneMoreByte, RawSteps
  <2>3. Logical # BodySize(current_frame_) /\ Logical = pos_ + 1 - (sep_count_ + Separator)
    BY <1>1 DEF Needed, Logical
  <2>4. BodySize(current_frame_) \in Nat
    BY <2>1, HeaderSizes
  <2> DEFINE r == Raw(line, Gone + 1, Gone + pos_)
             r1 == Raw(line, Gone + 1, Gone + pos_ + 1)
             size == BodySize(current_frame_)
  <2>5. /\ r \in Int /\ r1 \in Int /\ r1 + Separator = r + 1 /\ pos_ = sep_count_ + r
        /\ size \in Int /\ pos_ \in Int /\ sep_count_ \in Int /\ pos_ < sep_count_ + size
        /\ pos_ + 1 - (sep_count_ + Separator) # size
    BY <1>4, <2>1, <2>2, <2>3, <2>4
  <2> HIDE DEF r, r1, size
  <2>6. /\ pos_ + 1 = (sep_count_ + Separator) + r1
        /\ pos_ + 1 < (sep_count_ + Separator) + size
    BY <1>4, <2>5, OneTurnOn
  <2>7. QED
    BY <1>1, <2>6 DEF r1, size
<1>10. FoundBehind' /\ Records'
  BY <1>2, <1>3 DEF LineInv, FoundBehind, Records
<1>11. Ahead'
  BY <1>2, <1>3 DEF LineInv, Ahead, Settled
<1>12. QED
  BY <1>3, <1>6, <1>7, <1>8, <1>9, <1>10, <1>11 DEF LineInv

\* A part of a part of a line is a part of the line.
LEMMA PartOfPart ==
  ASSUME NEW s \in Bytes, NEW lo \in Nat \ {0}, NEW m \in Nat, NEW hi \in Nat,
         lo <= m, m <= hi, hi <= Len(s)
  PROVE  SubSeq(SubSeq(s, lo, hi), m - lo + 1, hi - lo + 1) = SubSeq(s, m, hi)
<1> DEFINE part == SubSeq(s, lo, hi)
           n == m - lo + 1
           last == hi - lo + 1
           p == SubSeq(part, n, last)
           q == SubSeq(s, m, hi)
<1>1. part \in Bytes /\ Len(part) = last /\ \A i \in 1 .. last : part[i] = s[lo + i - 1]
  BY PartOf
<1>2. n \in Nat \ {0} /\ last \in Nat /\ n <= last /\ m \in Nat \ {0}
      /\ last - n + 1 = hi - m + 1 /\ hi \in Nat
  OBVIOUS
<1>3. q \in Bytes /\ Len(q) = hi - m + 1 /\ \A i \in 1 .. hi - m + 1 : q[i] = s[m + i - 1]
  BY <1>2, PartOf
<1> HIDE DEF part, q
<1>4. /\ p \in Bytes /\ Len(p) = last - n + 1
      /\ \A i \in 1 .. last - n + 1 : p[i] = part[n + i - 1]
  <2> HIDE DEF n, last
  <2>1. QED
    BY <1>1, <1>2, PartOf
<1> HIDE DEF p
<1>5. ASSUME NEW i \in 1 .. Len(q) PROVE p[i] = q[i]
  <2>1. i \in 1 .. hi - m + 1 /\ i \in 1 .. last - n + 1
    BY <1>2, <1>3
  <2>2. n + i - 1 \in 1 .. last /\ lo + (n + i - 1) - 1 = m + i - 1
    BY <2>1
  <2>3. p[i] = part[n + i - 1] /\ q[i] = s[m + i - 1]
    BY <2>1, <1>3, <1>4
  <2>4. part[n + i - 1] = s[lo + (n + i - 1) - 1]
    BY <2>2, <1>1
  <2>5. QED
    BY <2>2, <2>3, <2>4
<1>6. p \in Seq(Byte) /\ q \in Seq(Byte) /\ Len(p) = Len(q)
  BY <1>2, <1>3, <1>4 DEF Bytes
<1>7. p = q
  BY <1>5, <1>6, SeqEqual
<1>8. QED
  BY <1>7 DEF p, q, part

\* Where a stage ends, and how much of the line it is.
LEMMA StageEnds ==
  ASSUME IInv, LineInv, Turn, frame_start_found_, Logical = Needed
  PROVE  /\ line[Gone + pos_ + 1] # SEPARATOR_BYTE
         /\ current_frame_ = <<>> =>
              /\ pos_ >= 3 /\ line[Gone + 3] # SEPARATOR_BYTE
              /\ Raw(line, Gone + 3, Gone + pos_ + 1) = PURE_HEADER_SIZE
         /\ current_frame_ # <<>> =>
              Raw(line, Gone + 1, Gone + pos_ + 1) = BodySize(current_frame_)
<1>1. Gone \in Nat /\ pos_ \in Nat /\ sep_count_ \in Nat
      /\ Logical = pos_ + 1 - (sep_count_ + Separator)
  BY Numbers DEF LineInv, Logical
<1>2. CASE current_frame_ = <<>>
  <2>1. /\ pos_ >= 3 /\ line[Gone + 3] # SEPARATOR_BYTE
        /\ pos_ = sep_count_ + 2 + Raw(line, Gone + 3, Gone + pos_)
        /\ pos_ < sep_count_ + FRAME_HEADER_SIZE
    BY <1>2 DEF LineInv, InHeader
  <2>2. /\ Raw(line, Gone + 3, Gone + pos_) \in Nat /\ Separator \in {0, 1}
        /\ Raw(line, Gone + 3, Gone + pos_ + 1) + Separator
             = Raw(line, Gone + 3, Gone + pos_) + 1
        /\ Raw(line, Gone + 3, Gone + pos_ + 1) \in Nat
        /\ Separator = 0 <=> line[Gone + pos_ + 1] # SEPARATOR_BYTE
    <3>1. Gone + 3 \in Nat /\ Gone + 3 <= Gone + pos_ + 1 /\ Gone + pos_ + 1 \in Int
      BY <1>1, <2>1
    <3>2. QED
      BY <3>1, OneMoreByte, RawSteps
  <2>3. Logical = FRAME_HEADER_SIZE /\ FRAME_HEADER_SIZE = PURE_HEADER_SIZE + 2
        /\ PURE_HEADER_SIZE \in Nat
    BY <1>2, HeaderSizes DEF Needed
  <2>4. Separator = 0 /\ Raw(line, Gone + 3, Gone + pos_ + 1) = PURE_HEADER_SIZE
    BY <1>1, <2>1, <2>2, <2>3
  <2>5. QED
    BY <1>2, <2>1, <2>2, <2>4
<1>3. CASE current_frame_ # <<>>
  <2>1. /\ pos_ = sep_count_ + Raw(line, Gone + 1, Gone + pos_)
        /\ pos_ < sep_count_ + BodySize(current_frame_)
        /\ HeaderSizeFits(current_frame_)
    BY <1>3 DEF LineInv, InBody, HeaderAt
  <2>2. /\ Raw(line, Gone + 1, Gone + pos_) \in Nat /\ Separator \in {0, 1}
        /\ Raw(line, Gone + 1, Gone + pos_ + 1) + Separator
             = Raw(line, Gone + 1, Gone + pos_) + 1
        /\ Raw(line, Gone + 1, Gone + pos_ + 1) \in Nat
        /\ Separator = 0 <=> line[Gone + pos_ + 1] # SEPARATOR_BYTE
    <3>1. Gone + 1 \in Nat /\ Gone + 1 <= Gone + pos_ + 1 /\ Gone + pos_ + 1 \in Int
      BY <1>1, <2>1
    <3>2. QED
      BY <3>1, OneMoreByte, RawSteps
  <2>3. Logical = BodySize(current_frame_) /\ BodySize(current_frame_) \in Nat
    BY <1>3, <2>1, HeaderSizes DEF Needed
  <2>4. Separator = 0 /\ Raw(line, Gone + 1, Gone + pos_ + 1) = BodySize(current_frame_)
    BY <1>1, <2>1, <2>2, <2>3
  <2>5. QED
    BY <1>3, <2>2, <2>4
<1>4. QED
  BY <1>2, <1>3

\* As far as the escapes of a stage are right, no frame begins in it.
LEMMA AheadInStage ==
  ASSUME IInv, LineInv, Turn, frame_start_found_, NEW q \in Nat, q <= Gone + pos_ + 1,
         \A w \in Wrong : Gone + w > q,
         NEW e \in intact, ~Settled(e)
  PROVE  /\ current_frame_ = <<>> => e.first = Gone + 1 \/ e.first >= q
         /\ current_frame_ # <<>> => e.first = start \/ e.first >= q
<1>1. Gone \in Nat /\ pos_ \in Nat /\ line \in Bytes /\ intact = FramesOn(line)
      /\ e.first \in Nat /\ e \in FramesOn(line)
  BY Numbers, IntactFrame DEF LineInv, Records
<1>2. e.first > Gone \/ (current_frame_ # <<>> /\ e.first = start)
  <2>1. bytes_to_drop = 0
    BY Zenon DEF IInv, NothingToDrop
  <2>2. Gone + bytes_to_drop = Gone
    BY <1>1, <2>1
  <2>3. QED
    BY <2>2 DEF LineInv, Ahead
<1>3. \A i \in Gone + 2 .. Gone + pos_ + 1 :
        WrongAt(line, i) => i - Gone \in Misescaped(Stage)
  BY WrongOnLine DEF LineInv
<1>4. CASE current_frame_ = <<>>
  <2>1. line[Gone + 3] # SEPARATOR_BYTE
    BY <1>4 DEF LineInv, InHeader
  <2>2. ASSUME NEW i \in Gone + 4 .. q, WrongAt(line, i)
        PROVE  FALSE
    <3>1. i \in Gone + 2 .. Gone + pos_ + 1 /\ i \in Int
      BY <1>1
    <3>2. i - Gone \in Misescaped(Stage)
      BY <2>2, <3>1, <1>3
    <3>3. i - Gone \notin 1 .. 3
      BY <1>1
    <3>4. i - Gone \in Wrong
      <4>1. Wrong = Misescaped(Stage) \ (1 .. 3)
        BY <1>4 DEF Wrong, FRAME_SEPARATORS_COUNT
      <4>2. QED
        BY <4>1, <3>2, <3>3
    <3>5. Gone + (i - Gone) > q
      BY <3>4
    <3>6. QED
      BY <3>5, <3>1, <1>1
  <2>3. ~(Gone + 1 < e.first /\ e.first < q)
    BY <1>1, <2>1, <2>2, NoFrameBeginsInHeader
  <2>4. QED
    BY <2>3, <1>1, <1>2, <1>4
<1>5. CASE current_frame_ # <<>>
  <2>1. ASSUME NEW i \in Gone + 2 .. q, WrongAt(line, i)
        PROVE  FALSE
    <3>1. i \in Gone + 2 .. Gone + pos_ + 1 /\ i \in Int
      BY <1>1
    <3>2. i - Gone \in Wrong
      BY <2>1, <3>1, <1>3, <1>5 DEF Wrong
    <3>3. Gone + (i - Gone) > q
      BY <3>2
    <3>4. QED
      BY <3>3, <3>1, <1>1
  <2>2. ~(Gone < e.first /\ e.first < q)
    BY <1>1, <2>1, NoFrameBegins
  <2>3. QED
    BY <2>2, <1>1, <1>2, <1>5
<1>6. QED
  BY <1>4, <1>5

\* The frame whose header was read has its body next.
LEMMA StartedFrame ==
  ASSUME IInv, LineInv, current_frame_ # <<>>, NEW e \in intact, e.first = start
  PROVE  /\ Gone < e.last /\ BodyAt(line, Gone, e.last, current_frame_)
         /\ e = PlaceAt(line, start, Gone, e.last, current_frame_)
         /\ HeaderAt(line, start, Gone, current_frame_)
<1>1. Gone \in Nat /\ line \in Bytes /\ e \in FramesOn(line)
  BY Numbers, IntactFrame DEF LineInv
<1>2. start \in Nat \ {0} /\ start + 2 < Gone /\ HeaderAt(line, start, Gone, current_frame_)
  BY DEF LineInv, InBody
<1>3. PICK c, header :
        /\ c \in Nat
        /\ start + 2 < c /\ c < e.last
        /\ HeaderAt(line, start, c, header) /\ BodyAt(line, c, e.last, header)
        /\ e = PlaceAt(line, start, c, e.last, header)
  BY <1>1, FrameParts
<1>4. /\ line[Gone] # SEPARATOR_BYTE /\ Raw(line, start + 2, Gone) = PURE_HEADER_SIZE
      /\ current_frame_ = Unstuffed(SubSeq(line, start + 2, Gone))
  BY <1>2 DEF HeaderAt
<1>5. Gone = c /\ header = Unstuffed(SubSeq(line, start + 2, Gone))
  <2>1. start + 2 <= c /\ start + 2 <= Gone /\ start \in Nat
    BY <1>1, <1>2, <1>3
  <2>2. QED
    BY <2>1, <1>1, <1>3, <1>4, SameHeader
<1>6. QED
  BY <1>2, <1>3, <1>4, <1>5

\* A frame that begins with the buffer has its header in the stage that ends here.
LEMMA StageIsHeader ==
  ASSUME IInv, LineInv, Turn, frame_start_found_, Logical = Needed, current_frame_ = <<>>,
         NEW e \in intact, e.first = Gone + 1
  PROVE  /\ Gone + pos_ + 1 < e.last
         /\ HeaderAt(line, Gone + 1, Gone + pos_ + 1,
                     Unstuffed(SubSeq(line, Gone + 3, Gone + pos_ + 1)))
         /\ \A i \in Gone + 4 .. e.last : ~WrongAt(line, i)
<1> DEFINE b == Gone + 1
           q == Gone + pos_ + 1
<1>1. Gone \in Nat /\ pos_ \in Nat /\ line \in Bytes /\ e \in FramesOn(line)
  BY Numbers, IntactFrame DEF LineInv
<1>2. b \in Nat /\ q \in Nat /\ b + 2 = Gone + 3 /\ b + 3 = Gone + 4
  BY <1>1
<1>3. pos_ >= 3 /\ line[q] # SEPARATOR_BYTE /\ Raw(line, b + 2, q) = PURE_HEADER_SIZE
  BY <1>2, StageEnds
<1>4. PICK c, header :
        /\ c \in Nat
        /\ b + 2 < c /\ c < e.last
        /\ HeaderAt(line, b, c, header) /\ BodyAt(line, c, e.last, header)
  BY <1>1, FrameParts
<1>5. b + 2 <= c /\ b + 2 <= q
  BY <1>1, <1>3, <1>4
<1>6. \A i \in e.first + 3 .. e.last : ~WrongAt(line, i)
  BY <1>1, FrameOnLine
<1> HIDE DEF b, q
<1>7. q = c /\ header = Unstuffed(SubSeq(line, b + 2, q))
  BY <1>1, <1>2, <1>3, <1>4, <1>5, SameHeader
<1>8. HeaderAt(line, b, q, Unstuffed(SubSeq(line, b + 2, q))) /\ q < e.last
  BY <1>4, <1>7
<1>9. \A i \in Gone + 4 .. e.last : ~WrongAt(line, i)
  BY <1>2, <1>6 DEF b
<1>10. QED
  BY <1>2, <1>8, <1>9 DEF b, q

\* A frame that is ahead cannot begin before the first wrong post byte.
LEMMA WrongPostByteKeepsLineInv ==
  ASSUME IInv, LineInv, WrongPostByte
  PROVE  LineInv'
<1>1. PICK w \in Wrong : (\A other \in Wrong : w <= other) /\ buffer_' = Without(w - 2)
  BY DEF WrongPostByte, Resume
<1>2. /\ Turn /\ frame_start_found_ /\ Logical = Needed /\ ForgetFrame
      /\ UNCHANGED <<line, intact, received, phase, bytes_to_drop, start, found, lost>>
  BY DEF WrongPostByte
<1>3. w \in Nat /\ 2 <= w /\ w <= pos_ + 1
  BY <1>2, WrongIsInStage
<1>4. Gone \in Nat /\ pos_ \in Nat /\ Len(buffer_) \in Nat /\ pos_ + 1 <= Len(buffer_)
      /\ line \in Bytes
  BY <1>2, Numbers, TurnHasByte DEF LineInv
<1>5. w - 2 \in Nat /\ w - 2 <= Len(buffer_)
  BY <1>3, <1>4
<1>6. Held' /\ Gone' = Gone + (w - 2)
  BY <1>2, <1>1, <1>5, DropKeepsHeld DEF LineInv
<1>7. /\ ~frame_start_found_' /\ current_frame_' = <<>> /\ pos_' = 0 /\ age' = 0
      /\ bytes_to_drop' = 0
  BY <1>2, Zenon DEF ForgetFrame, IInv, NothingToDrop
<1>8. AtRest'
  BY <1>2, TurnHasByte DEF AtRest
<1>9. Looking' /\ InHeader' /\ InBody'
  <2>1. current_frame_' = <<>> /\ pos_' <= bytes_to_drop' + 2
    BY <1>7
  <2>2. Looking'
    BY <2>1 DEF Looking
  <2>3. InHeader'
    BY <1>7, Zenon DEF InHeader
  <2>4. InBody'
    BY <2>1, Zenon DEF InBody
  <2>5. QED
    BY <2>2, <2>3, <2>4
<1>10. FoundBehind' /\ Records'
  <2>1. \A k \in DOMAIN found : found[k].last \in Nat /\ found[k].last <= Gone
    BY IntactFrame DEF LineInv, FoundBehind
  <2>2. \A k \in DOMAIN found : found[k].last <= Gone'
    BY <2>1, <1>4, <1>5, <1>6
  <2>3. QED
    BY <2>2, <1>2, <1>7 DEF LineInv, FoundBehind, Records
<1>11. ASSUME NEW e \in intact, ~Settled(e)
       PROVE  e.first > Gone + (w - 2)
  <2> DEFINE q == Gone + w - 1
  <2>1. q \in Nat /\ q <= Gone + pos_ + 1 /\ \A v \in Wrong : Gone + v > q
    <3>1. \A v \in Wrong : v \in Nat /\ w <= v
      BY <1>1, <1>2, WrongIsInStage
    <3>2. QED
      BY <3>1, <1>3, <1>4
  <2>2. e.first \in Nat /\ WrongAt(line, Gone + w)
    <3>1. w \in Misescaped(Stage)
      BY DEF Wrong
    <3>2. QED
      BY <3>1, <1>2, WrongOnLine, IntactFrame DEF LineInv
  <2> HIDE DEF q
  <2>3. CASE current_frame_ = <<>>
    <3>1. e.first = Gone + 1 \/ e.first >= q
      BY <1>2, <1>11, <2>1, <2>3, AheadInStage
    <3>2. e.first # Gone + 1
      <4> SUFFICES ASSUME e.first = Gone + 1 PROVE FALSE
        OBVIOUS
      <4>1. Gone + pos_ + 1 < e.last /\ \A i \in Gone + 4 .. e.last : ~WrongAt(line, i)
        BY <1>2, <2>3, StageIsHeader
      <4>2. w \notin 1 .. 3
        BY <2>3 DEF Wrong, FRAME_SEPARATORS_COUNT
      <4>3. e.last \in Nat
        BY IntactFrame
      <4>4. Gone + w \in Gone + 4 .. e.last
        BY <4>1, <4>2, <4>3, <1>3, <1>4
      <4>5. QED
        BY <4>1, <4>4, <2>2
    <3>3. QED
      BY <3>1, <3>2, <1>3, <1>4, <2>2 DEF q
  <2>4. CASE current_frame_ # <<>>
    <3>1. e.first = start \/ e.first >= q
      BY <1>2, <1>11, <2>1, <2>4, AheadInStage
    <3>2. e.first # start
      <4> SUFFICES ASSUME e.first = start PROVE FALSE
        OBVIOUS
      <4>1. Gone < e.last /\ BodyAt(line, Gone, e.last, current_frame_)
        BY <2>4, StartedFrame
      <4>2. e.last = Gone + pos_ + 1
        <5>1. /\ Raw(line, Gone + 1, Gone + pos_ + 1) = BodySize(current_frame_)
              /\ line[Gone + pos_ + 1] # SEPARATOR_BYTE
          BY <1>2, <2>4, StageEnds
        <5>2. Raw(line, Gone + 1, e.last) = BodySize(current_frame_)
              /\ line[e.last] # SEPARATOR_BYTE
          BY <4>1 DEF BodyAt
        <5>3. e.last \in Int /\ Gone + 1 \in Int /\ Gone + pos_ + 1 \in Int
              /\ Gone + 1 <= e.last /\ Gone + 1 <= Gone + pos_ + 1
          BY <4>1, <1>4, IntactFrame
        <5>4. QED
          BY <5>1, <5>2, <5>3, RawPlace
      <4>3. Gone + w \in Gone + 2 .. e.last
        BY <4>2, <1>3, <1>4
      <4>4. QED
        BY <4>1, <4>3, <2>2 DEF BodyAt
    <3>3. QED
      BY <3>1, <3>2, <1>3, <1>4, <2>2 DEF q
  <2>5. QED
    BY <2>3, <2>4
<1>12. Ahead'
  <2>1. Gone' + bytes_to_drop' = Gone + (w - 2)
    BY <1>4, <1>5, <1>6, <1>7
  <2>2. QED
    BY <2>1, <1>2, <1>11 DEF Ahead, Settled
<1>13. QED
  BY <1>6, <1>8, <1>9, <1>10, <1>12 DEF LineInv

\* At the end of a header whose escapes are right, no frame begins in it, but where
\* the buffer does; and then the parser takes the header.
LEMMA HeaderTaken ==
  ASSUME IInv, LineInv, Turn, frame_start_found_, Logical = Needed, Wrong = {},
         current_frame_ = <<>>
  PROVE  LET header == Unstuffed(SubSeq(Stage, FRAME_SEPARATORS_COUNT + 1, pos_ + 1))
         IN  /\ header \in Bytes /\ Len(header) = PURE_HEADER_SIZE
             /\ StartsRight /\ HeaderSizeFits(header) =>
                  HeaderAt(line, Gone + 1, Gone + pos_ + 1, header)
             /\ \A e \in intact : \/ Settled(e)
                                  \/ e.first > Gone + pos_ + 1
                                  \/ /\ e.first = Gone + 1
                                     /\ StartsRight /\ HeaderSizeFits(header)
<1> DEFINE b == Gone + 1
           q == Gone + pos_ + 1
           header == Unstuffed(SubSeq(Stage, FRAME_SEPARATORS_COUNT + 1, pos_ + 1))
<1>1. Gone \in Nat /\ pos_ \in Nat /\ line \in Bytes /\ b \in Nat \ {0} /\ q \in Nat
      /\ pos_ >= 3 /\ b + 2 = Gone + 3 /\ b + 2 <= q /\ b + 3 = Gone + 4 /\ b + 1 = Gone + 2
  <2>1. Gone \in Nat /\ pos_ \in Nat /\ line \in Bytes
    BY Numbers DEF LineInv
  <2>2. pos_ >= 3
    BY StageEnds
  <2>3. QED
    BY <2>1, <2>2
<1>2. q <= Len(line) /\ Stage = SubSeq(line, b, q)
      /\ \A i \in 1 .. pos_ + 1 : buffer_[i] = line[Gone + i]
  BY TurnOnLine DEF LineInv
<1>3. /\ line[q] # SEPARATOR_BYTE /\ line[b + 2] # SEPARATOR_BYTE
      /\ Raw(line, b + 2, q) = PURE_HEADER_SIZE
  BY <1>1, StageEnds
<1>4. header = Unstuffed(SubSeq(line, b + 2, q))
  <2>1. (b + 2) - b + 1 = 3 /\ q - b + 1 = pos_ + 1 /\ b <= b + 2
    BY <1>1
  <2>2. SubSeq(SubSeq(line, b, q), (b + 2) - b + 1, q - b + 1) = SubSeq(line, b + 2, q)
    <3>1. b + 2 \in Nat
      BY <1>1
    <3> HIDE DEF b, q
    <3>2. QED
      BY <3>1, <2>1, <1>1, <1>2, PartOfPart
  <2>3. FRAME_SEPARATORS_COUNT + 1 = 3
    BY DEF FRAME_SEPARATORS_COUNT
  <2>4. QED
    BY <2>1, <2>2, <2>3, <1>2
<1>5. header \in Bytes /\ Len(header) = PURE_HEADER_SIZE
  <2>1. b + 2 \in Nat \ {0}
    BY <1>1
  <2> HIDE DEF b, q, header
  <2>2. QED
    BY <2>1, <1>1, <1>2, <1>3, <1>4, UnstuffedPart
<1>6. StartsRight <=> line[b] = SEPARATOR_BYTE /\ line[b + 1] = SEPARATOR_BYTE
  <2>1. buffer_[1] = line[b] /\ buffer_[2] = line[b + 1]
    <3>1. 1 \in 1 .. pos_ + 1 /\ 2 \in 1 .. pos_ + 1
      BY <1>1
    <3>2. buffer_[1] = line[Gone + 1] /\ buffer_[2] = line[Gone + 2]
      BY <3>1, <1>2
    <3>3. QED
      BY <3>2, <1>1
  <2> DEFINE two == SubSeq(buffer_, 1, 2)
             seps == <<SEPARATOR_BYTE, SEPARATOR_BYTE>>
  <2>2. two \in Seq(Byte) /\ Len(two) = 2 /\ two[1] = buffer_[1] /\ two[2] = buffer_[2]
    <3>1. buffer_ \in Bytes /\ Len(buffer_) \in Nat /\ 2 <= Len(buffer_)
      BY <1>1, TurnHasByte DEF IInv, BufferTypes
    <3>2. two \in Bytes /\ Len(two) = 2 - 1 + 1
          /\ \A i \in 1 .. 2 - 1 + 1 : two[i] = buffer_[1 + i - 1]
      BY <3>1, PartOf
    <3>3. 2 - 1 + 1 = 2 /\ 1 \in 1 .. 2 /\ 2 \in 1 .. 2 /\ 1 + 1 - 1 = 1 /\ 1 + 2 - 1 = 2
      OBVIOUS
    <3> HIDE DEF two
    <3>4. QED
      BY <3>2, <3>3 DEF Bytes
  <2>3. SEPARATOR_BYTE \in Byte
    BY SizesAssumption DEF SEPARATOR_BYTE, Byte
  <2>4. seps \in Seq(Byte) /\ Len(seps) = 2 /\ seps[1] = SEPARATOR_BYTE
        /\ seps[2] = SEPARATOR_BYTE
    BY <2>3
  <2> HIDE DEF two, seps
  <2>5. two = seps <=> two[1] = SEPARATOR_BYTE /\ two[2] = SEPARATOR_BYTE
    <3>1. \A i \in 1 .. 2 : i = 1 \/ i = 2
      OBVIOUS
    <3>2. ASSUME two[1] = SEPARATOR_BYTE, two[2] = SEPARATOR_BYTE
          PROVE  two = seps
      <4>1. \A i \in 1 .. 2 : two[i] = seps[i]
        BY <3>1, <3>2, <2>4
      <4>2. QED
        BY <4>1, <2>2, <2>4, SeqEqual
    <3>3. QED
      BY <3>2, <2>4
  <2>6. StartsRight <=> two = seps
    BY DEF StartsRight, FRAME_SEPARATORS_COUNT, two, seps
  <2>7. QED
    BY <2>1, <2>2, <2>5, <2>6
<1>7. StartsRight /\ HeaderSizeFits(header) => HeaderAt(line, b, q, header)
  <2>1. ASSUME NEW i \in b + 3 .. q, WrongAt(line, i)
        PROVE  FALSE
    <3>1. i \in Gone + 2 .. Gone + pos_ + 1 /\ i \in Int /\ i - Gone \notin 1 .. 3
      BY <1>1
    <3>2. i - Gone \in Misescaped(Stage)
      BY <2>1, <3>1, WrongOnLine DEF LineInv
    <3>3. QED
      BY <3>1, <3>2 DEF Wrong, FRAME_SEPARATORS_COUNT
  <2> HIDE DEF b, q, header
  <2>2. QED
    BY <2>1, <1>3, <1>4, <1>6 DEF HeaderAt
<1>8. ASSUME NEW e \in intact, ~Settled(e)
      PROVE  \/ e.first > q
             \/ e.first = b /\ StartsRight /\ HeaderSizeFits(header)
  <2>1. e.first \in Nat /\ line[e.first] = SEPARATOR_BYTE
    BY <1>1, IntactFrame, FrameOnLine DEF LineInv, Records
  <2>2. e.first = b \/ e.first >= q
    <3>1. q <= Gone + pos_ + 1 /\ \A w \in Wrong : Gone + w > q
      BY <1>1
    <3> HIDE DEF q
    <3>2. QED
      BY <1>1, <1>8, <3>1, AheadInStage
  <2>3. CASE e.first = b
    <3>1. HeaderAt(line, b, q, Unstuffed(SubSeq(line, Gone + 3, q)))
      BY <2>3, StageIsHeader
    <3>2. HeaderAt(line, b, q, header)
      BY <3>1, <1>1, <1>4
    <3> HIDE DEF b, q, header
    <3>3. QED
      BY <2>3, <3>2, <1>6 DEF HeaderAt
  <2>4. CASE e.first >= q
    <3>1. e.first # q
      BY <2>1, <1>3
    <3>2. QED
      BY <3>1, <2>1, <2>4, <1>1
  <2>5. QED
    BY <2>2, <2>3, <2>4
<1>9. QED
  BY <1>5, <1>7, <1>8

\* A header that is taken is the line's; one that is refused begins no frame.
LEMMA HeaderEndKeepsLineInv ==
  ASSUME IInv, LineInv, HeaderEnd
  PROVE  LineInv'
<1> DEFINE header == Unstuffed(SubSeq(Stage, FRAME_SEPARATORS_COUNT + 1, pos_ + 1))
           taken == StartsRight /\ HeaderSizeFits(header)
<1>1. /\ Turn /\ frame_start_found_ /\ current_frame_ = <<>> /\ Logical = Needed /\ Wrong = {}
      /\ buffer_' = Without(pos_ + 1) /\ start' = Gone + 1
      /\ IF taken
           THEN /\ pos_' = 0 /\ sep_count_' = 0 /\ current_frame_' = header
                /\ UNCHANGED <<frame_start_found_, age>>
           ELSE ForgetFrame
      /\ UNCHANGED <<line, intact, received, phase, bytes_to_drop, found, lost>>
  BY DEF HeaderEnd
<1>2. Gone \in Nat /\ pos_ \in Nat /\ Len(buffer_) \in Nat /\ pos_ + 1 <= Len(buffer_)
      /\ line \in Bytes /\ pos_ + 1 \in Nat /\ pos_ >= 3
  BY <1>1, Numbers, TurnHasByte, StageEnds DEF LineInv
<1>3. Held' /\ Gone' = Gone + pos_ + 1
  <2>1. Held' /\ Gone' = Gone + (pos_ + 1)
    BY <1>1, <1>2, DropKeepsHeld DEF LineInv
  <2>2. QED
    BY <2>1, <1>2
<1>4. /\ header \in Bytes /\ Len(header) = PURE_HEADER_SIZE
      /\ taken => HeaderAt(line, Gone + 1, Gone + pos_ + 1, header)
      /\ \A e \in intact : Settled(e) \/ e.first > Gone + pos_ + 1 \/ (e.first = Gone + 1 /\ taken)
  BY <1>1, HeaderTaken
<1> HIDE DEF header
<1>5. header # <<>>
  BY <1>4, HeaderSizes
<1>6. AtRest'
  BY <1>1, TurnHasByte DEF AtRest
<1>7. bytes_to_drop' = 0
  BY <1>1, Zenon DEF IInv, NothingToDrop
<1>8. Records'
  <2>1. age' \in Nat
    <3>1. CASE taken
      <4>1. age' = age
        BY <1>1, <3>1, Zenon
      <4>2. QED
        BY <4>1 DEF LineInv, Records
    <3>2. CASE ~taken
      <4>1. age' = 0
        BY <1>1, <3>2, Zenon DEF ForgetFrame
      <4>2. QED
        BY <4>1
    <3>3. QED
      BY <3>1, <3>2
  <2>2. start' \in Nat
    BY <1>1, <1>2
  <2>3. QED
    BY <2>1, <2>2, <1>1 DEF LineInv, Records
<1>9. FoundBehind'
  <2>1. \A k \in DOMAIN found : found[k].last \in Nat /\ found[k].last <= Gone
    BY IntactFrame DEF LineInv, FoundBehind
  <2>2. \A k \in DOMAIN found : found[k].last <= Gone' /\ found[k].last < start'
    BY <2>1, <1>1, <1>2, <1>3
  <2>3. QED
    BY <2>2, <1>1 DEF LineInv, FoundBehind
<1>10. CASE taken
  <2>1. /\ pos_' = 0 /\ sep_count_' = 0 /\ current_frame_' = header /\ frame_start_found_'
        /\ HeaderAt(line, start', Gone', header)
    BY <1>1, <1>3, <1>4, <1>10
  <2>2. Looking' /\ InHeader'
    BY <2>1, <1>5, Zenon DEF Looking, InHeader
  <2>3. InBody'
    <3>1. start' \in Nat \ {0} /\ start' + 2 < Gone'
      BY <1>1, <1>2, <1>3
    <3>2. Raw(line, Gone' + 1, Gone' + pos_') = 0
      <4>1. Gone' \in Int /\ Gone' + 1 \in Int /\ Gone' < Gone' + 1 /\ Gone' + pos_' = Gone'
        BY <2>1, <1>2, <1>3
      <4>2. QED
        BY <4>1, RawSteps
    <3>3. BodySize(header) \in Nat /\ 1 <= BodySize(header)
      BY <2>1, HeaderSizes DEF HeaderAt
    <3>4. pos_' = sep_count_' + Raw(line, Gone' + 1, Gone' + pos_')
          /\ pos_' < sep_count_' + BodySize(header)
      BY <2>1, <3>2, <3>3
    <3>5. line' = line
      BY <1>1
    <3>6. QED
      BY <2>1, <3>1, <3>4, <3>5 DEF InBody
  <2>4. Ahead'
    <3>1. ASSUME NEW e \in intact
          PROVE  Settled(e) \/ e.first > Gone' + bytes_to_drop' \/ e.first = start'
      <4>1. Gone' + bytes_to_drop' = Gone + pos_ + 1
        BY <1>2, <1>3, <1>7
      <4>2. QED
        BY <4>1, <1>1, <1>4
    <3>2. QED
      BY <3>1, <2>1, <1>1, <1>5 DEF Ahead, Settled
  <2>5. QED
    BY <2>2, <2>3, <2>4, <1>3, <1>6, <1>8, <1>9 DEF LineInv
<1>11. CASE ~taken
  <2>1. ForgetFrame
    BY <1>1, <1>11, Zenon
  <2>2. ~frame_start_found_' /\ current_frame_' = <<>> /\ pos_' = 0
    BY <2>1, Zenon DEF ForgetFrame
  <2>3. Looking'
    BY <2>2, <1>7 DEF Looking
  <2>4. InHeader'
    BY <2>2, Zenon DEF InHeader
  <2>5. InBody'
    BY <2>2, Zenon DEF InBody
  <2>6. Ahead'
    <3>1. ASSUME NEW e \in intact
          PROVE  Settled(e) \/ e.first > Gone' + bytes_to_drop'
      <4>1. Gone' + bytes_to_drop' = Gone + pos_ + 1
        BY <1>2, <1>3, <1>7
      <4>2. QED
        BY <4>1, <1>4, <1>11
    <3>2. QED
      BY <3>1, <1>1 DEF Ahead, Settled
  <2>7. QED
    BY <2>3, <2>4, <2>5, <2>6, <1>3, <1>6, <1>8, <1>9 DEF LineInv
<1>12. QED
  BY <1>10, <1>11

\* A body that is right ends the frame that its header began, and that is found.
LEMMA BodyEndKeepsLineInv ==
  ASSUME IInv, LineInv, BodyEnd
  PROVE  LineInv'
<1> DEFINE body == Unstuffed(Stage)
           frame == ParsedFrame(current_frame_, body)
           z == Gone + pos_ + 1
           place == [first |-> start, last |-> z, frame |-> frame]
           right == BodyIsRight(current_frame_, body)
<1>1. /\ Turn /\ frame_start_found_ /\ current_frame_ # <<>> /\ Logical = Needed /\ Wrong = {}
      /\ buffer_' = Without(pos_ + 1) /\ ForgetFrame
      /\ IF right THEN found' = Append(found, place) ELSE found' = found
      /\ UNCHANGED <<line, intact, received, phase, bytes_to_drop, start, lost>>
  BY DEF BodyEnd
<1>2. Gone \in Nat /\ pos_ \in Nat /\ Len(buffer_) \in Nat /\ pos_ + 1 <= Len(buffer_)
      /\ line \in Bytes /\ pos_ + 1 \in Nat /\ z \in Nat
  BY <1>1, Numbers, TurnHasByte DEF LineInv
<1>3. Held' /\ Gone' = z
  <2>1. Held' /\ Gone' = Gone + (pos_ + 1)
    BY <1>1, <1>2, DropKeepsHeld DEF LineInv
  <2>2. QED
    BY <2>1, <1>2
<1>4. z <= Len(line) /\ Stage = SubSeq(line, Gone + 1, z)
  BY <1>1, TurnOnLine DEF LineInv
<1>5. line[z] # SEPARATOR_BYTE /\ Raw(line, Gone + 1, z) = BodySize(current_frame_)
  BY <1>1, StageEnds
<1>6. start \in Nat \ {0} /\ start + 2 < Gone /\ HeaderAt(line, start, Gone, current_frame_)
  BY <1>1 DEF LineInv, InBody
<1>7. /\ ~frame_start_found_' /\ current_frame_' = <<>> /\ pos_' = 0 /\ age' = 0
      /\ bytes_to_drop' = 0
  BY <1>1, Zenon DEF ForgetFrame, IInv, NothingToDrop
<1>8. AtRest'
  BY <1>1, TurnHasByte DEF AtRest
<1>9. Looking' /\ InHeader' /\ InBody'
  <2>1. current_frame_' = <<>> /\ pos_' <= bytes_to_drop' + 2
    BY <1>7
  <2>2. Looking'
    BY <2>1 DEF Looking
  <2>3. InHeader'
    BY <1>7, Zenon DEF InHeader
  <2>4. InBody'
    BY <2>1, Zenon DEF InBody
  <2>5. QED
    BY <2>2, <2>3, <2>4
<1>10. right => place \in intact
  <2> SUFFICES ASSUME right PROVE place \in intact
    OBVIOUS
  <2>1. ASSUME NEW i \in Gone + 2 .. z, WrongAt(line, i)
        PROVE  FALSE
    <3>1. i - Gone \in Misescaped(Stage)
      BY <1>1, <2>1, WrongOnLine DEF LineInv
    <3>2. QED
      BY <3>1, <1>1 DEF Wrong
  <2> HIDE DEF z
  <2>2. BodyAt(line, Gone, z, current_frame_)
    BY <2>1, <1>4, <1>5 DEF BodyAt
  <2>3. Gone < z
    BY <1>2 DEF z
  <2>4. PlaceAt(line, start, Gone, z, current_frame_) \in FramesOn(line)
    BY <2>2, <2>3, <1>2, <1>4, <1>6, PartsAreFrame
  <2>5. place = PlaceAt(line, start, Gone, z, current_frame_)
    BY <1>4 DEF PlaceAt
  <2>6. QED
    BY <2>4, <2>5 DEF LineInv, Records
<1>11. ASSUME NEW e \in intact, ~Settled(e)
       PROVE  e.first > z \/ (right /\ e = place)
  <2>1. e.first \in Nat /\ line[e.first] = SEPARATOR_BYTE /\ e.last \in Nat
    BY <1>2, IntactFrame, FrameOnLine DEF LineInv, Records
  <2>2. e.first = start \/ e.first >= z
    <3>1. z <= Gone + pos_ + 1 /\ \A w \in Wrong : Gone + w > z
      BY <1>1, <1>2
    <3> HIDE DEF z
    <3>2. QED
      BY <1>1, <1>2, <1>11, <3>1, AheadInStage
  <2>3. CASE e.first = start
    <3>1. Gone < e.last /\ BodyAt(line, Gone, e.last, current_frame_)
          /\ e = PlaceAt(line, start, Gone, e.last, current_frame_)
      BY <1>1, <2>3, StartedFrame
    <3>2. e.last = z
      <4>1. Raw(line, Gone + 1, e.last) = BodySize(current_frame_)
            /\ line[e.last] # SEPARATOR_BYTE
        BY <3>1 DEF BodyAt
      <4>2. e.last \in Int /\ Gone + 1 \in Int /\ z \in Int /\ Gone + 1 <= e.last
            /\ Gone + 1 <= z
        BY <3>1, <2>1, <1>2
      <4> HIDE DEF z
      <4>3. QED
        BY <4>1, <4>2, <1>5, RawPlace
    <3> HIDE DEF z
    <3>3. right
      BY <3>1, <3>2, <1>4 DEF BodyAt
    <3>4. e = place
      BY <3>1, <3>2, <1>4 DEF PlaceAt
    <3>5. QED
      BY <3>3, <3>4
  <2>4. CASE e.first >= z
    <3>1. e.first # z
      BY <2>1, <1>5
    <3>2. QED
      BY <3>1, <2>1, <2>4, <1>2
  <2>5. QED
    BY <2>2, <2>3, <2>4
<1>12. /\ found \in Seq(intact)
       /\ \A k \in DOMAIN found : /\ found[k].last \in Nat /\ found[k].last <= Gone
                                  /\ found[k].last < start
       /\ \A k, l \in DOMAIN found : k < l => found[k].last < found[l].first
  BY <1>1, IntactFrame DEF LineInv, FoundBehind, Records
<1>13. age' \in Nat /\ start' \in Nat /\ lost' \in Nat /\ intact' = FramesOn(line')
  BY <1>1, <1>7 DEF LineInv, Records
<1>14. CASE right
  <2>1. found' = Append(found, place) /\ place \in intact
    BY <1>1, <1>10, <1>14
  <2>2. place.first = start /\ place.last = z
    OBVIOUS
  <2> HIDE DEF place, right, z
  <2>3. /\ found' \in Seq(intact) /\ Len(found) \in Nat /\ DOMAIN found = 1 .. Len(found)
        /\ DOMAIN found' = 1 .. Len(found) + 1 /\ found'[Len(found) + 1] = place
        /\ \A k \in 1 .. Len(found) : found'[k] = found[k]
    BY <2>1, <1>12, AppendProperties
  <2>4. FoundBehind'
    <3>1. \A k \in DOMAIN found' : found'[k].last <= Gone'
      <4> SUFFICES ASSUME NEW k \in DOMAIN found' PROVE found'[k].last <= Gone'
        OBVIOUS
      <4>1. CASE k = Len(found) + 1
        BY <4>1, <2>2, <2>3, <1>2, <1>3
      <4>2. CASE k # Len(found) + 1
        <5>1. k \in DOMAIN found /\ found'[k] = found[k]
          BY <4>2, <2>3
        <5>2. Gone <= z
          BY <1>2 DEF z
        <5>3. QED
          BY <5>1, <5>2, <1>2, <1>3, <1>12
      <4>3. QED
        BY <4>1, <4>2
    <3>2. ASSUME NEW k \in DOMAIN found', NEW l \in DOMAIN found', k < l
          PROVE  found'[k].last < found'[l].first
      <4>1. k \in DOMAIN found /\ found'[k] = found[k]
        BY <3>2, <2>3
      <4>2. CASE l = Len(found) + 1
        BY <4>1, <4>2, <2>2, <2>3, <1>12
      <4>3. CASE l # Len(found) + 1
        <5>1. l \in DOMAIN found /\ found'[l] = found[l]
          BY <4>3, <2>3
        <5>2. QED
          BY <4>1, <5>1, <3>2, <1>12
      <4>4. QED
        BY <4>2, <4>3
    <3>3. QED
      BY <3>1, <3>2, <1>7 DEF FoundBehind
  <2>5. Records'
    BY <2>3, <1>1, <1>13 DEF Records
  <2>6. Ahead'
    <3>1. ASSUME NEW e \in intact
          PROVE  Settled(e)' \/ e.first > Gone' + bytes_to_drop'
      <4>1. CASE Settled(e)
        <5>1. CASE e.first <= lost
          BY <5>1, <1>1 DEF Settled
        <5>2. CASE \E k \in DOMAIN found : found[k] = e
          <6>1. PICK k \in DOMAIN found : found[k] = e
            BY <5>2
          <6>2. k \in DOMAIN found' /\ found'[k] = e
            BY <6>1, <2>3
          <6>3. QED
            BY <6>2 DEF Settled
        <5>3. QED
          BY <4>1, <5>1, <5>2 DEF Settled
      <4>2. CASE ~Settled(e) /\ e.first > z
        BY <4>2, <1>2, <1>3, <1>7
      <4>3. CASE e = place
        <5>1. Len(found) + 1 \in DOMAIN found' /\ found'[Len(found) + 1] = e
          BY <4>3, <2>3
        <5>2. QED
          BY <5>1 DEF Settled
      <4>4. QED
        BY <4>1, <4>2, <4>3, <1>11
    <3>2. QED
      BY <3>1, <1>1 DEF Ahead
  <2>7. QED
    BY <2>4, <2>5, <2>6, <1>3, <1>8, <1>9 DEF LineInv
<1>15. CASE ~right
  <2>1. found' = found
    BY <1>1, <1>15
  <2>2. FoundBehind'
    <3>1. \A k \in DOMAIN found : found[k].last <= Gone'
      BY <1>2, <1>3, <1>12
    <3>2. QED
      BY <3>1, <2>1, <1>7, <1>12 DEF FoundBehind
  <2>3. Records'
    BY <2>1, <1>1, <1>12, <1>13 DEF Records
  <2>4. Ahead'
    <3>1. ASSUME NEW e \in intact
          PROVE  Settled(e) \/ e.first > Gone' + bytes_to_drop'
      BY <1>2, <1>3, <1>7, <1>11, <1>15
    <3>2. QED
      BY <3>1, <2>1, <1>1 DEF Ahead, Settled
  <2>5. QED
    BY <2>2, <2>3, <2>4, <1>3, <1>8, <1>9 DEF LineInv
<1>16. QED
  BY <1>14, <1>15

-----------------------------------------------------------------------------
(* The theorems                                                            *)

\* So every step keeps LineInv.
LEMMA NextKeepsLineInv ==
  ASSUME IInv, LineInv, [Next \/ Reset]_vars
  PROVE  LineInv'
<1>1. CASE \E count \in Counts : read_data(count)
  BY <1>1, ReadKeepsLineInv
<1>2. CASE process_data
  BY <1>2, ProcessKeepsLineInv
<1>3. CASE Loop
  BY <1>3, ScanSeparatorKeepsLineInv, ScanGarbageKeepsLineInv, ScanStartKeepsLineInv,
     ScanEndKeepsLineInv, FrameByteKeepsLineInv, WrongPostByteKeepsLineInv,
     HeaderEndKeepsLineInv, BodyEndKeepsLineInv DEF Loop
<1>4. age \in Nat
  BY DEF LineInv, Records
<1>5. CASE pop \/ \E n \in 1 .. Len(incoming_queue_) : drop(n)
  <2>1. /\ age' = age
        /\ UNCHANGED <<line, intact, received, buffer_, parser, phase, bytes_to_drop, start,
                       found, lost>>
    BY <1>5 DEF pop, drop, history
  <2>2. QED
    BY <2>1, <1>4, OthersKeepLineInv
<1>6. CASE Tick
  <2>1. /\ age' = age + 1
        /\ UNCHANGED <<line, intact, received, buffer_, parser, phase, bytes_to_drop, start,
                       found, lost>>
    BY <1>6 DEF Tick
  <2>2. age' \in Nat
    BY <2>1, <1>4
  <2>3. QED
    BY <2>1, <2>2, OthersKeepLineInv
<1>7. CASE Reset
  BY <1>7, ResetKeepsLineInv
<1>8. CASE UNCHANGED vars
  <2>1. /\ age' = age
        /\ UNCHANGED <<line, intact, received, buffer_, parser, phase, bytes_to_drop, start,
                       found, lost>>
    BY <1>8 DEF vars, history
  <2>2. QED
    BY <2>1, <1>4, OthersKeepLineInv
<1>9. QED
  BY <1>1, <1>2, <1>3, <1>5, <1>6, <1>7, <1>8 DEF Next

\* What the parser knows of the line stays true: for every line, every way of cutting it
\* into reads, every capacity and every CRC, also with overflows and resets in between.
THEOREM ParserKnowsTheLine == SpecWithResets => [](IInv /\ LineInv)
<1>1. Init => IInv /\ LineInv
  BY InitIInv, InitLineInv
<1>2. (IInv /\ LineInv) /\ [Next \/ Reset]_vars => (IInv /\ LineInv)'
  BY NextKeepsIInv, NextKeepsLineInv
<1>3. QED
  BY <1>1, <1>2, PTL DEF SpecWithResets

\* A header that is kept is bytes of the line, unescaped.
LEMMA LineInvTypes ==
  ASSUME IInv, LineInv
  PROVE  TypeOK
<1>1. current_frame_ \in Bytes /\ Len(current_frame_) \in {0, PURE_HEADER_SIZE}
  <2>1. CASE current_frame_ = <<>>
    BY <2>1 DEF Bytes
  <2>2. CASE current_frame_ # <<>>
    <3>1. start \in Nat \ {0} /\ start + 2 < Gone /\ HeaderAt(line, start, Gone, current_frame_)
      BY <2>2 DEF LineInv, InBody
    <3>2. line \in Bytes /\ Gone \in Nat /\ Gone <= Len(line)
      BY Numbers DEF LineInv
    <3>3. start + 2 \in Nat \ {0} /\ start + 2 <= Gone
      BY <3>1, <3>2
    <3>4. /\ line[Gone] # SEPARATOR_BYTE /\ Raw(line, start + 2, Gone) = PURE_HEADER_SIZE
          /\ current_frame_ = Unstuffed(SubSeq(line, start + 2, Gone))
      BY <3>1 DEF HeaderAt
    <3>5. /\ Unstuffed(SubSeq(line, start + 2, Gone)) \in Bytes
          /\ Len(Unstuffed(SubSeq(line, start + 2, Gone))) = Raw(line, start + 2, Gone)
      BY <3>2, <3>3, <3>4, UnstuffedPart
    <3>6. QED
      BY <3>4, <3>5
  <2>3. QED
    BY <2>1, <2>2
<1>2. QED
  BY <1>1 DEF TypeOK, IInv, LineInv, Records

\* TypeOK: a header that is kept is a header, of PURE_HEADER_SIZE bytes.
THEOREM TypesAlwaysOK == SpecWithResets => []TypeOK
<1>1. IInv /\ LineInv => TypeOK
  BY LineInvTypes
<1>2. QED
  BY <1>1, ParserKnowsTheLine, PTL

\* FoundOnTheLine: process_data queues only frames that are on the line, each once and
\* in the order of the line, whatever else the line brings and however it is cut.
THEOREM OnlyFramesFound == SpecWithResets => []FoundOnTheLine
<1>1. ASSUME IInv, LineInv PROVE FoundOnTheLine
  BY <1>1, IntactFrame DEF FoundOnTheLine, LineInv, FoundBehind
<1>2. QED
  BY <1>1, ParserKnowsTheLine, PTL

\* A frame that is not settled ends behind what has left the buffer.
LEMMA UnsettledEnd ==
  ASSUME IInv, LineInv, NEW e \in intact, ~Settled(e)
  PROVE  Gone < e.last
<1>1. /\ e.first \in Nat /\ e.last \in Nat /\ e.first + 2 < e.last
      /\ Gone \in Nat /\ bytes_to_drop \in Nat
  BY IntactFrame, Numbers DEF LineInv
<1>2. e.first > Gone + bytes_to_drop \/ (current_frame_ # <<>> /\ e.first = start)
  BY DEF LineInv, Ahead
<1>3. CASE e.first > Gone + bytes_to_drop
  BY <1>1, <1>3
<1>4. CASE current_frame_ # <<>> /\ e.first = start
  BY <1>4, StartedFrame
<1>5. QED
  BY <1>2, <1>3, <1>4

\* NothingMissed: no frame of the line leaves the buffer unseen, unless an overflow or a
\* reset threw it away.
THEOREM NoFrameMissed == SpecWithResets => []NothingMissed
<1>1. ASSUME IInv, LineInv PROVE NothingMissed
  <2>1. ASSUME NEW e \in intact, e.last <= Gone, ~Settled(e)
        PROVE  FALSE
    <3>1. Gone < e.last /\ e.last \in Nat /\ Gone \in Nat
      BY <1>1, <2>1, UnsettledEnd, IntactFrame, Numbers DEF LineInv
    <3>2. QED
      BY <3>1, <2>1
  <2>2. QED
    BY <2>1 DEF NothingMissed
<1>2. QED
  BY <1>1, ParserKnowsTheLine, PTL

\* NothingHeldBack: between two calls of process_data the buffer holds fewer bytes than
\* the header or the body that is read needs, or at most two separators.
THEOREM NoByteHeldBack == SpecWithResets => []NothingHeldBack
<1>1. ASSUME IInv, LineInv PROVE NothingHeldBack
  <2> SUFFICES ASSUME phase = "read"
               PROVE  /\ pos_ = Len(buffer_)
                      /\ IF frame_start_found_ THEN pos_ - sep_count_ < Needed
                         ELSE pos_ <= FRAME_SEPARATORS_COUNT
    BY DEF NothingHeldBack
  <2>1. pos_ = Len(buffer_)
    BY <1>1 DEF LineInv, AtRest
  <2>2. pos_ \in Nat /\ sep_count_ \in Nat
    BY <1>1, Numbers DEF LineInv
  <2>3. CASE ~frame_start_found_
    <3>1. bytes_to_drop = 0
      BY <1>1 DEF IInv, NothingToDrop
    <3>2. pos_ <= 2
      BY <1>1, <2>2, <2>3, <3>1 DEF LineInv, Looking
    <3>3. QED
      BY <2>1, <2>3, <3>2 DEF FRAME_SEPARATORS_COUNT
  <2>4. CASE frame_start_found_ /\ current_frame_ = <<>>
    <3>1. pos_ < sep_count_ + FRAME_HEADER_SIZE
      BY <1>1, <2>4 DEF LineInv, InHeader
    <3>2. pos_ - sep_count_ < Needed
      BY <3>1, <2>2, <2>4, SizesAssumption DEF Needed
    <3>3. QED
      BY <2>1, <2>4, <3>2
  <2>5. CASE frame_start_found_ /\ current_frame_ # <<>>
    <3>1. pos_ < sep_count_ + BodySize(current_frame_) /\ HeaderSizeFits(current_frame_)
      BY <1>1, <2>5 DEF LineInv, InBody, HeaderAt
    <3>2. BodySize(current_frame_) \in Nat
      BY <3>1, HeaderSizes
    <3>3. pos_ - sep_count_ < Needed
      BY <3>1, <3>2, <2>2, <2>5 DEF Needed
    <3>4. QED
      BY <2>1, <2>5, <3>3
  <2>6. QED
    BY <2>3, <2>4, <2>5
<1>2. QED
  BY <1>1, ParserKnowsTheLine, PTL

\* Between calls, few bytes but separators are behind a frame that is not settled.
LEMMA FewBehind ==
  ASSUME IInv, LineInv, phase = "read", NEW e \in intact, ~Settled(e)
  PROVE  Raw(line, e.last + 1, received) < LongestBody
<1>1. /\ e.first \in Nat /\ e.last \in Nat /\ e.first + 2 < e.last /\ e \in FramesOn(line)
      /\ Gone \in Nat /\ received \in Nat /\ pos_ \in Nat /\ sep_count_ \in Nat
      /\ line \in Bytes
  BY IntactFrame, Numbers DEF LineInv
<1>2. Gone + pos_ = received
  BY Numbers DEF LineInv, AtRest
<1>3. bytes_to_drop = 0
  BY DEF IInv, NothingToDrop
<1>4. LongestBody \in Nat /\ LongestBody >= 3 /\ PURE_HEADER_SIZE \in Nat
      /\ FRAME_HEADER_SIZE = PURE_HEADER_SIZE + 2
  BY HeaderSizes
<1>5. CASE received < e.last + 1
  <2>1. Raw(line, e.last + 1, received) = 0
    <3>1. e.last + 1 \in Int /\ received \in Int
      BY <1>1
    <3>2. QED
      BY <3>1, <1>5, RawSteps
  <2>2. QED
    BY <2>1, <1>4
<1>6. ASSUME current_frame_ = <<>>
      PROVE  e.first > Gone
  BY <1>1, <1>3, <1>6 DEF LineInv, Ahead
<1>7. CASE ~frame_start_found_
  <2>1. current_frame_ = <<>> /\ pos_ <= 2
    BY <1>1, <1>3, <1>7 DEF LineInv, Looking
  <2>2. received < e.last + 1
    BY <2>1, <1>1, <1>2, <1>6
  <2>3. QED
    BY <2>2, <1>5
<1>8. CASE frame_start_found_ /\ current_frame_ = <<>>
  <2>1. /\ pos_ = sep_count_ + 2 + Raw(line, Gone + 3, Gone + pos_)
        /\ pos_ < sep_count_ + FRAME_HEADER_SIZE
    BY <1>8 DEF LineInv, InHeader
  <2>2. Raw(line, Gone + 3, received) \in Nat
    BY <1>1, RawSteps
  <2>3. Raw(line, Gone + 3, received) < PURE_HEADER_SIZE
    BY <2>1, <2>2, <1>1, <1>2, <1>4
  <2>4. ASSUME e.last <= received
        PROVE  FALSE
    <3>1. Raw(line, e.first + 2, e.last) > PURE_HEADER_SIZE
      BY <1>1, FrameOnLine
    <3>2. Raw(line, e.first + 2, e.last) <= Raw(line, e.first + 2, received)
      <4>1. CASE e.last = received
        <5>1. Raw(line, e.first + 2, received) \in Nat
          <6>1. e.first + 2 \in Int /\ received \in Int
            BY <1>1
          <6>2. QED
            BY <6>1, RawSteps
        <5>2. QED
          BY <5>1, <4>1
      <4>2. CASE e.last < received
        <5>1. e.first + 2 \in Int /\ e.last \in Int /\ received \in Int
              /\ e.first + 2 <= e.last + 1
          BY <1>1
        <5>2. QED
          BY <5>1, <4>2, RawLess
      <4>3. QED
        BY <4>1, <4>2, <2>4, <1>1
    <3>3. Raw(line, e.first + 2, received) <= Raw(line, Gone + 3, received)
      <4>1. e.first + 2 \in Int /\ Gone + 3 \in Int /\ received \in Int
            /\ Gone + 3 <= e.first + 2
        BY <1>1, <1>6, <1>8
      <4>2. QED
        BY <4>1, RawFrom
    <3>4. Raw(line, e.first + 2, e.last) \in Nat /\ Raw(line, e.first + 2, received) \in Nat
      <4>1. e.first + 2 \in Int /\ e.last \in Int /\ received \in Int
        BY <1>1
      <4>2. QED
        BY <4>1, RawSteps
    <3>5. QED
      BY <3>1, <3>2, <3>3, <3>4, <2>2, <2>3, <1>4
  <2>5. QED
    BY <2>4, <1>1, <1>5
<1>9. CASE current_frame_ # <<>>
  <2>1. /\ pos_ = sep_count_ + Raw(line, Gone + 1, Gone + pos_)
        /\ pos_ < sep_count_ + BodySize(current_frame_) /\ HeaderSizeFits(current_frame_)
    BY <1>9 DEF LineInv, InBody, HeaderAt
  <2>2. BodySize(current_frame_) \in Nat /\ BodySize(current_frame_) <= LongestBody
    BY <2>1, HeaderSizes
  <2>3. Raw(line, Gone + 1, received) \in Nat /\ Raw(line, e.last + 1, received) \in Nat
    <3>1. Gone + 1 \in Int /\ e.last + 1 \in Int /\ received \in Int
      BY <1>1
    <3>2. QED
      BY <3>1, RawSteps
  <2>4. Raw(line, Gone + 1, received) < LongestBody
    BY <2>1, <2>2, <2>3, <1>1, <1>2, <1>4
  <2>5. Raw(line, e.last + 1, received) <= Raw(line, Gone + 1, received)
    <3>1. Gone < e.last
      BY UnsettledEnd
    <3>2. e.last + 1 \in Int /\ Gone + 1 \in Int /\ received \in Int /\ Gone + 1 <= e.last + 1
      BY <3>1, <1>1
    <3>3. QED
      BY <3>2, RawFrom
  <2>6. QED
    BY <2>3, <2>4, <2>5, <1>4
<1>10. QED
  BY <1>7, <1>8, <1>9

\* FoundInTime: a frame is found by the end of the call that has as many bytes behind
\* it as the longest body, separators not counted: a false start delays it no longer.
THEOREM FramesFoundInTime == SpecWithResets => []FoundInTime
<1>1. ASSUME IInv, LineInv PROVE FoundInTime
  <2>1. ASSUME phase = "read", NEW e \in intact, Cardinality(Behind(e)) >= LongestBody,
               ~Settled(e)
        PROVE  FALSE
    <3>1. Raw(line, e.last + 1, received) < LongestBody
      BY <1>1, <2>1, FewBehind
    <3>2. Cardinality(Behind(e)) = Raw(line, e.last + 1, received)
      BY DEF Behind, Raw
    <3>3. Raw(line, e.last + 1, received) \in Nat /\ LongestBody \in Nat
      <4>1. e.last \in Nat /\ received \in Nat
        BY <1>1, <2>1, IntactFrame, Numbers DEF LineInv
      <4>2. e.last + 1 \in Int /\ received \in Int
        BY <4>1
      <4>3. QED
        BY <4>2, HeaderSizes, RawSteps
    <3>4. QED
      BY <3>1, <3>2, <3>3, <2>1
  <2>2. QED
    BY <2>1 DEF FoundInTime
<1>2. QED
  BY <1>1, ParserKnowsTheLine, PTL

-----------------------------------------------------------------------------
(* What fill_buffer() puts on the line, and how it is read back            *)

SeparatorsIn(s) == {i \in DOMAIN s : s[i] = SEPARATOR_BYTE}

\* Where the byte at i of a sequence stands when the sequence is escaped.
Place(s, i) == i + OmittedBefore(SeparatorsIn(s), i)

\* Bytes keep their order, and there is room for a post byte behind a separator.
LEMMA PlacesRise ==
  ASSUME NEW S, NEW s \in Seq(S)
  PROVE  /\ SeparatorsIn(s) \in SUBSET (1 .. Len(s)) /\ Separators(s) \in 0 .. Len(s)
         /\ Place(s, 1) = 1 /\ Place(s, Len(s) + 1) = Len(s) + Separators(s) + 1
         /\ \A i \in 1 .. Len(s) + 1 : Place(s, i) \in Nat /\ i <= Place(s, i)
         /\ \A i \in 1 .. Len(s) :
              Place(s, i + 1) = Place(s, i) + (IF s[i] = SEPARATOR_BYTE THEN 2 ELSE 1)
         /\ \A i, j \in 1 .. Len(s) + 1 : i <= j => Place(s, i) <= Place(s, j)
         /\ \A i, j \in 1 .. Len(s) : Place(s, i) = Place(s, j) => i = j
<1> DEFINE n == Len(s)
           D == SeparatorsIn(s)
<1>1. n \in Nat /\ D \in SUBSET (1 .. n) /\ Separators(s) = Cardinality(D)
  BY DEF SeparatorsIn, Separators
<1>2. /\ OmittedBefore(D, 1) = 0
      /\ \A i \in Nat :
           /\ OmittedBefore(D, i) \in Nat
           /\ i \in D => OmittedBefore(D, i + 1) = OmittedBefore(D, i) + 1
           /\ i \notin D => OmittedBefore(D, i + 1) = OmittedBefore(D, i)
      /\ \A i, j \in Nat : i <= j => OmittedBefore(D, i) <= OmittedBefore(D, j)
  BY <1>1, OmittedCounts
<1>3. Cardinality(D) = OmittedBefore(D, n + 1) /\ Cardinality(D) \in 0 .. n
  BY <1>1, OmittedInAll
<1> HIDE DEF D
<1>4. \A i : Place(s, i) = i + OmittedBefore(D, i)
  BY DEF Place, D
<1>5. \A i \in 1 .. n : i \in D <=> s[i] = SEPARATOR_BYTE
  BY DEF D, SeparatorsIn
<1>6. ASSUME NEW i \in 1 .. n + 1 PROVE i \in Nat /\ Place(s, i) \in Nat /\ i <= Place(s, i)
  <2>1. i \in Nat /\ OmittedBefore(D, i) \in Nat /\ Place(s, i) = i + OmittedBefore(D, i)
    BY <1>1, <1>2, <1>4
  <2>2. QED
    BY <2>1
<1>7. ASSUME NEW i \in 1 .. n
      PROVE  Place(s, i + 1) = Place(s, i) + (IF s[i] = SEPARATOR_BYTE THEN 2 ELSE 1)
  <2>1. i \in Nat /\ Place(s, i + 1) = i + 1 + OmittedBefore(D, i + 1)
        /\ Place(s, i) = i + OmittedBefore(D, i) /\ OmittedBefore(D, i) \in Nat
    BY <1>1, <1>2, <1>4
  <2>2. CASE s[i] = SEPARATOR_BYTE
    <3>1. OmittedBefore(D, i + 1) = OmittedBefore(D, i) + 1
      BY <2>1, <2>2, <1>2, <1>5
    <3>2. Place(s, i + 1) = Place(s, i) + 2
      BY <3>1, <2>1
    <3>3. QED
      BY <3>2, <2>2
  <2>3. CASE s[i] # SEPARATOR_BYTE
    <3>1. OmittedBefore(D, i + 1) = OmittedBefore(D, i)
      BY <2>1, <2>3, <1>2, <1>5
    <3>2. Place(s, i + 1) = Place(s, i) + 1
      BY <3>1, <2>1
    <3>3. QED
      BY <3>2, <2>3
  <2>4. QED
    BY <2>2, <2>3
<1>8. ASSUME NEW i \in 1 .. n + 1, NEW j \in 1 .. n + 1, i <= j
      PROVE  Place(s, i) <= Place(s, j)
  <2>1. OmittedBefore(D, i) <= OmittedBefore(D, j) /\ i \in Nat /\ j \in Nat
        /\ OmittedBefore(D, i) \in Nat /\ OmittedBefore(D, j) \in Nat
    BY <1>1, <1>2, <1>8
  <2>2. QED
    BY <2>1, <1>4, <1>8
<1>9. Place(s, 1) = 1 /\ Place(s, n + 1) = n + Separators(s) + 1
  BY <1>1, <1>2, <1>3, <1>4
<1>10. \A i, j \in 1 .. n : Place(s, i) = Place(s, j) => i = j
  <2>1. ASSUME NEW i \in 1 .. n, NEW j \in 1 .. n, i < j PROVE Place(s, i) < Place(s, j)
    <3>1. /\ i + 1 \in 1 .. n + 1 /\ j \in 1 .. n + 1 /\ i \in 1 .. n + 1 /\ i + 1 <= j
      BY <1>1, <2>1
    <3>2. Place(s, i + 1) <= Place(s, j) /\ Place(s, i) \in Nat /\ Place(s, j) \in Nat
      BY <3>1, <1>6, <1>8
    <3>3. Place(s, i + 1) >= Place(s, i) + 1
      <4>1. Place(s, i + 1) = Place(s, i) + (IF s[i] = SEPARATOR_BYTE THEN 2 ELSE 1)
        BY <1>7
      <4>2. QED
        BY <4>1, <3>2
    <3>4. Place(s, i + 1) \in Nat
      BY <3>1, <1>6
    <3>5. QED
      BY <3>2, <3>3, <3>4
  <2>2. ASSUME NEW i \in 1 .. n, NEW j \in 1 .. n, Place(s, i) = Place(s, j) PROVE i = j
    <3>1. ~(i < j) /\ ~(j < i)
      <4>1. i < j => Place(s, i) < Place(s, j)
        BY <2>1
      <4>2. j < i => Place(s, j) < Place(s, i)
        BY <2>1
      <4>3. Place(s, i) \in Nat /\ Place(s, j) \in Nat
        BY <1>1, <1>6
      <4>4. QED
        BY <4>1, <4>2, <4>3, <2>2
    <3>2. QED
      BY <3>1, <1>1
  <2>3. QED
    BY <2>2
<1>11. QED
  BY <1>1, <1>3, <1>6, <1>7, <1>8, <1>9, <1>10 DEF D

\* Every position of an escaped sequence holds a byte at its place, or the post byte
\* of the separator before it.
LEMMA StuffedPlaces ==
  ASSUME NEW S, NEW s \in Seq(S)
  PROVE  /\ Stuffed(s) \in Seq(S \cup {SEPARATOR_POST_BYTE})
         /\ Len(Stuffed(s)) = Len(s) + Separators(s) /\ Len(Stuffed(s)) \in Nat
         /\ \A i \in 1 .. Len(s) :
              /\ Place(s, i) \in 1 .. Len(Stuffed(s)) /\ Stuffed(s)[Place(s, i)] = s[i]
              /\ s[i] = SEPARATOR_BYTE =>
                   /\ Place(s, i) + 1 \in 2 .. Len(Stuffed(s))
                   /\ Stuffed(s)[Place(s, i) + 1] = SEPARATOR_POST_BYTE
         /\ \A n \in 1 .. Len(Stuffed(s)) :
              \E i \in 1 .. Len(s) :
                n = Place(s, i) \/ (s[i] = SEPARATOR_BYTE /\ n = Place(s, i) + 1)
<1> DEFINE m == Len(s)
           all == m + Separators(s)
           place == [i \in DOMAIN s |-> i + OmittedBefore(SeparatorsIn(s), i)]
           st == Stuffed(s)
<1>1. /\ m \in Nat /\ Separators(s) \in 0 .. m /\ DOMAIN s = 1 .. m
      /\ Place(s, 1) = 1 /\ Place(s, m + 1) = all + 1
      /\ \A i \in 1 .. m + 1 : Place(s, i) \in Nat /\ i <= Place(s, i)
      /\ \A i \in 1 .. m :
           Place(s, i + 1) = Place(s, i) + (IF s[i] = SEPARATOR_BYTE THEN 2 ELSE 1)
      /\ \A i, j \in 1 .. m + 1 : i <= j => Place(s, i) <= Place(s, j)
      /\ \A i, j \in 1 .. m : Place(s, i) = Place(s, j) => i = j
  BY PlacesRise
<1>2. \A i \in 1 .. m : place[i] = Place(s, i)
  BY <1>1 DEF Place
<1>3. st = [n \in 1 .. all |->
              IF \E i \in DOMAIN s : place[i] = n
                THEN s[CHOOSE i \in DOMAIN s : place[i] = n]
                ELSE SEPARATOR_POST_BYTE]
  BY DEF Stuffed, SeparatorsIn
<1> HIDE DEF place
<1>4. /\ all \in Nat /\ DOMAIN st = 1 .. all
      /\ \A n \in 1 .. all : st[n] \in S \cup {SEPARATOR_POST_BYTE}
  <2>1. \A i \in 1 .. m : s[i] \in S
    OBVIOUS
  <2>2. ASSUME NEW n \in 1 .. all PROVE st[n] \in S \cup {SEPARATOR_POST_BYTE}
    <3>1. CASE \E i \in DOMAIN s : place[i] = n
      <4>1. (CHOOSE i \in DOMAIN s : place[i] = n) \in DOMAIN s
        BY <3>1
      <4>2. QED
        BY <4>1, <3>1, <2>1, <1>1, <1>3
    <3>2. CASE ~ \E i \in DOMAIN s : place[i] = n
      BY <3>2, <1>3
    <3>3. QED
      BY <3>1, <3>2
  <2>3. DOMAIN st = 1 .. all
    BY <1>3
  <2>4. QED
    BY <2>2, <2>3, <1>1
<1>5. st \in Seq(S \cup {SEPARATOR_POST_BYTE}) /\ Len(st) = all
  <2>1. st = [n \in 1 .. all |-> st[n]]
    BY <1>3
  <2>2. QED
    BY <2>1, <1>4, SeqDef
<1>6. ASSUME NEW i \in 1 .. m
      PROVE  /\ Place(s, i) \in 1 .. all /\ st[Place(s, i)] = s[i]
             /\ s[i] = SEPARATOR_BYTE =>
                  /\ Place(s, i) + 1 \in 2 .. all /\ st[Place(s, i) + 1] = SEPARATOR_POST_BYTE
  <2>1. /\ i \in 1 .. m + 1 /\ i + 1 \in 1 .. m + 1 /\ m + 1 \in 1 .. m + 1 /\ i + 1 <= m + 1
    BY <1>1
  <2>2. /\ Place(s, i) \in Nat /\ 1 <= Place(s, i) /\ Place(s, i + 1) \in Nat
        /\ Place(s, i + 1) <= all + 1
        /\ Place(s, i + 1) = Place(s, i) + (IF s[i] = SEPARATOR_BYTE THEN 2 ELSE 1)
    <3>1. /\ Place(s, i) \in Nat /\ i <= Place(s, i) /\ Place(s, i + 1) \in Nat
          /\ Place(s, i + 1) <= Place(s, m + 1)
      BY <2>1, <1>1
    <3>2. QED
      BY <3>1, <1>1
  <2>3. Place(s, i) \in 1 .. all
    BY <2>2, <1>4
  <2>4. st[Place(s, i)] = s[i]
    <3>1. i \in DOMAIN s /\ place[i] = Place(s, i)
      BY <1>1, <1>2
    <3>2. \A j \in DOMAIN s : place[j] = Place(s, i) => j = i
      BY <1>1, <1>2
    <3>3. (CHOOSE j \in DOMAIN s : place[j] = Place(s, i)) = i
      BY <3>1, <3>2
    <3>4. QED
      BY <3>1, <3>3, <2>3, <1>3
  <2>5. ASSUME s[i] = SEPARATOR_BYTE
        PROVE  Place(s, i) + 1 \in 2 .. all /\ st[Place(s, i) + 1] = SEPARATOR_POST_BYTE
    <3>1. Place(s, i + 1) = Place(s, i) + 2
      BY <2>2, <2>5
    <3>2. Place(s, i) + 1 \in 2 .. all
      BY <3>1, <2>2, <1>4
    <3>3. ASSUME NEW j \in DOMAIN s PROVE place[j] # Place(s, i) + 1
      <4>1. j \in 1 .. m /\ j \in 1 .. m + 1 /\ place[j] = Place(s, j) /\ Place(s, j) \in Nat
        <5>1. j \in 1 .. m
          BY <1>1
        <5>2. QED
          BY <5>1, <1>1, <1>2
      <4>2. CASE j <= i
        <5>1. Place(s, j) <= Place(s, i)
          BY <4>1, <4>2, <2>1, <1>1
        <5>2. QED
          BY <5>1, <4>1, <2>2
      <4>3. CASE i + 1 <= j
        <5>1. Place(s, i + 1) <= Place(s, j)
          BY <4>1, <4>3, <2>1, <1>1
        <5>2. QED
          BY <5>1, <3>1, <4>1, <2>2
      <4>4. QED
        BY <4>1, <4>2, <4>3, <1>1
    <3>4. st[Place(s, i) + 1] = SEPARATOR_POST_BYTE
      <4>1. Place(s, i) + 1 \in 1 .. all
        BY <3>2, <2>2, <1>4
      <4>2. ~ \E j \in DOMAIN s : place[j] = Place(s, i) + 1
        BY <3>3
      <4>3. QED
        BY <4>1, <4>2, <1>3
    <3>5. QED
      BY <3>2, <3>4
  <2>6. QED
    BY <2>3, <2>4, <2>5
<1>7. ASSUME NEW n \in 1 .. all
      PROVE  \E i \in 1 .. m :
               n = Place(s, i) \/ (s[i] = SEPARATOR_BYTE /\ n = Place(s, i) + 1)
  <2> DEFINE Past == {k \in 1 .. m + 1 : Place(s, k) > n}
  <2>1. m + 1 \in Past /\ Past \subseteq Nat /\ n \in Nat /\ 1 <= n
    BY <1>1, <1>4
  <2>2. PICK k \in Past : \A j \in Past : k <= j
    <3>1. Past # {}
      BY <2>1
    <3>2. QED
      BY <3>1, <2>1, LeastNatural
  <2>3. k \in 1 .. m + 1 /\ Place(s, k) > n /\ k \in Nat
    BY <2>2, <1>1
  <2>4. k # 1
    BY <2>1, <2>3, <1>1
  <2>5. k - 1 \in 1 .. m /\ k - 1 \in 1 .. m + 1 /\ (k - 1) + 1 = k /\ ~(k <= k - 1)
    BY <2>3, <2>4, <1>1
  <2>6. ~(Place(s, k - 1) > n)
    BY <2>2, <2>5
  <2>7. /\ Place(s, k - 1) \in Nat /\ Place(s, k) \in Nat
        /\ Place(s, k) = Place(s, k - 1) + (IF s[k - 1] = SEPARATOR_BYTE THEN 2 ELSE 1)
    BY <2>3, <2>5, <1>1
  <2>8. n = Place(s, k - 1) \/ (s[k - 1] = SEPARATOR_BYTE /\ n = Place(s, k - 1) + 1)
    BY <2>1, <2>3, <2>6, <2>7
  <2>9. QED
    BY <2>5, <2>8
<1>8. QED
  BY <1>4, <1>5, <1>6, <1>7

\* Read back, an escaped sequence is itself, and no escape in it is wrong.
LEMMA UnstuffedStuffed ==
  ASSUME NEW S, NEW s \in Seq(S)
  PROVE  Misescaped(Stuffed(s)) = {} /\ Unstuffed(Stuffed(s)) = s
<1> DEFINE m == Len(s)
           D == SeparatorsIn(s)
           st == Stuffed(s)
           all == m + Separators(s)
           P(i) == Place(s, i)
           A == AfterSeparator(st)
           T == S \cup {SEPARATOR_POST_BYTE}
<1>1. /\ m \in Nat /\ Separators(s) = Cardinality(D) /\ Cardinality(D) \in 0 .. m
      /\ IsFiniteSet(D) /\ D = {i \in 1 .. m : s[i] = SEPARATOR_BYTE}
  <2>1. D = {i \in 1 .. m : s[i] = SEPARATOR_BYTE} /\ D \in SUBSET (1 .. m) /\ m \in Nat
    BY DEF SeparatorsIn
  <2>2. Separators(s) = Cardinality(D)
    BY DEF SeparatorsIn, Separators
  <2>3. QED
    BY <2>1, <2>2, OmittedIsFinite
<1>2. /\ \A i \in 1 .. m + 1 : P(i) \in Nat /\ i <= P(i)
      /\ \A i \in 1 .. m : P(i + 1) = P(i) + (IF s[i] = SEPARATOR_BYTE THEN 2 ELSE 1)
      /\ \A i, j \in 1 .. m + 1 : i <= j => P(i) <= P(j)
      /\ \A i, j \in 1 .. m : P(i) = P(j) => i = j
  BY PlacesRise
<1>3. /\ st \in Seq(T) /\ Len(st) = all /\ all \in Nat
      /\ \A i \in 1 .. m :
           /\ P(i) \in 1 .. all /\ st[P(i)] = s[i]
           /\ s[i] = SEPARATOR_BYTE =>
                P(i) + 1 \in 2 .. all /\ st[P(i) + 1] = SEPARATOR_POST_BYTE
      /\ \A n \in 1 .. all :
           \E i \in 1 .. m : n = P(i) \/ (s[i] = SEPARATOR_BYTE /\ n = P(i) + 1)
  <2>1. Len(st) = all /\ Len(st) \in Nat
    BY StuffedPlaces
  <2>2. QED
    BY <2>1, StuffedPlaces
<1>4. SEPARATOR_POST_BYTE # SEPARATOR_BYTE
  BY SizesAssumption DEF SEPARATOR_BYTE
<1> HIDE DEF P, st, all, D
<1>5. A = {P(i) + 1 : i \in D}
  <2>1. ASSUME NEW k \in A PROVE \E i \in D : k = P(i) + 1
    <3>1. k \in 2 .. all /\ st[k - 1] = SEPARATOR_BYTE
      BY <1>3 DEF AfterSeparator
    <3>2. k - 1 \in 1 .. all
      <4>1. all \in Nat
        BY <1>3
      <4>2. QED
        BY <3>1, <4>1
    <3>3. PICK i \in 1 .. m : k - 1 = P(i) \/ (s[i] = SEPARATOR_BYTE /\ k - 1 = P(i) + 1)
      BY <3>2, <1>3
    <3>4. k - 1 = P(i) /\ s[i] = SEPARATOR_BYTE
      <4>1. CASE k - 1 = P(i)
        <5>1. st[P(i)] = s[i]
          BY <1>3
        <5>2. QED
          BY <4>1, <5>1, <3>1
      <4>2. CASE s[i] = SEPARATOR_BYTE /\ k - 1 = P(i) + 1
        <5>1. st[P(i) + 1] = SEPARATOR_POST_BYTE
          BY <4>2, <1>3
        <5>2. QED
          BY <4>2, <5>1, <3>1, <1>4
      <4>3. QED
        BY <3>3, <4>1, <4>2
    <3>5. P(i) \in Nat /\ k \in Nat
      BY <3>1, <1>1, <1>2
    <3>6. k = P(i) + 1 /\ i \in D
      BY <3>4, <3>5, <1>1
    <3>7. QED
      BY <3>6
  <2>2. ASSUME NEW i \in D PROVE P(i) + 1 \in A
    <3>1. i \in 1 .. m /\ s[i] = SEPARATOR_BYTE /\ P(i) \in Nat
      BY <1>1, <1>2
    <3>2. P(i) + 1 \in 2 .. all /\ st[P(i)] = SEPARATOR_BYTE /\ (P(i) + 1) - 1 = P(i)
      <4>1. P(i) + 1 \in 2 .. all /\ st[P(i)] = s[i]
        BY <3>1, <1>3
      <4>2. QED
        BY <4>1, <3>1
    <3>3. QED
      BY <3>2, <1>3 DEF AfterSeparator
  <2>3. QED
    BY <2>1, <2>2
<1>6. Misescaped(st) = {}
  <2>1. ASSUME NEW k \in A PROVE st[k] = SEPARATOR_POST_BYTE
    <3>1. PICK j \in D : k = P(j) + 1
      BY <1>5
    <3>2. j \in 1 .. m /\ s[j] = SEPARATOR_BYTE
      BY <1>1
    <3>3. QED
      BY <1>3, <3>1, <3>2
  <2>2. QED
    BY <2>1 DEF Misescaped
<1>7. ASSUME NEW i \in 1 .. m + 1, NEW j \in D
      PROVE  P(j) + 1 < P(i) <=> j < i
  <2>1. /\ j \in 1 .. m /\ j + 1 \in 1 .. m + 1 /\ j \in 1 .. m + 1 /\ s[j] = SEPARATOR_BYTE
        /\ i \in Nat /\ j \in Nat
    BY <1>1
  <2>2. P(j + 1) = P(j) + 2 /\ P(j) \in Nat /\ P(i) \in Nat
    BY <2>1, <1>2
  <2>3. j < i => P(j + 1) <= P(i)
    BY <2>1, <1>2, SMTT(30)
  <2>4. i <= j => P(i) <= P(j)
    BY <2>1, <1>2
  <2>5. QED
    BY <2>1, <2>2, <2>3, <2>4
<1>8. ASSUME NEW i \in 1 .. m + 1
      PROVE  OmittedBefore(A, P(i)) = OmittedBefore(D, i)
  <2> DEFINE U == {k \in D : k < i}
             V == {k \in A : k < P(i)}
             f == [j \in U |-> P(j) + 1]
  <2>1. V = {P(j) + 1 : j \in U}
    BY <1>5, <1>7
  <2>2. f \in [U -> V] /\ \A v \in V : \E j \in U : f[j] = v
    BY <2>1
  <2>3. ASSUME NEW j \in U, NEW k \in U, f[j] = f[k] PROVE j = k
    <3>1. j \in 1 .. m /\ k \in 1 .. m /\ P(j) + 1 = P(k) + 1
      BY <2>3, <1>1
    <3>2. P(j) \in Nat /\ P(k) \in Nat
      BY <3>1, <1>2
    <3>3. P(j) = P(k)
      BY <3>1, <3>2
    <3>4. QED
      BY <3>1, <3>3, <1>2
  <2>4. IsFiniteSet(U)
    BY <1>1, FS_Subset
  <2>5. Cardinality(V) = Cardinality(U)
    BY <2>2, <2>3, <2>4, SameCount
  <2>6. QED
    BY <2>5 DEF OmittedBefore
<1>9. A \in SUBSET (1 .. all) /\ Cardinality(A) = Cardinality(D)
  <2>1. A \in SUBSET (1 .. all)
    <3>1. ASSUME NEW k \in A PROVE k \in 1 .. all
      <4>1. k \in 2 .. all
        BY <1>3 DEF AfterSeparator
      <4>2. QED
        BY <4>1, <1>3
    <3>2. QED
      BY <3>1
  <2>2. P(m + 1) = all + 1 /\ m + 1 \in 1 .. m + 1
    BY <1>1, PlacesRise DEF P, all
  <2>3. OmittedBefore(A, all + 1) = OmittedBefore(D, m + 1)
    BY <2>2, <1>8
  <2>4. D \in SUBSET (1 .. m)
    BY <1>1
  <2>5. Cardinality(A) = OmittedBefore(A, all + 1) /\ Cardinality(D) = OmittedBefore(D, m + 1)
    BY <2>1, <2>4, <1>1, <1>3, OmittedInAll
  <2>6. QED
    BY <2>1, <2>3, <2>5
<1>10. Unstuffed(st) \in Seq(T) /\ Len(Unstuffed(st)) = m
  <2>1. Omit(st, A) \in Seq(T) /\ Len(Omit(st, A)) = Len(st) - Cardinality(A)
    BY <1>3, <1>9, OmitIsSeq
  <2>2. Len(st) - Cardinality(A) = m
    <3>1. Len(st) = m + Cardinality(D) /\ Cardinality(A) = Cardinality(D)
      BY <1>1, <1>3, <1>9 DEF all
    <3>2. m \in Nat /\ Cardinality(D) \in Nat
      BY <1>1
    <3>3. QED
      BY <3>1, <3>2
  <2>3. QED
    BY <2>1, <2>2 DEF Unstuffed
<1>11. ASSUME NEW i \in 1 .. m PROVE Unstuffed(st)[i] = s[i]
  <2>1. P(i) \in 1 .. Len(st) /\ st[P(i)] = s[i] /\ i \in 1 .. m + 1 /\ i \in Nat
    BY <1>1, <1>3
  <2>2. P(i) \notin A
    <3>1. ASSUME NEW j \in D PROVE P(i) # P(j) + 1
      <4>1. P(j) + 1 \in 2 .. all /\ st[P(j) + 1] = SEPARATOR_POST_BYTE /\ j \in 1 .. m
            /\ s[j] = SEPARATOR_BYTE
        BY <1>1, <1>3
      <4>2. /\ i \in Nat /\ j \in Nat /\ j \in 1 .. m + 1 /\ j + 1 \in 1 .. m + 1
            /\ P(j + 1) = P(j) + 2 /\ P(i) \in Nat /\ P(j) \in Nat
        BY <4>1, <2>1, <1>1, <1>2, SMTT(30)
      <4>3. i <= j => P(i) <= P(j)
        BY <4>2, <2>1, <1>2
      <4>4. j + 1 <= i => P(j + 1) <= P(i)
        BY <4>2, <2>1, <1>2
      <4>5. QED
        BY <4>2, <4>3, <4>4
    <3>2. QED
      BY <3>1, <1>5
  <2>3. Omit(st, A)[P(i) - OmittedBefore(A, P(i))] = st[P(i)]
    BY <1>3, <1>9, <2>1, <2>2, OmitKeeps
  <2>4. P(i) - OmittedBefore(A, P(i)) = i
    <3>1. OmittedBefore(A, P(i)) = OmittedBefore(D, i) /\ P(i) = i + OmittedBefore(D, i)
      BY <2>1, <1>8 DEF P, D, Place
    <3>2. OmittedBefore(D, i) \in Nat
      <4>1. D \in SUBSET (1 .. m)
        BY <1>1
      <4>2. QED
        BY <4>1, <2>1, <1>1, OmittedCounts
    <3>3. QED
      BY <3>1, <3>2, <2>1
  <2>5. QED
    BY <2>1, <2>3, <2>4 DEF Unstuffed
<1>12. Unstuffed(st) = s
  <2>1. s \in Seq(T) /\ Len(s) = m
    <3>1. S \subseteq T
      OBVIOUS
    <3>2. QED
      BY <3>1, SeqMonotonic
  <2>2. QED
    BY <2>1, <1>10, <1>11, SeqEqual
<1>13. QED
  BY <1>6, <1>12 DEF st

\* The separators of two sequences are those of both.
LEMMA SeparatorsConcat ==
  ASSUME NEW S, NEW s \in Seq(S), NEW t \in Seq(S)
  PROVE  /\ Separators(s) \in 0 .. Len(s) /\ Separators(t) \in 0 .. Len(t)
         /\ Separators(s \o t) = Separators(s) + Separators(t)
<1> DEFINE A == {i \in DOMAIN s : s[i] = SEPARATOR_BYTE}
           B == {i \in DOMAIN t : t[i] = SEPARATOR_BYTE}
           C == {i + Len(s) : i \in B}
<1>1. /\ Len(s) \in Nat /\ Len(t) \in Nat /\ DOMAIN s = 1 .. Len(s) /\ DOMAIN t = 1 .. Len(t)
      /\ DOMAIN (s \o t) = 1 .. Len(s) + Len(t)
      /\ \A i \in 1 .. Len(s) + Len(t) :
           (s \o t)[i] = IF i <= Len(s) THEN s[i] ELSE t[i - Len(s)]
  BY ConcatProperties, LenProperties
<1>2. /\ A \in SUBSET (1 .. Len(s)) /\ B \in SUBSET (1 .. Len(t))
      /\ IsFiniteSet(A) /\ Cardinality(A) \in 0 .. Len(s)
      /\ IsFiniteSet(B) /\ Cardinality(B) \in 0 .. Len(t)
  <2>1. A \in SUBSET (1 .. Len(s)) /\ B \in SUBSET (1 .. Len(t))
    BY <1>1
  <2>2. QED
    BY <2>1, <1>1, OmittedIsFinite
<1>3. B \subseteq Int
  BY <1>1, <1>2
<1>4. IsFiniteSet(C) /\ Cardinality(C) = Cardinality(B)
  <2>1. IsFiniteSet(B) /\ Len(s) \in Int
    BY <1>1, <1>2
  <2> HIDE DEF B
  <2>2. QED
    BY <2>1, <1>3, ShiftedCount
<1>5. A \cap C = {}
  <2>1. ASSUME NEW i \in B PROVE i + Len(s) \notin A
    BY <1>1, <1>2
  <2>2. QED
    BY <2>1
<1>6. {i \in DOMAIN (s \o t) : (s \o t)[i] = SEPARATOR_BYTE} = A \cup C
  <2>1. ASSUME NEW i \in DOMAIN (s \o t), (s \o t)[i] = SEPARATOR_BYTE PROVE i \in A \cup C
    <3>1. CASE i <= Len(s)
      <4>1. i \in 1 .. Len(s) /\ s[i] = SEPARATOR_BYTE
        BY <1>1, <2>1, <3>1
      <4>2. QED
        BY <4>1, <1>1
    <3>2. CASE ~(i <= Len(s))
      <4>1. i - Len(s) \in 1 .. Len(t) /\ t[i - Len(s)] = SEPARATOR_BYTE
            /\ i = (i - Len(s)) + Len(s)
        BY <1>1, <2>1, <3>2
      <4>2. i - Len(s) \in B
        BY <4>1, <1>1
      <4>3. QED
        BY <4>1, <4>2
    <3>3. QED
      BY <3>1, <3>2
  <2>2. ASSUME NEW i \in A PROVE i \in DOMAIN (s \o t) /\ (s \o t)[i] = SEPARATOR_BYTE
    <3>1. i \in 1 .. Len(s) /\ s[i] = SEPARATOR_BYTE
      BY <1>1
    <3>2. QED
      BY <3>1, <1>1
  <2>3. ASSUME NEW i \in B
        PROVE  i + Len(s) \in DOMAIN (s \o t) /\ (s \o t)[i + Len(s)] = SEPARATOR_BYTE
    <3>1. i \in 1 .. Len(t) /\ t[i] = SEPARATOR_BYTE
      BY <1>1
    <3>2. /\ i + Len(s) \in 1 .. Len(s) + Len(t) /\ ~(i + Len(s) <= Len(s))
          /\ (i + Len(s)) - Len(s) = i
      BY <3>1, <1>1
    <3>3. QED
      BY <3>1, <3>2, <1>1
  <2>4. QED
    BY <2>1, <2>2, <2>3
<1>7. Cardinality(A \cup C) = Cardinality(A) + Cardinality(B)
  BY <1>2, <1>4, <1>5, SplitCount
<1>8. QED
  BY <1>2, <1>6, <1>7 DEF Separators

\* The header of a frame that is not too long says what the frame is; only its type
\* may be a separator.
LEMMA HeaderOfFrame ==
  ASSUME NEW f \in [type : Byte, data : Bytes, use_crc : BOOLEAN], ~TooLong(f)
  PROVE  /\ Header(f) \in Bytes /\ Len(Header(f)) = PURE_HEADER_SIZE
         /\ PURE_HEADER_SIZE \in Nat /\ PURE_HEADER_SIZE >= 3
         /\ HeaderSizeFits(Header(f)) /\ HeaderDataSize(Header(f)) = Len(f.data)
         /\ HeaderUsesCrc(Header(f)) = f.use_crc /\ HeaderType(Header(f)) = f.type
         /\ Header(f)[1] # SEPARATOR_BYTE
         /\ Separators(Header(f)) = Separators(<<f.type>>)
<1> DEFINE n == PURE_HEADER_SIZE
           h == Header(f)
<1>1. /\ n \in Nat /\ n >= 3 /\ Base \in Nat /\ MAX_FRAME_SIZE \in n .. Base - 2
      /\ USE_CRC_MASK \in 1 .. Base - 2 /\ SEPARATOR_BYTE = Base - 1
  BY SizesAssumption DEF PURE_HEADER_SIZE, FRAME_SEPARATORS_COUNT, SEPARATOR_BYTE
<1>2. Len(f.data) \in Nat /\ Len(f.data) <= MAX_FRAME_SIZE - n /\ f.type \in 0 .. Base - 1
      /\ f.use_crc \in BOOLEAN
  <2>1. Len(f.data) \in Nat /\ f.type \in 0 .. Base - 1 /\ f.use_crc \in BOOLEAN
    BY DEF Bytes, Byte
  <2>2. ~(Len(f.data) > MAX_FRAME_SIZE - n)
    BY DEF TooLong
  <2>3. QED
    BY <2>1, <2>2, <1>1
<1> HIDE DEF n
<1>3. h = [i \in 1 .. n |->
             CASE i = 1 -> n + Len(f.data)
               [] i = 2 -> IF f.use_crc THEN USE_CRC_MASK ELSE 0
               [] i = n -> f.type
               [] OTHER -> 0]
  BY DEF Header, n
<1>4. /\ h[1] = n + Len(f.data) /\ h[2] = (IF f.use_crc THEN USE_CRC_MASK ELSE 0)
      /\ h[n] = f.type
      /\ \A i \in 1 .. n : i # 1 /\ i # 2 /\ i # n => h[i] = 0
  <2>1. 1 \in 1 .. n /\ 2 \in 1 .. n /\ n \in 1 .. n /\ n # 1 /\ n # 2
    BY <1>1
  <2>2. h[1] = n + Len(f.data)
    BY <1>3, <2>1
  <2>3. h[2] = (IF f.use_crc THEN USE_CRC_MASK ELSE 0)
    BY <1>3, <2>1
  <2>4. h[n] = f.type
    BY <1>3, <2>1
  <2>5. ASSUME NEW i \in 1 .. n, i # 1, i # 2, i # n PROVE h[i] = 0
    BY <1>3, <2>5
  <2>6. QED
    BY <2>2, <2>3, <2>4, <2>5
<1>5. DOMAIN h = 1 .. n
  BY <1>3
<1> HIDE DEF h
<1>6. \A i \in 1 .. n : h[i] \in Byte /\ (h[i] = SEPARATOR_BYTE <=> i = n /\ f.type = SEPARATOR_BYTE)
  <2>1. h[1] \in 0 .. Base - 2 /\ h[2] \in 0 .. Base - 2
    BY <1>1, <1>2, <1>4
  <2>2. ASSUME NEW i \in 1 .. n
        PROVE  h[i] \in Byte /\ (h[i] = SEPARATOR_BYTE <=> i = n /\ f.type = SEPARATOR_BYTE)
    <3>1. CASE i = 1 \/ i = 2
      BY <3>1, <2>1, <1>1 DEF Byte
    <3>2. CASE i = n
      BY <3>2, <1>2, <1>4 DEF Byte
    <3>3. CASE i # 1 /\ i # 2 /\ i # n
      BY <3>3, <1>1, <1>4 DEF Byte
    <3>4. QED
      BY <3>1, <3>2, <3>3
  <2>3. QED
    BY <2>2
<1>7. h \in Bytes /\ Len(h) = n
  <2>1. h = [i \in 1 .. n |-> h[i]]
    BY <1>3 DEF h
  <2>2. h \in Seq(Byte)
    BY <2>1, <1>1, <1>6, SeqDef, SMTT(30)
  <2>3. QED
    BY <2>2, <1>1, <1>5 DEF Bytes
<1>8. HeaderSizeFits(h) /\ HeaderDataSize(h) = Len(f.data) /\ HeaderType(h) = f.type
  BY <1>1, <1>2, <1>4 DEF HeaderSizeFits, HeaderDataSize, HeaderType, n
<1>9. HeaderUsesCrc(h) = f.use_crc
  <2>1. CASE f.use_crc = TRUE
    <3>1. h[2] \div USE_CRC_MASK = 1
      BY <2>1, <1>1, <1>4
    <3>2. QED
      BY <3>1, <2>1 DEF HeaderUsesCrc
  <2>2. CASE f.use_crc = FALSE
    <3>1. h[2] \div USE_CRC_MASK = 0
      BY <2>2, <1>1, <1>4
    <3>2. QED
      BY <3>1, <2>2 DEF HeaderUsesCrc
  <2>3. QED
    BY <2>1, <2>2, <1>2
<1>10. h[1] # SEPARATOR_BYTE
  BY <1>1, <1>6
<1>11. Separators(h) = Separators(<<f.type>>)
  <2>1. \A a : Cardinality({a}) = 1
    BY FS_Singleton
  <2>2. Cardinality({}) = 0
    BY FS_EmptySet
  <2>3. CASE f.type = SEPARATOR_BYTE
    <3>1. {i \in DOMAIN h : h[i] = SEPARATOR_BYTE} = {n}
      BY <2>3, <1>1, <1>5, <1>6
    <3>2. {i \in DOMAIN <<f.type>> : <<f.type>>[i] = SEPARATOR_BYTE} = {1}
      BY <2>3
    <3>3. QED
      BY <3>1, <3>2, <2>1 DEF Separators
  <2>4. CASE f.type # SEPARATOR_BYTE
    <3>1. {i \in DOMAIN h : h[i] = SEPARATOR_BYTE} = {}
      BY <2>4, <1>1, <1>5, <1>6
    <3>2. {i \in DOMAIN <<f.type>> : <<f.type>>[i] = SEPARATOR_BYTE} = {}
      BY <2>4
    <3>3. QED
      BY <3>1, <3>2 DEF Separators
  <2>5. QED
    BY <2>3, <2>4
<1>12. QED
  BY <1>1, <1>7, <1>8, <1>9, <1>10, <1>11 DEF n, h

\* The sender's checksum is the one the receiver expects, although one counts the
\* separators of the whole header and the other those of the type.
LEMMA ChecksumIsExpected ==
  ASSUME NEW f \in [type : Byte, data : Bytes, use_crc : BOOLEAN], ~TooLong(f)
  PROVE  Checksum(f) = ExpectedChecksum(Header(f), f.data)
<1>1. /\ Header(f) \in Seq(Byte) /\ f.data \in Seq(Byte) /\ <<f.type>> \in Seq(Byte)
      /\ HeaderType(Header(f)) = f.type /\ Separators(Header(f)) = Separators(<<f.type>>)
  BY HeaderOfFrame DEF Bytes
<1>2. Separators(Header(f) \o f.data) = Separators(<<f.type>> \o f.data)
  <2>1. Separators(Header(f) \o f.data) = Separators(Header(f)) + Separators(f.data)
    BY <1>1, SeparatorsConcat
  <2>2. Separators(<<f.type>> \o f.data) = Separators(<<f.type>>) + Separators(f.data)
    BY <1>1, SeparatorsConcat
  <2>3. QED
    BY <2>1, <2>2, <1>1
<1>3. QED
  BY <1>1, <1>2 DEF Checksum, ExpectedChecksum

\* Two sequences one behind the other are there as they were.
LEMMA ConcatPieces ==
  ASSUME NEW S, NEW s \in Seq(S), NEW t \in Seq(S)
  PROVE  /\ s \o t \in Seq(S) /\ Len(s \o t) = Len(s) + Len(t)
         /\ Len(s) \in Nat /\ Len(t) \in Nat
         /\ \A i \in 1 .. Len(s) : (s \o t)[i] = s[i]
         /\ \A i \in 1 .. Len(t) : (s \o t)[Len(s) + i] = t[i]
         /\ SubSeq(s \o t, 1, Len(s)) = s
         /\ SubSeq(s \o t, Len(s) + 1, Len(s \o t)) = t
OBVIOUS

Payload(f) == Header(f) \o f.data \o Trailer(f)

\* Checksum and CRC behind the data.
LEMMA TrailerOfFrame ==
  ASSUME NEW f \in [type : Byte, data : Bytes, use_crc : BOOLEAN],
         Crc(Header(f) \o f.data) \in Byte \X Byte
  PROVE  /\ Trailer(f) \in Seq(Byte \cup {Checksum(f)})
         /\ Len(Trailer(f)) = (IF f.use_crc THEN 3 ELSE 1) /\ Trailer(f)[1] = Checksum(f)
         /\ f.use_crc => SubSeq(Trailer(f), 2, 3) = Crc(Header(f) \o f.data)
<1> DEFINE crc == Crc(Header(f) \o f.data)
           S == Byte \cup {Checksum(f)}
<1>1. PICK a \in Byte, b \in Byte : crc = <<a, b>>
  OBVIOUS
<1>2. CASE f.use_crc
  <2>1. Trailer(f) = <<Checksum(f)>> \o <<a, b>>
    BY <1>1, <1>2 DEF Trailer
  <2>2. <<Checksum(f)>> \in Seq(S) /\ <<a, b>> \in Seq(S) /\ Len(<<Checksum(f)>>) = 1
        /\ Len(<<a, b>>) = 2 /\ <<Checksum(f)>>[1] = Checksum(f)
    OBVIOUS
  <2>3. /\ Trailer(f) \in Seq(S) /\ Len(Trailer(f)) = 1 + 2
        /\ \A i \in 1 .. 1 : Trailer(f)[i] = <<Checksum(f)>>[i]
        /\ SubSeq(Trailer(f), 1 + 1, 1 + 2) = <<a, b>>
    <3> DEFINE x == <<Checksum(f)>>
           y == <<a, b>>
    <3>2. x \in Seq(S) /\ y \in Seq(S) /\ Len(x) = 1 /\ Len(y) = 2 /\ Trailer(f) = x \o y
      BY <2>1, <2>2
    <3> HIDE DEF x, y
    <3>3. /\ x \o y \in Seq(S) /\ Len(x \o y) = Len(x) + Len(y)
          /\ \A i \in 1 .. Len(x) : (x \o y)[i] = x[i]
          /\ SubSeq(x \o y, Len(x) + 1, Len(x \o y)) = y
      <4>1. x \in Seq(S) /\ y \in Seq(S)
        BY <3>2
      <4>2. QED
        BY <4>1, ConcatPieces
    <3>4. QED
      BY <3>2, <3>3 DEF x, y
  <2>4. Trailer(f)[1] = Checksum(f)
    BY <2>2, <2>3
  <2>5. QED
    BY <2>3, <2>4, <1>1, <1>2
<1>3. CASE ~f.use_crc
  <2>1. Trailer(f) = <<Checksum(f)>> \o <<>>
    BY <1>3 DEF Trailer
  <2>2. <<Checksum(f)>> \in Seq(S) /\ Len(<<Checksum(f)>>) = 1
        /\ <<Checksum(f)>>[1] = Checksum(f)
    OBVIOUS
  <2>3. Trailer(f) = <<Checksum(f)>>
    BY <2>1, <2>2, ConcatEmptySeq
  <2>4. QED
    BY <2>2, <2>3, <1>3
<1>4. QED
  BY <1>2, <1>3

\* What fill_buffer() puts behind the two separators is a frame for a reader of the
\* line, and it is this one.
LEMMA PayloadIsFrame ==
  ASSUME NEW f \in [type : Byte, data : Bytes, use_crc : BOOLEAN], ~TooLong(f),
         Crc(Header(f) \o f.data) \in Byte \X Byte
  PROVE  /\ Payload(f) \in Seq(Byte \cup {Checksum(f)})
         /\ Len(Payload(f)) = PURE_HEADER_SIZE + Len(f.data) + Len(Trailer(f))
         /\ Separators(Payload(f))
              = Separators(Header(f) \o f.data) + Separators(Trailer(f))
         /\ IsFrame(Stuffed(Payload(f))) /\ FrameOf(Stuffed(Payload(f))) = f
<1> DEFINE S == Byte \cup {Checksum(f)}
           n == PURE_HEADER_SIZE
           h == Header(f)
           d == f.data
           t == Trailer(f)
           p == Payload(f)
           body == d \o t
           st == Stuffed(p)
<1>1. /\ h \in Seq(Byte) /\ Len(h) = n /\ n \in Nat /\ n >= 3
      /\ HeaderSizeFits(h) /\ HeaderDataSize(h) = Len(d) /\ HeaderUsesCrc(h) = f.use_crc
      /\ HeaderType(h) = f.type /\ h[1] # SEPARATOR_BYTE
  BY HeaderOfFrame DEF Bytes
<1>2. h \in Seq(S) /\ d \in Seq(S)
  <2>1. Byte \subseteq S /\ d \in Seq(Byte)
    BY DEF Bytes
  <2>2. QED
    BY <2>1, <1>1, SeqMonotonic
<1>3. /\ t \in Seq(S) /\ Len(t) = (IF f.use_crc THEN 3 ELSE 1) /\ t[1] = Checksum(f)
      /\ f.use_crc => SubSeq(t, 2, 3) = Crc(h \o d)
  BY TrailerOfFrame
<1> HIDE DEF S, h, d, t, n
<1>4. /\ body \in Seq(S) /\ Len(body) = Len(d) + Len(t) /\ Len(d) \in Nat /\ Len(t) \in Nat
      /\ \A i \in 1 .. Len(t) : body[Len(d) + i] = t[i]
      /\ SubSeq(body, 1, Len(d)) = d
      /\ SubSeq(body, Len(d) + 1, Len(body)) = t
  <2>1. d \in Seq(S) /\ t \in Seq(S)
    BY <1>2, <1>3
  <2>2. QED
    BY <2>1, ConcatPieces
<1>5. p = h \o body /\ p = (h \o d) \o t /\ h \o d \in Seq(S)
  <2>1. p = (h \o d) \o t
    BY DEF Payload, h, d, t
  <2>2. (h \o d) \o t = h \o body
    BY <1>2, <1>3, ConcatAssociative, SMTT(30)
  <2>3. h \o d \in Seq(S)
    BY <1>2, ConcatProperties
  <2>4. QED
    BY <2>1, <2>2, <2>3
<1>6. /\ p \in Seq(S) /\ Len(p) = n + Len(body)
      /\ \A i \in 1 .. n : p[i] = h[i]
      /\ SubSeq(p, 1, n) = h /\ SubSeq(p, n + 1, Len(p)) = body
  <2> HIDE DEF body
  <2>1. /\ p \in Seq(S) /\ Len(p) = Len(h) + Len(body)
        /\ \A i \in 1 .. Len(h) : p[i] = h[i]
        /\ SubSeq(p, 1, Len(h)) = h /\ SubSeq(p, Len(h) + 1, Len(p)) = body
    <3>1. h \o body = p
      BY <1>5
    <3>2. /\ h \o body \in Seq(S) /\ Len(h \o body) = Len(h) + Len(body)
          /\ \A i \in 1 .. Len(h) : (h \o body)[i] = h[i]
          /\ SubSeq(h \o body, 1, Len(h)) = h
          /\ SubSeq(h \o body, Len(h) + 1, Len(h \o body)) = body
      <4>1. h \in Seq(S) /\ body \in Seq(S)
        BY <1>2, <1>4
      <4>2. QED
        BY <4>1, ConcatPieces
    <3>3. QED
      BY <3>1, <3>2, Zenon
  <2>2. QED
    BY <2>1, <1>1
<1>7. Separators(p) = Separators(h \o d) + Separators(t)
  BY <1>3, <1>5, SeparatorsConcat
<1> HIDE DEF p
<1>8. /\ Misescaped(st) = {} /\ Unstuffed(st) = p
  BY <1>6, UnstuffedStuffed
<1>9. /\ Len(st) \in Nat /\ Len(st) >= 1 /\ st[1] # SEPARATOR_BYTE
      /\ st[Len(st)] # SEPARATOR_BYTE
  <2>1. /\ Len(p) \in Nat /\ Len(p) >= 1 /\ 1 \in 1 .. Len(p) /\ p[1] = h[1]
    BY <1>1, <1>3, <1>4, <1>6
  <2>2. /\ Len(st) \in Nat
        /\ \A i \in 1 .. Len(p) :
             /\ Place(p, i) \in 1 .. Len(st) /\ st[Place(p, i)] = p[i]
             /\ p[i] = SEPARATOR_BYTE =>
                  /\ Place(p, i) + 1 \in 2 .. Len(st)
                  /\ st[Place(p, i) + 1] = SEPARATOR_POST_BYTE
        /\ \A k \in 1 .. Len(st) :
             \E i \in 1 .. Len(p) :
               k = Place(p, i) \/ (p[i] = SEPARATOR_BYTE /\ k = Place(p, i) + 1)
    BY <1>6, StuffedPlaces
  <2>3. Place(p, 1) = 1
    BY <1>6, PlacesRise
  <2> HIDE DEF st
  <2>4. 1 \in 1 .. Len(st) /\ st[1] = h[1]
    BY <2>1, <2>2, <2>3
  <2>5. Len(st) \in 1 .. Len(st)
    BY <2>2, <2>4
  <2>6. PICK i \in 1 .. Len(p) :
          Len(st) = Place(p, i) \/ (p[i] = SEPARATOR_BYTE /\ Len(st) = Place(p, i) + 1)
    BY <2>2, <2>5
  <2>7. st[Len(st)] # SEPARATOR_BYTE
    <3>1. CASE p[i] = SEPARATOR_BYTE
      <4>1. Place(p, i) + 1 \in 2 .. Len(st) /\ st[Place(p, i) + 1] = SEPARATOR_POST_BYTE
            /\ Place(p, i) \in 1 .. Len(st)
        BY <3>1, <2>2
      <4>2. Len(st) = Place(p, i) + 1
        BY <4>1, <2>2, <2>6
      <4>3. SEPARATOR_POST_BYTE # SEPARATOR_BYTE
        BY SizesAssumption DEF SEPARATOR_BYTE
      <4>4. QED
        BY <4>1, <4>2, <4>3
    <3>2. CASE p[i] # SEPARATOR_BYTE
      BY <3>2, <2>2, <2>6
    <3>3. QED
      BY <3>1, <3>2
  <2>8. QED
    BY <2>4, <2>5, <2>7, <1>1
<1>10. Len(body) = BodySize(h) /\ Len(p) > n
  <2>1. BodySize(h) = Len(d) + (IF f.use_crc THEN 3 ELSE 1)
    BY <1>1 DEF BodySize
  <2>2. Len(body) = BodySize(h)
    BY <2>1, <1>3, <1>4
  <2>3. Len(body) >= 1 /\ Len(body) \in Nat
    BY <1>3, <1>4
  <2>4. QED
    BY <2>2, <2>3, <1>1, <1>6
<1>11. BodyIsRight(h, body)
  <2>1. SubSeq(body, 1, HeaderDataSize(h)) = d
    BY <1>1, <1>4
  <2>2. HeaderUsesCrc(h) => SubSeq(body, HeaderDataSize(h) + 2, HeaderDataSize(h) + 3)
                              = Crc(h \o d)
    <3>1. SUFFICES ASSUME f.use_crc PROVE SubSeq(body, Len(d) + 2, Len(d) + 3) = Crc(h \o d)
      BY <1>1
    <3>2. Len(t) = 3
      BY <3>1, <1>3
    <3>3. SubSeq(t, 2, 3) = SubSeq(body, (Len(d) + 1) + 2 - 1, (Len(d) + 1) + 3 - 1)
      <4>1. Len(d) + 1 \in 1 .. Len(body) + 1 /\ Len(body) = Len(d) + 3 /\ 2 \in Nat /\ 3 \in Nat
        BY <1>4, <3>2
      <4>2. SubSeq(SubSeq(body, Len(d) + 1, Len(body)), 2, 3)
              = SubSeq(body, (Len(d) + 1) + 2 - 1, (Len(d) + 1) + 3 - 1)
        <5>1. /\ Len(body) \in 1 .. Len(body) /\ Len(d) + 1 \in 1 .. Len(body)
              /\ 2 \in 1 .. Len(body) - (Len(d) + 1) + 1
              /\ 3 \in 1 .. Len(body) - (Len(d) + 1) + 1
          BY <4>1, <1>4
        <5> HIDE DEF body
        <5>2. QED
          BY <5>1, <1>4, SubSeqOfSubSeq, SMTT(30)
      <4>3. QED
        BY <4>2, <1>4
    <3>4. (Len(d) + 1) + 2 - 1 = Len(d) + 2 /\ (Len(d) + 1) + 3 - 1 = Len(d) + 3
      BY <1>4
    <3>5. QED
      BY <3>1, <3>3, <3>4, <1>3
  <2>3. body[HeaderDataSize(h) + 1] = ExpectedChecksum(h, d)
    <3>1. Checksum(f) = ExpectedChecksum(h, d)
      BY ChecksumIsExpected DEF h, d
    <3>2. 1 \in 1 .. Len(t)
      BY <1>3
    <3>3. body[Len(d) + 1] = t[1]
      BY <3>2, <1>4
    <3>4. QED
      BY <3>1, <3>3, <1>1, <1>3
  <2> HIDE DEF body
  <2>4. QED
    BY <2>1, <2>2, <2>3 DEF BodyIsRight
<1>12. IsFrame(st)
  BY <1>1, <1>6, <1>8, <1>9, <1>10, <1>11 DEF IsFrame, n
<1>13. FrameOf(st) = f
  <2>1. FrameOf(st) = ParsedFrame(h, body)
    BY <1>6, <1>8 DEF FrameOf, n
  <2>2. ParsedFrame(h, body) = [type |-> f.type, data |-> f.data, use_crc |-> f.use_crc]
    BY <1>1, <1>4 DEF ParsedFrame, d
  <2>3. QED
    BY <2>1, <2>2
<1>14. QED
  <2>1. Len(p) = n + Len(d) + Len(t)
    BY <1>1, <1>4, <1>6
  <2>2. QED
    BY <2>1, <1>6, <1>7, <1>12, <1>13 DEF p, h, d, t, n, S

\* get_buffer_size() counts what fill_buffer() writes; as long as a uint8_t can tell
\* its positions apart, each byte lands where it belongs.
LEMMA ImageIsWritten ==
  ASSUME NEW f \in [type : Byte, data : Bytes, use_crc : BOOLEAN], ~TooLong(f),
         Crc(Header(f) \o f.data) \in Byte \X Byte
  PROVE  /\ get_buffer_size(f) \in Nat /\ get_buffer_size(f) > FRAME_HEADER_SIZE
         /\ get_buffer_size(f) <= FRAME_HEADER_SIZE + 2 * Len(f.data) + 7
         /\ Len(Image(f)) = get_buffer_size(f)
         /\ Image(f)[1] = SEPARATOR_BYTE /\ Image(f)[2] = SEPARATOR_BYTE
         /\ SubSeq(Image(f), 3, Len(Image(f))) = Stuffed(Payload(f))
         /\ get_buffer_size(f) <= SizeBase => \A stale : fill_buffer(f, stale) = Image(f)
<1> DEFINE S == Byte \cup {Checksum(f)}
           T == S \cup {SEPARATOR_POST_BYTE} \cup {SEPARATOR_BYTE}
           n == PURE_HEADER_SIZE
           hd == Header(f) \o f.data
           t == Trailer(f)
           two == <<SEPARATOR_BYTE, SEPARATOR_BYTE>>
           st == Stuffed(Payload(f))
           image == Image(f)
           size == get_buffer_size(f)
<1>1. /\ Payload(f) \in Seq(S) /\ Len(Payload(f)) = n + Len(f.data) + Len(t)
      /\ Separators(Payload(f)) = Separators(hd) + Separators(t)
  BY PayloadIsFrame
<1>2. /\ Header(f) \in Seq(Byte) /\ f.data \in Seq(Byte) /\ Len(f.data) \in Nat
      /\ n \in Nat /\ Separators(Header(f)) = Separators(<<f.type>>) /\ <<f.type>> \in Seq(Byte)
      /\ Len(<<f.type>>) = 1 /\ FRAME_HEADER_SIZE = n + 2
  <2>1. FRAME_HEADER_SIZE = n + 2 /\ n \in Nat
    BY SizesAssumption DEF PURE_HEADER_SIZE, FRAME_SEPARATORS_COUNT
  <2>2. <<f.type>> \in Seq(Byte) /\ Len(<<f.type>>) = 1 /\ f.data \in Seq(Byte)
        /\ Len(f.data) \in Nat
    BY DEF Bytes
  <2>3. QED
    BY <2>1, <2>2, HeaderOfFrame DEF Bytes
<1>3. /\ t \in Seq(S) /\ Len(t) \in {1, 3} /\ Separators(t) \in 0 .. Len(t)
  <2>1. t \in Seq(S) /\ Len(t) \in {1, 3}
    BY TrailerOfFrame
  <2>2. QED
    BY <2>1, SeparatorsConcat
<1>4. Separators(hd) \in Nat /\ Separators(hd) <= Len(f.data) + 1
  <2>1. /\ Separators(hd) = Separators(Header(f)) + Separators(f.data)
        /\ Separators(f.data) \in 0 .. Len(f.data)
    BY <1>2, SeparatorsConcat
  <2>2. Separators(<<f.type>>) \in 0 .. Len(<<f.type>>)
    BY <1>2, SeparatorsConcat
  <2>3. QED
    BY <2>1, <2>2, <1>2
<1>5. /\ st \in Seq(T) /\ Len(st) = Len(Payload(f)) + Separators(Payload(f))
  <2>1. st \in Seq(S \cup {SEPARATOR_POST_BYTE})
        /\ Len(st) = Len(Payload(f)) + Separators(Payload(f))
    BY <1>1, StuffedPlaces
  <2>2. QED
    BY <2>1, SeqMonotonic
<1>6. size = n + 2 + Len(f.data) + Separators(hd) + Len(t) + Separators(t)
  BY <1>2 DEF get_buffer_size
<1>7. two \in Seq(T) /\ Len(two) = 2 /\ two[1] = SEPARATOR_BYTE /\ two[2] = SEPARATOR_BYTE
  OBVIOUS
<1>8. image = two \o st
  BY DEF Image, Payload
<1> HIDE DEF S, T, st, hd, t, two, size, image
<1>9. Len(st) = size - 2 /\ size \in Nat /\ size > FRAME_HEADER_SIZE
      /\ size <= FRAME_HEADER_SIZE + 2 * Len(f.data) + 7
  <2>1. Len(st) = n + Len(f.data) + Len(t) + (Separators(hd) + Separators(t))
    BY <1>1, <1>5
  <2>2. /\ Len(t) \in Nat /\ Len(t) >= 1 /\ Len(t) <= 3
        /\ Separators(t) \in Nat /\ Separators(t) <= Len(t)
    <3>1. Len(t) = 1 \/ Len(t) = 3
      BY <1>3
    <3>2. Separators(t) \in 0 .. Len(t)
      BY <1>3
    <3>3. \A x, y : (y = 1 \/ y = 3) /\ x \in 0 .. y =>
                    y \in Nat /\ y >= 1 /\ y <= 3 /\ x \in Nat /\ x <= y
      OBVIOUS
    <3>4. QED
      BY <3>1, <3>2, <3>3
  <2>3. QED
    BY <2>1, <2>2, <1>2, <1>4, <1>6, SMTT(30)
<1>10. /\ two \o st \in Seq(T) /\ Len(two \o st) = Len(two) + Len(st)
       /\ \A i \in 1 .. Len(two) : (two \o st)[i] = two[i]
       /\ SubSeq(two \o st, Len(two) + 1, Len(two \o st)) = st
  <2>1. two \in Seq(T) /\ st \in Seq(T)
    BY <1>5, <1>7
  <2>2. QED
    BY <2>1, ConcatPieces
<1>11. /\ image \in Seq(T) /\ Len(image) = size
       /\ image[1] = SEPARATOR_BYTE /\ image[2] = SEPARATOR_BYTE
       /\ SubSeq(image, 3, Len(image)) = st
  <2>1. image \in Seq(T) /\ Len(image) = size
    BY <1>7, <1>8, <1>9, <1>10
  <2>2. 1 \in 1 .. Len(two) /\ 2 \in 1 .. Len(two) /\ Len(two) + 1 = 3
    BY <1>7
  <2>3. image[1] = SEPARATOR_BYTE /\ image[2] = SEPARATOR_BYTE
    BY <2>2, <1>7, <1>8, <1>10
  <2>4. QED
    BY <2>1, <2>2, <2>3, <1>8, <1>10
<1>12. ASSUME size <= SizeBase, NEW stale PROVE fill_buffer(f, stale) = image
  <2> DEFINE WrittenAt(i) == {j \in DOMAIN image : (j - 1) % SizeBase = i - 1}
  <2>1. fill_buffer(f, stale)
          = [i \in 1 .. size |-> IF WrittenAt(i) = {} THEN stale ELSE image[Max(WrittenAt(i))]]
    BY DEF fill_buffer, image, size
  <2>2. DOMAIN image = 1 .. size /\ SizeBase \in Nat
    BY <1>11, SizesAssumption
  <2>3. ASSUME NEW i \in 1 .. size PROVE WrittenAt(i) = {i}
    <3>1. \A j \in 1 .. size : (j - 1) % SizeBase = j - 1
      BY <2>2, <1>12, <1>9
    <3>2. \A j \in 1 .. size : j - 1 = i - 1 => j = i
      BY <1>9
    <3>3. QED
      BY <2>2, <3>1, <3>2
  <2>4. \A i \in 1 .. size : Max({i}) = i
    BY <1>9 DEF Max
  <2>5. ASSUME NEW i \in 1 .. size
        PROVE  (IF WrittenAt(i) = {} THEN stale ELSE image[Max(WrittenAt(i))]) = image[i]
    BY <2>3, <2>4, <2>5
  <2>6. fill_buffer(f, stale) = [i \in 1 .. size |-> image[i]]
    BY <2>1, <2>5
  <2>7. image = [i \in 1 .. size |-> image[i]]
    BY <2>2, <1>11
  <2>8. QED
    BY <2>6, <2>7
<1>13. QED
  BY <1>9, <1>11, <1>12 DEF size, image, st

\* The buffer of a frame can be counted with a uint8_t.
Fits(f) == TooLong(f) \/ get_buffer_size(f) < SizeBase

\* send_data keeps its promise and has not begun to write before it returns.
SenderInv ==
  /\ asked \in Frames /\ (returned = Running => written = <<>>)
  /\ Fits(asked) => SuccessIsAFrame

\* Refused, written or left alone, a call keeps SenderInv.
LEMMA SendKeepsSenderInv ==
  ASSUME SenderInv, [send_data]_sender_vars
  PROVE  SenderInv'
<1>1. CASE SendTooLong
  <2>1. asked' = asked /\ written' = written /\ written = <<>> /\ returned' = 0
    BY <1>1 DEF SendTooLong, SenderInv
  <2>2. SuccessIsAFrame'
    BY <2>1 DEF SuccessIsAFrame
  <2>3. QED
    BY <2>1, <2>2 DEF SenderInv, Running
<1>2. CASE SendFrame
  <2>1. PICK stale \in {0, SEPARATOR_BYTE} : written' = fill_buffer(asked, stale)
    BY <1>2 DEF SendFrame
  <2>2. /\ ~TooLong(asked) /\ asked' = asked /\ returned' = get_buffer_size(asked) % SizeBase
        /\ asked \in Frames
    BY <1>2 DEF SendFrame, SenderInv
  <2>3. /\ asked \in [type : Byte, data : Bytes, use_crc : BOOLEAN]
        /\ Crc(Header(asked) \o asked.data) \in Byte \X Byte
    BY <2>2, FramesAssumption, CrcAssumption
  <2>4. /\ get_buffer_size(asked) \in Nat /\ get_buffer_size(asked) > FRAME_HEADER_SIZE
        /\ Len(Image(asked)) = get_buffer_size(asked)
        /\ Image(asked)[1] = SEPARATOR_BYTE /\ Image(asked)[2] = SEPARATOR_BYTE
        /\ SubSeq(Image(asked), 3, Len(Image(asked))) = Stuffed(Payload(asked))
        /\ get_buffer_size(asked) <= SizeBase =>
             \A s : fill_buffer(asked, s) = Image(asked)
    BY <2>2, <2>3, ImageIsWritten
  <2>5. IsFrame(Stuffed(Payload(asked))) /\ FrameOf(Stuffed(Payload(asked))) = asked
    BY <2>2, <2>3, PayloadIsFrame
  <2>6. FRAME_HEADER_SIZE \in Nat /\ SizeBase \in Nat \ {0}
    BY SizesAssumption
  <2>7. returned' # Running
    <3>1. get_buffer_size(asked) % SizeBase \in Nat
      BY <2>4, <2>6
    <3>2. QED
      BY <3>1, <2>2 DEF Running
  <2>8. ASSUME Fits(asked) PROVE SuccessIsAFrame'
    <3>1. get_buffer_size(asked) < SizeBase
      BY <2>2, <2>8 DEF Fits
    <3>2. returned' # 0
      <4>1. get_buffer_size(asked) % SizeBase = get_buffer_size(asked)
        <5>1. \A x \in Nat, b \in Nat \ {0} : x < b => x % b = x
          OBVIOUS
        <5>2. QED
          BY <5>1, <3>1, <2>4, <2>6
      <4>2. QED
        BY <4>1, <2>2, <2>4, <2>6
    <3>3. written' = Image(asked)
      <4>1. get_buffer_size(asked) <= SizeBase
        BY <3>1, <2>4, <2>6
      <4>2. QED
        BY <4>1, <2>1, <2>4
    <3>4. HoldsTheFrame'
      <4>1. FRAME_SEPARATORS_COUNT + 1 = 3
        BY DEF FRAME_SEPARATORS_COUNT
      <4>2. QED
        BY <4>1, <3>3, <2>2, <2>4, <2>5 DEF HoldsTheFrame
    <3>5. QED
      BY <3>2, <3>4, <2>7 DEF SuccessIsAFrame
  <2>9. QED
    BY <2>2, <2>7, <2>8 DEF SenderInv
<1>3. CASE UNCHANGED sender_vars
  <2>1. asked' = asked /\ written' = written /\ returned' = returned
    BY <1>3 DEF sender_vars
  <2>2. SuccessIsAFrame' = SuccessIsAFrame
    BY <2>1 DEF SuccessIsAFrame, HoldsTheFrame
  <2>3. QED
    BY <2>1, <2>2 DEF SenderInv
<1>4. QED
  BY <1>1, <1>2, <1>3 DEF send_data

\* A caller of send_data that is told of success has put its frame on the line as a
\* reader of the line will find it, for every frame whose buffer a uint8_t can count
\* (the others are what the run frame_send_limit_doc shows), and one told of failure
\* has written nothing.
THEOREM SuccessMeansTheFrame == SenderSpec => [](Fits(asked) => SuccessIsAFrame)
<1>1. SenderInit => SenderInv
  BY DEF SenderInit, SenderInv, SuccessIsAFrame
<1>2. SenderInv /\ [send_data]_sender_vars => SenderInv'
  BY SendKeepsSenderInv
<1>3. SenderInv => (Fits(asked) => SuccessIsAFrame)
  BY DEF SenderInv
<1>4. QED
  BY <1>1, <1>2, <1>3, PTL DEF SenderSpec

\* Data of which twice as many bytes fit beside the header, three bytes of trailer and
\* the post bytes of these and of the type is sent whatever its bytes are: with the
\* code's sizes, any data of up to 119 bytes.
THEOREM ShortDataIsSent ==
  SenderSpec =>
    [](FRAME_HEADER_SIZE + 2 * Len(asked.data) + 7 < SizeBase => SuccessIsAFrame)
<1>1. SenderSpec => [](asked \in Frames)
  <2>1. SenderInit => asked \in Frames
    BY DEF SenderInit
  <2>2. asked \in Frames /\ [send_data]_sender_vars => (asked \in Frames)'
    BY DEF send_data, SendTooLong, SendFrame, sender_vars
  <2>3. QED
    BY <2>1, <2>2, PTL DEF SenderSpec
<1>2. ASSUME asked \in Frames, FRAME_HEADER_SIZE + 2 * Len(asked.data) + 7 < SizeBase
      PROVE  Fits(asked)
  <2>1. SUFFICES ASSUME ~TooLong(asked) PROVE get_buffer_size(asked) < SizeBase
    BY DEF Fits
  <2>2. /\ asked \in [type : Byte, data : Bytes, use_crc : BOOLEAN]
        /\ Crc(Header(asked) \o asked.data) \in Byte \X Byte
    BY <1>2, FramesAssumption, CrcAssumption
  <2>3. /\ get_buffer_size(asked) \in Nat
        /\ get_buffer_size(asked) <= FRAME_HEADER_SIZE + 2 * Len(asked.data) + 7
    BY <2>1, <2>2, ImageIsWritten
  <2>4. FRAME_HEADER_SIZE \in Nat /\ SizeBase \in Nat /\ Len(asked.data) \in Nat
    BY <2>2, SizesAssumption DEF Bytes
  <2>5. QED
    BY <2>3, <2>4, <1>2
<1>3. QED
  BY <1>1, <1>2, SuccessMeansTheFrame, PTL

\* A frame that was written stands on the line for a reader: with NothingMissed, the
\* receiver of the line finds it.
THEOREM WrittenFrameIsOnLine ==
  ASSUME NEW f \in [type : Byte, data : Bytes, use_crc : BOOLEAN],
         Crc(Header(f) \o f.data) \in Byte \X Byte, ~TooLong(f), NEW s \in Bytes,
         NEW first \in 1 .. Len(s), NEW last \in 1 .. Len(s), first <= last,
         SubSeq(s, first, last) = Image(f)
  PROVE  [first |-> first, last |-> last, frame |-> f] \in FramesOn(s)
<1> DEFINE image == SubSeq(s, first, last)
<1>1. /\ Len(image) > FRAME_HEADER_SIZE /\ image[1] = SEPARATOR_BYTE /\ image[2] = SEPARATOR_BYTE
      /\ SubSeq(image, 3, Len(image)) = Stuffed(Payload(f))
  BY ImageIsWritten
<1>2. /\ FRAME_HEADER_SIZE \in Nat /\ FRAME_HEADER_SIZE >= 5 /\ FRAME_SEPARATORS_COUNT = 2
  BY SizesAssumption DEF FRAME_SEPARATORS_COUNT
<1>3. /\ first \in Nat /\ last \in Nat /\ Len(s) \in Nat /\ 1 <= first /\ last <= Len(s)
      /\ s \in Seq(Byte)
  BY DEF Bytes
<1>4. Len(image) = last - first + 1 /\ \A i \in 1 .. last - first + 1 : image[i] = s[first + i - 1]
  <2>1. \A i \in first .. last : s[i] \in Byte
    BY <1>3, ElementOfSeq
  <2>2. QED
    BY <2>1, <1>3, SubSeqProperties
<1>5. last >= first + FRAME_HEADER_SIZE
  BY <1>1, <1>2, <1>3, <1>4
<1>6. s[first] = SEPARATOR_BYTE /\ s[first + 1] = SEPARATOR_BYTE
  <2>1. /\ 1 \in 1 .. last - first + 1 /\ 2 \in 1 .. last - first + 1
        /\ first + 1 - 1 = first /\ first + 2 - 1 = first + 1
    BY <1>2, <1>3, <1>5
  <2>2. QED
    BY <2>1, <1>1, <1>4
<1>7. SubSeq(s, first + FRAME_SEPARATORS_COUNT, last) = Stuffed(Payload(f))
  <2>1. /\ 3 \in 1 .. last - first + 1 /\ Len(image) \in 1 .. last - first + 1
        /\ first + 3 - 1 = first + FRAME_SEPARATORS_COUNT /\ first + Len(image) - 1 = last
    BY <1>2, <1>3, <1>4, <1>5
  <2>2. SubSeq(image, 3, Len(image)) = SubSeq(s, first + 3 - 1, first + Len(image) - 1)
    BY <2>1, <1>3, SubSeqOfSubSeq
  <2>3. QED
    BY <2>1, <2>2, <1>1
<1>8. IsFrame(Stuffed(Payload(f))) /\ FrameOf(Stuffed(Payload(f))) = f
  BY PayloadIsFrame
<1>9. [first |-> first, last |-> last,
       frame |-> FrameOf(SubSeq(s, first + FRAME_SEPARATORS_COUNT, last))] \in FramesOn(s)
  <2>1. IsFrame(SubSeq(s, first + FRAME_SEPARATORS_COUNT, last))
    BY <1>7, <1>8
  <2>2. QED
    BY <2>1, <1>2, <1>3, <1>5, <1>6, FrameHere
<1>10. QED
  BY <1>7, <1>8, <1>9
=============================================================================

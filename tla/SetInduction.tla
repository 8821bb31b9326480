---------------------------- MODULE SetInduction -----------------------------
(***************************************************************************)
(* Induction over the naturals, stated with sets and functions: what the   *)
(* proofs about lists need to speak of a function that is defined by       *)
(* recursion, such as the ticks before the k-th link of TIMER.CPP's list   *)
(* or the start of the k-th message of a queue of PTS.CPP.                 *)
(***************************************************************************)
EXTENDS Integers, FiniteSets, FiniteSetTheorems, SequenceTheorems, WellFoundedInduction, TLAPS

\* A minimal element of a set of naturals under an order that includes < is its least one.
LEMMA MinimalIsLeast ==
  ASSUME NEW R, \A k, m \in Nat : k < m => <<k, m>> \in R,
         NEW T, T \subseteq Nat,
         \E m \in T : \A k \in T : ~(<<k, m>> \in R)
  PROVE  \E m \in T : \A k \in T : m <= k
<1>1. PICK m \in T : \A k \in T : ~(<<k, m>> \in R)
  OBVIOUS
<1>2. \A k \in T : k \in Nat /\ m \in Nat /\ ~(k < m)
  BY <1>1
<1>3. QED
  BY <1>2

\* A set of naturals that is not empty has a least element.
LEMMA LeastNat ==
  ASSUME NEW T, T \subseteq Nat, T # {}
  PROVE  \E m \in T : \A k \in T : m <= k
<1>1. IsWellFoundedOn(OpToRel(<, Nat), Nat)
  BY NatLessThanWellFounded
<1>2. \E m \in T : \A k \in T : ~(<<k, m>> \in OpToRel(<, Nat))
  BY <1>1, WFMin
<1>3. \A k, m \in Nat : k < m => <<k, m>> \in OpToRel(<, Nat)
  BY DEF OpToRel
<1>4. QED
  BY <1>2, <1>3, MinimalIsLeast, Zenon

\* Induction up to n: a set that has 0 and, with each number below n, the next one.
LEMMA UpTo ==
  ASSUME NEW n \in Nat, NEW T, 0 \in T, \A i \in 0..(n - 1) : i \in T => i + 1 \in T
  PROVE  0..n \subseteq T
<1> SUFFICES ASSUME (0..n) \ T # {} PROVE FALSE
  OBVIOUS
<1>1. PICK m \in (0..n) \ T : \A k \in (0..n) \ T : m <= k
  <2>1. (0..n) \ T \subseteq Nat
    OBVIOUS
  <2>2. QED
    BY <2>1, LeastNat
<1>2. m # 0 /\ m - 1 \in 0..(n - 1) /\ m - 1 \in T
  BY <1>1
<1>3. (m - 1) + 1 = m
  BY <1>2
<1>4. QED
  BY <1>1, <1>2, <1>3

\* Induction from m down to a: a set that has a number if it has all above it.
LEMMA DownTo ==
  ASSUME NEW a \in Nat, NEW m \in Nat, NEW T,
         \A i \in a..m : (\A j \in (i + 1)..m : j \in T) => i \in T
  PROVE  a..m \subseteq T
<1> DEFINE Below == {m - i : i \in (a..m) \ T}
<1> SUFFICES ASSUME (a..m) \ T # {} PROVE FALSE
  OBVIOUS
<1>1. Below \subseteq Nat /\ Below # {}
  OBVIOUS
<1>2. PICK k \in Below : \A x \in Below : k <= x
  <2> HIDE DEF Below
  <2>1. QED
    BY <1>1, LeastNat
<1>3. PICK i \in (a..m) \ T : k = m - i
  BY <1>2
<1>4. ASSUME NEW j \in (i + 1)..m, j \notin T PROVE FALSE
  <2>1. j \in a..m /\ m - j < m - i
    BY <1>3, <1>4
  <2>2. m - j \in Below
    BY <1>4, <2>1
  <2>3. m - i <= m - j
    BY <1>2, <1>3, <2>2
  <2>4. QED
    BY <1>3, <2>1, <2>3
<1>5. QED
  BY <1>3, <1>4

\* F[i] tells a value at i from the values above i.
LooksUp(a, m, S, F) ==
  /\ F \in [a..m -> [[a..m -> S] -> S]]
  /\ \A i \in a..m : \A g, h \in [a..m -> S] :
       (\A j \in (i + 1)..m : g[j] = h[j]) => F[i][g] = F[i][h]

\* f has at each number the value that F tells.
Follows(f, a, m, S, F) == f \in [a..m -> S] /\ \A i \in a..m : f[i] = F[i][f]

\* A function is defined on a..m by what each of its values is, given the ones above.
LEMMA DownwardRecursion ==
  ASSUME NEW a \in Nat, NEW m \in Nat, NEW S, NEW s \in S, NEW F, LooksUp(a, m, S, F)
  PROVE  \E f : Follows(f, a, m, S, F)
<1> USE DEF LooksUp
<1> DEFINE Good(k, f) == /\ f \in [a..m -> S]
                         /\ \A i \in a..m : i > m - k => f[i] = F[i][f]
           T == {k \in 0..(m + 1) : \E f : Good(k, f)}
<1>1. 0 \in T
  <2>1. Good(0, [i \in a..m |-> s])
    OBVIOUS
  <2>2. QED
    BY <2>1
<1>2. ASSUME NEW k \in 0..m, k \in T
      PROVE  k + 1 \in T
  <2>1. PICK f : Good(k, f)
    BY <1>2
  <2> DEFINE c == m - k
             g == [f EXCEPT ![c] = F[c][f]]
  <2>2. c \in Int /\ m - (k + 1) = c - 1 /\ k + 1 \in 0..(m + 1)
    OBVIOUS
  <2>3. f \in [a..m -> S] /\ \A i \in a..m : i > c => f[i] = F[i][f]
    BY <2>1
  <2> HIDE DEF c
  <2>4. g \in [a..m -> S] /\ \A i \in a..m : i # c => g[i] = f[i]
    BY <2>3
  <2>5. c \in a..m => g[c] = F[c][f]
    BY <2>3
  <2> HIDE DEF g
  <2>6. ASSUME NEW i \in a..m, i > c - 1 PROVE g[i] = F[i][g]
    <3>1. \A j \in (i + 1)..m : j \in a..m /\ j # c
      BY <2>2, <2>6
    <3>2. \A j \in (i + 1)..m : g[j] = f[j]
      BY <2>4, <3>1
    <3>3. F[i][g] = F[i][f]
      BY <2>3, <2>4, <3>2
    <3>4. CASE i = c
      BY <2>5, <3>3, <3>4
    <3>5. CASE i # c
      <4>1. i > c
        BY <2>2, <2>6, <3>5
      <4>2. QED
        BY <2>3, <2>4, <3>3, <3>5, <4>1
    <3>6. QED
      BY <3>4, <3>5
  <2>7. Good(k + 1, g)
    BY <2>2, <2>4, <2>6
  <2>8. QED
    BY <2>2, <2>7
<1> HIDE DEF T
<1>3. 0..(m + 1) \subseteq T
  BY <1>1, <1>2, UpTo
<1>4. m + 1 \in T
  BY <1>3
<1>5. PICK f : Good(m + 1, f)
  BY <1>4 DEF T
<1>6. \A i \in a..m : i > m - (m + 1)
  OBVIOUS
<1>7. QED
  BY <1>5, <1>6 DEF Follows

\* A set that has, with each number, the ones from 1 to it, is counted by its last one.
LEMMA InitialSegment ==
  ASSUME NEW n \in Nat, NEW S, S \subseteq 1..n, \A i \in S : 1..i \subseteq S
  PROVE  Cardinality(S) \in 0..n /\ S = 1..Cardinality(S)
<1>1. PICK m \in (1..(n + 1)) \ S : \A k \in (1..(n + 1)) \ S : m <= k
  <2>1. (1..(n + 1)) \ S \subseteq Nat /\ n + 1 \in (1..(n + 1)) \ S
    OBVIOUS
  <2>2. QED
    BY <2>1, LeastNat
<1>2. m \in 1..(n + 1) /\ m - 1 \in 0..n
  BY <1>1
<1>3. S = 1..(m - 1)
  <2>1. ASSUME NEW i \in S PROVE i \in 1..(m - 1)
    <3>1. i \in 1..n /\ m \notin 1..i
      BY <1>1, <2>1
    <3>2. QED
      BY <1>2, <3>1
  <2>2. ASSUME NEW i \in 1..(m - 1) PROVE i \in S
    <3>1. i \in 1..(n + 1) /\ i < m
      BY <1>2
    <3>2. QED
      BY <1>1, <1>2, <3>1
  <2>3. QED
    BY <2>1, <2>2
<1>4. Cardinality(1..(m - 1)) = m - 1
  BY <1>2, FS_Interval
<1>5. QED
  BY <1>2, <1>3, <1>4

\* n steps, each from the value before.
Steps(S, s, step, n, f) == /\ f \in [0..n -> S] /\ f[0] = s
                           /\ \A i \in 1..n : f[i] = step[i][f[i - 1]]

\* There is a function that takes the steps.
LEMMA StepsExist ==
  ASSUME NEW S, NEW s \in S, NEW n \in Nat, NEW step \in [1..n -> [S -> S]]
  PROVE  \E f : Steps(S, s, step, n, f)
<1> DEFINE T == {k \in 0..n : \E f : Steps(S, s, step, k, f)}
<1>1. 0 \in T
  <2>1. Steps(S, s, step, 0, [i \in 0..0 |-> s])
    BY DEF Steps
  <2>2. QED
    BY <2>1
<1>2. ASSUME NEW k \in 0..(n - 1), k \in T
      PROVE  k + 1 \in T
  <2>1. PICK f : Steps(S, s, step, k, f)
    BY <1>2
  <2> DEFINE g == [i \in 0..(k + 1) |-> IF i = k + 1 THEN step[k + 1][f[k]] ELSE f[i]]
  <2>2. k \in Nat /\ k + 1 \in 1..n /\ k + 1 \in 0..n
    OBVIOUS
  <2>3. f \in [0..k -> S] /\ f[k] \in S /\ step[k + 1][f[k]] \in S
    BY <2>1, <2>2 DEF Steps
  <2>4. \A i \in 0..k : g[i] = f[i] /\ i # k + 1
    BY <2>2
  <2>5. g[k + 1] = step[k + 1][f[k]]
    BY <2>2
  <2>6. g \in [0..(k + 1) -> S]
    <3>1. \A i \in 0..(k + 1) : i = k + 1 \/ i \in 0..k
      BY <2>2
    <3>2. QED
      BY <2>3, <3>1
  <2> HIDE DEF g
  <2>7. \A i \in 1..(k + 1) : g[i] = step[i][g[i - 1]]
    <3> SUFFICES ASSUME NEW i \in 1..(k + 1) PROVE g[i] = step[i][g[i - 1]]
      OBVIOUS
    <3>1. CASE i = k + 1
      <4>1. i - 1 = k /\ k \in 0..k
        BY <2>2, <3>1
      <4>2. QED
        BY <2>4, <2>5, <3>1, <4>1
    <3>2. CASE i # k + 1
      <4>1. i \in 1..k /\ i \in 0..k /\ i - 1 \in 0..k
        BY <2>2, <3>2
      <4>2. QED
        BY <2>1, <2>4, <4>1 DEF Steps
    <3>3. QED
      BY <3>1, <3>2
  <2>8. g[0] = s
    BY <2>1, <2>2, <2>4 DEF Steps
  <2>9. Steps(S, s, step, k + 1, g)
    BY <2>6, <2>7, <2>8 DEF Steps
  <2>10. QED
    BY <2>2, <2>9
<1> HIDE DEF T
<1>3. 0..n \subseteq T
  BY <1>1, <1>2, UpTo
<1>4. n \in T
  BY <1>3
<1>5. QED
  BY <1>4 DEF T

\* A function that takes each step that starts in S takes them all.
LEMMA StepsStay ==
  ASSUME NEW S, NEW s \in S, NEW n \in Nat, NEW step \in [1..n -> [S -> S]],
         NEW f, f[0] = s, \A i \in 1..n : f[i - 1] \in S => f[i] = step[i][f[i - 1]]
  PROVE  /\ \A i \in 0..n : f[i] \in S
         /\ \A i \in 1..n : f[i] = step[i][f[i - 1]]
<1> DEFINE T == {i \in 0..n : f[i] \in S}
<1>1. 0 \in T
  OBVIOUS
<1>2. ASSUME NEW i \in 0..(n - 1), i \in T
      PROVE  i + 1 \in T
  <2>1. i + 1 \in 1..n /\ (i + 1) - 1 = i /\ i + 1 \in 0..n
    OBVIOUS
  <2>2. f[i + 1] = step[i + 1][f[i]]
    BY <1>2, <2>1
  <2>3. QED
    BY <1>2, <2>1, <2>2
<1>3. 0..n \subseteq T
  <2> HIDE DEF T
  <2>1. QED
    BY <1>1, <1>2, UpTo
<1>4. \A i \in 1..n : i - 1 \in 0..n
  OBVIOUS
<1>5. QED
  BY <1>3, <1>4

-----------------------------------------------------------------------------
(* Counting.                                                                *)

\* A subset of 1..n is finite and has at most n members.
LEMMA CountUpTo ==
  ASSUME NEW n \in Nat, NEW A, A \subseteq 1..n
  PROVE  IsFiniteSet(A) /\ Cardinality(A) \in 0..n
<1>1. IsFiniteSet(1..n) /\ Cardinality(1..n) = n
  BY FS_Interval
<1>2. IsFiniteSet(A) /\ Cardinality(A) <= n
  BY <1>1, FS_Subset
<1>3. QED
  BY <1>2, FS_CardinalityType

\* B has the numbers of A up to p, those above it moved up by one, and maybe p + 1.
Shifted(n, p, A, B) == /\ A \subseteq 1..n /\ B \subseteq 1..(n + 1)
                       /\ \A k \in 1..p : k \in B <=> k \in A
                       /\ \A k \in (p + 1)..n : k + 1 \in B <=> k \in A

\* Moving numbers up leaves a place, and nothing else changes how many there are.
LEMMA ShiftedCount ==
  ASSUME NEW n \in Nat, NEW p \in 0..n, NEW A, NEW B, Shifted(n, p, A, B)
  PROVE  /\ Cardinality(A) \in 0..n
         /\ Cardinality(B) = Cardinality(A) + (IF p + 1 \in B THEN 1 ELSE 0)
<1> USE DEF Shifted
<1> DEFINE C == B \ {p + 1}
           f == [k \in A |-> IF k <= p THEN k ELSE k + 1]
<1>1. IsFiniteSet(A) /\ Cardinality(A) \in 0..n
  BY CountUpTo, Zenon
<1>2. f \in Bijection(A, C)
  <2>1. \A k \in A : k \in 1..n /\ f[k] \in C
    OBVIOUS
  <2>2. \A j, k \in A : f[j] = f[k] => j = k
    BY <2>1
  <2>3. \A c \in C : \E k \in A : f[k] = c
    <3> SUFFICES ASSUME NEW c \in C PROVE \E k \in A : f[k] = c
      OBVIOUS
    <3>1. CASE c <= p
      <4>1. c \in A
        BY <3>1
      <4>2. QED
        BY <3>1, <4>1
    <3>2. CASE c > p
      <4>1. c - 1 \in (p + 1)..n /\ (c - 1) + 1 = c
        BY <3>2
      <4>2. c - 1 \in A
        BY <4>1
      <4>3. f[c - 1] = c
        BY <4>1, <4>2
      <4>4. QED
        BY <4>2, <4>3
    <3>3. QED
      BY <3>1, <3>2
  <2>4. f \in [A -> C]
    BY <2>1
  <2> HIDE DEF f
  <2>5. QED
    BY <2>2, <2>3, <2>4 DEF Bijection, Injection, Surjection, IsInjective
<1>3. IsFiniteSet(C) /\ Cardinality(C) = Cardinality(A)
  <2>1. ExistsBijection(A, C)
    BY <1>2 DEF ExistsBijection
  <2> HIDE DEF C
  <2>2. QED
    BY <1>1, <2>1, FS_Bijection
<1>4. CASE p + 1 \in B
  <2>1. B = C \cup {p + 1} /\ p + 1 \notin C
    BY <1>4
  <2> HIDE DEF C
  <2>2. Cardinality(B) = Cardinality(C) + 1
    BY <1>3, <2>1, FS_AddElement
  <2>3. QED
    BY <1>1, <1>3, <1>4, <2>2
<1>5. CASE p + 1 \notin B
  <2>1. B = C
    BY <1>5
  <2>2. QED
    BY <1>1, <1>3, <1>5, <2>1
<1>6. QED
  BY <1>1, <1>4, <1>5

\* How often f has the value v among its first m.
Often(f, m, v) == Cardinality({k \in 1..m : f[k] = v})

\* The values in S, with a number of its own for each time f has it.
Numbered(S, cap, f, m) == {c \in S \X (1..cap) : c[2] <= Often(f, m, c[1])}

\* One more argument counts for its own value.
LEMMA OftenNext ==
  ASSUME NEW m \in Nat, NEW f, NEW v
  PROVE  /\ Often(f, m, v) \in 0..m
         /\ Often(f, m + 1, v) = Often(f, m, v) + (IF f[m + 1] = v THEN 1 ELSE 0)
<1> DEFINE A == {k \in 1..m : f[k] = v}
           B == {k \in 1..(m + 1) : f[k] = v}
<1>1. A \subseteq 1..m /\ B \subseteq 1..(m + 1) /\ m \in 0..m
  OBVIOUS
<1>2. \A k \in 1..m : k \in B <=> k \in A
  OBVIOUS
<1>3. \A k \in (m + 1)..m : k + 1 \in B <=> k \in A
  OBVIOUS
<1>4. m + 1 \in B <=> f[m + 1] = v
  OBVIOUS
<1> HIDE DEF A, B
<1>5. Cardinality(B) = Cardinality(A) + (IF m + 1 \in B THEN 1 ELSE 0)
  <2>1. Shifted(m, m, A, B)
    BY <1>1, <1>2, <1>3 DEF Shifted
  <2>2. QED
    BY <1>1, <2>1, ShiftedCount
<1>6. Cardinality(A) \in 0..m
  BY <1>1, CountUpTo
<1>7. QED
  BY <1>4, <1>5, <1>6 DEF Often, A, B

\* The numbered values in S are as many as the arguments that have them.
LEMMA NumberedCount ==
  ASSUME NEW n \in Nat, NEW cap \in Nat, n <= cap, NEW S, NEW f
  PROVE  Cardinality(Numbered(S, cap, f, n)) = Cardinality({k \in 1..n : f[k] \in S})
<1> DEFINE G(m) == Numbered(S, cap, f, m)
           H(m) == {k \in 1..m : f[k] \in S}
           T == {m \in 0..n : IsFiniteSet(G(m)) /\ Cardinality(G(m)) = Cardinality(H(m))}
<1>1. 0 \in T
  <2>1. \A v : Often(f, 0, v) = 0
    <3>1. \A v : {k \in 1..0 : f[k] = v} = {}
      OBVIOUS
    <3>2. QED
      BY <3>1, FS_EmptySet DEF Often
  <2>2. G(0) = {}
    BY <2>1 DEF Numbered
  <2>3. H(0) = {}
    OBVIOUS
  <2>4. QED
    BY <2>2, <2>3, FS_EmptySet
<1>2. ASSUME NEW m \in 0..(n - 1), m \in T
      PROVE  m + 1 \in T
  <2> DEFINE v == f[m + 1]
             c == <<v, Often(f, m, v) + 1>>
  <2>1. m \in Nat /\ m + 1 \in 1..n /\ m + 1 \in 0..n /\ m + 1 <= cap
    OBVIOUS
  <2>2. IsFiniteSet(G(m)) /\ Cardinality(G(m)) = Cardinality(H(m)) /\ IsFiniteSet(H(m))
    <3>1. H(m) \subseteq 1..m
      OBVIOUS
    <3>2. QED
      BY <1>2, <2>1, <3>1, CountUpTo
  <2>3. \A x : /\ Often(f, m, x) \in 0..m
               /\ Often(f, m + 1, x) = Often(f, m, x) + (IF v = x THEN 1 ELSE 0)
    BY <2>1, OftenNext
  <2>4. CASE v \in S
    <3>1. G(m + 1) = G(m) \cup {c} /\ c \notin G(m)
      <4>1. c \in G(m + 1) /\ c \notin G(m)
        BY <2>1, <2>3, <2>4 DEF Numbered
      <4>2. \A x \in S, i \in 1..cap :
              <<x, i>> \in G(m + 1) <=> <<x, i>> \in G(m) \/ <<x, i>> = c
        <5>1. \A x \in S, i \in 1..cap : <<x, i>> \in G(m + 1) <=> i <= Often(f, m + 1, x)
          BY DEF Numbered
        <5>2. \A x \in S, i \in 1..cap : <<x, i>> \in G(m) <=> i <= Often(f, m, x)
          BY DEF Numbered
        <5>3. \A x, i : <<x, i>> = c <=> x = v /\ i = Often(f, m, v) + 1
          OBVIOUS
        <5> HIDE DEF G, c
        <5>4. ASSUME NEW x \in S, NEW i \in 1..cap
              PROVE  <<x, i>> \in G(m + 1) <=> <<x, i>> \in G(m) \/ <<x, i>> = c
          <6>1. Often(f, m, x) \in 0..m /\ Often(f, m + 1, x) = Often(f, m, x) + (IF v = x THEN 1 ELSE 0)
            BY <2>3
          <6>2. CASE x = v
            BY <2>1, <5>1, <5>2, <5>3, <6>1, <6>2
          <6>3. CASE x # v
            BY <5>1, <5>2, <5>3, <6>1, <6>3
          <6>4. QED
            BY <6>2, <6>3
        <5>5. QED
          BY <5>4
      <4>3. \A y \in G(m + 1) : \E x \in S, i \in 1..cap : y = <<x, i>>
        BY DEF Numbered
      <4>4. G(m) \subseteq S \X (1..cap)
        BY DEF Numbered
      <4>5. \A y \in G(m) : \E x \in S, i \in 1..cap : y = <<x, i>>
        BY <4>4
      <4> HIDE DEF G, c
      <4>6. QED
        BY <4>1, <4>2, <4>3, <4>5
    <3>2. H(m + 1) = H(m) \cup {m + 1} /\ m + 1 \notin H(m)
      BY <2>1, <2>4
    <3> HIDE DEF G, H, c
    <3>3. Cardinality(G(m + 1)) = Cardinality(G(m)) + 1 /\ IsFiniteSet(G(m + 1))
      BY <2>2, <3>1, FS_AddElement
    <3>4. Cardinality(H(m + 1)) = Cardinality(H(m)) + 1
      BY <2>2, <3>2, FS_AddElement
    <3>5. QED
      BY <2>1, <2>2, <3>3, <3>4
  <2>5. CASE v \notin S
    <3>1. G(m + 1) = G(m)
      <4>1. \A x \in S : Often(f, m + 1, x) = Often(f, m, x)
        BY <2>3, <2>5
      <4>2. QED
        BY <4>1 DEF Numbered
    <3>2. H(m + 1) = H(m)
      BY <2>1, <2>5
    <3> HIDE DEF G, H
    <3>3. QED
      BY <2>1, <2>2, <3>1, <3>2
  <2>6. QED
    BY <2>4, <2>5
<1> HIDE DEF T
<1>3. 0..n \subseteq T
  BY <1>1, <1>2, UpTo
<1>4. n \in T
  BY <1>3
<1>5. QED
  BY <1>4 DEF T

-----------------------------------------------------------------------------
(* Sums.                                                                    *)

\* f[k] is the sum of the first k of the n numbers w.
Sums(n, w, f) == f = [i \in 0..n |-> IF i = 0 THEN 0 ELSE f[i - 1] + w[i]]

\* Numbers have sums.
LEMMA SumsExist ==
  ASSUME NEW n \in Nat, NEW w \in [1..n -> Nat]
  PROVE  \E f : Sums(n, w, f)
<1> DEFINE step == [i \in 1..n |-> [x \in Nat |-> x + w[i]]]
<1>1. step \in [1..n -> [Nat -> Nat]]
  OBVIOUS
<1>2. PICK f : Steps(Nat, 0, step, n, f)
  <2> HIDE DEF step
  <2>1. QED
    BY <1>1, StepsExist
<1>3. \A i \in 1..n : i - 1 \in 0..n /\ f[i - 1] \in Nat
  BY <1>2 DEF Steps
<1>4. \A i \in 1..n : f[i] = f[i - 1] + w[i]
  BY <1>2, <1>3 DEF Steps
<1>5. \A i \in 0..n : f[i] = IF i = 0 THEN 0 ELSE f[i - 1] + w[i]
  BY <1>2, <1>4 DEF Steps
<1>6. f = [i \in 0..n |-> f[i]]
  BY <1>2 DEF Steps
<1>7. Sums(n, w, f)
  BY <1>5, <1>6 DEF Sums
<1>8. QED
  BY <1>7

\* They add up from number to number.
LEMMA SumsAddUp ==
  ASSUME NEW n \in Nat, NEW w \in [1..n -> Nat], NEW f, Sums(n, w, f)
  PROVE  /\ f[0] = 0
         /\ \A k \in 1..n : f[k] = f[k - 1] + w[k]
         /\ \A k \in 0..n : f[k] \in Nat
<1> DEFINE step == [i \in 1..n |-> [x \in Nat |-> x + w[i]]]
<1>1. step \in [1..n -> [Nat -> Nat]]
  OBVIOUS
<1>2. f[0] = 0 /\ \A k \in 1..n : f[k] = f[k - 1] + w[k]
  <2>1. 0 \in 0..n /\ \A i \in 1..n : i \in 0..n /\ i # 0
    OBVIOUS
  <2>2. QED
    BY <2>1 DEF Sums
<1>3. \A i \in 1..n : f[i - 1] \in Nat => f[i] = step[i][f[i - 1]]
  BY <1>2
<1>4. \A k \in 0..n : f[k] \in Nat
  <2> HIDE DEF step
  <2>1. 0 \in Nat /\ f[0] = 0
    BY <1>2
  <2>2. QED
    BY <1>1, <1>3, <2>1, StepsStay, Zenon
<1>5. QED
  BY <1>2, <1>4

\* The sum of more numbers is no smaller.
LEMMA SumsGrow ==
  ASSUME NEW n \in Nat, NEW w \in [1..n -> Nat], NEW f, Sums(n, w, f),
         NEW k \in 0..n, NEW j \in 0..k
  PROVE  f[j] <= f[k]
<1> DEFINE T == {d \in 0..(k - j) : f[j] <= f[j + d]}
<1>1. /\ \A i \in 1..n : f[i] = f[i - 1] + w[i]
      /\ \A i \in 0..n : f[i] \in Nat
  BY SumsAddUp
<1>2. k \in Nat /\ j \in 0..n /\ k - j \in Nat /\ j + (k - j) = k
  OBVIOUS
<1>3. 0 \in T
  BY <1>1, <1>2
<1>4. ASSUME NEW d \in 0..((k - j) - 1), d \in T
      PROVE  d + 1 \in T
  <2> DEFINE i == j + (d + 1)
  <2>1. i \in 1..n /\ i - 1 = j + d /\ j + d \in 0..n /\ d + 1 \in 0..(k - j) /\ i \in 0..n
    BY <1>2
  <2> HIDE DEF i
  <2>2. f[i] = f[j + d] + w[i] /\ f[j + d] \in Nat /\ w[i] \in Nat /\ f[j] \in Nat
    BY <1>1, <1>2, <2>1
  <2>3. f[j] <= f[i]
    BY <1>4, <2>2
  <2>4. QED
    BY <2>1, <2>3 DEF i
<1> HIDE DEF T
<1>5. 0..(k - j) \subseteq T
  BY <1>2, <1>3, <1>4, UpTo
<1>6. k - j \in T
  BY <1>2, <1>5
<1>7. QED
  BY <1>2, <1>6 DEF T

-----------------------------------------------------------------------------
(* Sequences.                                                               *)

\* A function on 1 to n is a sequence of n elements.
LEMMA FunctionIsSeq ==
  ASSUME NEW n \in Nat, NEW S, NEW f \in [1..n -> S]
  PROVE  f \in Seq(S) /\ Len(f) = n
BY SeqDef, LenProperties

\* r is s with e put in before the i-th element, and s without the i-th element.
HasNew(S, s, i, e, r) ==
  /\ r \in Seq(S) /\ Len(r) = Len(s) + 1
  /\ \A j \in 1..(i - 1) : r[j] = s[j]
  /\ r[i] = e
  /\ \A j \in i..Len(s) : r[j + 1] = s[j]
Without(S, s, i, r) ==
  /\ r \in Seq(S) /\ Len(r) = Len(s) - 1
  /\ \A j \in 1..(i - 1) : r[j] = s[j]
  /\ \A j \in (i + 1)..Len(s) : r[j - 1] = s[j]

\* An element is put in between what is before and behind it.
LEMMA PutIn ==
  ASSUME NEW S, NEW s \in Seq(S), NEW i \in 1..(Len(s) + 1), NEW e \in S,
         NEW r, r = SubSeq(s, 1, i - 1) \o <<e>> \o SubSeq(s, i, Len(s))
  PROVE  HasNew(S, s, i, e, r)
<1> DEFINE a == SubSeq(s, 1, i - 1)
           b == SubSeq(s, i, Len(s))
           m == a \o <<e>>
<1>1. Len(s) \in Nat /\ i \in Int /\ i - 1 \in Int /\ \A j \in 1..Len(s) : s[j] \in S
  BY LenProperties, ElementOfSeq
<1>2. a \in Seq(S) /\ Len(a) = i - 1 /\ \A j \in 1..(i - 1) : a[j] = s[j]
  <2>1. \A j \in 1..(i - 1) : s[j] \in S
    BY <1>1
  <2>2. /\ a \in Seq(S) /\ Len(a) = IF 1 <= i - 1 THEN (i - 1) - 1 + 1 ELSE 0
        /\ \A j \in 1..((i - 1) - 1 + 1) : a[j] = s[1 + j - 1]
    BY <1>1, <2>1, SubSeqProperties
  <2> HIDE DEF a
  <2>3. QED
    BY <1>1, <2>2
<1>3. b \in Seq(S) /\ Len(b) = Len(s) - i + 1 /\ \A j \in 1..(Len(s) - i + 1) : b[j] = s[i + j - 1]
  <2>1. \A j \in i..Len(s) : s[j] \in S
    BY <1>1
  <2>2. /\ b \in Seq(S) /\ Len(b) = IF i <= Len(s) THEN Len(s) - i + 1 ELSE 0
        /\ \A j \in 1..(Len(s) - i + 1) : b[j] = s[i + j - 1]
    BY <1>1, <2>1, SubSeqProperties
  <2> HIDE DEF b
  <2>3. QED
    BY <1>1, <2>2
<1>4. <<e>> \in Seq(S) /\ Len(<<e>>) = 1 /\ <<e>>[1] = e
  OBVIOUS
<1> HIDE DEF a, b
<1>5. /\ m \in Seq(S) /\ Len(m) = i
      /\ \A j \in 1..i : m[j] = IF j <= i - 1 THEN a[j] ELSE <<e>>[j - (i - 1)]
  <2>1. /\ m \in Seq(S) /\ Len(m) = Len(a) + Len(<<e>>)
        /\ \A j \in 1..(Len(a) + Len(<<e>>)) : m[j] = IF j <= Len(a) THEN a[j] ELSE <<e>>[j - Len(a)]
    BY <1>2, <1>4, ConcatProperties
  <2> HIDE DEF m
  <2>2. Len(a) + Len(<<e>>) = i
    BY <1>1, <1>2, <1>4
  <2>3. QED
    BY <1>2, <2>1, <2>2
<1>6. (\A j \in 1..(i - 1) : m[j] = s[j]) /\ m[i] = e
  <2> HIDE DEF m
  <2>1. i - (i - 1) = 1
    BY <1>1
  <2>2. QED
    BY <1>1, <1>2, <1>4, <1>5, <2>1
<1> HIDE DEF m
<1>7. /\ m \o b \in Seq(S) /\ Len(m \o b) = Len(s) + 1
      /\ \A j \in 1..(Len(s) + 1) : (m \o b)[j] = IF j <= i THEN m[j] ELSE b[j - i]
  <2>1. /\ m \o b \in Seq(S) /\ Len(m \o b) = Len(m) + Len(b)
        /\ \A j \in 1..(Len(m) + Len(b)) : (m \o b)[j] = IF j <= Len(m) THEN m[j] ELSE b[j - Len(m)]
    BY <1>3, <1>5, ConcatProperties
  <2>2. Len(m) + Len(b) = Len(s) + 1
    BY <1>1, <1>3, <1>5
  <2>3. QED
    BY <1>5, <2>1, <2>2
<1>8. \A j \in i..Len(s) : (m \o b)[j + 1] = s[j]
  <2> SUFFICES ASSUME NEW j \in i..Len(s) PROVE (m \o b)[j + 1] = s[j]
    OBVIOUS
  <2>1. /\ j + 1 \in 1..(Len(s) + 1) /\ ~(j + 1 <= i)
        /\ (j + 1) - i \in 1..(Len(s) - i + 1) /\ i + ((j + 1) - i) - 1 = j
    BY <1>1
  <2>2. QED
    BY <1>3, <1>7, <2>1
<1>9. SubSeq(s, 1, i - 1) \o <<e>> \o SubSeq(s, i, Len(s)) = m \o b
  BY DEF m, a, b
<1>10. \A j \in 1..i : (m \o b)[j] = m[j]
  BY <1>1, <1>7
<1> DEFINE z == m \o b
<1>11. r = z
  BY <1>9
<1>12. /\ z \in Seq(S) /\ Len(z) = Len(s) + 1
       /\ \A j \in 1..(i - 1) : z[j] = s[j]
       /\ z[i] = e
       /\ \A j \in i..Len(s) : z[j + 1] = s[j]
  BY <1>1, <1>6, <1>7, <1>8, <1>10
<1> HIDE DEF z
<1>13. QED
  BY <1>11, <1>12 DEF HasNew

\* An element is taken out from between what is before and behind it.
LEMMA TakenOut ==
  ASSUME NEW S, NEW s \in Seq(S), NEW i \in 1..Len(s),
         NEW r, r = SubSeq(s, 1, i - 1) \o SubSeq(s, i + 1, Len(s))
  PROVE  Without(S, s, i, r)
<1> DEFINE a == SubSeq(s, 1, i - 1)
           b == SubSeq(s, i + 1, Len(s))
<1>1. Len(s) \in Nat /\ i \in Int /\ i - 1 \in Int /\ i + 1 \in Int /\ \A j \in 1..Len(s) : s[j] \in S
  BY LenProperties, ElementOfSeq
<1>2. a \in Seq(S) /\ Len(a) = i - 1 /\ \A j \in 1..(i - 1) : a[j] = s[j]
  <2>1. \A j \in 1..(i - 1) : s[j] \in S
    BY <1>1
  <2>2. /\ a \in Seq(S) /\ Len(a) = IF 1 <= i - 1 THEN (i - 1) - 1 + 1 ELSE 0
        /\ \A j \in 1..((i - 1) - 1 + 1) : a[j] = s[1 + j - 1]
    BY <1>1, <2>1, SubSeqProperties
  <2> HIDE DEF a
  <2>3. QED
    BY <1>1, <2>2
<1>3. b \in Seq(S) /\ Len(b) = Len(s) - i /\ \A j \in 1..(Len(s) - i) : b[j] = s[i + j]
  <2>1. \A j \in (i + 1)..Len(s) : s[j] \in S
    BY <1>1
  <2>2. /\ b \in Seq(S) /\ Len(b) = IF i + 1 <= Len(s) THEN Len(s) - (i + 1) + 1 ELSE 0
        /\ \A j \in 1..(Len(s) - (i + 1) + 1) : b[j] = s[(i + 1) + j - 1]
    BY <1>1, <2>1, SubSeqProperties
  <2> HIDE DEF b
  <2>3. QED
    BY <1>1, <2>2
<1> HIDE DEF a, b
<1>4. /\ a \o b \in Seq(S) /\ Len(a \o b) = Len(s) - 1
      /\ \A j \in 1..(Len(s) - 1) : (a \o b)[j] = IF j <= i - 1 THEN a[j] ELSE b[j - (i - 1)]
  <2>1. /\ a \o b \in Seq(S) /\ Len(a \o b) = Len(a) + Len(b)
        /\ \A j \in 1..(Len(a) + Len(b)) : (a \o b)[j] = IF j <= Len(a) THEN a[j] ELSE b[j - Len(a)]
    BY <1>2, <1>3, ConcatProperties
  <2>2. Len(a) + Len(b) = Len(s) - 1
    BY <1>1, <1>2, <1>3
  <2>3. QED
    BY <1>2, <2>1, <2>2
<1>5. \A j \in (i + 1)..Len(s) : (a \o b)[j - 1] = s[j]
  <2> SUFFICES ASSUME NEW j \in (i + 1)..Len(s) PROVE (a \o b)[j - 1] = s[j]
    OBVIOUS
  <2>1. /\ j - 1 \in 1..(Len(s) - 1) /\ ~(j - 1 <= i - 1)
        /\ (j - 1) - (i - 1) \in 1..(Len(s) - i) /\ i + ((j - 1) - (i - 1)) = j
    BY <1>1
  <2>2. QED
    BY <1>3, <1>4, <2>1
<1>6. \A j \in 1..(i - 1) : (a \o b)[j] = s[j]
  <2>1. \A j \in 1..(i - 1) : j \in 1..(Len(s) - 1) /\ j <= i - 1
    BY <1>1
  <2>2. QED
    BY <1>2, <1>4, <2>1
<1>7. r = a \o b
  BY DEF a, b
<1>8. QED
  BY <1>4, <1>5, <1>6, <1>7 DEF Without
=============================================================================

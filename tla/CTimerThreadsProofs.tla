------------------------ MODULE CTimerThreadsProofs ------------------------
(***************************************************************************)
(* Proofs about CTimerThreads on a device, for any events, any size of the *)
(* pool of links and delays of any length: the pointer code loses no link, *)
(* and it does to the list what CTimer says.                               *)
(***************************************************************************)
EXTENDS CTimerThreads, SetInduction, TLAPS

-----------------------------------------------------------------------------
(* The chain of the links.                                                  *)

Node == [Next : 1..Null, wDelta : Nat, wPeriod : Nat, pThis : Event \cup {NoEvent},
         Flags : Timer!Mode]
Nodes == [0..MaxEvents -> Node]

\* What a link in the list holds.
Entry == [pThis : Event, wDelta : Nat, wPeriod : Nat \ {0}, Flags : Timer!Mode]

\* In the chain c of links: the k-th node, what its Next is, and the links.
Place(c, k) == IF k = 0 THEN Last ELSE c[k]
Behind(c, k) == IF k = Len(c) THEN Null ELSE c[k + 1]
On(c) == {c[k] : k \in 1..Len(c)}

\* The nodes N are chained in the order c, no link twice.
Chained(N, c) == /\ c \in Seq(Links)
                 /\ \A j, k \in 1..Len(c) : c[j] = c[k] => j = k
                 /\ \A k \in 0..Len(c) : N[Place(c, k)].Next = Behind(c, k)

\* They show the list B.
Shows(N, c, B) == /\ Chained(N, c)
                  /\ B \in Seq(Entry) /\ Len(B) = Len(c)
                  /\ \A k \in 1..Len(c) : B[k] = View(N, c[k])

\* The links that are not free.
Taken(N) == {l \in Links : N[l].pThis # NoEvent}

\* Between calls they are the ones in the list.
Rests(N, c, B) == Shows(N, c, B) /\ Taken(N) = On(c)

\* A chain's elements.
LEMMA ChainElements ==
  ASSUME NEW c \in Seq(Links)
  PROVE  /\ Len(c) \in Nat /\ MaxEvents \in Nat /\ \A k \in 1..Len(c) : c[k] \in Links
         /\ \A k \in 0..Len(c) : /\ Place(c, k) \in 0..MaxEvents
                                 /\ Behind(c, k) \in 1..Null
                                 /\ k < Len(c) => Behind(c, k) = c[k + 1] /\ Behind(c, k) # Null
                                 /\ k = Len(c) => Behind(c, k) = Null
<1>1. Len(c) \in Nat /\ MaxEvents \in Nat /\ \A k \in 1..Len(c) : c[k] \in 1..MaxEvents
  BY LenProperties, ElementOfSeq, MaxEventsAssumption DEF Links
<1>2. ASSUME NEW k \in 0..Len(c)
      PROVE  /\ Place(c, k) \in 0..MaxEvents
             /\ Behind(c, k) \in 1..Null
             /\ k < Len(c) => Behind(c, k) = c[k + 1] /\ Behind(c, k) # Null
             /\ k = Len(c) => Behind(c, k) = Null
  <2>1. k # 0 => k \in 1..Len(c)
    BY <1>1
  <2>2. k # Len(c) => k + 1 \in 1..Len(c)
    BY <1>1
  <2> DEFINE n == Len(c)
  <2> HIDE DEF n
  <2>3. Place(c, k) \in 0..MaxEvents
    BY <1>1, <2>1 DEF Place, Last
  <2>4. k # Len(c) => Behind(c, k) = c[k + 1] /\ c[k + 1] \in 1..MaxEvents
    BY <1>1, <2>2 DEF Behind
  <2>5. k = Len(c) => Behind(c, k) = Null
    BY DEF Behind
  <2>6. Null \in 1..Null /\ \A l \in 1..MaxEvents : l \in 1..Null /\ l # Null
    BY <1>1 DEF Null
  <2>7. QED
    BY <1>1, <2>3, <2>4, <2>5, <2>6
<1>3. QED
  BY <1>1, <1>2 DEF Links

\* A chain is no longer than the pool, and as long only if it has every link.
LEMMA ChainFits ==
  ASSUME NEW N, NEW c, Chained(N, c)
  PROVE  Len(c) <= MaxEvents /\ (Len(c) = MaxEvents <=> On(c) = Links)
<1> DEFINE n == Len(c)
<1>1. n \in Nat /\ MaxEvents \in Nat /\ \A k \in 1..n : c[k] \in Links
  BY ChainElements DEF Chained
<1>2. c \in [1..n -> Links]
  BY <1>1, LenProperties DEF Chained
<1>3. c \in Injection(1..n, Links)
  BY <1>2 DEF Injection, IsInjective, Chained
<1>4. IsFiniteSet(Links) /\ Cardinality(Links) = MaxEvents /\ Cardinality(1..n) = n
  <2> HIDE DEF n
  <2>1. QED
    BY <1>1, FS_Interval DEF Links
<1>5. n <= MaxEvents /\ (n = MaxEvents <=> c \in Surjection(1..n, Links))
  <2> HIDE DEF n
  <2>1. QED
    BY <1>3, <1>4, FS_Injection
<1>6. c \in Surjection(1..n, Links) <=> On(c) = Links
  BY <1>2 DEF Surjection, On
<1>7. QED
  BY <1>5, <1>6

\* Following the chain from Last, one comes past its links and then to its end.
LEMMA NthIs ==
  ASSUME NEW N, NEW c, Chained(N, c)
  PROVE  \A k \in 0..(MaxEvents + 1) : Nth(N)[k] = IF k <= Len(c) THEN Place(c, k) ELSE Null
<1> DEFINE n == Len(c)
           m == MaxEvents + 1
           f == [k \in 0..m |-> IF k <= n THEN Place(c, k) ELSE Null]
           nth == CHOOSE g : g = [k \in 0..m |-> IF k = 0 THEN Last
                                   ELSE IF g[k - 1] = Null THEN Null ELSE N[g[k - 1]].Next]
<1>1. n \in Nat /\ m \in Nat /\ Null \notin 0..MaxEvents
  BY ChainElements DEF Chained, Null
<1>2. \A k \in 0..n : Place(c, k) # Null /\ N[Place(c, k)].Next = Behind(c, k)
  BY <1>1, ChainElements DEF Chained
<1>3. ASSUME NEW k \in 0..m
      PROVE  f[k] = IF k = 0 THEN Last ELSE IF f[k - 1] = Null THEN Null ELSE N[f[k - 1]].Next
  <2>1. CASE k = 0
    BY <1>1, <2>1 DEF Place
  <2>2. CASE k # 0
    <3> DEFINE j == k - 1
    <3>1. j \in 0..m /\ k = j + 1
      BY <1>1, <2>2
    <3> HIDE DEF j, n, m
    <3>2. CASE j < n
      <4>1. k \in 1..n /\ j \in 0..n /\ k <= n /\ j <= n /\ j # n
        BY <1>1, <3>1, <3>2
      <4>2. f[j] = Place(c, j) /\ f[k] = Place(c, k)
        BY <3>1, <4>1
      <4>3. Behind(c, j) = c[j + 1] /\ Place(c, k) = c[k]
        BY <2>2, <4>1 DEF Behind, Place, n
      <4>4. QED
        BY <1>2, <2>2, <3>1, <4>1, <4>2, <4>3 DEF j
    <3>3. CASE j = n
      <4>1. ~(k <= n) /\ j <= n /\ j \in 0..n
        BY <1>1, <3>1, <3>3
      <4>2. f[j] = Place(c, j) /\ f[k] = Null
        BY <3>1, <4>1
      <4>3. Behind(c, j) = Null
        BY <3>3 DEF Behind, n
      <4>4. QED
        BY <1>2, <2>2, <3>1, <4>1, <4>2, <4>3 DEF j
    <3>4. CASE j > n
      <4>1. ~(k <= n) /\ ~(j <= n)
        BY <1>1, <3>1, <3>4
      <4>2. f[j] = Null /\ f[k] = Null
        BY <3>1, <4>1
      <4>3. QED
        BY <2>2, <4>2 DEF j
    <3>5. j \in Int
      BY <3>1
    <3>6. QED
      BY <1>1, <3>2, <3>3, <3>4, <3>5
  <2>3. QED
    BY <2>1, <2>2
<1>4. f = [k \in 0..m |-> IF k = 0 THEN Last ELSE IF f[k - 1] = Null THEN Null ELSE N[f[k - 1]].Next]
  <2>1. f = [k \in 0..m |-> f[k]]
    OBVIOUS
  <2> HIDE DEF f
  <2>2. QED
    BY <1>3, <2>1
<1>5. nth = [k \in 0..m |-> IF k = 0 THEN Last
                            ELSE IF nth[k - 1] = Null THEN Null ELSE N[nth[k - 1]].Next]
  <2> HIDE DEF f
  <2>1. QED
    BY <1>4
<1>6. Nth(N) = nth
  BY DEF Nth
<1> DEFINE T == {k \in 0..m : nth[k] = f[k]}
<1> HIDE DEF nth, f
<1>7. 0 \in T
  BY <1>1, <1>3, <1>5
<1>8. ASSUME NEW k \in 0..(m - 1), k \in T
      PROVE  k + 1 \in T
  <2> DEFINE j == k + 1
  <2>1. j \in 0..m /\ j # 0 /\ j - 1 = k
    BY <1>1
  <2> HIDE DEF j
  <2>2. nth[j] = IF nth[k] = Null THEN Null ELSE N[nth[k]].Next
    BY <1>5, <2>1
  <2>3. f[j] = IF f[k] = Null THEN Null ELSE N[f[k]].Next
    BY <1>3, <2>1
  <2>4. j \in T
    BY <1>8, <2>1, <2>2, <2>3
  <2>5. QED
    BY <2>4 DEF j
<1>9. 0..m \subseteq T
  <2> HIDE DEF T, m
  <2>1. QED
    BY <1>1, <1>7, <1>8, UpTo
<1>10. QED
  BY <1>6, <1>9 DEF f

\* The list that a chain shows is the one Chain tells.
LEMMA ChainIs ==
  ASSUME NEW N, NEW c, NEW B, Shows(N, c, B)
  PROVE  Chain(N) = B
<1>1. Chained(N, c) /\ Len(c) \in Nat /\ MaxEvents \in Nat /\ Len(c) <= MaxEvents
  BY ChainFits, ChainElements DEF Shows, Chained
<1>2. \A k \in Links : Nth(N)[k] = IF k <= Len(c) THEN c[k] ELSE Null
  <2>1. \A k \in Links : k \in 0..(MaxEvents + 1) /\ k # 0
    BY <1>1 DEF Links
  <2>2. QED
    BY <1>1, <2>1, NthIs DEF Place
<1>3. \A k \in 1..Len(c) : k \in Links /\ k <= Len(c) /\ c[k] # Null
  <2>1. \A k \in 1..Len(c) : c[k] \in 1..MaxEvents
    BY ChainElements DEF Shows, Chained, Links
  <2>2. QED
    BY <1>1, <2>1 DEF Links, Null
<1>4. {k \in Links : Nth(N)[k] # Null} = 1..Len(c)
  BY <1>1, <1>2, <1>3 DEF Links
<1>5. Chain(N) = [k \in 1..Len(c) |-> View(N, c[k])]
  BY <1>2, <1>3, <1>4 DEF Chain
<1>6. B = [k \in 1..Len(c) |-> B[k]]
  BY LenProperties DEF Shows
<1>7. QED
  BY <1>5, <1>6 DEF Shows

\* Its nodes are different ones.
LEMMA PlacesDiffer ==
  ASSUME NEW N, NEW c, Chained(N, c)
  PROVE  /\ \A j, k \in 0..Len(c) : Place(c, j) = Place(c, k) => j = k
         /\ \A k \in 0..Len(c) : Place(c, k) \in On(c) \cup {Last}
         /\ Last \notin Links /\ On(c) \subseteq Links
<1>1. c \in Seq(Links) /\ \A j, k \in 1..Len(c) : c[j] = c[k] => j = k
  BY DEF Chained
<1>2. Len(c) \in Nat /\ \A k \in 1..Len(c) : c[k] \in Links
  BY <1>1, ChainElements
<1>3. Last \notin Links
  BY MaxEventsAssumption DEF Last, Links
<1>4. \A k \in 0..Len(c) : k = 0 \/ k \in 1..Len(c)
  BY <1>2
<1>5. \A j, k \in 0..Len(c) : Place(c, j) = Place(c, k) => j = k
  <2> SUFFICES ASSUME NEW j \in 0..Len(c), NEW k \in 0..Len(c), Place(c, j) = Place(c, k)
               PROVE  j = k
    OBVIOUS
  <2>1. CASE j = 0 /\ k = 0
    BY <2>1
  <2>2. CASE j = 0 /\ k # 0
    BY <1>2, <1>3, <1>4, <2>2 DEF Place
  <2>3. CASE j # 0 /\ k = 0
    BY <1>2, <1>3, <1>4, <2>3 DEF Place
  <2>4. CASE j # 0 /\ k # 0
    BY <1>1, <1>4, <2>4 DEF Place
  <2>5. QED
    BY <2>1, <2>2, <2>3, <2>4
<1>6. QED
  BY <1>2, <1>3, <1>4, <1>5 DEF Place, On

\* tp->Next = t puts a link that has the right Next into the chain behind the k-th node.
LEMMA LinkIn ==
  ASSUME NEW N \in Nodes, NEW c, Chained(N, c), NEW k \in 0..Len(c),
         NEW t \in Links \ On(c), N[t].Next = Behind(c, k),
         NEW M, M = [N EXCEPT ![Place(c, k)].Next = t]
  PROVE  \E d : Chained(M, d) /\ On(d) = On(c) \cup {t} /\ HasNew(Links, c, k + 1, t, d)
<1> DEFINE n == Len(c)
           i == k + 1
           d == SubSeq(c, 1, i - 1) \o <<t>> \o SubSeq(c, i, Len(c))
<1>1. /\ c \in Seq(Links) /\ n \in Nat /\ i \in 1..(Len(c) + 1) /\ t \in Links
      /\ \A j \in 1..n : c[j] \in Links
  <2>1. c \in Seq(Links) /\ Len(c) \in Nat /\ \A j \in 1..n : c[j] \in Links
    BY ChainElements DEF Chained
  <2>2. QED
    BY <2>1
<1>2. HasNew(Links, c, i, t, d)
  <2> HIDE DEF i
  <2>1. d = SubSeq(c, 1, i - 1) \o <<t>> \o SubSeq(c, i, Len(c))
    OBVIOUS
  <2> HIDE DEF d, n
  <2>2. QED
    BY <1>1, <2>1, PutIn, Zenon
<1> HIDE DEF d
<1>3. /\ d \in Seq(Links) /\ Len(d) = n + 1 /\ d[k + 1] = t
      /\ \A j \in 1..k : d[j] = c[j]
      /\ \A j \in (k + 1)..n : d[j + 1] = c[j]
  BY <1>1, <1>2 DEF HasNew
<1>4. \A j \in (k + 2)..(n + 1) : d[j] = c[j - 1] /\ j - 1 \in (k + 1)..n
  <2> SUFFICES ASSUME NEW j \in (k + 2)..(n + 1) PROVE d[j] = c[j - 1] /\ j - 1 \in (k + 1)..n
    OBVIOUS
  <2>1. j - 1 \in (k + 1)..n /\ (j - 1) + 1 = j
    BY <1>1
  <2>2. QED
    BY <1>3, <2>1
<1>5. \A j \in 1..n : c[j] # t
  BY DEF On
<1>6. \A j \in 1..(n + 1) : \/ j \in 1..k /\ j \in 1..n /\ d[j] = c[j]
                            \/ j = k + 1 /\ d[j] = t
                            \/ j \in (k + 2)..(n + 1) /\ j - 1 \in 1..n /\ d[j] = c[j - 1]
  <2> SUFFICES ASSUME NEW j \in 1..(n + 1)
               PROVE  \/ j \in 1..k /\ j \in 1..n /\ d[j] = c[j]
                      \/ j = k + 1 /\ d[j] = t
                      \/ j \in (k + 2)..(n + 1) /\ j - 1 \in 1..n /\ d[j] = c[j - 1]
    OBVIOUS
  <2>1. \/ j \in 1..k /\ j \in 1..n
        \/ j = k + 1
        \/ j \in (k + 2)..(n + 1) /\ j - 1 \in 1..n
    BY <1>1
  <2>2. QED
    BY <1>3, <1>4, <2>1
<1>7. \A j, m \in 1..Len(d) : d[j] = d[m] => j = m
  <2> SUFFICES ASSUME NEW j \in 1..(n + 1), NEW m \in 1..(n + 1), d[j] = d[m]
               PROVE  j = m
    BY <1>3
  <2>1. \A x, y \in 1..n : c[x] = c[y] => x = y
    BY DEF Chained
  <2>2. j \in Int /\ m \in Int /\ k \in Int
    BY <1>1
  <2>3. CASE j \in 1..k /\ j \in 1..n /\ d[j] = c[j]
    <3>1. CASE m \in 1..k /\ m \in 1..n /\ d[m] = c[m]
      BY <2>1, <2>3, <3>1
    <3>2. CASE m = k + 1 /\ d[m] = t
      BY <1>5, <2>3, <3>2
    <3>3. CASE m \in (k + 2)..(n + 1) /\ m - 1 \in 1..n /\ d[m] = c[m - 1]
      <4>1. j = m - 1
        BY <2>1, <2>3, <3>3
      <4>2. QED
        BY <2>2, <2>3, <3>3, <4>1
    <3>4. QED
      BY <1>6, <3>1, <3>2, <3>3
  <2>4. CASE j = k + 1 /\ d[j] = t
    BY <1>5, <1>6, <2>4
  <2>5. CASE j \in (k + 2)..(n + 1) /\ j - 1 \in 1..n /\ d[j] = c[j - 1]
    <3>1. CASE m \in 1..k /\ m \in 1..n /\ d[m] = c[m]
      <4>1. m = j - 1
        BY <2>1, <2>5, <3>1
      <4>2. QED
        BY <2>2, <2>5, <3>1, <4>1
    <3>2. CASE m = k + 1 /\ d[m] = t
      BY <1>5, <2>5, <3>2
    <3>3. CASE m \in (k + 2)..(n + 1) /\ m - 1 \in 1..n /\ d[m] = c[m - 1]
      <4>1. j - 1 = m - 1
        BY <2>1, <2>5, <3>3
      <4>2. QED
        BY <2>2, <4>1
    <3>4. QED
      BY <1>6, <3>1, <3>2, <3>3
  <2>6. QED
    BY <1>6, <2>3, <2>4, <2>5
<1>8. /\ \A j, m \in 0..n : Place(c, j) = Place(c, m) => j = m
      /\ \A j \in 0..n : Place(c, j) \in On(c) \cup {Last} /\ Place(c, j) \in 0..MaxEvents
      /\ \A j \in 0..n : N[Place(c, j)].Next = Behind(c, j)
      /\ Last \notin Links /\ t \in 0..MaxEvents
  <2>1. t \in 0..MaxEvents
    BY MaxEventsAssumption DEF Links
  <2>2. /\ \A j, m \in 0..n : Place(c, j) = Place(c, m) => j = m
        /\ \A j \in 0..n : Place(c, j) \in On(c) \cup {Last}
        /\ Last \notin Links
    BY PlacesDiffer
  <2>3. \A j \in 0..n : Place(c, j) \in 0..MaxEvents
    BY <1>1, ChainElements
  <2>4. \A j \in 0..n : N[Place(c, j)].Next = Behind(c, j)
    BY DEF Chained
  <2>5. QED
    BY <2>1, <2>2, <2>3, <2>4
<1>9. /\ M[Place(c, k)].Next = t
      /\ \A l \in 0..MaxEvents : l # Place(c, k) => M[l] = N[l]
  <2>1. N[Place(c, k)] \in Node /\ Place(c, k) \in 0..MaxEvents
    BY <1>8 DEF Nodes
  <2>2. M[Place(c, k)] = [N[Place(c, k)] EXCEPT !.Next = t]
    BY <2>1 DEF Nodes
  <2>3. M[Place(c, k)].Next = t
    BY <2>1, <2>2 DEF Node
  <2>4. \A l \in 0..MaxEvents : l # Place(c, k) => M[l] = N[l]
    BY DEF Nodes
  <2>5. QED
    BY <2>3, <2>4
<1>10. M[t] = N[t]
  <2>1. t # Place(c, k)
    BY <1>8
  <2>2. QED
    BY <1>8, <1>9, <2>1
<1>11. \A j \in 0..n : j # k => M[Place(c, j)].Next = Behind(c, j)
  BY <1>8, <1>9
<1>12. ASSUME NEW x \in 0..(n + 1) PROVE M[Place(d, x)].Next = Behind(d, x)
  <2> USE DEF Place, Behind
  <2>1. x \in Int /\ k \in Int /\ n \in Int
    BY <1>1
  <2>2. CASE x < k
    <3>1. x \in 0..n /\ x # k /\ x + 1 \in 1..k /\ x # n /\ x # n + 1 /\ (x # 0 => x \in 1..k)
      BY <1>1, <2>1, <2>2
    <3>2. Place(d, x) = Place(c, x) /\ Behind(d, x) = d[x + 1] /\ Behind(c, x) = c[x + 1]
      BY <1>3, <3>1
    <3>3. d[x + 1] = c[x + 1]
      BY <1>3, <3>1
    <3>4. QED
      BY <1>11, <3>1, <3>2, <3>3
  <2>3. CASE x = k
    <3>1. x # n + 1 /\ (x # 0 => x \in 1..k)
      BY <1>1, <2>1, <2>3
    <3>2. Place(d, x) = Place(c, k) /\ Behind(d, x) = t
      BY <1>3, <2>3, <3>1
    <3>3. QED
      BY <1>9, <3>2
  <2>4. CASE x = k + 1
    <3>1. x # 0 /\ Place(d, x) = t
      BY <1>3, <2>1, <2>4
    <3>2. CASE k = n
      BY <1>3, <1>10, <2>4, <3>1, <3>2
    <3>3. CASE k # n
      <4>1. k + 1 \in (k + 1)..n /\ x # n + 1 /\ x + 1 = (k + 1) + 1
        BY <1>1, <2>1, <2>4, <3>3
      <4>2. d[(k + 1) + 1] = c[k + 1]
        BY <1>3, <4>1
      <4>3. Behind(d, x) = d[x + 1] /\ Behind(c, k) = c[k + 1]
        BY <1>3, <3>3, <4>1
      <4>4. QED
        BY <1>10, <3>1, <4>1, <4>2, <4>3
    <3>4. QED
      BY <3>2, <3>3
  <2>5. CASE x > k + 1
    <3> DEFINE y == x - 1
    <3>1. x \in (k + 2)..(n + 1) /\ x # 0 /\ y # 0 /\ y \in 0..n /\ y # k /\ y + 1 = x
      BY <1>1, <2>1, <2>5
    <3>2. Place(d, x) = Place(c, y)
      BY <1>4, <3>1
    <3>3. Behind(d, x) = Behind(c, y)
      <4>1. CASE y = n
        BY <1>3, <3>1, <4>1
      <4>2. CASE y # n
        <5>1. x \in (k + 1)..n /\ x # n + 1
          BY <2>1, <3>1, <4>2
        <5>2. d[x + 1] = c[x]
          BY <1>3, <5>1
        <5> HIDE DEF y
        <5>3. QED
          BY <1>3, <3>1, <4>2, <5>1, <5>2
      <4>3. QED
        BY <4>1, <4>2
    <3>4. QED
      BY <1>11, <3>1, <3>2, <3>3
  <2>6. QED
    BY <2>1, <2>2, <2>3, <2>4, <2>5
<1>13. Chained(M, d)
  BY <1>3, <1>7, <1>12 DEF Chained
<1>14. On(d) = On(c) \cup {t}
  <2>1. On(d) \subseteq On(c) \cup {t}
    BY <1>3, <1>6 DEF On
  <2>2. t \in On(d)
    <3>1. k + 1 \in 1..(n + 1)
      BY <1>1
    <3>2. QED
      BY <1>3, <3>1 DEF On
  <2>3. ASSUME NEW j \in 1..n PROVE c[j] \in On(d)
    <3>1. \/ j \in 1..k /\ j \in 1..(n + 1)
          \/ j \in (k + 1)..n /\ j + 1 \in 1..(n + 1)
      BY <1>1
    <3>2. QED
      BY <1>3, <3>1 DEF On
  <2>4. QED
    BY <2>1, <2>2, <2>3 DEF On
<1>15. QED
  BY <1>2, <1>13, <1>14

\* tp->Next = t->Next takes the k-th link out of the chain.
LEMMA LinkOut ==
  ASSUME NEW N \in Nodes, NEW c, Chained(N, c), NEW k \in 1..Len(c),
         NEW M, M = [N EXCEPT ![Place(c, k - 1)].Next = N[c[k]].Next]
  PROVE  \E d : Chained(M, d) /\ On(d) = On(c) \ {c[k]} /\ Without(Links, c, k, d)
<1> DEFINE n == Len(c)
           h == k - 1
           t == N[c[k]].Next
           d == SubSeq(c, 1, k - 1) \o SubSeq(c, k + 1, Len(c))
<1>1. /\ c \in Seq(Links) /\ n \in Nat /\ k \in 1..Len(c) /\ h \in 0..n /\ k \in 0..n
      /\ \A j \in 1..n : c[j] \in Links
      /\ h \in Int /\ k = h + 1 /\ k \in Int
  <2>1. c \in Seq(Links) /\ Len(c) \in Nat /\ \A j \in 1..n : c[j] \in Links
    BY ChainElements DEF Chained
  <2>2. QED
    BY <2>1
<1>2. Without(Links, c, k, d)
  <2>1. d = SubSeq(c, 1, k - 1) \o SubSeq(c, k + 1, Len(c))
    OBVIOUS
  <2> HIDE DEF d, n
  <2>2. QED
    BY <1>1, <2>1, TakenOut, Zenon
<1> HIDE DEF d
<1>3. /\ d \in Seq(Links) /\ Len(d) = n - 1
      /\ \A j \in 1..h : d[j] = c[j]
      /\ \A j \in (k + 1)..n : d[j - 1] = c[j]
  BY <1>1, <1>2 DEF Without
<1>4. \A j \in k..(n - 1) : d[j] = c[j + 1] /\ j + 1 \in (k + 1)..n
  <2> SUFFICES ASSUME NEW j \in k..(n - 1) PROVE d[j] = c[j + 1] /\ j + 1 \in (k + 1)..n
    OBVIOUS
  <2>1. j + 1 \in (k + 1)..n /\ (j + 1) - 1 = j
    BY <1>1
  <2>2. QED
    BY <1>3, <2>1
<1>5. \A j \in 1..(n - 1) : \/ j \in 1..h /\ j \in 1..n /\ d[j] = c[j]
                            \/ j \in k..(n - 1) /\ j + 1 \in 1..n /\ d[j] = c[j + 1]
  <2> SUFFICES ASSUME NEW j \in 1..(n - 1)
               PROVE  \/ j \in 1..h /\ j \in 1..n /\ d[j] = c[j]
                      \/ j \in k..(n - 1) /\ j + 1 \in 1..n /\ d[j] = c[j + 1]
    OBVIOUS
  <2>1. (j \in 1..h /\ j \in 1..n) \/ (j \in k..(n - 1) /\ j + 1 \in 1..n)
    BY <1>1
  <2>2. QED
    BY <1>3, <1>4, <2>1
<1>6. \A x, y \in 1..n : c[x] = c[y] => x = y
  BY DEF Chained
<1>7. \A j, m \in 1..Len(d) : d[j] = d[m] => j = m
  <2> SUFFICES ASSUME NEW j \in 1..(n - 1), NEW m \in 1..(n - 1), d[j] = d[m]
               PROVE  j = m
    BY <1>3
  <2>1. j \in Int /\ m \in Int
    BY <1>1
  <2>2. CASE j \in 1..h /\ j \in 1..n /\ d[j] = c[j]
    <3>1. CASE m \in 1..h /\ m \in 1..n /\ d[m] = c[m]
      BY <1>6, <2>2, <3>1
    <3>2. CASE m \in k..(n - 1) /\ m + 1 \in 1..n /\ d[m] = c[m + 1]
      <4>1. j = m + 1
        BY <1>6, <2>2, <3>2
      <4>2. QED
        BY <1>1, <2>1, <2>2, <3>2, <4>1
    <3>3. QED
      BY <1>5, <3>1, <3>2
  <2>3. CASE j \in k..(n - 1) /\ j + 1 \in 1..n /\ d[j] = c[j + 1]
    <3>1. CASE m \in 1..h /\ m \in 1..n /\ d[m] = c[m]
      <4>1. m = j + 1
        BY <1>6, <2>3, <3>1
      <4>2. QED
        BY <1>1, <2>1, <2>3, <3>1, <4>1
    <3>2. CASE m \in k..(n - 1) /\ m + 1 \in 1..n /\ d[m] = c[m + 1]
      <4>1. j + 1 = m + 1
        BY <1>6, <2>3, <3>2
      <4>2. QED
        BY <2>1, <4>1
    <3>3. QED
      BY <1>5, <3>1, <3>2
  <2>4. QED
    BY <1>5, <2>2, <2>3
<1>8. /\ \A j, m \in 0..n : Place(c, j) = Place(c, m) => j = m
      /\ \A j \in 0..n : Place(c, j) \in 0..MaxEvents
      /\ \A j \in 0..n : N[Place(c, j)].Next = Behind(c, j)
  <2>1. \A j, m \in 0..n : Place(c, j) = Place(c, m) => j = m
    BY PlacesDiffer
  <2>2. \A j \in 0..n : Place(c, j) \in 0..MaxEvents
    BY <1>1, ChainElements
  <2>3. \A j \in 0..n : N[Place(c, j)].Next = Behind(c, j)
    BY DEF Chained
  <2>4. QED
    BY <2>1, <2>2, <2>3
<1>9. /\ M[Place(c, h)].Next = Behind(c, k)
      /\ \A l \in 0..MaxEvents : l # Place(c, h) => M[l] = N[l]
  <2>1. N[Place(c, h)] \in Node /\ Place(c, h) \in 0..MaxEvents
    BY <1>1, <1>8 DEF Nodes
  <2>2. M[Place(c, h)] = [N[Place(c, h)] EXCEPT !.Next = t]
    BY <2>1 DEF Nodes
  <2>3. M[Place(c, h)].Next = t
    BY <2>1, <2>2 DEF Node
  <2>4. \A l \in 0..MaxEvents : l # Place(c, h) => M[l] = N[l]
    BY DEF Nodes
  <2>5. Place(c, k) = c[k]
    BY <1>1 DEF Place
  <2>6. QED
    BY <1>1, <1>8, <2>3, <2>4, <2>5
<1>10. \A j \in 0..n : j # h => M[Place(c, j)].Next = Behind(c, j)
  <2> HIDE DEF h
  <2>1. QED
    BY <1>1, <1>8, <1>9
<1>11. ASSUME NEW x \in 0..(n - 1) PROVE M[Place(d, x)].Next = Behind(d, x)
  <2>1. x \in Int
    BY <1>1
  <2>2. CASE x < h
    <3>1. x \in 0..n /\ x # h /\ x + 1 \in 1..h /\ x # n /\ x # n - 1 /\ (x # 0 => x \in 1..h)
      BY <1>1, <2>1, <2>2
    <3>2. Place(d, x) = Place(c, x)
      BY <1>3, <3>1 DEF Place
    <3>3. Behind(d, x) = d[x + 1] /\ Behind(c, x) = c[x + 1] /\ d[x + 1] = c[x + 1]
      BY <1>3, <3>1 DEF Behind
    <3>4. QED
      BY <1>10, <3>1, <3>2, <3>3
  <2>3. CASE x = h
    <3>1. Place(d, x) = Place(c, h)
      <4>1. x # 0 => x \in 1..h
        BY <1>1, <2>3
      <4> HIDE DEF h
      <4>2. QED
        BY <1>3, <2>3, <4>1 DEF Place
    <3>2. Behind(d, x) = Behind(c, k)
      <4>1. CASE k = n
        BY <1>1, <1>3, <2>3, <4>1 DEF Behind
      <4>2. CASE k # n
        <5>1. k \in k..(n - 1) /\ x # n - 1 /\ x + 1 = k
          BY <1>1, <2>3, <4>2
        <5>2. d[k] = c[k + 1]
          BY <1>4, <5>1
        <5>3. Behind(d, x) = d[x + 1]
          BY <1>3, <5>1 DEF Behind
        <5>4. Behind(c, k) = c[k + 1]
          BY <4>2 DEF Behind
        <5>5. QED
          BY <5>1, <5>2, <5>3, <5>4
      <4>3. QED
        BY <4>1, <4>2
    <3>3. QED
      BY <1>9, <3>1, <3>2
  <2>4. CASE x > h
    <3> DEFINE y == x + 1
    <3>1. x \in k..(n - 1) /\ x # 0 /\ y # 0 /\ y \in 0..n /\ y # h
      BY <1>1, <2>1, <2>4
    <3>2. Place(d, x) = Place(c, y)
      BY <1>4, <3>1 DEF Place
    <3>3. Behind(d, x) = Behind(c, y)
      <4>1. CASE y = n
        <5>1. x = n - 1
          BY <1>1, <2>1, <4>1
        <5>2. QED
          BY <1>3, <4>1, <5>1 DEF Behind
      <4>2. CASE y # n
        <5>1. y \in k..(n - 1) /\ x # n - 1
          BY <1>1, <2>1, <3>1, <4>2
        <5>2. d[y] = c[y + 1]
          BY <1>4, <5>1
        <5>3. Behind(d, x) = d[y] /\ Behind(c, y) = c[y + 1]
          BY <1>3, <4>2, <5>1 DEF Behind
        <5>4. QED
          BY <5>2, <5>3
      <4>3. QED
        BY <4>1, <4>2
    <3> HIDE DEF y
    <3>4. QED
      BY <1>10, <3>1, <3>2, <3>3
  <2>5. QED
    BY <1>1, <2>1, <2>2, <2>3, <2>4
<1>12. Chained(M, d)
  BY <1>3, <1>7, <1>11 DEF Chained
<1>13. On(d) = On(c) \ {c[k]}
  <2>1. ASSUME NEW j \in 1..(n - 1) PROVE d[j] \in On(c) \ {c[k]}
    <3>1. CASE j \in 1..h /\ j \in 1..n /\ d[j] = c[j]
      <4>1. j # k
        BY <1>1, <3>1
      <4>2. QED
        BY <1>1, <1>6, <3>1, <4>1 DEF On
    <3>2. CASE j \in k..(n - 1) /\ j + 1 \in 1..n /\ d[j] = c[j + 1]
      <4>1. j + 1 # k
        BY <1>1, <3>2
      <4>2. QED
        BY <1>1, <1>6, <3>2, <4>1 DEF On
    <3>3. QED
      BY <1>5, <3>1, <3>2
  <2>2. ASSUME NEW j \in 1..n, j # k PROVE c[j] \in On(d)
    <3>1. CASE j < k
      <4>1. j \in 1..h /\ j \in 1..(n - 1)
        BY <1>1, <3>1
      <4>2. QED
        BY <1>3, <4>1 DEF On
    <3>2. CASE j > k
      <4>1. j \in (k + 1)..n /\ j - 1 \in 1..(n - 1)
        BY <1>1, <3>2
      <4>2. QED
        BY <1>3, <4>1 DEF On
    <3>3. QED
      BY <1>1, <2>2, <3>1, <3>2
  <2>3. On(d) \subseteq On(c) \ {c[k]}
    BY <1>3, <2>1 DEF On
  <2>4. On(c) \ {c[k]} \subseteq On(d)
    BY <2>2 DEF On
  <2>5. QED
    BY <2>3, <2>4
<1>14. QED
  BY <1>2, <1>12, <1>13

-----------------------------------------------------------------------------
(* What CTimer does to the list.                                            *)

Due(l, k) == Timer!Due(l, k)

\* What an entry of a list holds.
LEMMA EntryType ==
  ASSUME NEW l \in Seq(Entry), NEW k \in 1..Len(l)
  PROVE  /\ l[k] \in Entry /\ l[k].wDelta \in Nat /\ l[k].pThis \in Event
         /\ l[k].wPeriod \in Nat \ {0} /\ l[k].Flags \in Timer!Mode
<1>1. l[k] \in Entry
  BY ElementOfSeq
<1>2. QED
  BY <1>1 DEF Entry

\* The deltas of a list, and the ticks until its links expire, which are their sums.
Deltas(l) == [k \in 1..Len(l) |-> l[k].wDelta]
DueOf(l) == [k \in 0..Len(l) |-> Due(l, k)]

\* The times entries are due are the sums of the deltas.
LEMMA DueSums ==
  ASSUME NEW l \in Seq(Entry)
  PROVE  Deltas(l) \in [1..Len(l) -> Nat] /\ Sums(Len(l), Deltas(l), DueOf(l))
<1> DEFINE n == Len(l)
           w == Deltas(l)
           sum == CHOOSE g : g = [i \in 0..n |-> IF i = 0 THEN 0 ELSE g[i - 1] + l[i].wDelta]
<1>1. n \in Nat /\ \A i \in 0..n : i # 0 => i \in 1..n
  BY LenProperties
<1>2. w \in [1..n -> Nat] /\ \A i \in 1..n : w[i] = l[i].wDelta
  BY EntryType DEF Deltas
<1>3. PICK h : Sums(n, w, h)
  <2> HIDE DEF n, w
  <2>1. QED
    BY <1>1, <1>2, SumsExist
<1>4. h = [i \in 0..n |-> IF i = 0 THEN 0 ELSE h[i - 1] + l[i].wDelta]
  <2> HIDE DEF w
  <2>1. QED
    BY <1>1, <1>2, <1>3 DEF Sums
<1>5. sum = [i \in 0..n |-> IF i = 0 THEN 0 ELSE sum[i - 1] + l[i].wDelta]
  BY <1>4
<1>6. \A k : Due(l, k) = sum[k]
  BY DEF Due, Timer!Due
<1> HIDE DEF sum
<1>7. DueOf(l) = sum
  <2>1. sum = [i \in 0..n |-> sum[i]]
    BY <1>5
  <2>2. QED
    BY <1>6, <2>1 DEF DueOf
<1>8. Sums(n, w, sum)
  <2> HIDE DEF w
  <2>1. QED
    BY <1>1, <1>2, <1>5 DEF Sums
<1>9. QED
  BY <1>2, <1>7, <1>8

\* The ticks until a link add up from link to link, and a link further on expires no earlier.
LEMMA DueAddsUp ==
  ASSUME NEW l \in Seq(Entry)
  PROVE  /\ Len(l) \in Nat /\ Due(l, 0) = 0
         /\ \A k \in 1..Len(l) : Due(l, k) = Due(l, k - 1) + l[k].wDelta
         /\ \A k \in 0..Len(l) : Due(l, k) \in Nat
         /\ \A k \in 0..Len(l) : \A j \in 0..k : Due(l, j) <= Due(l, k)
<1>1. Len(l) \in Nat
  BY LenProperties
<1>2. /\ DueOf(l)[0] = 0
      /\ \A k \in 1..Len(l) : DueOf(l)[k] = DueOf(l)[k - 1] + Deltas(l)[k]
      /\ \A k \in 0..Len(l) : DueOf(l)[k] \in Nat
  BY <1>1, DueSums, SumsAddUp
<1>3. \A k \in 0..Len(l) : \A j \in 0..k : DueOf(l)[j] <= DueOf(l)[k]
  BY <1>1, DueSums, SumsGrow
<1>4. \A k \in 0..Len(l) : DueOf(l)[k] = Due(l, k)
  BY DEF DueOf
<1>5. \A k \in 1..Len(l) : Deltas(l)[k] = l[k].wDelta /\ k \in 0..Len(l) /\ k - 1 \in 0..Len(l)
  BY <1>1 DEF Deltas
<1>6. 0 \in 0..Len(l) /\ \A k \in 0..Len(l) : \A j \in 0..k : j \in 0..Len(l)
  BY <1>1
<1>7. \A k \in 0..Len(l) : \A j \in 0..k : Due(l, j) <= Due(l, k)
  BY <1>3, <1>4, <1>6
<1>8. QED
  BY <1>1, <1>2, <1>4, <1>5, <1>6, <1>7

\* CTimer counts as FiniteSets does.
LEMMA SameCardinality == ASSUME NEW S PROVE Timer!Cardinality(S) = Cardinality(S)
BY DEF Timer!Cardinality, Cardinality

\* A new link of ticks belongs behind the k-th.
Belongs(l, ticks, k) == /\ k \in 0..Len(l) /\ Due(l, k) <= ticks
                        /\ k < Len(l) => Due(l, k + 1) > ticks

\* The list with the ticks of the new link taken out of the next one, and with the ticks of the
\* k-th link given to the next one.
Split(l, k, ticks) ==
  [j \in 1..Len(l) |-> IF j = k + 1 THEN [l[j] EXCEPT !.wDelta = @ - (ticks - Due(l, k))] ELSE l[j]]
Merged(l, k) ==
  [j \in 1..Len(l) |-> IF j = k + 1 THEN [l[j] EXCEPT !.wDelta = @ + l[k].wDelta] ELSE l[j]]

NewLink(e, delta, ticks, mode) == [pThis |-> e, wDelta |-> delta, wPeriod |-> ticks, Flags |-> mode]

\* The place that Schedule counts is where the link belongs.
LEMMA PlaceIs ==
  ASSUME NEW l \in Seq(Entry), NEW ticks \in Nat, NEW k, Belongs(l, ticks, k)
  PROVE  Timer!Cardinality({j \in 1..Len(l) : Timer!Due(l, j) <= ticks}) = k
<1>1. /\ Len(l) \in Nat /\ k \in 0..Len(l) /\ Due(l, k) <= ticks
      /\ \A i \in 0..Len(l) : Due(l, i) \in Nat
      /\ \A i \in 0..Len(l) : \A j \in 0..i : Due(l, j) <= Due(l, i)
  BY DueAddsUp DEF Belongs
<1>2. ASSUME NEW j \in 1..Len(l) PROVE Due(l, j) <= ticks <=> j <= k
  <2>1. CASE j <= k
    <3>1. j \in 0..k /\ j \in 0..Len(l)
      BY <1>1, <2>1
    <3>2. QED
      BY <1>1, <2>1, <3>1
  <2>2. CASE j > k
    <3>1. k < Len(l) /\ k + 1 \in 0..j /\ k + 1 \in 0..Len(l) /\ j \in 0..Len(l)
      BY <1>1, <2>2
    <3>2. Due(l, k + 1) > ticks /\ Due(l, k + 1) <= Due(l, j)
      BY <1>1, <3>1 DEF Belongs
    <3>3. QED
      BY <1>1, <2>2, <3>1, <3>2
  <2>3. QED
    BY <1>1, <2>1, <2>2
<1>3. {j \in 1..Len(l) : Timer!Due(l, j) <= ticks} = 1..k
  BY <1>1, <1>2 DEF Due
<1>4. Cardinality(1..k) = k
  BY <1>1, FS_Interval
<1>5. QED
  BY <1>3, <1>4, SameCardinality

\* The list with the delta split is a list.
LEMMA SplitType ==
  ASSUME NEW l \in Seq(Entry), NEW ticks \in Nat, NEW k, Belongs(l, ticks, k)
  PROVE  /\ Split(l, k, ticks) \in Seq(Entry) /\ Len(Split(l, k, ticks)) = Len(l)
         /\ ticks - Due(l, k) \in Nat
         /\ k < Len(l) => /\ k + 1 \in 1..Len(l)
                          /\ l[k + 1].wDelta > ticks - Due(l, k)
                          /\ l[k + 1].wDelta - (ticks - Due(l, k)) \in Nat
<1> DEFINE n == Len(l)
           delta == ticks - Due(l, k)
           r == Split(l, k, ticks)
<1>1. /\ n \in Nat /\ k \in 0..n /\ Due(l, k) <= ticks /\ Due(l, k) \in Nat
      /\ k < n => Due(l, k + 1) > ticks
  BY DueAddsUp DEF Belongs
<1>2. k < n => k + 1 \in 1..n /\ Due(l, k + 1) = Due(l, k) + l[k + 1].wDelta /\ l[k + 1].wDelta \in Nat
  <2> SUFFICES ASSUME k < n
               PROVE  k + 1 \in 1..n /\ Due(l, k + 1) = Due(l, k) + l[k + 1].wDelta
                      /\ l[k + 1].wDelta \in Nat
    OBVIOUS
  <2>1. k + 1 \in 1..n /\ (k + 1) - 1 = k
    BY <1>1
  <2>2. QED
    BY <2>1, DueAddsUp, EntryType
<1>3. delta \in Nat
  BY <1>1
<1>4. k < n => l[k + 1].wDelta > delta /\ l[k + 1].wDelta - delta \in Nat
  BY <1>1, <1>2
<1>5. ASSUME NEW j \in 1..n PROVE r[j] \in Entry
  <2>1. l[j] \in Entry
    BY EntryType
  <2>2. CASE j = k + 1
    <3>1. l[j].wDelta - delta \in Nat
      BY <1>1, <1>4, <2>2
    <3>2. r[j] = [l[j] EXCEPT !.wDelta = l[j].wDelta - delta]
      BY <2>2 DEF Split
    <3> HIDE DEF r, delta
    <3>3. QED
      BY <2>1, <3>1, <3>2 DEF Entry
  <2>3. CASE j # k + 1
    BY <2>1, <2>3 DEF Split
  <2>4. QED
    BY <2>2, <2>3
<1>6. r \in [1..n -> Entry]
  <2>1. r = [j \in 1..n |-> r[j]]
    BY DEF Split
  <2>2. QED
    BY <1>5, <2>1
<1>7. r \in Seq(Entry) /\ Len(r) = n
  BY <1>1, <1>6, FunctionIsSeq
<1>8. QED
  BY <1>2, <1>3, <1>4, <1>7

\* Schedule into a list with room.
LEMMA ScheduledIs ==
  ASSUME NEW l \in Seq(Entry), NEW e \in Event, NEW ticks \in Nat \ {0}, NEW mode \in Timer!Mode,
         NEW k, Belongs(l, ticks, k), Len(l) # MaxEvents
  PROVE  HasNew(Entry, Split(l, k, ticks), k + 1, NewLink(e, ticks - Due(l, k), ticks, mode),
                Timer!Scheduled(l, e, ticks, mode))
<1> DEFINE i == k + 1
           s == Split(l, k, ticks)
           new == NewLink(e, ticks - Due(l, k), ticks, mode)
           r == Timer!Scheduled(l, e, ticks, mode)
<1>1. /\ s \in Seq(Entry) /\ Len(s) = Len(l) /\ ticks - Due(l, k) \in Nat
      /\ Len(l) \in Nat /\ k \in 0..Len(l)
  BY SplitType, DueAddsUp DEF Belongs
<1>2. new \in Entry
  BY <1>1 DEF NewLink, Entry
<1>3. i \in 1..(Len(s) + 1)
  BY <1>1
<1>4. r = SubSeq(s, 1, i - 1) \o <<new>> \o SubSeq(s, i, Len(s))
  <2> DEFINE place == Timer!Cardinality({j \in 1..Len(l) : Timer!Due(l, j) <= ticks})
  <2>1. place = k
    BY PlaceIs
  <2>2. r = LET delta == ticks - Timer!Due(l, place)
                split == [j \in 1..Len(l) |->
                            IF j = place + 1 THEN [l[j] EXCEPT !.wDelta = @ - delta] ELSE l[j]]
            IN Timer!InsertAt(split, place + 1, [pThis |-> e, wDelta |-> delta,
                                                 wPeriod |-> ticks, Flags |-> mode])
    BY DEF Timer!Scheduled
  <2> HIDE DEF place, r
  <2>3. r = Timer!InsertAt(s, i, new)
    BY <2>1, <2>2 DEF Split, NewLink, Due
  <2>4. QED
    BY <2>3 DEF Timer!InsertAt
<1> HIDE DEF i, s, new, r
<1>5. HasNew(Entry, s, i, new, r)
  BY <1>1, <1>2, <1>3, <1>4, PutIn, Zenon
<1>6. QED
  BY <1>5 DEF i, s, new, r

\* Schedule into a full list.
LEMMA ScheduledFull ==
  ASSUME NEW l, NEW e, NEW ticks, NEW mode, Len(l) = MaxEvents
  PROVE  Timer!Scheduled(l, e, ticks, mode) = l
BY DEF Timer!Scheduled

\* The first of e's links is the k-th.
FirstOf(l, e, k) == k \in 1..Len(l) /\ l[k].pThis = e /\ \A j \in 1..(k - 1) : l[j].pThis # e

\* The list with the deltas merged is a list.
LEMMA MergedType ==
  ASSUME NEW l \in Seq(Entry), NEW k \in 1..Len(l)
  PROVE  Merged(l, k) \in Seq(Entry) /\ Len(Merged(l, k)) = Len(l)
<1> DEFINE n == Len(l)
           r == Merged(l, k)
<1>1. n \in Nat /\ l[k].wDelta \in Nat
  BY LenProperties, EntryType
<1>2. ASSUME NEW j \in 1..n PROVE r[j] \in Entry
  <2>1. l[j] \in Entry /\ l[j].wDelta \in Nat
    BY EntryType
  <2>2. CASE j = k + 1
    <3>1. r[j] = [l[j] EXCEPT !.wDelta = l[j].wDelta + l[k].wDelta]
      BY <2>2 DEF Merged
    <3>2. l[j].wDelta + l[k].wDelta \in Nat
      BY <1>1, <2>1
    <3> HIDE DEF r
    <3>3. QED
      BY <2>1, <3>1, <3>2 DEF Entry
  <2>3. CASE j # k + 1
    BY <2>1, <2>3 DEF Merged
  <2>4. QED
    BY <2>2, <2>3
<1>3. r \in [1..n -> Entry]
  <2>1. r = [j \in 1..n |-> r[j]]
    BY DEF Merged
  <2>2. QED
    BY <1>2, <2>1
<1>4. QED
  BY <1>1, <1>3, FunctionIsSeq

\* Cancel of an event with a link.
LEMMA CancelledIs ==
  ASSUME NEW l \in Seq(Entry), NEW e, NEW k, FirstOf(l, e, k)
  PROVE  Without(Entry, Merged(l, k), k, Timer!Cancelled(l, e))
<1> DEFINE own == {j \in 1..Len(l) : l[j].pThis = e}
           s == Merged(l, k)
           r == Timer!Cancelled(l, e)
<1>1. k \in 1..Len(l) /\ s \in Seq(Entry) /\ Len(s) = Len(l) /\ Len(l) \in Nat
  BY MergedType, LenProperties DEF FirstOf
<1>2. k \in own /\ \A j \in own : k <= j
  <2>1. \A j \in own : ~(j \in 1..(k - 1))
    BY DEF FirstOf
  <2>2. QED
    BY <1>1, <2>1 DEF FirstOf
<1>3. (CHOOSE x \in own : \A j \in own : x <= j) = k
  <2>1. \A x \in own : (\A j \in own : x <= j) => x = k
    BY <1>1, <1>2
  <2> HIDE DEF own
  <2>2. QED
    BY <1>2, <2>1
<1>4. r = SubSeq(s, 1, k - 1) \o SubSeq(s, k + 1, Len(s))
  <2>1. r = Timer!RemoveAt(s, k)
    BY <1>2, <1>3 DEF Timer!Cancelled, Merged
  <2>2. QED
    BY <2>1 DEF Timer!RemoveAt
<1>5. k \in 1..Len(s)
  BY <1>1
<1> HIDE DEF own, s, r
<1>6. Without(Entry, s, k, r)
  BY <1>1, <1>4, <1>5, TakenOut, Zenon
<1>7. QED
  BY <1>6 DEF s, r

\* Cancel of an event without one.
LEMMA CancelledNone ==
  ASSUME NEW l, NEW e, \A j \in 1..Len(l) : l[j].pThis # e
  PROVE  Timer!Cancelled(l, e) = l
<1>1. {k \in 1..Len(l) : l[k].pThis = e} = {}
  OBVIOUS
<1>2. QED
  BY <1>1 DEF Timer!Cancelled

-----------------------------------------------------------------------------
(* Schedule and Cancel, statement by statement: N and s are the nodes and   *)
(* the thread's locals before a statement, M and u after it, and B is the   *)
(* list at the start of the call.                                           *)

Locals(s) == s = [pc |-> s.pc, back |-> s.back, e |-> s.e, ticks |-> s.ticks, mode |-> s.mode,
                  t |-> s.t, tp |-> s.tp, head |-> s.head, call |-> s.call]

\* What a statement in a call leaves alone, and the return from the call.
Stays(s, u) == /\ Locals(u) /\ u.back = s.back /\ u.head = s.head /\ u.call = s.call
               /\ u.e = s.e /\ u.ticks = s.ticks /\ u.mode = s.mode
Returns(s, u) == u = IF s.back = "idle" THEN Idle
                     ELSE [s EXCEPT !.pc = s.back, !.back = "idle", !.e = NoEvent,
                                    !.ticks = 0, !.t = Null, !.tp = Last]

\* In Schedule: the new link is not in the list; while its place is sought, the links passed
\* expire no later; then it has its place, and the next link's ticks are less by its own.
Searching(N, s, B, c, k) ==
  /\ k \in 0..Len(c) /\ s.tp = Place(c, k) /\ Shows(N, c, B) /\ Due(B, k) <= s.ticks
  /\ View(N, s.t) = NewLink(s.e, s.ticks - Due(B, k), s.ticks, s.mode)
Placed(N, s, B, c, k) ==
  /\ Belongs(B, s.ticks, k) /\ k \in 0..Len(c) /\ s.tp = Place(c, k)
  /\ Shows(N, c, Split(B, k, s.ticks))
  /\ View(N, s.t) = NewLink(s.e, s.ticks - Due(B, k), s.ticks, s.mode)
InSchedule(N, s, B, c) ==
  /\ B \in Seq(Entry) /\ s.e \in Event /\ s.ticks \in Nat \ {0} /\ s.mode \in Timer!Mode
  /\ s.pc \in {"alloc", "fill", "walk", "link1", "link2"}
  /\ s.pc \in {"alloc", "fill"} => Rests(N, c, B)
  /\ s.pc # "alloc" => s.t \in Links \ On(c)
  /\ s.pc \in {"walk", "link1", "link2"} => Taken(N) = On(c) \cup {s.t}
  /\ s.pc = "walk" => \E k : Searching(N, s, B, c, k)
  /\ s.pc = "link1" => \E k : Placed(N, s, B, c, k)
  /\ s.pc = "link2" => \E k : Placed(N, s, B, c, k) /\ N[s.t].Next = Behind(c, k)

\* In Cancel: none of the links passed is the event's; the one found, when it is out of the list,
\* is still taken.
Found(s, B, c, k) == FirstOf(B, s.e, k) /\ k \in 1..Len(c) /\ s.tp = Place(c, k - 1) /\ s.t = c[k]
InCancel(N, s, B, c) ==
  /\ B \in Seq(Entry) /\ s.e \in Event /\ s.pc \in {"seek", "merge", "unlink", "free"}
  /\ s.pc = "seek" => /\ Rests(N, c, B)
                      /\ \E k \in 0..Len(c) : /\ s.tp = Place(c, k)
                                              /\ \A j \in 1..k : B[j].pThis # s.e
  /\ s.pc = "merge" => Rests(N, c, B) /\ \E k : Found(s, B, c, k)
  /\ s.pc = "unlink" => \E k : Found(s, B, c, k) /\ Rests(N, c, Merged(B, k))
  /\ s.pc = "free" => /\ Shows(N, c, Timer!Cancelled(B, s.e)) /\ s.t \in Links \ On(c)
                      /\ Taken(N) = On(c) \cup {s.t}

\* M are the nodes N with another delta at l, and with another Next.
DeltaIs(N, l, v, M) ==
  /\ M \in Nodes
  /\ \A x \in 0..MaxEvents : M[x].Next = N[x].Next /\ M[x].pThis = N[x].pThis
  /\ \A x \in 0..MaxEvents : x # l => M[x] = N[x]
  /\ View(M, l) = [View(N, l) EXCEPT !.wDelta = v] /\ M[l].wDelta = v
NextIs(N, l, v, M) ==
  /\ M \in Nodes
  /\ \A x \in 0..MaxEvents : View(M, x) = View(N, x) /\ M[x].pThis = N[x].pThis
  /\ \A x \in 0..MaxEvents : x # l => M[x] = N[x]
  /\ M[l].Next = v

\* A node's delta is set, and its Next.
LEMMA DeltaSet ==
  ASSUME NEW N \in Nodes, NEW l \in 0..MaxEvents, NEW v \in Nat
  PROVE  DeltaIs(N, l, v, [N EXCEPT ![l].wDelta = v])
<1> DEFINE M == [N EXCEPT ![l].wDelta = v]
<1>1. N[l] \in Node /\ N = [x \in 0..MaxEvents |-> N[x]]
  BY DEF Nodes
<1>2. M[l] = [N[l] EXCEPT !.wDelta = v] /\ \A x \in 0..MaxEvents : x # l => M[x] = N[x]
  BY DEF Nodes
<1>3. M[l] \in Node
  BY <1>1, <1>2 DEF Node
<1>4. /\ M[l].Next = N[l].Next /\ M[l].pThis = N[l].pThis /\ M[l].wPeriod = N[l].wPeriod
      /\ M[l].Flags = N[l].Flags /\ M[l].wDelta = v
  BY <1>1, <1>2 DEF Node
<1>5. M \in Nodes
  BY <1>2, <1>3 DEF Nodes
<1>6. View(M, l) = [View(N, l) EXCEPT !.wDelta = v]
  BY <1>4 DEF View
<1> HIDE DEF M
<1>7. DeltaIs(N, l, v, M)
  BY <1>2, <1>4, <1>5, <1>6 DEF DeltaIs
<1>8. QED
  BY <1>7 DEF M

\* Setting a pointer of a link changes where that link leads and nothing else.
LEMMA NextSet ==
  ASSUME NEW N \in Nodes, NEW l \in 0..MaxEvents, NEW v \in 1..Null
  PROVE  NextIs(N, l, v, [N EXCEPT ![l].Next = v])
<1> DEFINE M == [N EXCEPT ![l].Next = v]
<1>1. N[l] \in Node
  BY DEF Nodes
<1>2. M[l] = [N[l] EXCEPT !.Next = v] /\ \A x \in 0..MaxEvents : x # l => M[x] = N[x]
  BY DEF Nodes
<1>3. M[l] \in Node
  BY <1>1, <1>2 DEF Node
<1>4. /\ M[l].Next = v /\ M[l].pThis = N[l].pThis /\ M[l].wPeriod = N[l].wPeriod
      /\ M[l].Flags = N[l].Flags /\ M[l].wDelta = N[l].wDelta
  BY <1>1, <1>2 DEF Node
<1>5. M \in Nodes
  BY <1>2, <1>3 DEF Nodes
<1>6. \A x \in 0..MaxEvents : View(M, x) = View(N, x) /\ M[x].pThis = N[x].pThis
  BY <1>2, <1>4 DEF View
<1> HIDE DEF M
<1>7. NextIs(N, l, v, M)
  BY <1>2, <1>4, <1>5, <1>6 DEF NextIs
<1>8. QED
  BY <1>7 DEF M

\* Links on the list, and Last, are as they were.
Untouched(N, M, c) == \A l \in On(c) \cup {Last} : M[l] = N[l]

\* A list is shown as before when only links outside it have changed.
LEMMA ShowsKept ==
  ASSUME NEW N, NEW M, NEW c, NEW B, Shows(N, c, B), Untouched(N, M, c)
  PROVE  Shows(M, c, B)
<1>1. Chained(N, c) /\ \A k \in 0..Len(c) : Place(c, k) \in On(c) \cup {Last}
  BY PlacesDiffer DEF Shows
<1>2. Chained(M, c)
  BY <1>1 DEF Chained, Untouched
<1>3. \A k \in 1..Len(c) : M[c[k]] = N[c[k]]
  BY DEF On, Untouched
<1>4. QED
  BY <1>2, <1>3 DEF Shows, View

\* A delta changes: the chain is the same.
LEMMA ChainedKept ==
  ASSUME NEW N, NEW M, NEW c, Chained(N, c), NEW l, NEW v, DeltaIs(N, l, v, M)
  PROVE  Chained(M, c)
<1>1. \A k \in 0..Len(c) : Place(c, k) \in 0..MaxEvents
  BY ChainElements DEF Chained
<1>2. QED
  BY <1>1 DEF Chained, DeltaIs

\* What is on a chain is a link.
LEMMA OnLinks ==
  ASSUME NEW N, NEW c, NEW B, Shows(N, c, B)
  PROVE  /\ Chained(N, c) /\ B \in Seq(Entry) /\ Len(B) = Len(c) /\ Len(c) \in Nat
         /\ On(c) \subseteq Links /\ Links \subseteq 0..MaxEvents /\ Last \in 0..MaxEvents
         /\ Last \notin Links /\ Null \notin 0..MaxEvents /\ MaxEvents \in Nat
         /\ \A k \in 1..Len(c) : c[k] \in Links /\ c[k] \in On(c)
<1>1. Chained(N, c) /\ B \in Seq(Entry) /\ Len(B) = Len(c)
  BY DEF Shows
<1>2. Len(c) \in Nat /\ MaxEvents \in Nat /\ \A k \in 1..Len(c) : c[k] \in Links
  BY <1>1, ChainElements DEF Chained
<1>3. QED
  BY <1>1, <1>2, PlacesDiffer DEF Links, Last, Null, On

\* AllocTimer looks for a free link.
LEMMA AllocStep ==
  ASSUME NEW N \in Nodes, NEW s, Locals(s), NEW B, NEW c, InSchedule(N, s, B, c), s.pc = "alloc",
         NEW u,
         LET free == {l \in Links : N[l].pThis = NoEvent}
         IN IF free = {} THEN Returns(s, u)
            ELSE u = [s EXCEPT !.pc = "fill", !.t = CHOOSE l \in free : \A k \in free : l <= k]
  PROVE  \/ Stays(s, u) /\ InSchedule(N, u, B, c)
         \/ Returns(s, u) /\ Rests(N, c, Timer!Scheduled(B, s.e, s.ticks, s.mode))
<1> DEFINE free == {l \in Links : N[l].pThis = NoEvent}
           t == CHOOSE l \in free : \A k \in free : l <= k
<1>1. Rests(N, c, B) /\ Shows(N, c, B) /\ Taken(N) = On(c) /\ On(c) = Links \ free
  BY OnLinks DEF InSchedule, Rests, Taken
<1>2. CASE free = {}
  <2>1. Len(B) = MaxEvents
    BY <1>1, <1>2, ChainFits DEF Shows
  <2>2. Timer!Scheduled(B, s.e, s.ticks, s.mode) = B
    BY <2>1, ScheduledFull
  <2>3. QED
    BY <1>1, <1>2, <2>2
<1>3. CASE free # {}
  <2>1. t \in free
    <3>1. free \subseteq Nat
      BY DEF Links
    <3> HIDE DEF free
    <3>2. \E l \in free : \A k \in free : l <= k
      BY <1>3, <3>1, LeastNat
    <3>3. QED
      BY <3>2
  <2>2. u = [s EXCEPT !.pc = "fill", !.t = t]
    BY <1>3
  <2> HIDE DEF t
  <2>3. Stays(s, u) /\ u.pc = "fill" /\ u.t = t
    BY <2>2 DEF Stays, Locals
  <2>4. t \in Links \ On(c)
    BY <1>1, <2>1
  <2>5. InSchedule(N, u, B, c)
    BY <1>1, <2>3, <2>4 DEF InSchedule, Stays
  <2>6. QED
    BY <2>3, <2>5
<1>4. QED
  BY <1>2, <1>3

\* AllocTimer takes it.
FillTo(N, s, M, u) ==
  /\ M = [N EXCEPT ![s.t] = [Next |-> Null, wDelta |-> s.ticks, wPeriod |-> s.ticks,
                             pThis |-> s.e, Flags |-> s.mode]]
  /\ u = [s EXCEPT !.pc = "walk", !.tp = Last]

\* Schedule: the free link is filled in and the walk begins at Last.
LEMMA FillStep ==
  ASSUME NEW N \in Nodes, NEW s, Locals(s), NEW B, NEW c, InSchedule(N, s, B, c), s.pc = "fill",
         NEW M, NEW u, FillTo(N, s, M, u)
  PROVE  /\ M \in Nodes /\ Stays(s, u) /\ InSchedule(M, u, B, c)
         /\ \A l \in On(c) : M[l].pThis = N[l].pThis
<1> USE DEF FillTo
<1> DEFINE new == [Next |-> Null, wDelta |-> s.ticks, wPeriod |-> s.ticks,
                   pThis |-> s.e, Flags |-> s.mode]
<1>1. /\ B \in Seq(Entry) /\ s.e \in Event /\ s.ticks \in Nat \ {0} /\ s.mode \in Timer!Mode
      /\ Shows(N, c, B) /\ Taken(N) = On(c) /\ s.t \in Links \ On(c)
  BY DEF InSchedule, Rests
<1>2. Stays(s, u) /\ u.pc = "walk" /\ u.t = s.t /\ u.tp = Last
  BY DEF Stays, Locals
<1>3. /\ On(c) \subseteq Links /\ Links \subseteq 0..MaxEvents /\ Last \in 0..MaxEvents
      /\ Last \notin Links /\ MaxEvents \in Nat /\ Len(c) \in Nat
  BY <1>1, OnLinks
<1>4. new \in Node
  BY <1>1, <1>3 DEF Node, Null
<1>5. M[s.t] = new /\ \A x \in 0..MaxEvents : x # s.t => M[x] = N[x]
  BY <1>1, <1>3 DEF Nodes
<1>6. M \in Nodes
  BY <1>3, <1>4, <1>5 DEF Nodes
<1>7. Shows(M, c, B)
  <2>1. Untouched(N, M, c)
    BY <1>1, <1>3, <1>5 DEF Untouched
  <2>2. QED
    BY <1>1, <2>1, ShowsKept, Zenon
<1>8. Taken(M) = On(c) \cup {s.t}
  <2>1. M[s.t].pThis = s.e /\ s.e # NoEvent
    BY <1>1, <1>5, NoEventAssumption
  <2>2. QED
    BY <1>1, <1>3, <1>5, <2>1 DEF Taken
<1>9. Searching(M, u, B, c, 0)
  <2>1. 0 \in 0..Len(c) /\ u.tp = Place(c, 0)
    BY <1>2, <1>3 DEF Place
  <2>2. Due(B, 0) = 0 /\ s.ticks - 0 = s.ticks /\ 0 <= s.ticks
    BY <1>1, DueAddsUp
  <2>3. View(M, s.t) = NewLink(s.e, s.ticks, s.ticks, s.mode)
    BY <1>5 DEF View, NewLink
  <2>4. QED
    BY <1>2, <1>7, <2>1, <2>2, <2>3 DEF Searching, Stays
<1>10. InSchedule(M, u, B, c)
  BY <1>1, <1>2, <1>8, <1>9 DEF InSchedule, Stays
<1>11. \A l \in On(c) : M[l].pThis = N[l].pThis
  BY <1>1, <1>3, <1>5
<1>12. QED
  BY <1>2, <1>6, <1>10, <1>11

\* A round of the search for the new link's place.
WalkTo(N, s, M, u) ==
  LET next == N[s.tp].Next
      delta == N[s.t].wDelta
  IN IF next = Null THEN M = N /\ u = [s EXCEPT !.pc = "link1"]
     ELSE IF N[next].wDelta > delta
     THEN M = [N EXCEPT ![next].wDelta = @ - delta] /\ u = [s EXCEPT !.pc = "link1"]
     ELSE M = [N EXCEPT ![s.t].wDelta = delta - N[next].wDelta] /\ u = [s EXCEPT !.tp = next]

\* Schedule: the walk goes on past an earlier entry or stops, with the deltas set.
LEMMA WalkStep ==
  ASSUME NEW N \in Nodes, NEW s, Locals(s), NEW B, NEW c, InSchedule(N, s, B, c), s.pc = "walk",
         NEW M, NEW u, WalkTo(N, s, M, u)
  PROVE  /\ M \in Nodes /\ Stays(s, u) /\ InSchedule(M, u, B, c)
         /\ \A l \in On(c) : M[l].pThis = N[l].pThis
<1> USE DEF WalkTo
<1> DEFINE next == N[s.tp].Next
           delta == N[s.t].wDelta
<1>1. PICK k : Searching(N, s, B, c, k)
  BY DEF InSchedule
<1>2. /\ B \in Seq(Entry) /\ s.e \in Event /\ s.ticks \in Nat \ {0} /\ s.mode \in Timer!Mode
      /\ Taken(N) = On(c) \cup {s.t} /\ s.t \in Links \ On(c)
  BY DEF InSchedule
<1>3. /\ k \in 0..Len(c) /\ s.tp = Place(c, k) /\ Shows(N, c, B) /\ Due(B, k) <= s.ticks
      /\ View(N, s.t) = NewLink(s.e, s.ticks - Due(B, k), s.ticks, s.mode)
  BY <1>1 DEF Searching
<1>4. /\ Chained(N, c) /\ Len(B) = Len(c) /\ Len(c) \in Nat
      /\ On(c) \subseteq Links /\ Links \subseteq 0..MaxEvents /\ Last \in 0..MaxEvents
      /\ Last \notin Links /\ Null \notin 0..MaxEvents /\ MaxEvents \in Nat
      /\ \A j \in 1..Len(c) : c[j] \in Links /\ c[j] \in On(c)
  BY <1>3, OnLinks
<1>5. /\ next = Behind(c, k)
      /\ k < Len(c) => next = c[k + 1] /\ next # Null /\ k + 1 \in 1..Len(c)
      /\ k = Len(c) => next = Null
  <2>1. next = Behind(c, k) /\ c \in Seq(Links)
    BY <1>3, <1>4 DEF Chained
  <2>2. QED
    BY <1>3, <1>4, <2>1, ChainElements
<1>6. /\ delta = s.ticks - Due(B, k) /\ Due(B, k) \in Nat /\ delta \in Nat
      /\ \A j \in 0..Len(B) : Due(B, j) \in Nat
      /\ \A j \in 1..Len(B) : Due(B, j) = Due(B, j - 1) + B[j].wDelta /\ B[j].wDelta \in Nat
  <2>1. delta = s.ticks - Due(B, k)
    BY <1>3 DEF View, NewLink
  <2>2. /\ \A j \in 0..Len(B) : Due(B, j) \in Nat
        /\ \A j \in 1..Len(B) : Due(B, j) = Due(B, j - 1) + B[j].wDelta /\ B[j].wDelta \in Nat
    BY <1>2, DueAddsUp, EntryType
  <2>3. Due(B, k) \in Nat
    BY <1>3, <1>4, <2>2
  <2> HIDE DEF delta
  <2>4. delta \in Nat
    BY <1>2, <1>3, <2>1, <2>3
  <2>5. QED
    BY <2>1, <2>2, <2>3, <2>4
<1>7. CASE next = Null
  <2>1. k = Len(c) /\ M = N /\ u = [s EXCEPT !.pc = "link1"]
    BY <1>3, <1>4, <1>5, <1>7
  <2>2. Stays(s, u) /\ u.pc = "link1" /\ u.t = s.t /\ u.tp = s.tp
    BY <2>1 DEF Stays, Locals
  <2>3. Split(B, k, s.ticks) = B
    <3>1. \A j \in 1..Len(B) : j # k + 1
      BY <1>4, <2>1
    <3>2. Split(B, k, s.ticks) = [j \in 1..Len(B) |-> B[j]]
      BY <3>1 DEF Split
    <3>3. QED
      BY <1>2, <3>2, LenProperties
  <2>4. Belongs(B, s.ticks, k)
    BY <1>3, <1>4, <2>1 DEF Belongs
  <2>5. Placed(M, u, B, c, k)
    BY <1>3, <2>1, <2>2, <2>3, <2>4 DEF Placed, Stays
  <2>6. InSchedule(M, u, B, c)
    BY <1>2, <2>1, <2>2, <2>5 DEF InSchedule, Stays
  <2>7. QED
    BY <2>1, <2>2, <2>6
<1>8. CASE next # Null
  <2>1. k < Len(c) /\ next = c[k + 1] /\ k + 1 \in 1..Len(c) /\ k + 1 \in 1..Len(B)
    BY <1>3, <1>4, <1>5, <1>8
  <2>2. next \in On(c) /\ next \in Links /\ next \in 0..MaxEvents
    BY <1>4, <2>1
  <2>3. /\ B[k + 1] = View(N, next) /\ N[next].wDelta = B[k + 1].wDelta
        /\ Due(B, k + 1) = Due(B, k) + N[next].wDelta /\ N[next].wDelta \in Nat
    <3>1. B[k + 1] = View(N, next)
      BY <1>3, <2>1 DEF Shows
    <3>2. N[next].wDelta = B[k + 1].wDelta
      BY <3>1 DEF View
    <3> DEFINE j == k + 1
    <3>3. j \in 1..Len(B) /\ j - 1 = k
      BY <1>3, <2>1
    <3> HIDE DEF j, next
    <3>4. Due(B, j) = Due(B, k) + B[j].wDelta /\ B[j].wDelta \in Nat
      BY <1>6, <3>3
    <3>5. QED
      BY <3>1, <3>2, <3>4 DEF j
  <2>4. CASE N[next].wDelta > delta
    <3> DEFINE v == N[next].wDelta - delta
    <3>1. M = [N EXCEPT ![next].wDelta = v] /\ u = [s EXCEPT !.pc = "link1"]
      BY <1>8, <2>4
    <3>2. v \in Nat
      BY <1>6, <2>3, <2>4
    <3>3. Stays(s, u) /\ u.pc = "link1" /\ u.t = s.t /\ u.tp = s.tp
      BY <3>1 DEF Stays, Locals
    <3>4. Belongs(B, s.ticks, k)
      <4>1. Due(B, k + 1) > s.ticks
        BY <1>2, <1>6, <2>3, <2>4
      <4>2. QED
        BY <1>3, <1>4, <4>1 DEF Belongs
    <3> HIDE DEF v, next
    <3>a. DeltaIs(N, next, v, M)
      BY <2>2, <3>1, <3>2, DeltaSet
    <3>5. /\ M \in Nodes
          /\ \A x \in 0..MaxEvents : M[x].Next = N[x].Next /\ M[x].pThis = N[x].pThis
          /\ \A x \in 0..MaxEvents : x # next => M[x] = N[x]
          /\ View(M, next) = [View(N, next) EXCEPT !.wDelta = v]
      BY <3>a DEF DeltaIs
    <3>6. Shows(M, c, Split(B, k, s.ticks))
      <4>1. Chained(M, c)
        BY <1>4, <3>a, ChainedKept
      <4>2. Split(B, k, s.ticks) \in Seq(Entry) /\ Len(Split(B, k, s.ticks)) = Len(c)
        BY <1>2, <1>4, <3>4, SplitType
      <4>3. ASSUME NEW j \in 1..Len(c) PROVE Split(B, k, s.ticks)[j] = View(M, c[j])
        <5>1. B[j] = View(N, c[j]) /\ c[j] \in 0..MaxEvents
          BY <1>3, <1>4 DEF Shows
        <5>2. CASE j = k + 1
          <6>1. Split(B, k, s.ticks)[j] = [B[j] EXCEPT !.wDelta = B[j].wDelta - delta]
            BY <1>4, <1>6, <5>2 DEF Split
          <6>2. c[j] = next /\ B[j].wDelta = N[next].wDelta
            BY <2>1, <2>3, <5>2
          <6>3. QED
            BY <3>5, <5>1, <6>1, <6>2 DEF v
        <5>3. CASE j # k + 1
          <6>1. Split(B, k, s.ticks)[j] = B[j]
            BY <1>4, <5>3 DEF Split
          <6>2. c[j] # next
            BY <1>4, <2>1, <5>3 DEF Chained
          <6>3. QED
            BY <3>5, <5>1, <6>1, <6>2 DEF View
        <5>4. QED
          BY <5>2, <5>3
      <4>4. QED
        BY <4>1, <4>2, <4>3 DEF Shows
    <3>7. View(M, s.t) = View(N, s.t)
      <4>1. s.t # next /\ s.t \in 0..MaxEvents
        BY <1>2, <1>4, <2>2
      <4>2. QED
        BY <3>5, <4>1 DEF View
    <3>8. Placed(M, u, B, c, k)
      BY <1>3, <3>3, <3>4, <3>6, <3>7 DEF Placed, Stays
    <3>9. Taken(M) = On(c) \cup {s.t}
      BY <1>2, <1>4, <3>5 DEF Taken
    <3>10. InSchedule(M, u, B, c)
      BY <1>2, <3>3, <3>8, <3>9 DEF InSchedule, Stays
    <3>11. QED
      BY <1>4, <3>3, <3>5, <3>10
  <2>5. CASE ~(N[next].wDelta > delta)
    <3> DEFINE v == delta - N[next].wDelta
    <3>1. M = [N EXCEPT ![s.t].wDelta = v] /\ u = [s EXCEPT !.tp = next]
      BY <1>8, <2>5
    <3>2. v \in Nat /\ Due(B, k + 1) <= s.ticks /\ v = s.ticks - Due(B, k + 1)
      <4> HIDE DEF delta, next
      <4>1. QED
        BY <1>2, <1>6, <2>3, <2>5
    <3>3. Stays(s, u) /\ u.pc = "walk" /\ u.t = s.t /\ u.tp = next
      <4> HIDE DEF next
      <4>1. QED
        BY <3>1 DEF Stays, Locals
    <3> HIDE DEF v, next
    <3>4. s.t \in 0..MaxEvents
      BY <1>2, <1>4
    <3>a. DeltaIs(N, s.t, v, M)
      BY <3>1, <3>2, <3>4, DeltaSet
    <3>5. /\ M \in Nodes
          /\ \A x \in 0..MaxEvents : M[x].Next = N[x].Next /\ M[x].pThis = N[x].pThis
          /\ \A x \in 0..MaxEvents : x # s.t => M[x] = N[x]
          /\ View(M, s.t) = [View(N, s.t) EXCEPT !.wDelta = v]
      BY <3>a DEF DeltaIs
    <3>6. Shows(M, c, B)
      <4>1. Untouched(N, M, c)
        BY <1>2, <1>4, <3>5 DEF Untouched
      <4>2. QED
        BY <1>3, <4>1, ShowsKept, Zenon
    <3>7. View(M, s.t) = NewLink(s.e, v, s.ticks, s.mode)
      BY <1>3, <3>5 DEF NewLink
    <3>8. k + 1 \in 0..Len(c) /\ next = Place(c, k + 1)
      BY <1>3, <1>4, <2>1 DEF Place
    <3>9. Searching(M, u, B, c, k + 1)
      BY <3>2, <3>3, <3>6, <3>7, <3>8 DEF Searching, Stays
    <3>10. Taken(M) = On(c) \cup {s.t}
      BY <1>2, <1>4, <3>5 DEF Taken
    <3>11. InSchedule(M, u, B, c)
      BY <1>2, <3>3, <3>9, <3>10 DEF InSchedule, Stays
    <3>12. QED
      BY <1>4, <3>3, <3>5, <3>11
  <2>6. QED
    BY <2>4, <2>5
<1>9. QED
  BY <1>7, <1>8

\* t->Next = tp->Next.
Link1To(N, s, M, u) == /\ M = [N EXCEPT ![s.t].Next = N[s.tp].Next]
                       /\ u = [s EXCEPT !.pc = "link2"]

\* Schedule: the link is made to point at the rest of the list.
LEMMA Link1Step ==
  ASSUME NEW N \in Nodes, NEW s, Locals(s), NEW B, NEW c, InSchedule(N, s, B, c), s.pc = "link1",
         NEW M, NEW u, Link1To(N, s, M, u)
  PROVE  /\ M \in Nodes /\ Stays(s, u) /\ InSchedule(M, u, B, c)
         /\ \A l \in On(c) : M[l].pThis = N[l].pThis
<1> USE DEF Link1To
<1>1. PICK k : Placed(N, s, B, c, k)
  BY DEF InSchedule
<1>2. /\ B \in Seq(Entry) /\ s.e \in Event /\ s.ticks \in Nat \ {0} /\ s.mode \in Timer!Mode
      /\ Taken(N) = On(c) \cup {s.t} /\ s.t \in Links \ On(c)
  BY DEF InSchedule
<1>3. /\ Belongs(B, s.ticks, k) /\ k \in 0..Len(c) /\ s.tp = Place(c, k)
      /\ Shows(N, c, Split(B, k, s.ticks))
      /\ View(N, s.t) = NewLink(s.e, s.ticks - Due(B, k), s.ticks, s.mode)
  BY <1>1 DEF Placed
<1>4. /\ Chained(N, c) /\ On(c) \subseteq Links /\ Links \subseteq 0..MaxEvents
      /\ Last \in 0..MaxEvents /\ Last \notin Links
  BY <1>3, OnLinks
<1>5. Stays(s, u) /\ u.pc = "link2" /\ u.t = s.t /\ u.tp = s.tp
  BY DEF Stays, Locals
<1>6. N[s.tp].Next = Behind(c, k) /\ Behind(c, k) \in 1..Null
  BY <1>3, <1>4, ChainElements DEF Chained
<1>7. s.t \in 0..MaxEvents
  BY <1>2, <1>4
<1>a. NextIs(N, s.t, Behind(c, k), M)
  BY <1>6, <1>7, NextSet
<1>8. /\ M \in Nodes
      /\ \A x \in 0..MaxEvents : View(M, x) = View(N, x) /\ M[x].pThis = N[x].pThis
      /\ \A x \in 0..MaxEvents : x # s.t => M[x] = N[x]
      /\ M[s.t].Next = Behind(c, k)
  BY <1>a DEF NextIs
<1>9. Shows(M, c, Split(B, k, s.ticks))
  <2>1. Untouched(N, M, c)
    BY <1>2, <1>4, <1>8 DEF Untouched
  <2>2. QED
    BY <1>3, <2>1, ShowsKept, Zenon
<1>10. Placed(M, u, B, c, k)
  BY <1>3, <1>5, <1>7, <1>8, <1>9 DEF Placed, Stays
<1>11. Taken(M) = On(c) \cup {s.t}
  BY <1>2, <1>4, <1>8 DEF Taken
<1>12. InSchedule(M, u, B, c)
  BY <1>2, <1>5, <1>8, <1>10, <1>11 DEF InSchedule, Stays
<1>13. QED
  BY <1>4, <1>5, <1>8, <1>12

\* The nodes show the list with the new link when the chain has it.
LEMMA ShowsNew ==
  ASSUME NEW N, NEW c, NEW S, Shows(N, c, S), NEW k \in 0..Len(c), NEW t, NEW d, NEW R, NEW M,
         HasNew(Links, c, k + 1, t, d), HasNew(Entry, S, k + 1, View(N, t), R),
         Chained(M, d), \A l \in Links : View(M, l) = View(N, l), t \in Links
  PROVE  Shows(M, d, R)
<1> DEFINE n == Len(c)
<1>1. n \in Nat /\ Len(S) = n /\ (\A j \in 1..n : S[j] = View(N, c[j])) /\ \A j \in 1..n : c[j] \in Links
  BY OnLinks DEF Shows
<1>2. /\ Len(d) = n + 1 /\ d[k + 1] = t
      /\ \A j \in 1..k : d[j] = c[j]
      /\ \A j \in (k + 1)..n : d[j + 1] = c[j]
  BY <1>1 DEF HasNew
<1>3. /\ R \in Seq(Entry) /\ Len(R) = n + 1 /\ R[k + 1] = View(N, t)
      /\ \A j \in 1..k : R[j] = S[j]
      /\ \A j \in (k + 1)..n : R[j + 1] = S[j]
  BY <1>1 DEF HasNew
<1>4. ASSUME NEW j \in 1..(n + 1) PROVE R[j] = View(M, d[j])
  <2>1. CASE j < k + 1
    <3>1. j \in 1..k /\ j \in 1..n
      BY <1>1, <2>1
    <3>2. QED
      BY <1>1, <1>2, <1>3, <3>1
  <2>2. CASE j = k + 1
    BY <1>2, <1>3, <2>2
  <2>3. CASE j > k + 1
    <3> DEFINE i == j - 1
    <3>1. i \in (k + 1)..n /\ i \in 1..n /\ j = i + 1
      BY <1>1, <2>3
    <3> HIDE DEF i
    <3>2. d[i + 1] = c[i] /\ R[i + 1] = S[i] /\ S[i] = View(N, c[i]) /\ c[i] \in Links
      BY <1>1, <1>2, <1>3, <3>1
    <3>3. QED
      BY <3>1, <3>2
  <2>4. QED
    BY <2>1, <2>2, <2>3
<1>5. QED
  BY <1>2, <1>3, <1>4 DEF Shows

\* They show the list without the k-th link when the chain is without it.
LEMMA ShowsWithout ==
  ASSUME NEW N, NEW c, NEW S, Shows(N, c, S), NEW k \in 1..Len(c), NEW d, NEW R, NEW M,
         Without(Links, c, k, d), Without(Entry, S, k, R),
         Chained(M, d), \A l \in Links : View(M, l) = View(N, l)
  PROVE  Shows(M, d, R)
<1> DEFINE n == Len(c)
<1>1. n \in Nat /\ Len(S) = n /\ (\A j \in 1..n : S[j] = View(N, c[j])) /\ \A j \in 1..n : c[j] \in Links
  BY OnLinks DEF Shows
<1>2. /\ Len(d) = n - 1
      /\ \A j \in 1..(k - 1) : d[j] = c[j]
      /\ \A j \in (k + 1)..n : d[j - 1] = c[j]
  BY <1>1 DEF Without
<1>3. /\ R \in Seq(Entry) /\ Len(R) = n - 1
      /\ \A j \in 1..(k - 1) : R[j] = S[j]
      /\ \A j \in (k + 1)..n : R[j - 1] = S[j]
  BY <1>1 DEF Without
<1>4. ASSUME NEW j \in 1..(n - 1) PROVE R[j] = View(M, d[j])
  <2>1. CASE j < k
    <3>1. j \in 1..(k - 1) /\ j \in 1..n
      BY <1>1, <2>1
    <3>2. QED
      BY <1>1, <1>2, <1>3, <3>1
  <2>2. CASE j >= k
    <3> DEFINE i == j + 1
    <3>1. i \in (k + 1)..n /\ i \in 1..n /\ j = i - 1
      BY <1>1, <2>2
    <3> HIDE DEF i
    <3>2. d[i - 1] = c[i] /\ R[i - 1] = S[i] /\ S[i] = View(N, c[i]) /\ c[i] \in Links
      BY <1>1, <1>2, <1>3, <3>1
    <3>3. QED
      BY <3>1, <3>2
  <2>3. QED
    BY <2>1, <2>2
<1>5. QED
  BY <1>2, <1>3, <1>4 DEF Shows

\* tp->Next = t, and Schedule returns.
Link2To(N, s, M) == M = [N EXCEPT ![s.tp].Next = s.t]

\* Schedule: the link before it is made to point at it, and the call has its effect.
LEMMA Link2Step ==
  ASSUME NEW N \in Nodes, NEW s, Locals(s), NEW B, NEW c, InSchedule(N, s, B, c), s.pc = "link2",
         NEW M, Link2To(N, s, M)
  PROVE  /\ M \in Nodes
         /\ \A l \in On(c) : M[l].pThis = N[l].pThis
         /\ \E d : Rests(M, d, Timer!Scheduled(B, s.e, s.ticks, s.mode)) /\ On(c) \subseteq On(d)
<1> USE DEF Link2To
<1> DEFINE R == Timer!Scheduled(B, s.e, s.ticks, s.mode)
<1>1. PICK k : Placed(N, s, B, c, k) /\ N[s.t].Next = Behind(c, k)
  BY DEF InSchedule
<1>2. /\ B \in Seq(Entry) /\ s.e \in Event /\ s.ticks \in Nat \ {0} /\ s.mode \in Timer!Mode
      /\ Taken(N) = On(c) \cup {s.t} /\ s.t \in Links \ On(c)
  BY DEF InSchedule
<1>3. /\ Belongs(B, s.ticks, k) /\ k \in 0..Len(c) /\ s.tp = Place(c, k)
      /\ Shows(N, c, Split(B, k, s.ticks))
      /\ View(N, s.t) = NewLink(s.e, s.ticks - Due(B, k), s.ticks, s.mode)
  BY <1>1 DEF Placed
<1>4. /\ Chained(N, c) /\ On(c) \subseteq Links /\ Links \subseteq 0..MaxEvents
      /\ Last \in 0..MaxEvents /\ Last \notin Links /\ MaxEvents \in Nat
  BY <1>3, OnLinks
<1>5. s.tp \in 0..MaxEvents /\ s.t \in 1..Null /\ s.t \in 0..MaxEvents
  <2>1. s.tp \in 0..MaxEvents
    BY <1>3, <1>4, ChainElements DEF Chained
  <2>2. s.t \in 1..Null
    BY <1>2, <1>4 DEF Links, Null
  <2>3. QED
    BY <1>2, <1>4, <2>1, <2>2
<1>6. NextIs(N, s.tp, s.t, M)
  BY <1>5, NextSet
<1>7. /\ M \in Nodes
      /\ \A x \in 0..MaxEvents : View(M, x) = View(N, x) /\ M[x].pThis = N[x].pThis
  BY <1>6 DEF NextIs
<1>8. PICK d : /\ Chained(M, d) /\ On(d) = On(c) \cup {s.t}
               /\ HasNew(Links, c, k + 1, s.t, d)
  <2>1. M = [N EXCEPT ![Place(c, k)].Next = s.t]
    BY <1>3
  <2>2. QED
    BY <1>1, <1>2, <1>3, <1>4, <2>1, LinkIn
<1>9. HasNew(Entry, Split(B, k, s.ticks), k + 1, View(N, s.t), R)
  <2>1. Len(B) # MaxEvents
    <3>1. Len(B) = Len(c)
      BY <1>2, <1>3, SplitType DEF Shows
    <3>2. On(c) # Links
      BY <1>2
    <3>3. QED
      BY <1>4, <3>1, <3>2, ChainFits
  <2>2. QED
    BY <1>2, <1>3, <2>1, ScheduledIs
<1>10. Shows(M, d, R)
  <2>1. \A l \in Links : View(M, l) = View(N, l)
    BY <1>4, <1>7
  <2>2. s.t \in Links
    BY <1>2
  <2> HIDE DEF R
  <2>3. QED
    BY <1>3, <1>8, <1>9, <2>1, <2>2, ShowsNew, Zenon
<1>11. Taken(M) = On(d)
  BY <1>2, <1>4, <1>7, <1>8 DEF Taken
<1>12. QED
  BY <1>4, <1>7, <1>8, <1>10, <1>11 DEF Rests

\* A round of the search for a link of the event.
LEMMA SeekStep ==
  ASSUME NEW N \in Nodes, NEW s, Locals(s), NEW B, NEW c, InCancel(N, s, B, c), s.pc = "seek",
         NEW u,
         LET next == N[s.tp].Next
         IN IF next = Null THEN Returns(s, u)
            ELSE IF N[next].pThis = s.e THEN u = [s EXCEPT !.pc = "merge", !.t = next]
            ELSE u = [s EXCEPT !.tp = next]
  PROVE  \/ Stays(s, u) /\ InCancel(N, u, B, c)
         \/ Returns(s, u) /\ Rests(N, c, Timer!Cancelled(B, s.e))
<1> DEFINE next == N[s.tp].Next
<1>1. PICK k \in 0..Len(c) : s.tp = Place(c, k) /\ \A j \in 1..k : B[j].pThis # s.e
  BY DEF InCancel
<1>2. Rests(N, c, B) /\ Shows(N, c, B) /\ s.e \in Event
  BY DEF InCancel, Rests
<1>3. /\ Chained(N, c) /\ Len(B) = Len(c) /\ Len(c) \in Nat /\ B \in Seq(Entry)
  BY <1>2, OnLinks
<1>4. /\ next = Behind(c, k)
      /\ k < Len(c) => next = c[k + 1] /\ next # Null /\ k + 1 \in 1..Len(c)
      /\ k = Len(c) => next = Null
  <2>1. next = Behind(c, k) /\ c \in Seq(Links)
    BY <1>1, <1>3 DEF Chained
  <2>2. QED
    BY <1>1, <1>3, <2>1, ChainElements
<1>5. CASE next = Null
  <2>1. k = Len(c)
    BY <1>1, <1>3, <1>4, <1>5
  <2>2. Timer!Cancelled(B, s.e) = B
    BY <1>1, <1>3, <2>1, CancelledNone
  <2>3. QED
    BY <1>2, <1>5, <2>2
<1>6. CASE next # Null
  <2>1. k < Len(c) /\ next = c[k + 1] /\ k + 1 \in 1..Len(c) /\ k + 1 \in 0..Len(c)
    BY <1>1, <1>3, <1>4, <1>6
  <2>2. B[k + 1] = View(N, next) /\ B[k + 1].pThis = N[next].pThis
    <3> HIDE DEF next
    <3>1. B[k + 1] = View(N, next)
      BY <1>2, <2>1 DEF Shows
    <3>2. QED
      BY <3>1 DEF View
  <2>3. CASE N[next].pThis = s.e
    <3>1. u = [s EXCEPT !.pc = "merge", !.t = next]
      BY <1>6, <2>3
    <3> HIDE DEF next
    <3>2. Stays(s, u) /\ u.pc = "merge" /\ u.t = next /\ u.tp = s.tp
      BY <3>1 DEF Stays, Locals
    <3>3. FirstOf(B, s.e, k + 1) /\ (k + 1) - 1 = k
      <4>1. (k + 1) - 1 = k
        BY <1>1
      <4>2. QED
        BY <1>1, <1>3, <2>1, <2>2, <2>3, <4>1 DEF FirstOf
    <3>4. Found(u, B, c, k + 1)
      BY <1>1, <2>1, <3>2, <3>3 DEF Found, Stays
    <3>5. InCancel(N, u, B, c)
      BY <1>2, <1>3, <3>2, <3>4 DEF InCancel, Stays
    <3>6. QED
      BY <3>2, <3>5
  <2>4. CASE N[next].pThis # s.e
    <3>1. u = [s EXCEPT !.tp = next]
      BY <1>6, <2>4
    <3> HIDE DEF next
    <3>2. Stays(s, u) /\ u.pc = "seek" /\ u.tp = next
      BY <3>1 DEF Stays, Locals
    <3>3. u.tp = Place(c, k + 1)
      BY <1>1, <2>1, <3>2 DEF Place
    <3>4. \A j \in 1..(k + 1) : B[j].pThis # s.e
      <4>1. \A j \in 1..(k + 1) : j \in 1..k \/ j = k + 1
        BY <1>1
      <4>2. QED
        BY <1>1, <2>2, <2>4, <4>1
    <3>5. InCancel(N, u, B, c)
      BY <1>2, <1>3, <2>1, <3>2, <3>3, <3>4 DEF InCancel, Stays
    <3>6. QED
      BY <3>2, <3>5
  <2>5. QED
    BY <2>3, <2>4
<1>7. QED
  BY <1>5, <1>6

\* The link behind it takes over its ticks.
MergeTo(N, s, M, u) ==
  LET after == N[s.t].Next
      found == N[s.tp].Next
  IN /\ M = IF after = Null THEN N ELSE [N EXCEPT ![after].wDelta = @ + N[found].wDelta]
     /\ u = [s EXCEPT !.pc = "unlink"]

\* Cancel: the delta of the cancelled link goes to the one after it.
LEMMA MergeStep ==
  ASSUME NEW N \in Nodes, NEW s, Locals(s), NEW B, NEW c, InCancel(N, s, B, c), s.pc = "merge",
         NEW M, NEW u, MergeTo(N, s, M, u)
  PROVE  M \in Nodes /\ Stays(s, u) /\ InCancel(M, u, B, c)
<1> USE DEF MergeTo
<1> DEFINE after == N[s.t].Next
           found == N[s.tp].Next
<1>1. PICK k : Found(s, B, c, k)
  BY DEF InCancel
<1>2. Rests(N, c, B) /\ Shows(N, c, B) /\ Taken(N) = On(c) /\ s.e \in Event
  BY DEF InCancel, Rests
<1>3. FirstOf(B, s.e, k) /\ k \in 1..Len(c) /\ s.tp = Place(c, k - 1) /\ s.t = c[k]
  BY <1>1 DEF Found
<1>4. /\ Chained(N, c) /\ Len(B) = Len(c) /\ Len(c) \in Nat /\ B \in Seq(Entry)
      /\ On(c) \subseteq Links /\ Links \subseteq 0..MaxEvents
      /\ \A j \in 1..Len(c) : c[j] \in Links /\ c[j] \in On(c)
  BY <1>2, OnLinks
<1>5. found = c[k] /\ after = Behind(c, k)
  <2>1. k - 1 \in 0..Len(c) /\ k \in 0..Len(c) /\ k # 0 /\ k - 1 # Len(c) /\ (k - 1) + 1 = k
    BY <1>3, <1>4
  <2>2. N[Place(c, k - 1)].Next = Behind(c, k - 1) /\ N[Place(c, k)].Next = Behind(c, k)
    BY <1>4, <2>1 DEF Chained
  <2>3. Behind(c, k - 1) = c[k] /\ Place(c, k) = c[k]
    BY <2>1 DEF Behind, Place
  <2>4. QED
    BY <1>3, <2>2, <2>3
<1>6. /\ k < Len(c) => after = c[k + 1] /\ after # Null /\ k + 1 \in 1..Len(c)
      /\ k = Len(c) => after = Null
  <2>1. c \in Seq(Links) /\ k \in 0..Len(c)
    BY <1>3, <1>4 DEF Chained
  <2>2. QED
    BY <1>3, <1>4, <1>5, <2>1, ChainElements
<1>7. Stays(s, u) /\ u.pc = "unlink" /\ u.t = s.t /\ u.tp = s.tp
  BY DEF Stays, Locals
<1>8. Found(u, B, c, k)
  BY <1>3, <1>7 DEF Found, Stays
<1>9. M \in Nodes /\ Rests(M, c, Merged(B, k))
  <2>1. CASE after = Null
    <3>1. k = Len(c) /\ M = N
      BY <1>3, <1>4, <1>6, <2>1
    <3>2. Merged(B, k) = B
      <4>1. \A j \in 1..Len(B) : j # k + 1
        BY <1>4, <3>1
      <4>2. Merged(B, k) = [j \in 1..Len(B) |-> B[j]]
        BY <4>1 DEF Merged
      <4>3. QED
        BY <1>4, <4>2, LenProperties
    <3>3. QED
      BY <1>2, <3>1, <3>2
  <2>2. CASE after # Null
    <3> DEFINE v == N[after].wDelta + N[found].wDelta
    <3>1. k < Len(c) /\ after = c[k + 1] /\ k + 1 \in 1..Len(c) /\ after \in Links
          /\ after \in 0..MaxEvents /\ found \in 0..MaxEvents
      BY <1>3, <1>4, <1>5, <1>6, <2>2
    <3>2. M = [N EXCEPT ![after].wDelta = v]
      BY <2>2
    <3>3. /\ B[k].wDelta = N[found].wDelta /\ B[k + 1].wDelta = N[after].wDelta
          /\ N[found].wDelta \in Nat /\ N[after].wDelta \in Nat
      <4> HIDE DEF after, found
      <4>1. B[k] = View(N, found) /\ B[k + 1] = View(N, after)
        BY <1>2, <1>3, <1>5, <3>1 DEF Shows
      <4>2. N[found] \in Node /\ N[after] \in Node
        BY <3>1 DEF Nodes
      <4>3. QED
        BY <4>1, <4>2 DEF View, Node
    <3>4. v \in Nat
      BY <3>3
    <3> HIDE DEF v, after, found
    <3>5. DeltaIs(N, after, v, M)
      <4>1. DeltaIs(N, after, v, [N EXCEPT ![after].wDelta = v])
        BY <3>1, <3>4, DeltaSet, Zenon
      <4>2. QED
        BY <3>2, <4>1, Zenon
    <3>6. /\ M \in Nodes
          /\ \A x \in 0..MaxEvents : M[x].Next = N[x].Next /\ M[x].pThis = N[x].pThis
          /\ \A x \in 0..MaxEvents : x # after => M[x] = N[x]
          /\ View(M, after) = [View(N, after) EXCEPT !.wDelta = v]
      BY <3>5 DEF DeltaIs
    <3>7. Chained(M, c)
      <4>1. Chained(N, c)
        BY <1>4
      <4>2. QED
        BY <3>5, <4>1, ChainedKept, Zenon
    <3>8. Merged(B, k) \in Seq(Entry) /\ Len(Merged(B, k)) = Len(c)
      BY <1>3, <1>4, MergedType
    <3>9. ASSUME NEW j \in 1..Len(c) PROVE Merged(B, k)[j] = View(M, c[j])
      <4>1. B[j] = View(N, c[j]) /\ c[j] \in 0..MaxEvents
        BY <1>2, <1>4 DEF Shows
      <4>2. CASE j = k + 1
        <5>1. Merged(B, k)[j] = [B[j] EXCEPT !.wDelta = B[j].wDelta + B[k].wDelta]
          BY <1>4, <4>2 DEF Merged
        <5>2. c[j] = after /\ B[j].wDelta + B[k].wDelta = v
          BY <3>1, <3>3, <4>2 DEF v
        <5>3. QED
          BY <3>6, <4>1, <5>1, <5>2
      <4>3. CASE j # k + 1
        <5>1. Merged(B, k)[j] = B[j]
          BY <1>4, <4>3 DEF Merged
        <5>2. c[j] # after
          BY <1>4, <3>1, <4>3 DEF Chained
        <5>3. QED
          BY <3>6, <4>1, <5>1, <5>2 DEF View
      <4>4. QED
        BY <4>2, <4>3
    <3>10. Taken(M) = On(c)
      BY <1>2, <1>4, <3>6 DEF Taken
    <3>11. QED
      BY <3>6, <3>7, <3>8, <3>9, <3>10 DEF Rests, Shows
  <2>3. QED
    BY <2>1, <2>2
<1>10. InCancel(M, u, B, c)
  BY <1>2, <1>4, <1>7, <1>8, <1>9 DEF InCancel, Stays
<1>11. QED
  BY <1>7, <1>9, <1>10

\* tp->Next = t->Next.
LEMMA UnlinkStep ==
  ASSUME NEW N \in Nodes, NEW s, Locals(s), NEW B, NEW c, InCancel(N, s, B, c), s.pc = "unlink",
         NEW M, M = [N EXCEPT ![s.tp].Next = N[s.t].Next],
         NEW u, u = [s EXCEPT !.pc = "free"]
  PROVE  M \in Nodes /\ Stays(s, u) /\ \E d : InCancel(M, u, B, d)
<1> DEFINE R == Timer!Cancelled(B, s.e)
<1>1. PICK k : Found(s, B, c, k) /\ Rests(N, c, Merged(B, k))
  BY DEF InCancel
<1>2. Shows(N, c, Merged(B, k)) /\ Taken(N) = On(c) /\ s.e \in Event /\ B \in Seq(Entry)
  BY <1>1 DEF InCancel, Rests
<1>3. FirstOf(B, s.e, k) /\ k \in 1..Len(c) /\ s.tp = Place(c, k - 1) /\ s.t = c[k]
  BY <1>1 DEF Found
<1>4. /\ Chained(N, c) /\ Len(c) \in Nat
      /\ On(c) \subseteq Links /\ Links \subseteq 0..MaxEvents
      /\ \A j \in 1..Len(c) : c[j] \in Links /\ c[j] \in On(c)
  BY <1>2, OnLinks
<1>5. Stays(s, u) /\ u.pc = "free" /\ u.t = s.t
  BY DEF Stays, Locals
<1>6. s.tp \in 0..MaxEvents /\ N[s.t].Next \in 1..Null
  <2>1. c \in Seq(Links) /\ k - 1 \in 0..Len(c) /\ s.t \in 0..MaxEvents
    BY <1>3, <1>4 DEF Chained
  <2>2. N[s.t] \in Node
    BY <2>1 DEF Nodes
  <2>3. QED
    BY <1>3, <2>1, <2>2, ChainElements DEF Node
<1>7. NextIs(N, s.tp, N[s.t].Next, M)
  BY <1>6, NextSet
<1>8. /\ M \in Nodes
      /\ \A x \in 0..MaxEvents : View(M, x) = View(N, x) /\ M[x].pThis = N[x].pThis
  BY <1>7 DEF NextIs
<1>9. PICK d : Chained(M, d) /\ On(d) = On(c) \ {c[k]} /\ Without(Links, c, k, d)
  <2>1. M = [N EXCEPT ![Place(c, k - 1)].Next = N[c[k]].Next]
    BY <1>3
  <2>2. QED
    BY <1>3, <1>4, <2>1, LinkOut
<1>10. Without(Entry, Merged(B, k), k, R)
  BY <1>2, <1>3, CancelledIs
<1>11. Shows(M, d, R)
  <2>1. \A l \in Links : View(M, l) = View(N, l)
    BY <1>4, <1>8
  <2> HIDE DEF R
  <2>2. QED
    BY <1>2, <1>3, <1>9, <1>10, <2>1, ShowsWithout, Zenon
<1>12. Taken(M) = On(d) \cup {s.t} /\ s.t \in Links \ On(d)
  <2>1. Taken(M) = On(c)
    BY <1>2, <1>4, <1>8 DEF Taken
  <2>2. QED
    BY <1>3, <1>4, <1>9, <2>1
<1>13. InCancel(M, u, B, d)
  BY <1>2, <1>5, <1>11, <1>12 DEF InCancel, Stays
<1>14. QED
  BY <1>5, <1>8, <1>13

\* The link is given back, and Cancel returns.
LEMMA FreeStep ==
  ASSUME NEW N \in Nodes, NEW s, Locals(s), NEW B, NEW c, InCancel(N, s, B, c), s.pc = "free",
         NEW M, M = [N EXCEPT ![s.t].pThis = NoEvent]
  PROVE  M \in Nodes /\ Rests(M, c, Timer!Cancelled(B, s.e))
<1>1. /\ Shows(N, c, Timer!Cancelled(B, s.e)) /\ s.t \in Links \ On(c)
      /\ Taken(N) = On(c) \cup {s.t}
  BY DEF InCancel
<1>2. /\ On(c) \subseteq Links /\ Links \subseteq 0..MaxEvents /\ Last \in 0..MaxEvents
      /\ Last \notin Links
  BY <1>1, OnLinks
<1>3. N[s.t] \in Node
  BY <1>1, <1>2 DEF Nodes
<1>4. M[s.t] = [N[s.t] EXCEPT !.pThis = NoEvent] /\ \A x \in 0..MaxEvents : x # s.t => M[x] = N[x]
  BY <1>1, <1>2 DEF Nodes
<1>5. M[s.t] \in Node /\ M[s.t].pThis = NoEvent
  BY <1>3, <1>4 DEF Node
<1>6. M \in Nodes
  BY <1>1, <1>2, <1>4, <1>5 DEF Nodes
<1>7. Shows(M, c, Timer!Cancelled(B, s.e))
  <2>1. Untouched(N, M, c)
    BY <1>1, <1>2, <1>4 DEF Untouched
  <2>2. QED
    BY <1>1, <2>1, ShowsKept, Zenon
<1>8. Taken(M) = On(c)
  BY <1>1, <1>2, <1>4, <1>5 DEF Taken
<1>9. QED
  BY <1>6, <1>7, <1>8 DEF Rests

-----------------------------------------------------------------------------
(* The loop of ProcessTimers.                                               *)

HeadExpired(l) == l # <<>> /\ l[1].wDelta = 0

\* What a turn has made of the list when the head is scheduled again, and of the counts.
Rearmed(l) == IF l[1].Flags = "PERIODIC"
              THEN Timer!Scheduled(l, l[1].pThis, l[1].wPeriod, l[1].Flags) ELSE l
Counted(r) == [r.fired EXCEPT ![r.list[1].pThis] = @ + 1]
Turned(r) == [list |-> Timer!Cancelled(Rearmed(r.list), r.list[1].pThis), fired |-> Counted(r)]

\* i turns make r of s.
TurnsBy(s, i, f) == f = [j \in 0..i |-> IF j = 0 THEN s ELSE Timer!ExpireHead(f[j - 1])]
Turns(s, i, r) == \E f : TurnsBy(s, i, f) /\ r = f[i]

\* The list and the counts when the loop starts, and when the tick is done.
Start(D) == [list |-> [D EXCEPT ![1].wDelta = 0], fired |-> NoneFired]
Ticked(D) == IF D = <<>> THEN [list |-> <<>>, fired |-> NoneFired]
             ELSE IF D[1].wDelta <= 1 THEN Timer!ExpireAll(Start(D))
             ELSE [list |-> [D EXCEPT ![1].wDelta = D[1].wDelta - 1], fired |-> NoneFired]

\* A turn of the loop of ProcessTimers, spelled out.
LEMMA TurnIs ==
  ASSUME NEW r
  PROVE  Timer!ExpireHead(r) = IF HeadExpired(r.list) THEN Turned(r) ELSE r
BY DEF Timer!ExpireHead, Timer!Expire, HeadExpired, Turned, Rearmed, Counted

\* No turns change nothing.
LEMMA NoTurns == ASSUME NEW s PROVE Turns(s, 0, s)
<1> DEFINE f == [j \in 0..0 |-> s]
<1>1. \A j \in 0..0 : j = 0
  OBVIOUS
<1>2. TurnsBy(s, 0, f) /\ s = f[0]
  BY <1>1 DEF TurnsBy
<1>3. QED
  BY <1>2 DEF Turns

\* More turns: the next one, or, when the head has ticks left, ones that change nothing.
LEMMA MoreTurns ==
  ASSUME NEW s, NEW i \in Nat, NEW r, Turns(s, i, r), NEW m \in Nat, i <= m,
         NEW x, x = Timer!ExpireHead(r), m = i + 1 \/ x = r
  PROVE  Turns(s, m, x)
<1>1. PICK f : TurnsBy(s, i, f) /\ r = f[i]
  BY DEF Turns
<1> DEFINE g == [j \in 0..m |-> IF j <= i THEN f[j] ELSE x]
<1>2. \A j \in 0..i : f[j] = IF j = 0 THEN s ELSE Timer!ExpireHead(f[j - 1])
  BY <1>1 DEF TurnsBy
<1>3. ASSUME NEW j \in 0..m
      PROVE  g[j] = IF j = 0 THEN s ELSE Timer!ExpireHead(g[j - 1])
  <2>1. CASE j <= i
    <3>1. j \in 0..i /\ (j # 0 => j - 1 \in 0..m /\ j - 1 <= i)
      BY <2>1
    <3>2. g[j] = f[j] /\ (j # 0 => g[j - 1] = f[j - 1])
      BY <2>1, <3>1
    <3> HIDE DEF g
    <3>3. QED
      BY <1>2, <3>1, <3>2
  <2>2. CASE j > i
    <3>1. j # 0 /\ j - 1 \in 0..m /\ ~(j <= i) /\ (j - 1 <= i => j - 1 = i)
      BY <2>2
    <3>2. g[j] = x
      BY <3>1
    <3>3. j - 1 <= i => g[j - 1] = r
      <4>1. j - 1 <= i => g[j - 1] = f[j - 1]
        BY <3>1
      <4> HIDE DEF g
      <4>2. QED
        BY <1>1, <3>1, <4>1, Zenon
    <3>4. ~(j - 1 <= i) => g[j - 1] = x /\ x = r
      <4>1. ~(j - 1 <= i) => g[j - 1] = x
        BY <3>1
      <4>2. ~(j - 1 <= i) => m # i + 1
        BY <2>2
      <4> HIDE DEF g
      <4>3. QED
        BY <4>1, <4>2, Zenon
    <3> HIDE DEF g
    <3>5. QED
      BY <3>1, <3>2, <3>3, <3>4, Zenon
  <2>3. QED
    BY <2>1, <2>2
<1>4. TurnsBy(s, m, g)
  <2>1. g = [j \in 0..m |-> g[j]]
    OBVIOUS
  <2> HIDE DEF g
  <2>2. QED
    BY <1>3, <2>1 DEF TurnsBy
<1>5. g[m] = x
  <2>1. CASE m = i
    BY <1>1, <2>1
  <2>2. CASE m # i
    BY <2>2
  <2>3. QED
    BY <2>1, <2>2
<1>6. QED
  BY <1>4, <1>5 DEF Turns

\* MaxEvents turns are the loop.
LEMMA AllTurns ==
  ASSUME NEW s, NEW r, Turns(s, MaxEvents, r)
  PROVE  Timer!ExpireAll(s) = r
<1> DEFINE turn == CHOOSE g : g = [j \in 0..MaxEvents |->
                                     IF j = 0 THEN s ELSE Timer!ExpireHead(g[j - 1])]
<1>1. PICK f : f = [j \in 0..MaxEvents |-> IF j = 0 THEN s ELSE Timer!ExpireHead(f[j - 1])]
               /\ r = f[MaxEvents]
  BY DEF Turns, TurnsBy
<1>2. turn = [j \in 0..MaxEvents |-> IF j = 0 THEN s ELSE Timer!ExpireHead(turn[j - 1])]
  BY <1>1
<1>3. Timer!ExpireAll(s) = turn[MaxEvents]
  BY DEF Timer!ExpireAll
<1> HIDE DEF turn
<1> DEFINE T == {j \in 0..MaxEvents : turn[j] = f[j]}
<1>4. MaxEvents \in Nat
  BY MaxEventsAssumption
<1>5. 0 \in T
  BY <1>1, <1>2, <1>4
<1>6. ASSUME NEW j \in 0..(MaxEvents - 1), j \in T PROVE j + 1 \in T
  <2> DEFINE k == j + 1
  <2>1. k \in 0..MaxEvents /\ k # 0 /\ k - 1 = j
    BY <1>4
  <2> HIDE DEF k
  <2>2. turn[k] = Timer!ExpireHead(turn[j]) /\ f[k] = Timer!ExpireHead(f[j])
    BY <1>1, <1>2, <2>1
  <2>3. k \in T
    BY <1>6, <2>1, <2>2
  <2>4. QED
    BY <2>3 DEF k
<1>7. 0..MaxEvents \subseteq T
  <2> HIDE DEF T
  <2>1. QED
    BY <1>4, <1>5, <1>6, UpTo
<1>8. QED
  BY <1>1, <1>3, <1>4, <1>7

\* The first k links expire now.
Zeros(l, k) == \A j \in 1..k : l[j].wDelta = 0

\* What follows only entries without delta is due now.
LEMMA ZerosDue ==
  ASSUME NEW l \in Seq(Entry), NEW k \in 0..Len(l), Zeros(l, k)
  PROVE  Due(l, k) = 0
<1> DEFINE T == {i \in 0..k : Due(l, i) = 0}
<1>1. k \in Nat /\ Len(l) \in Nat /\ Due(l, 0) = 0
  BY DueAddsUp
<1>2. 0 \in T
  BY <1>1
<1>3. ASSUME NEW i \in 0..(k - 1), i \in T PROVE i + 1 \in T
  <2> DEFINE j == i + 1
  <2>1. j \in 1..k /\ j \in 1..Len(l) /\ j - 1 = i /\ j \in 0..k
    BY <1>1
  <2> HIDE DEF j
  <2>2. Due(l, j) = Due(l, i) + l[j].wDelta /\ l[j].wDelta = 0
    BY <2>1, DueAddsUp DEF Zeros
  <2>3. Due(l, j) = 0
    BY <1>3, <2>2
  <2>4. QED
    BY <2>1, <2>3 DEF j
<1>4. 0..k \subseteq T
  <2> HIDE DEF T
  <2>1. QED
    BY <1>1, <1>2, <1>3, UpTo
<1>5. QED
  BY <1>1, <1>4

\* There is a place for every delay.
LEMMA SomePlace ==
  ASSUME NEW l \in Seq(Entry), NEW ticks \in Nat
  PROVE  \E k : Belongs(l, ticks, k)
<1> DEFINE n == Len(l)
           T == {k \in 0..n : Due(l, k) <= ticks}
<1> SUFFICES ASSUME \A k : ~Belongs(l, ticks, k) PROVE FALSE
  OBVIOUS
<1>1. n \in Nat /\ Due(l, 0) = 0 /\ \A k \in 0..n : Due(l, k) \in Nat
  BY DueAddsUp
<1>2. 0 \in T
  BY <1>1
<1>3. ASSUME NEW k \in 0..(n - 1), k \in T PROVE k + 1 \in T
  <2>1. k \in 0..n /\ k + 1 \in 0..n /\ k < n
    BY <1>1
  <2>2. ~(Due(l, k + 1) > ticks)
    BY <1>3, <2>1 DEF Belongs
  <2>3. QED
    BY <1>1, <2>1, <2>2
<1>4. 0..n \subseteq T
  <2> HIDE DEF T, n
  <2>1. QED
    BY <1>1, <1>2, <1>3, UpTo
<1>5. n \in 0..n /\ ~(n < n) /\ Due(l, n) <= ticks
  BY <1>1, <1>4
<1>6. Belongs(l, ticks, n)
  BY <1>5 DEF Belongs
<1>7. QED
  BY <1>6

\* The list R has l's head, and no more links that expire now.
SameHead(l, R) == /\ R \in Seq(Entry) /\ 1 \in 1..Len(R) /\ R[1] = l[1]
                  /\ \A k \in 1..Len(R) : Zeros(R, k) => k \in 1..Len(l) /\ Zeros(l, k)

\* So it is with a list whose head expires now when a link is scheduled.
LEMMA ScheduledBehind ==
  ASSUME NEW l \in Seq(Entry), HeadExpired(l), NEW e \in Event, NEW ticks \in Nat \ {0},
         NEW mode \in Timer!Mode
  PROVE  SameHead(l, Timer!Scheduled(l, e, ticks, mode))
<1> DEFINE R == Timer!Scheduled(l, e, ticks, mode)
<1>1. Len(l) \in Nat /\ 1 \in 1..Len(l) /\ l[1].wDelta = 0
  BY LenProperties, EmptySeq DEF HeadExpired
<1>2. CASE Len(l) = MaxEvents
  BY <1>1, <1>2, ScheduledFull DEF SameHead
<1>3. CASE Len(l) # MaxEvents
  <2>1. PICK p : Belongs(l, ticks, p)
    BY SomePlace
  <2> DEFINE n == Len(l)
             S == Split(l, p, ticks)
             new == NewLink(e, ticks - Due(l, p), ticks, mode)
  <2>2. HasNew(Entry, S, p + 1, new, R)
    BY <1>3, <2>1, ScheduledIs
  <2>3. S \in Seq(Entry) /\ Len(S) = n /\ p \in 0..n /\ (p < n => Due(l, p + 1) > ticks)
    BY <2>1, SplitType DEF Belongs
  <2>4. p >= 1
    <3>1. CASE p = 0
      <4>1. Zeros(l, 1) /\ 1 \in 0..Len(l) /\ p < n
        <5>1. \A j \in 1..1 : j = 1
          OBVIOUS
        <5>2. QED
          BY <1>1, <3>1, <5>1 DEF Zeros
      <4>2. Due(l, 1) = 0
        BY <4>1, ZerosDue
      <4>3. QED
        BY <2>3, <3>1, <4>1, <4>2
    <3>2. QED
      BY <1>1, <2>3, <3>1
  <2> HIDE DEF n, S, new, R
  <2>5. /\ R \in Seq(Entry) /\ Len(R) = n + 1 /\ R[p + 1] = new
        /\ \A j \in 1..p : R[j] = S[j]
    BY <2>2, <2>3 DEF HasNew
  <2>6. \A j \in 1..p : S[j] = l[j] /\ j \in 1..n
    <3>1. \A j \in 1..p : j # p + 1 /\ j \in 1..n
      BY <1>1, <2>3 DEF n
    <3>2. QED
      BY <3>1 DEF S, Split, n
  <2>7. 1 \in 1..Len(R) /\ R[1] = l[1]
    BY <1>1, <2>3, <2>4, <2>5, <2>6 DEF n
  <2>8. ASSUME NEW k \in 1..Len(R), Zeros(R, k) PROVE k \in 1..n /\ Zeros(l, k)
    <3>1. n \in Nat /\ k \in 1..(n + 1)
      BY <1>1, <2>5 DEF n
    <3>2. CASE k <= p
      <4>1. \A j \in 1..k : j \in 1..p
        BY <2>3, <3>1, <3>2
      <4>2. k \in 1..n
        BY <2>3, <3>1, <3>2
      <4>3. QED
        BY <2>5, <2>6, <2>8, <4>1, <4>2 DEF Zeros
    <3>3. CASE k > p
      <4>1. p + 1 \in 1..k /\ \A j \in 1..p : j \in 1..k
        BY <2>3, <3>1, <3>3
      <4>2. Zeros(l, p)
        BY <2>5, <2>6, <2>8, <4>1 DEF Zeros
      <4>3. Due(l, p) = 0
        BY <2>3, <4>2, ZerosDue DEF n
      <4>4. new.wDelta = ticks
        BY <4>3 DEF new, NewLink
      <4>5. new.wDelta = 0
        BY <2>5, <2>8, <4>1 DEF Zeros
      <4>6. QED
        BY <4>4, <4>5
    <3>4. QED
      BY <2>3, <3>1, <3>2, <3>3
  <2>9. QED
    BY <2>5, <2>7, <2>8 DEF n, R, SameHead
<1>4. QED
  BY <1>2, <1>3

\* The loop after i turns: each link that expires now takes one of those that are left.
Looping(D, i, r) ==
  /\ D # <<>> /\ D[1].wDelta <= 1 /\ i \in 0..MaxEvents /\ Turns(Start(D), i, r)
  /\ r.list \in Seq(Entry)
  /\ \A k \in 1..Len(r.list) : Zeros(r.list, k) => i + k <= MaxEvents

\* A turn.
LEMMA LoopStep ==
  ASSUME NEW D, NEW i, NEW r, Looping(D, i, r), HeadExpired(r.list)
  PROVE  /\ Rearmed(r.list) \in Seq(Entry) /\ r.list[1].pThis \in Event
         /\ r.list[1].wPeriod \in Nat \ {0} /\ r.list[1].Flags \in Timer!Mode
         /\ i + 1 \in 0..MaxEvents /\ Looping(D, i + 1, Turned(r))
<1> DEFINE l == r.list
           e == l[1].pThis
           R == Rearmed(l)
           Q == Timer!Cancelled(R, e)
<1>1. /\ l \in Seq(Entry) /\ Len(l) \in Nat /\ 1 \in 1..Len(l) /\ l[1].wDelta = 0
      /\ i \in 0..MaxEvents /\ MaxEvents \in Nat
  BY LenProperties, EmptySeq, MaxEventsAssumption DEF HeadExpired, Looping
<1>2. l[1].pThis \in Event /\ l[1].wPeriod \in Nat \ {0} /\ l[1].Flags \in Timer!Mode
  BY <1>1, EntryType
<1>a. SameHead(l, R)
  <2>1. CASE l[1].Flags = "PERIODIC"
    <3>1. R = Timer!Scheduled(l, l[1].pThis, l[1].wPeriod, l[1].Flags)
      BY <2>1 DEF Rearmed
    <3>2. HeadExpired(l) /\ l \in Seq(Entry)
      BY <1>1
    <3> HIDE DEF l, R
    <3>3. QED
      BY <1>2, <3>1, <3>2, ScheduledBehind
  <2>2. CASE l[1].Flags # "PERIODIC"
    <3>1. R = l
      BY <2>2 DEF Rearmed
    <3>2. QED
      BY <1>1, <3>1 DEF SameHead
  <2>3. QED
    BY <2>1, <2>2
<1>3. /\ R \in Seq(Entry) /\ 1 \in 1..Len(R) /\ R[1] = l[1]
      /\ \A k \in 1..Len(R) : Zeros(R, k) => k \in 1..Len(l) /\ Zeros(l, k)
  BY <1>a DEF SameHead
<1>4. FirstOf(R, e, 1)
  BY <1>3 DEF FirstOf
<1>5. Without(Entry, Merged(R, 1), 1, Q)
  BY <1>3, <1>4, CancelledIs
<1>6. Merged(R, 1) \in Seq(Entry) /\ Len(Merged(R, 1)) = Len(R) /\ Len(R) \in Nat
  BY <1>3, MergedType, LenProperties
<1>7. /\ Q \in Seq(Entry) /\ Len(Q) = Len(R) - 1
      /\ \A j \in 2..Len(R) : Q[j - 1] = Merged(R, 1)[j]
  BY <1>5, <1>6 DEF Without
<1>8. \A j \in 2..Len(R) : Merged(R, 1)[j].wDelta = R[j].wDelta
  <2> SUFFICES ASSUME NEW j \in 2..Len(R) PROVE Merged(R, 1)[j].wDelta = R[j].wDelta
    OBVIOUS
  <2>1. j \in 1..Len(R) /\ R[1].wDelta = 0
    BY <1>1, <1>3, <1>6
  <2>2. R[j] \in Entry /\ R[j].wDelta \in Nat
    BY <1>3, <2>1, EntryType
  <2> HIDE DEF R
  <2>3. Merged(R, 1)[j] = IF j = 2 THEN [R[j] EXCEPT !.wDelta = R[j].wDelta + R[1].wDelta] ELSE R[j]
    BY <2>1 DEF Merged
  <2>4. R[j].wDelta + R[1].wDelta = R[j].wDelta
    BY <2>1, <2>2
  <2>5. QED
    BY <2>2, <2>3, <2>4 DEF Entry
<1>9. i + 1 \in 0..MaxEvents
  <2>1. Zeros(l, 1)
    <3>1. \A j \in 1..1 : j = 1
      OBVIOUS
    <3>2. QED
      BY <1>1, <3>1 DEF Zeros
  <2>2. i + 1 <= MaxEvents
    BY <1>1, <2>1 DEF Looping
  <2>3. QED
    BY <1>1, <2>2
<1>10. ASSUME NEW k \in 1..Len(Q), Zeros(Q, k) PROVE (i + 1) + k <= MaxEvents
  <2> DEFINE m == k + 1
  <2>1. m \in 1..Len(R) /\ k \in Nat
    BY <1>6, <1>7
  <2>2. Zeros(R, m)
    <3> SUFFICES ASSUME NEW j \in 1..m PROVE R[j].wDelta = 0
      BY DEF Zeros
    <3>1. CASE j = 1
      BY <1>1, <1>3, <3>1
    <3>2. CASE j # 1
      <4>1. j \in 2..Len(R) /\ j - 1 \in 1..k
        BY <1>6, <2>1, <3>2
      <4> HIDE DEF Q, R
      <4>2. Q[j - 1].wDelta = 0
        BY <1>10, <4>1 DEF Zeros
      <4>3. QED
        BY <1>7, <1>8, <4>1, <4>2
    <3>3. QED
      BY <3>1, <3>2
  <2>3. m \in 1..Len(l) /\ Zeros(l, m)
    BY <1>3, <2>1, <2>2
  <2>4. i + m <= MaxEvents
    <3> HIDE DEF m
    <3>1. QED
      BY <2>3 DEF Looping
  <2>5. QED
    BY <1>1, <2>1, <2>4
<1>11. Turns(Start(D), i + 1, Turned(r))
  <2>1. Turned(r) = Timer!ExpireHead(r)
    BY TurnIs
  <2>2. Turns(Start(D), i, r) /\ i \in Nat /\ i + 1 \in Nat /\ i <= i + 1
    BY <1>1 DEF Looping
  <2>3. QED
    BY <2>1, <2>2, MoreTurns
<1>12. Turned(r).list = Q
  BY DEF Turned
<1> HIDE DEF Q, R, l, e
<1>13. Looping(D, i + 1, Turned(r))
  BY <1>7, <1>9, <1>10, <1>11, <1>12 DEF Looping
<1>14. QED
  BY <1>2, <1>3, <1>9, <1>13 DEF l, R

\* When the head has ticks left, the loop is done.
LEMMA LoopEnds ==
  ASSUME NEW D, NEW i, NEW r, Looping(D, i, r), ~HeadExpired(r.list)
  PROVE  Ticked(D) = r
<1>1. /\ Turns(Start(D), i, r) /\ i \in Nat /\ MaxEvents \in Nat /\ i <= MaxEvents
      /\ D # <<>> /\ D[1].wDelta <= 1
  BY MaxEventsAssumption DEF Looping
<1>2. r = Timer!ExpireHead(r)
  BY TurnIs
<1>3. Turns(Start(D), MaxEvents, r)
  BY <1>1, <1>2, MoreTurns
<1>4. QED
  BY <1>1, <1>3, AllTurns DEF Ticked

-----------------------------------------------------------------------------
(* The threads.                                                             *)

Threads == th = [q \in Thread |-> th[q]] /\ \A q \in Thread : Locals(th[q])

\* Thread p alone moves, to the locals u.
Moves(p, u) == /\ th' = [q \in Thread |-> th'[q]] /\ th'[p] = u
               /\ \A q \in Thread \ {p} : th'[q] = th[q]

\* A thread that goes on leaves the other alone.
LEMMA GotoMoves ==
  ASSUME NEW p \in Thread, Threads, NEW u, Goto(p, u)
  PROVE  Moves(p, u)
BY DEF Goto, Moves, Threads

\* A thread that returns leaves the other alone.
LEMMA ReturnMoves ==
  ASSUME NEW p \in Thread, Threads, Return(p)
  PROVE  \E u : Moves(p, u) /\ Returns(th[p], u)
<1> DEFINE u == IF th[p].back = "idle" THEN Idle
                ELSE [th[p] EXCEPT !.pc = th[p].back, !.back = "idle", !.e = NoEvent,
                                   !.ticks = 0, !.t = Null, !.tp = Last]
<1>1. Goto(p, u)
  BY DEF Return
<1>2. Returns(th[p], u)
  BY DEF Returns
<1> HIDE DEF u
<1>3. QED
  BY <1>1, <1>2, GotoMoves

\* Where a statement of Schedule leads, and one of Cancel.
ScheduleTo(N, s, B, c, M, u, d) ==
  /\ M \in Nodes /\ On(c) \subseteq On(d) /\ \A l \in On(c) : M[l].pThis = N[l].pThis
  /\ \/ Stays(s, u) /\ InSchedule(M, u, B, d)
     \/ Returns(s, u) /\ Rests(M, d, Timer!Scheduled(B, s.e, s.ticks, s.mode))
CancelTo(s, B, M, u, d) ==
  /\ M \in Nodes
  /\ \/ Stays(s, u) /\ InCancel(M, u, B, d)
     \/ Returns(s, u) /\ Rests(M, d, Timer!Cancelled(B, s.e))

\* Every statement of a thread inside Schedule is one of the steps above.
LEMMA ScheduleGoes ==
  ASSUME NEW p \in Thread, Threads, node \in Nodes, NEW B, NEW c,
         InSchedule(node, th[p], B, c), Statement(p)
  PROVE  /\ fired' = fired
         /\ \E u, d : Moves(p, u) /\ ScheduleTo(node, th[p], B, c, node', u, d)
<1> DEFINE s == th[p]
<1>1. s.pc \in {"alloc", "fill", "walk", "link1", "link2"} /\ Locals(s)
  BY DEF InSchedule, Threads
<1>a. InSchedule(node, s, B, c)
  OBVIOUS
<1>2. CASE Alloc(p)
  <2>1. s.pc = "alloc" /\ fired' = fired /\ node' = node
    BY <1>2 DEF Alloc, At
  <2> DEFINE free == {l \in Links : node[l].pThis = NoEvent}
  <2>2. PICK u : /\ Moves(p, u)
                 /\ IF free = {} THEN Returns(s, u)
                    ELSE u = [s EXCEPT !.pc = "fill", !.t = CHOOSE l \in free : \A k \in free : l <= k]
    <3>1. CASE free = {}
      <4>1. Return(p)
        BY <1>2, <3>1 DEF Alloc
      <4>2. QED
        BY <3>1, <4>1, ReturnMoves
    <3>2. CASE free # {}
      <4> DEFINE v == [s EXCEPT !.pc = "fill", !.t = CHOOSE l \in free : \A k \in free : l <= k]
      <4>1. Goto(p, v)
        BY <1>2, <3>2 DEF Alloc
      <4>2. v = [s EXCEPT !.pc = "fill", !.t = CHOOSE l \in free : \A k \in free : l <= k]
        OBVIOUS
      <4> HIDE DEF v
      <4>3. Moves(p, v)
        BY <4>1, GotoMoves
      <4>4. QED
        BY <3>2, <4>2, <4>3
    <3>3. QED
      BY <3>1, <3>2
  <2>3. \/ Stays(s, u) /\ InSchedule(node, u, B, c)
        \/ Returns(s, u) /\ Rests(node, c, Timer!Scheduled(B, s.e, s.ticks, s.mode))
    <3> HIDE DEF s
    <3>1. InSchedule(node, s, B, c)
      BY DEF s
    <3>2. QED
      BY <1>1, <2>1, <2>2, <3>1, AllocStep
  <2>4. ScheduleTo(node, s, B, c, node', u, c)
    BY <2>1, <2>3 DEF ScheduleTo
  <2>5. QED
    BY <2>1, <2>2, <2>4
<1>3. CASE Fill(p)
  <2> DEFINE u == [s EXCEPT !.pc = "walk", !.tp = Last]
  <2>1. /\ s.pc = "fill" /\ fired' = fired /\ Goto(p, u)
        /\ node' = [node EXCEPT ![s.t] = [Next |-> Null, wDelta |-> s.ticks, wPeriod |-> s.ticks,
                                          pThis |-> s.e, Flags |-> s.mode]]
    BY <1>3 DEF Fill, At
  <2>2. /\ node' \in Nodes /\ Stays(s, u) /\ InSchedule(node', u, B, c)
        /\ \A l \in On(c) : node'[l].pThis = node[l].pThis
    <3>1. FillTo(node, s, node', u)
      BY <2>1 DEF FillTo
    <3> HIDE DEF u
    <3>2. s.pc = "fill" /\ Locals(s)
      BY <1>1, <2>1
    <3>3. QED
      BY <1>a, <3>1, <3>2, FillStep
  <2> HIDE DEF u
  <2>3. ScheduleTo(node, s, B, c, node', u, c)
    BY <2>2 DEF ScheduleTo
  <2>4. QED
    BY <2>1, <2>3, GotoMoves
<1>4. CASE Walk(p)
  <2> DEFINE next == node[s.tp].Next
             delta == node[s.t].wDelta
  <2>1. s.pc = "walk" /\ fired' = fired
    BY <1>4 DEF Walk, At
  <2>2. PICK u : /\ Goto(p, u)
                 /\ IF next = Null THEN node' = node /\ u = [s EXCEPT !.pc = "link1"]
                    ELSE IF node[next].wDelta > delta
                    THEN node' = [node EXCEPT ![next].wDelta = @ - delta] /\ u = [s EXCEPT !.pc = "link1"]
                    ELSE node' = [node EXCEPT ![s.t].wDelta = delta - node[next].wDelta]
                         /\ u = [s EXCEPT !.tp = next]
    BY <1>4 DEF Walk, Go
  <2>3. /\ node' \in Nodes /\ Stays(s, u) /\ InSchedule(node', u, B, c)
        /\ \A l \in On(c) : node'[l].pThis = node[l].pThis
    <3>1. WalkTo(node, s, node', u)
      BY <2>2 DEF WalkTo
    <3>2. QED
      BY <1>1, <1>a, <2>1, <3>1, WalkStep
  <2>4. ScheduleTo(node, s, B, c, node', u, c)
    BY <2>3 DEF ScheduleTo
  <2>5. QED
    BY <2>1, <2>2, <2>4, GotoMoves
<1>5. CASE Link1(p)
  <2> DEFINE u == [s EXCEPT !.pc = "link2"]
  <2>1. /\ s.pc = "link1" /\ fired' = fired /\ Goto(p, u)
        /\ node' = [node EXCEPT ![s.t].Next = node[s.tp].Next]
    BY <1>5 DEF Link1, At, Go
  <2>2. /\ node' \in Nodes /\ Stays(s, u) /\ InSchedule(node', u, B, c)
        /\ \A l \in On(c) : node'[l].pThis = node[l].pThis
    <3>1. Link1To(node, s, node', u)
      BY <2>1 DEF Link1To
    <3> HIDE DEF u
    <3>2. QED
      BY <1>1, <1>a, <2>1, <3>1, Link1Step
  <2> HIDE DEF u
  <2>3. ScheduleTo(node, s, B, c, node', u, c)
    BY <2>2 DEF ScheduleTo
  <2>4. QED
    BY <2>1, <2>3, GotoMoves
<1>6. CASE Link2(p)
  <2>1. /\ s.pc = "link2" /\ fired' = fired /\ Return(p)
        /\ node' = [node EXCEPT ![s.tp].Next = s.t]
    BY <1>6 DEF Link2, At
  <2>2. /\ node' \in Nodes /\ \A l \in On(c) : node'[l].pThis = node[l].pThis
        /\ \E d : /\ Rests(node', d, Timer!Scheduled(B, s.e, s.ticks, s.mode))
                  /\ On(c) \subseteq On(d)
    <3>1. Link2To(node, s, node')
      BY <2>1 DEF Link2To
    <3>2. s.pc = "link2" /\ Locals(s)
      BY <1>1, <2>1
    <3>3. QED
      BY <1>a, <3>1, <3>2, Link2Step
  <2>3. PICK u : Moves(p, u) /\ Returns(s, u)
    BY <2>1, ReturnMoves
  <2>4. \E d : ScheduleTo(node, s, B, c, node', u, d)
    BY <2>2, <2>3 DEF ScheduleTo
  <2>5. QED
    BY <2>1, <2>3, <2>4
<1>7. QED
  BY <1>1, <1>2, <1>3, <1>4, <1>5, <1>6 DEF Statement, At, Seek, Merge, Unlink, Free, Leave

\* Every statement of a thread inside Cancel is one of the steps above.
LEMMA CancelGoes ==
  ASSUME NEW p \in Thread, Threads, node \in Nodes, NEW B, NEW c,
         InCancel(node, th[p], B, c), Statement(p)
  PROVE  fired' = fired /\ \E u, d : Moves(p, u) /\ CancelTo(th[p], B, node', u, d)
<1> DEFINE s == th[p]
<1>1. s.pc \in {"seek", "merge", "unlink", "free"} /\ Locals(s)
  BY DEF InCancel, Threads
<1>a. InCancel(node, s, B, c)
  OBVIOUS
<1>2. CASE Seek(p)
  <2> DEFINE next == node[s.tp].Next
  <2>1. s.pc = "seek" /\ fired' = fired /\ node' = node
    BY <1>2 DEF Seek, At
  <2>2. PICK u : /\ Moves(p, u)
                 /\ IF next = Null THEN Returns(s, u)
                    ELSE IF node[next].pThis = s.e THEN u = [s EXCEPT !.pc = "merge", !.t = next]
                    ELSE u = [s EXCEPT !.tp = next]
    <3>1. CASE next = Null
      <4>1. Return(p)
        BY <1>2, <3>1 DEF Seek
      <4>2. QED
        BY <3>1, <4>1, ReturnMoves
    <3>2. CASE next # Null
      <4>1. PICK v : /\ Goto(p, v)
                     /\ IF node[next].pThis = s.e THEN v = [s EXCEPT !.pc = "merge", !.t = next]
                        ELSE v = [s EXCEPT !.tp = next]
        BY <1>2, <3>2 DEF Seek
      <4>2. Moves(p, v)
        BY <4>1, GotoMoves
      <4>3. QED
        BY <3>2, <4>1, <4>2
    <3>3. QED
      BY <3>1, <3>2
  <2>3. \/ Stays(s, u) /\ InCancel(node, u, B, c)
        \/ Returns(s, u) /\ Rests(node, c, Timer!Cancelled(B, s.e))
    BY <1>1, <2>1, <2>2, SeekStep
  <2>4. CancelTo(s, B, node', u, c)
    BY <2>1, <2>3 DEF CancelTo
  <2>5. QED
    BY <2>1, <2>2, <2>4
<1>3. CASE Merge(p)
  <2> DEFINE u == [s EXCEPT !.pc = "unlink"]
             after == node[s.t].Next
             found == node[s.tp].Next
  <2>1. /\ s.pc = "merge" /\ fired' = fired /\ Goto(p, u)
        /\ node' = IF after = Null THEN node
                   ELSE [node EXCEPT ![after].wDelta = @ + node[found].wDelta]
    BY <1>3 DEF Merge, At, Go
  <2>2. node' \in Nodes /\ Stays(s, u) /\ InCancel(node', u, B, c)
    <3>1. MergeTo(node, s, node', u)
      BY <2>1 DEF MergeTo
    <3> HIDE DEF u
    <3>2. QED
      BY <1>1, <1>a, <2>1, <3>1, MergeStep
  <2> HIDE DEF u
  <2>3. CancelTo(s, B, node', u, c)
    BY <2>2 DEF CancelTo
  <2>4. QED
    BY <2>1, <2>3, GotoMoves
<1>4. CASE Unlink(p)
  <2> DEFINE u == [s EXCEPT !.pc = "free"]
  <2>1. /\ s.pc = "unlink" /\ fired' = fired /\ Goto(p, u)
        /\ node' = [node EXCEPT ![s.tp].Next = node[s.t].Next]
    BY <1>4 DEF Unlink, At, Go
  <2>2. node' \in Nodes /\ Stays(s, u) /\ \E d : InCancel(node', u, B, d)
    BY <1>1, <2>1, UnlinkStep
  <2> HIDE DEF u
  <2>3. \E d : CancelTo(s, B, node', u, d)
    BY <2>2 DEF CancelTo
  <2>4. QED
    BY <2>1, <2>3, GotoMoves
<1>5. CASE Free(p)
  <2>1. /\ s.pc = "free" /\ fired' = fired /\ Return(p)
        /\ node' = [node EXCEPT ![s.t].pThis = NoEvent]
    BY <1>5 DEF Free, At
  <2>2. node' \in Nodes /\ Rests(node', c, Timer!Cancelled(B, s.e))
    BY <1>1, <2>1, FreeStep
  <2>3. PICK u : Moves(p, u) /\ Returns(s, u)
    BY <2>1, ReturnMoves
  <2>4. CancelTo(s, B, node', u, c)
    BY <2>2, <2>3 DEF CancelTo
  <2>5. QED
    BY <2>1, <2>3, <2>4
<1>6. QED
  BY <1>1, <1>2, <1>3, <1>4, <1>5 DEF Statement, At, Alloc, Fill, Walk, Link1, Link2, Leave

\* The head's delta is set.
LEMMA HeadSet ==
  ASSUME NEW N \in Nodes, NEW c, NEW B, Rests(N, c, B), B # <<>>, NEW v \in Nat, NEW M,
         DeltaIs(N, c[1], v, M)
  PROVE  Rests(M, c, [B EXCEPT ![1].wDelta = v])
<1> DEFINE R == [B EXCEPT ![1].wDelta = v]
<1>1. /\ Chained(N, c) /\ B \in Seq(Entry) /\ Len(B) = Len(c) /\ Len(c) \in Nat
      /\ Links \subseteq 0..MaxEvents /\ On(c) \subseteq Links /\ Taken(N) = On(c)
      /\ \A k \in 1..Len(c) : c[k] \in Links /\ B[k] = View(N, c[k])
  BY OnLinks DEF Rests, Shows
<1>2. 1 \in 1..Len(c) /\ \A k \in 1..Len(c) : c[k] = c[1] => k = 1
  <2>1. 1 \in 1..Len(c)
    BY <1>1, EmptySeq
  <2>2. QED
    BY <1>1, <2>1 DEF Chained
<1>3. Chained(M, c)
  BY <1>1, ChainedKept
<1>4. /\ R = [k \in 1..Len(c) |-> IF k = 1 THEN [B[1] EXCEPT !.wDelta = v] ELSE B[k]]
      /\ B \in [1..Len(c) -> Entry]
  BY <1>1, LenProperties
<1>5. R \in [1..Len(c) -> Entry]
  <2>1. [B[1] EXCEPT !.wDelta = v] \in Entry
    BY <1>2, <1>4 DEF Entry
  <2> HIDE DEF R
  <2>2. QED
    BY <1>4, <2>1
<1>6. R \in Seq(Entry) /\ Len(R) = Len(c)
  <2> HIDE DEF R
  <2>1. QED
    BY <1>1, <1>5, FunctionIsSeq
<1>7. ASSUME NEW k \in 1..Len(c) PROVE R[k] = View(M, c[k])
  <2>1. c[k] \in 0..MaxEvents /\ B[k] = View(N, c[k])
    BY <1>1
  <2> HIDE DEF R
  <2>2. CASE k = 1
    BY <1>4, <2>1, <2>2 DEF DeltaIs
  <2>3. CASE k # 1
    <3>1. c[k] # c[1] /\ R[k] = B[k]
      BY <1>2, <1>4, <2>3
    <3>2. M[c[k]] = N[c[k]]
      BY <2>1, <3>1 DEF DeltaIs
    <3>3. QED
      BY <2>1, <3>1, <3>2 DEF View
  <2>4. QED
    BY <2>2, <2>3
<1>8. Taken(M) = On(c)
  BY <1>1 DEF Taken, DeltaIs
<1> HIDE DEF R
<1>9. Rests(M, c, R)
  BY <1>3, <1>6, <1>7, <1>8 DEF Rests, Shows
<1>10. QED
  BY <1>9 DEF R

\* The first link of a chain.
LEMMA HeadIs ==
  ASSUME NEW N, NEW c, NEW B, Rests(N, c, B)
  PROVE  /\ B = <<>> <=> N[Last].Next = Null
         /\ B # <<>> => /\ N[Last].Next = c[1] /\ c[1] \in Links /\ c[1] \in On(c)
                        /\ c[1] \in 0..MaxEvents
                        /\ 1 \in 1..Len(B) /\ B[1] \in Entry /\ B[1] = View(N, c[1])
<1>1. /\ Chained(N, c) /\ B \in Seq(Entry) /\ Len(B) = Len(c) /\ Len(c) \in Nat
      /\ Links \subseteq 0..MaxEvents /\ Null \notin 0..MaxEvents
      /\ \A k \in 1..Len(c) : c[k] \in Links /\ c[k] \in On(c) /\ B[k] = View(N, c[k])
  BY OnLinks DEF Rests, Shows
<1>2. N[Last].Next = Behind(c, 0)
  BY <1>1 DEF Chained, Place
<1>3. CASE B = <<>>
  <2>1. Len(c) = 0
    BY <1>1, <1>3
  <2>2. QED
    BY <1>2, <1>3, <2>1 DEF Behind
<1>4. CASE B # <<>>
  <2>1. 1 \in 1..Len(c) /\ Len(c) # 0
    BY <1>1, <1>4, EmptySeq
  <2>2. N[Last].Next = c[1]
    BY <1>2, <2>1 DEF Behind
  <2>3. B[1] \in Entry
    BY <1>1, <2>1, ElementOfSeq
  <2>4. QED
    BY <1>1, <1>4, <2>1, <2>2, <2>3
<1>5. QED
  BY <1>3, <1>4

\* What the timer thread has done, when the loop has come to r: it is about to call the head's
\* Event(); it is scheduling the head again; it is about to cancel; it is cancelling; it is at
\* the end of a turn.
AtEvent(N, s, F, c, r) ==
  /\ s.pc = "event" /\ s.back = "idle" /\ HeadExpired(r.list)
  /\ Rests(N, c, r.list) /\ s.head = c[1] /\ F = r.fired
Rearming(N, s, F, c, r) ==
  /\ s.back = "cancel" /\ HeadExpired(r.list) /\ r.list[1].Flags = "PERIODIC"
  /\ InSchedule(N, s, r.list, c)
  /\ s.e = r.list[1].pThis /\ s.ticks = r.list[1].wPeriod /\ s.mode = r.list[1].Flags
  /\ s.head \in On(c) /\ N[s.head].pThis = r.list[1].pThis /\ F = Counted(r)
AtCancel(N, s, F, c, r) ==
  /\ s.pc = "cancel" /\ s.back = "idle" /\ HeadExpired(r.list)
  /\ Rests(N, c, Rearmed(r.list)) /\ N[s.head].pThis = r.list[1].pThis /\ F = Counted(r)
Cancelling(N, s, F, c, r) ==
  /\ s.back = "again" /\ HeadExpired(r.list)
  /\ InCancel(N, s, Rearmed(r.list), c) /\ s.e = r.list[1].pThis /\ F = Counted(r)
AtAgain(N, s, F, c, r) ==
  s.pc = "again" /\ s.back = "idle" /\ Rests(N, c, r.list) /\ F = r.fired

InLoop(N, s, D, F, c) ==
  \E i, r : /\ Looping(D, i, r)
            /\ \/ AtEvent(N, s, F, c, r) \/ Rearming(N, s, F, c, r) \/ AtCancel(N, s, F, c, r)
               \/ Cancelling(N, s, F, c, r) \/ AtAgain(N, s, F, c, r)
AtLeave(N, s, D, F, c) ==
  /\ s.pc = "leave" /\ s.back = "idle"
  /\ Rests(N, c, Ticked(D).list) /\ F = Ticked(D).fired

\* A call under way that found the list D.
InTick(N, s, D, F, c) == /\ s.call = <<"Tick">>
                         /\ InLoop(N, s, D, F, c) \/ AtLeave(N, s, D, F, c)
InCall(N, s, D, c) ==
  /\ s.back = "idle"
  /\ \/ /\ InSchedule(N, s, D, c) /\ s.ticks \in Ticks
        /\ s.call = <<"Schedule", s.e, s.ticks, s.mode>>
     \/ InCancel(N, s, D, c) /\ s.call = <<"Cancel", s.e>>

\* The call of a caller is done.
CallDone(N, s, D, c) ==
  \/ /\ s.e \in Event /\ s.ticks \in Ticks /\ s.mode \in Timer!Mode
     /\ s.call = <<"Schedule", s.e, s.ticks, s.mode>>
     /\ Rests(N, c, Timer!Scheduled(D, s.e, s.ticks, s.mode))
  \/ /\ s.e \in Event /\ s.call = <<"Cancel", s.e>>
     /\ Rests(N, c, Timer!Cancelled(D, s.e))

\* A statement of a caller.
LEMMA CallGoes ==
  ASSUME Threads, node \in Nodes, NEW D, NEW c, InCall(node, th["caller"], D, c),
         Statement("caller")
  PROVE  /\ fired' = fired /\ node' \in Nodes
         /\ \E u, d : /\ Moves("caller", u) /\ Locals(u)
                      /\ \/ u.pc # "idle" /\ InCall(node', u, D, d)
                         \/ u = Idle /\ CallDone(node', th["caller"], D, d)
<1> DEFINE p == "caller"
           s == th[p]
<1>1. p \in Thread /\ s.back = "idle" /\ Locals(s) /\ \A u : Returns(s, u) => u = Idle
  BY DEF Thread, InCall, Returns, Threads
<1>2. Locals(Idle)
  BY DEF Locals, Idle
<1>3. CASE InSchedule(node, s, D, c) /\ s.ticks \in Ticks /\ s.call = <<"Schedule", s.e, s.ticks, s.mode>>
  <2>1. PICK u, d : Moves(p, u) /\ ScheduleTo(node, s, D, c, node', u, d)
    BY <1>1, <1>3, ScheduleGoes
  <2>2. fired' = fired /\ node' \in Nodes
    BY <1>1, <1>3, <2>1, ScheduleGoes DEF ScheduleTo
  <2>3. CASE Stays(s, u) /\ InSchedule(node', u, D, d)
    <3>1. u.pc # "idle" /\ InCall(node', u, D, d)
      BY <1>1, <1>3, <2>3 DEF InCall, Stays, InSchedule
    <3>2. QED
      BY <2>1, <2>2, <2>3, <3>1 DEF Stays
  <2>4. CASE Returns(s, u) /\ Rests(node', d, Timer!Scheduled(D, s.e, s.ticks, s.mode))
    <3>1. CallDone(node', s, D, d)
      BY <1>3, <2>4 DEF CallDone, InSchedule
    <3>2. QED
      BY <1>1, <1>2, <2>1, <2>2, <2>4, <3>1
  <2>5. QED
    BY <2>1, <2>3, <2>4 DEF ScheduleTo
<1>4. CASE InCancel(node, s, D, c) /\ s.call = <<"Cancel", s.e>>
  <2>1. PICK u, d : Moves(p, u) /\ CancelTo(s, D, node', u, d)
    BY <1>1, <1>4, CancelGoes
  <2>2. fired' = fired /\ node' \in Nodes
    BY <1>1, <1>4, <2>1, CancelGoes DEF CancelTo
  <2>3. CASE Stays(s, u) /\ InCancel(node', u, D, d)
    <3>1. u.pc # "idle" /\ InCall(node', u, D, d)
      BY <1>1, <1>4, <2>3 DEF InCall, Stays, InCancel
    <3>2. QED
      BY <2>1, <2>2, <2>3, <3>1 DEF Stays
  <2>4. CASE Returns(s, u) /\ Rests(node', d, Timer!Cancelled(D, s.e))
    <3>1. CallDone(node', s, D, d)
      BY <1>4, <2>4 DEF CallDone, InCancel
    <3>2. QED
      BY <1>1, <1>2, <2>1, <2>2, <2>4, <3>1
  <2>5. QED
    BY <2>1, <2>3, <2>4 DEF CancelTo
<1>5. QED
  BY <1>3, <1>4 DEF InCall

\* A statement of the timer thread.
LEMMA TickGoes ==
  ASSUME Threads, node \in Nodes, NEW D, NEW c, InTick(node, th["timer"], D, fired, c),
         Statement("timer")
  PROVE  /\ fired' = fired /\ node' \in Nodes
         /\ \E u, d : /\ Moves("timer", u) /\ Locals(u)
                      /\ \/ u.pc # "idle" /\ InTick(node', u, D, fired', d)
                         \/ /\ u = Idle /\ Rests(node', d, Ticked(D).list)
                            /\ fired' = Ticked(D).fired
<1> DEFINE p == "timer"
           s == th[p]
<1>1. p \in Thread /\ Locals(s) /\ s.call = <<"Tick">>
  BY DEF Thread, Threads, InTick
<1>2. CASE AtLeave(node, s, D, fired, c)
  <2>1. Leave(p)
    BY <1>2 DEF AtLeave, Statement, At, Alloc, Fill, Walk, Link1, Link2, Seek, Merge, Unlink, Free
  <2>2. Return(p) /\ node' = node /\ fired' = fired
    BY <2>1 DEF Leave
  <2>3. PICK u : Moves(p, u) /\ Returns(s, u)
    BY <1>1, <2>2, ReturnMoves
  <2>4. u = Idle /\ Locals(u)
    BY <1>2, <2>3 DEF AtLeave, Returns, Locals, Idle
  <2>5. Rests(node', c, Ticked(D).list) /\ fired' = Ticked(D).fired
    BY <1>2, <2>2 DEF AtLeave
  <2>6. QED
    BY <2>2, <2>3, <2>4, <2>5
<1>3. ASSUME NEW i, NEW r, Looping(D, i, r), Rearming(node, s, fired, c, r)
      PROVE  /\ fired' = fired /\ node' \in Nodes
             /\ \E u, d : /\ Moves(p, u) /\ Locals(u) /\ u.pc # "idle"
                          /\ InTick(node', u, D, fired', d)
  <2>1. InSchedule(node, s, r.list, c)
    BY <1>3 DEF Rearming
  <2>2. PICK u, d : Moves(p, u) /\ ScheduleTo(node, s, r.list, c, node', u, d)
    BY <1>1, <2>1, ScheduleGoes
  <2>3. fired' = fired /\ node' \in Nodes
    BY <1>1, <2>1, <2>2, ScheduleGoes DEF ScheduleTo
  <2>4. node'[s.head].pThis = r.list[1].pThis /\ s.head \in On(d)
    BY <1>3, <2>2 DEF Rearming, ScheduleTo
  <2>5. CASE Stays(s, u) /\ InSchedule(node', u, r.list, d)
    <3>1. Rearming(node', u, fired', d, r)
      BY <1>3, <2>3, <2>4, <2>5 DEF Rearming, Stays
    <3>2. u.pc # "idle" /\ u.call = <<"Tick">> /\ Locals(u)
      BY <1>1, <2>5 DEF InSchedule, Stays
    <3>3. QED
      BY <1>3, <2>2, <2>3, <3>1, <3>2 DEF InTick, InLoop
  <2>6. CASE Returns(s, u) /\ Rests(node', d, Timer!Scheduled(r.list, s.e, s.ticks, s.mode))
    <3>1. /\ u.pc = "cancel" /\ u.back = "idle" /\ u.head = s.head /\ u.call = s.call
          /\ Locals(u)
      BY <1>1, <1>3, <2>6 DEF Returns, Rearming, Locals
    <3>2. Timer!Scheduled(r.list, s.e, s.ticks, s.mode) = Rearmed(r.list)
      BY <1>3 DEF Rearming, Rearmed
    <3>3. AtCancel(node', u, fired', d, r)
      BY <1>3, <2>3, <2>4, <2>6, <3>1, <3>2 DEF Rearming, AtCancel
    <3>4. QED
      BY <1>1, <1>3, <2>2, <2>3, <3>1, <3>3 DEF InTick, InLoop
  <2>7. QED
    BY <2>2, <2>5, <2>6 DEF ScheduleTo
<1>4. ASSUME NEW i, NEW r, Looping(D, i, r), Cancelling(node, s, fired, c, r)
      PROVE  /\ fired' = fired /\ node' \in Nodes
             /\ \E u, d : /\ Moves(p, u) /\ Locals(u) /\ u.pc # "idle"
                          /\ InTick(node', u, D, fired', d)
  <2>1. InCancel(node, s, Rearmed(r.list), c)
    BY <1>4 DEF Cancelling
  <2>2. PICK u, d : Moves(p, u) /\ CancelTo(s, Rearmed(r.list), node', u, d)
    BY <1>1, <2>1, CancelGoes
  <2>3. fired' = fired /\ node' \in Nodes
    BY <1>1, <2>1, <2>2, CancelGoes DEF CancelTo
  <2>4. CASE Stays(s, u) /\ InCancel(node', u, Rearmed(r.list), d)
    <3>1. Cancelling(node', u, fired', d, r)
      BY <1>4, <2>3, <2>4 DEF Cancelling, Stays
    <3>2. u.pc # "idle" /\ u.call = <<"Tick">> /\ Locals(u)
      BY <1>1, <2>4 DEF InCancel, Stays
    <3>3. QED
      BY <1>4, <2>2, <2>3, <3>1, <3>2 DEF InTick, InLoop
  <2>5. CASE Returns(s, u) /\ Rests(node', d, Timer!Cancelled(Rearmed(r.list), s.e))
    <3>1. u.pc = "again" /\ u.back = "idle" /\ u.call = s.call /\ Locals(u)
      BY <1>1, <1>4, <2>5 DEF Returns, Cancelling, Locals
    <3>2. Looping(D, i + 1, Turned(r))
      BY <1>4, LoopStep DEF Cancelling
    <3>3. AtAgain(node', u, fired', d, Turned(r))
      BY <1>4, <2>3, <2>5, <3>1 DEF Cancelling, AtAgain, Turned
    <3>4. QED
      BY <1>1, <2>2, <2>3, <3>1, <3>2, <3>3 DEF InTick, InLoop
  <2>6. QED
    BY <2>2, <2>4, <2>5 DEF CancelTo
<1>5. s.pc \notin {"event", "cancel", "again"}
  BY DEF Statement, At, Alloc, Fill, Walk, Link1, Link2, Seek, Merge, Unlink, Free, Leave
<1>6. CASE InLoop(node, s, D, fired, c)
  <2>1. PICK i, r : Looping(D, i, r) /\ (Rearming(node, s, fired, c, r) \/ Cancelling(node, s, fired, c, r))
    BY <1>5, <1>6 DEF InLoop, AtEvent, AtCancel, AtAgain
  <2>2. QED
    BY <1>3, <1>4, <2>1
<1>7. QED
  BY <1>2, <1>6 DEF InTick

\* The other statements of ProcessTimers.
LEMMA LoopGoes ==
  ASSUME Threads, node \in Nodes, NEW D, NEW c, InTick(node, th["timer"], D, fired, c),
         FireEvent \/ CancelHead \/ Again
  PROVE  /\ node' \in Nodes
         /\ \E u : /\ Moves("timer", u) /\ Locals(u) /\ u.pc # "idle"
                   /\ InTick(node', u, D, fired', c)
<1> DEFINE s == th["timer"]
<1>1. "timer" \in Thread /\ Locals(s) /\ s.call = <<"Tick">>
  BY DEF Thread, Threads, InTick
<1>2. CASE FireEvent
  <2>1. s.pc = "event" /\ node' = node
    BY <1>2 DEF FireEvent, At
  <2>2. PICK i, r : Looping(D, i, r) /\ AtEvent(node, s, fired, c, r)
    BY <2>1 DEF InTick, InLoop, AtLeave, Rearming, InSchedule, AtCancel, Cancelling, InCancel, AtAgain
  <2> DEFINE l == r.list
             t == node[s.head]
  <2>3. /\ HeadExpired(l) /\ Rests(node, c, l) /\ s.head = c[1] /\ fired = r.fired
        /\ s.back = "idle"
    BY <2>2 DEF AtEvent
  <2>4. /\ c[1] \in On(c) /\ l \in Seq(Entry) /\ l[1] = View(node, c[1])
    BY <2>3, HeadIs DEF HeadExpired, Rests, Shows
  <2>5. /\ t.pThis = l[1].pThis /\ t.wPeriod = l[1].wPeriod /\ t.Flags = l[1].Flags
    BY <2>3, <2>4 DEF View
  <2>6. /\ Rearmed(l) \in Seq(Entry) /\ l[1].pThis \in Event
        /\ l[1].wPeriod \in Nat \ {0} /\ l[1].Flags \in Timer!Mode
    BY <2>2, <2>3, LoopStep
  <2>7. fired' = Counted(r)
    <3>1. t.pThis # NoEvent
      BY <2>5, <2>6, NoEventAssumption
    <3>2. QED
      BY <1>2, <2>3, <2>5, <3>1 DEF FireEvent, Counted
  <2>8. CASE l[1].Flags = "PERIODIC"
    <3> DEFINE u == [s EXCEPT !.pc = "alloc", !.back = "cancel", !.e = t.pThis,
                              !.ticks = t.wPeriod, !.mode = t.Flags]
    <3>1. Goto("timer", u)
      BY <1>2, <2>5, <2>8 DEF FireEvent
    <3>2. /\ u.pc = "alloc" /\ u.back = "cancel" /\ u.e = t.pThis /\ u.ticks = t.wPeriod
          /\ u.mode = t.Flags /\ u.head = s.head /\ u.call = s.call /\ Locals(u)
      <4> DEFINE e == t.pThis
                 ticks == t.wPeriod
                 mode == t.Flags
      <4>1. u = [s EXCEPT !.pc = "alloc", !.back = "cancel", !.e = e, !.ticks = ticks, !.mode = mode]
        OBVIOUS
      <4>2. Locals(s)
        BY <1>1
      <4> HIDE DEF e, ticks, mode, t, s, u
      <4>3. u = [pc |-> "alloc", back |-> "cancel", e |-> e, ticks |-> ticks, mode |-> mode,
                 t |-> s.t, tp |-> s.tp, head |-> s.head, call |-> s.call]
        BY <4>1, <4>2 DEF Locals
      <4>4. QED
        BY <4>3 DEF Locals, e, ticks, mode
    <3> HIDE DEF u, t, l
    <3>3. InSchedule(node, u, l, c)
      BY <2>3, <2>4, <2>5, <2>6, <3>2 DEF InSchedule
    <3>4. Rearming(node', u, fired', c, r)
      BY <2>1, <2>3, <2>4, <2>5, <2>7, <2>8, <3>2, <3>3 DEF Rearming, l, t
    <3>5. QED
      BY <1>1, <2>1, <2>2, <3>1, <3>2, <3>4, GotoMoves DEF InTick, InLoop
  <2>9. CASE l[1].Flags # "PERIODIC"
    <3> DEFINE u == [s EXCEPT !.pc = "cancel"]
    <3>1. Goto("timer", u)
      BY <1>2, <2>5, <2>9 DEF FireEvent
    <3>2. /\ u.pc = "cancel" /\ u.back = s.back /\ u.head = s.head /\ u.call = s.call /\ Locals(u)
      BY <1>1 DEF Locals
    <3>3. Rearmed(l) = l
      BY <2>9 DEF Rearmed
    <3> HIDE DEF u
    <3>4. AtCancel(node', u, fired', c, r)
      BY <2>1, <2>3, <2>5, <2>7, <3>2, <3>3 DEF AtCancel
    <3>5. QED
      BY <1>1, <2>1, <2>2, <3>1, <3>2, <3>4, GotoMoves DEF InTick, InLoop
  <2>10. QED
    BY <2>8, <2>9
<1>3. CASE CancelHead
  <2>1. s.pc = "cancel" /\ node' = node /\ fired' = fired
    BY <1>3 DEF CancelHead, At
  <2>2. PICK i, r : Looping(D, i, r) /\ AtCancel(node, s, fired, c, r)
    BY <2>1 DEF InTick, InLoop, AtLeave, Rearming, InSchedule, AtEvent, Cancelling, InCancel, AtAgain
  <2>3. /\ HeadExpired(r.list) /\ Rests(node, c, Rearmed(r.list)) /\ fired = Counted(r)
        /\ node[s.head].pThis = r.list[1].pThis
    BY <2>2 DEF AtCancel
  <2>4. Rearmed(r.list) \in Seq(Entry) /\ r.list[1].pThis \in Event
    BY <2>2, <2>3, LoopStep
  <2> DEFINE u == [s EXCEPT !.pc = "seek", !.back = "again", !.tp = Last, !.e = node[s.head].pThis]
  <2>5. Goto("timer", u)
    BY <1>3 DEF CancelHead
  <2>6. /\ u.pc = "seek" /\ u.back = "again" /\ u.tp = Last /\ u.e = r.list[1].pThis
        /\ u.call = s.call /\ Locals(u)
    <3> DEFINE e == node[s.head].pThis
    <3>1. u = [s EXCEPT !.pc = "seek", !.back = "again", !.tp = Last, !.e = e]
      OBVIOUS
    <3>2. s.call = <<"Tick">> /\ Locals(s) /\ e = r.list[1].pThis
      BY <1>1, <2>3
    <3> HIDE DEF e, s, u
    <3>3. u = [pc |-> "seek", back |-> "again", e |-> e, ticks |-> s.ticks, mode |-> s.mode,
               t |-> s.t, tp |-> Last, head |-> s.head, call |-> s.call]
      BY <3>1, <3>2 DEF Locals
    <3>4. QED
      BY <3>2, <3>3 DEF Locals
  <2> HIDE DEF u
  <2>7. InCancel(node, u, Rearmed(r.list), c)
    <3>1. \E k \in 0..Len(c) : u.tp = Place(c, k) /\ \A j \in 1..k : Rearmed(r.list)[j].pThis # u.e
      <4>1. 0 \in 0..Len(c) /\ u.tp = Place(c, 0) /\ \A j \in 1..0 : FALSE
        BY <2>3, <2>6, OnLinks DEF Place, Rests
      <4>2. QED
        BY <4>1
    <3>2. QED
      BY <2>3, <2>4, <2>6, <3>1 DEF InCancel
  <2>8. Cancelling(node', u, fired', c, r)
    BY <2>1, <2>3, <2>6, <2>7 DEF Cancelling
  <2>9. QED
    BY <1>1, <2>1, <2>2, <2>5, <2>6, <2>8, GotoMoves DEF InTick, InLoop
<1>4. CASE Again
  <2>1. s.pc = "again" /\ node' = node /\ fired' = fired
    BY <1>4 DEF Again, At
  <2>2. PICK i, r : Looping(D, i, r) /\ AtAgain(node, s, fired, c, r)
    BY <2>1 DEF InTick, InLoop, AtLeave, Rearming, InSchedule, AtEvent, Cancelling, InCancel, AtCancel
  <2>3. Rests(node, c, r.list) /\ fired = r.fired /\ s.back = "idle"
    BY <2>2 DEF AtAgain
  <2> DEFINE head == node[Last].Next
             expired == head # Null /\ node[head].wDelta = 0
             u == [s EXCEPT !.pc = IF expired THEN "event" ELSE "leave", !.head = head]
  <2>4. Goto("timer", u)
    BY <1>4 DEF Again
  <2>5. /\ u.pc = (IF expired THEN "event" ELSE "leave") /\ u.back = "idle" /\ u.head = head
        /\ u.call = s.call /\ Locals(u)
    <3> DEFINE pc == IF expired THEN "event" ELSE "leave"
    <3>1. u = [s EXCEPT !.pc = pc, !.head = head]
      OBVIOUS
    <3> HIDE DEF head, expired, pc, s, u
    <3>2. u = [pc |-> pc, back |-> s.back, e |-> s.e, ticks |-> s.ticks, mode |-> s.mode,
               t |-> s.t, tp |-> s.tp, head |-> head, call |-> s.call]
      BY <1>1, <3>1 DEF Locals
    <3>3. QED
      BY <2>3, <3>2 DEF Locals, pc
  <2>6. expired <=> HeadExpired(r.list)
    <3>1. /\ r.list = <<>> <=> head = Null
          /\ r.list # <<>> => head = c[1] /\ r.list[1] = View(node, c[1])
      BY <2>3, HeadIs
    <3>2. r.list # <<>> => r.list[1].wDelta = node[head].wDelta
      BY <3>1 DEF View
    <3> HIDE DEF head
    <3>3. QED
      BY <3>1, <3>2 DEF HeadExpired
  <2>7. CASE expired
    <3>1. head = c[1]
      BY <2>3, <2>6, <2>7, HeadIs DEF HeadExpired
    <3> HIDE DEF u, head
    <3>2. AtEvent(node', u, fired', c, r)
      BY <2>1, <2>3, <2>5, <2>6, <2>7, <3>1 DEF AtEvent
    <3>3. QED
      BY <1>1, <2>1, <2>2, <2>4, <2>5, <2>7, <3>2, GotoMoves DEF InTick, InLoop
  <2>8. CASE ~expired
    <3>1. Ticked(D) = r
      BY <2>2, <2>6, <2>8, LoopEnds
    <3> HIDE DEF u, head
    <3>2. AtLeave(node', u, D, fired', c)
      BY <2>1, <2>3, <2>5, <2>8, <3>1 DEF AtLeave
    <3>3. QED
      BY <1>1, <2>1, <2>4, <2>5, <2>8, <3>2, GotoMoves DEF InTick
  <2>9. QED
    BY <2>7, <2>8
<1>5. QED
  BY <1>2, <1>3, <1>4

\* ProcessTimers starts.
LEMMA TickStarts ==
  ASSUME Threads, node \in Nodes, NEW D, NEW c, Rests(node, c, D), StartTick
  PROVE  /\ node' \in Nodes
         /\ \E u : Moves("timer", u) /\ Locals(u) /\ InTick(node', u, D, fired', c)
<1> DEFINE head == node[Last].Next
           expired == head # Null /\ node[head].wDelta <= 1
           v == IF expired THEN 0 ELSE node[head].wDelta - 1
           u == [Idle EXCEPT !.pc = IF expired THEN "event" ELSE "leave",
                             !.head = head, !.call = <<"Tick">>]
<1>1. Moves("timer", u) /\ fired' = NoneFired
  <2>1. Goto("timer", u) /\ fired' = NoneFired /\ "timer" \in Thread
    BY DEF StartTick, Thread
  <2> HIDE DEF u
  <2>2. QED
    BY <2>1, GotoMoves
<1>2. /\ u.pc = (IF expired THEN "event" ELSE "leave") /\ u.back = "idle" /\ u.head = head
      /\ u.call = <<"Tick">> /\ Locals(u)
  <2> DEFINE pc == IF expired THEN "event" ELSE "leave"
             call == <<"Tick">>
  <2>1. u = [Idle EXCEPT !.pc = pc, !.head = head, !.call = call]
    OBVIOUS
  <2> HIDE DEF head, expired, pc, call, u
  <2>2. u = [pc |-> pc, back |-> "idle", e |-> NoEvent, ticks |-> 0, mode |-> "SINGLE",
             t |-> Null, tp |-> Last, head |-> head, call |-> call]
    BY <2>1 DEF Idle
  <2>3. QED
    BY <2>2 DEF Locals, pc, call
<1>3. /\ D \in Seq(Entry) /\ (D = <<>> <=> head = Null)
      /\ D # <<>> => /\ head = c[1] /\ c[1] \in 0..MaxEvents /\ c[1] \in On(c) /\ 1 \in 1..Len(D)
                     /\ D[1] \in Entry /\ D[1] = View(node, c[1])
  BY HeadIs DEF Rests, Shows
<1>4. D # <<>> => node[head].wDelta = D[1].wDelta /\ D[1].wDelta \in Nat
  BY <1>3 DEF View, Entry
<1>5. CASE D = <<>>
  <2>1. head = Null /\ node' = node
    BY <1>3, <1>5 DEF StartTick
  <2>2. Ticked(D).list = D /\ Ticked(D).fired = NoneFired
    BY <1>5 DEF Ticked
  <2> HIDE DEF u, head
  <2>3. AtLeave(node', u, D, fired', c)
    BY <1>1, <1>2, <2>1, <2>2 DEF AtLeave
  <2>4. QED
    BY <1>1, <1>2, <2>1, <2>3 DEF InTick
<1>6. CASE D # <<>>
  <2>1. v \in Nat
    BY <1>3, <1>4, <1>6
  <2>2. node' = [node EXCEPT ![c[1]].wDelta = v]
    BY <1>3, <1>6 DEF StartTick
  <2>3. DeltaIs(node, c[1], v, node')
    <3> HIDE DEF v
    <3>1. DeltaIs(node, c[1], v, [node EXCEPT ![c[1]].wDelta = v])
      BY <1>3, <1>6, <2>1, DeltaSet
    <3>2. QED
      BY <2>2, <3>1
  <2>4. node' \in Nodes /\ Rests(node', c, [D EXCEPT ![1].wDelta = v])
    <3> HIDE DEF v
    <3>1. QED
      BY <1>6, <2>1, <2>3, HeadSet DEF DeltaIs
  <2>5. CASE expired
    <3> DEFINE r == Start(D)
    <3>1. r.list = [D EXCEPT ![1].wDelta = v] /\ r.fired = NoneFired
      BY <2>5 DEF Start
    <3>2. r.list \in Seq(Entry) /\ Len(r.list) <= MaxEvents /\ Len(r.list) \in Nat
      <4> HIDE DEF r, v
      <4>1. Shows(node', c, r.list)
        BY <2>4, <3>1 DEF Rests
      <4>2. Chained(node', c) /\ Len(r.list) = Len(c) /\ Len(c) \in Nat /\ r.list \in Seq(Entry)
        BY <4>1, OnLinks
      <4>3. QED
        BY <4>2, ChainFits
    <3>3. HeadExpired(r.list)
      <4>1. Len(D) = Len(r.list) /\ 1 \in 1..Len(D) /\ D[1] \in Entry /\ D[1] \in Entry
        BY <1>3, <1>6, <3>1
      <4>2. r.list[1] = [D[1] EXCEPT !.wDelta = 0]
        BY <1>3, <1>6, <2>5, <3>1
      <4>3. r.list[1].wDelta = 0
        BY <4>1, <4>2 DEF Entry
      <4> HIDE DEF r
      <4>4. r.list # <<>>
        BY <4>1
      <4>5. QED
        BY <4>3, <4>4 DEF HeadExpired
    <3>4. Looping(D, 0, r)
      <4>1. 0 \in 0..MaxEvents /\ MaxEvents \in Nat
        BY MaxEventsAssumption
      <4>2. D[1].wDelta <= 1
        BY <1>4, <1>6, <2>5
      <4>3. Turns(Start(D), 0, r)
        BY NoTurns
      <4> HIDE DEF r
      <4>4. \A k \in 1..Len(r.list) : 0 + k <= MaxEvents
        BY <3>2, <4>1
      <4>5. QED
        BY <1>6, <3>2, <4>1, <4>2, <4>3, <4>4 DEF Looping
    <3> HIDE DEF r, u, v
    <3>5. AtEvent(node', u, fired', c, r)
      BY <1>1, <1>2, <1>3, <1>6, <2>4, <2>5, <3>1, <3>3 DEF AtEvent
    <3>6. QED
      BY <1>1, <1>2, <2>4, <3>4, <3>5 DEF InTick, InLoop
  <2>6. CASE ~expired
    <3>1. Ticked(D) = [list |-> [D EXCEPT ![1].wDelta = v], fired |-> NoneFired]
      BY <1>3, <1>4, <1>6, <2>6 DEF Ticked
    <3> HIDE DEF u, v
    <3>2. AtLeave(node', u, D, fired', c)
      BY <1>1, <1>2, <2>4, <2>6, <3>1 DEF AtLeave
    <3>3. QED
      BY <1>1, <1>2, <2>4, <3>2 DEF InTick
  <2>7. QED
    BY <2>5, <2>6
<1>7. QED
  BY <1>5, <1>6

\* A caller's call starts.
LEMMA CallStarts ==
  ASSUME Threads, node \in Nodes, NEW D, NEW c, Rests(node, c, D),
         \/ \E e \in Event, ticks \in Ticks : StartSchedule(e, ticks)
         \/ \E e \in Event : StartCancel(e)
  PROVE  \E u : Moves("caller", u) /\ Locals(u) /\ InCall(node, u, D, c)
<1>1. "caller" \in Thread
  BY DEF Thread
<1>2. ASSUME NEW e \in Event, NEW ticks \in Ticks, StartSchedule(e, ticks)
      PROVE  \E u : Moves("caller", u) /\ Locals(u) /\ InCall(node, u, D, c)
  <2> DEFINE u == [Idle EXCEPT !.pc = "alloc", !.e = e, !.ticks = ticks, !.mode = ModeOf(e),
                               !.call = <<"Schedule", e, ticks, ModeOf(e)>>]
  <2>1. Goto("caller", u)
    BY <1>2 DEF StartSchedule
  <2>2. /\ u.pc = "alloc" /\ u.back = "idle" /\ u.e = e /\ u.ticks = ticks /\ u.mode = ModeOf(e)
        /\ u.call = <<"Schedule", e, ticks, ModeOf(e)>> /\ Locals(u)
    <3> DEFINE m == ModeOf(e)
               call == <<"Schedule", e, ticks, ModeOf(e)>>
    <3> HIDE DEF m, call
    <3>1. u = [Idle EXCEPT !.pc = "alloc", !.e = e, !.ticks = ticks, !.mode = m, !.call = call]
      BY DEF m, call
    <3> HIDE DEF u
    <3>2. /\ u.pc = "alloc" /\ u.back = "idle" /\ u.e = e /\ u.ticks = ticks /\ u.mode = m
          /\ u.call = call /\ Locals(u)
      BY <3>1 DEF Idle, Locals
    <3>3. QED
      BY <3>2 DEF m, call
  <2>3. ModeOf(e) \in Timer!Mode /\ ticks \in Nat \ {0}
    BY MaxTicksAssumption DEF ModeOf, Timer!Mode, Ticks
  <2> HIDE DEF u
  <2>4. InSchedule(node, u, D, c)
    BY <2>2, <2>3 DEF InSchedule, Rests, Shows
  <2>5. InCall(node, u, D, c)
    BY <2>2, <2>4 DEF InCall
  <2>6. QED
    BY <1>1, <2>1, <2>2, <2>5, GotoMoves
<1>3. ASSUME NEW e \in Event, StartCancel(e)
      PROVE  \E u : Moves("caller", u) /\ Locals(u) /\ InCall(node, u, D, c)
  <2> DEFINE u == [Idle EXCEPT !.pc = "seek", !.e = e, !.call = <<"Cancel", e>>]
  <2>1. Goto("caller", u)
    BY <1>3 DEF StartCancel
  <2>2. /\ u.pc = "seek" /\ u.back = "idle" /\ u.e = e /\ u.tp = Last
        /\ u.call = <<"Cancel", e>> /\ Locals(u)
    <3> DEFINE call == <<"Cancel", e>>
    <3> HIDE DEF call
    <3>1. u = [Idle EXCEPT !.pc = "seek", !.e = e, !.call = call]
      BY DEF call
    <3> HIDE DEF u
    <3>2. /\ u.pc = "seek" /\ u.back = "idle" /\ u.e = e /\ u.tp = Last /\ u.call = call
          /\ Locals(u)
      BY <3>1 DEF Idle, Locals
    <3>3. QED
      BY <3>2 DEF call
  <2> HIDE DEF u
  <2>3. InCancel(node, u, D, c)
    <3>1. \E k \in 0..Len(c) : u.tp = Place(c, k) /\ \A j \in 1..k : D[j].pThis # u.e
      <4>1. 0 \in 0..Len(c) /\ u.tp = Place(c, 0) /\ \A j \in 1..0 : FALSE
        BY <2>2, OnLinks DEF Place, Rests
      <4>2. QED
        BY <4>1
    <3>2. QED
      BY <2>2, <3>1 DEF InCancel, Rests, Shows
  <2>4. InCall(node, u, D, c)
    BY <2>2, <2>3 DEF InCall
  <2>5. QED
    BY <1>1, <2>1, <2>2, <2>4, GotoMoves
<1>4. QED
  BY <1>2, <1>3

-----------------------------------------------------------------------------
(* Every step.                                                              *)

\* Between calls the list is the one that the last call left; during a call that list is what
\* the call started from, and its statement says how far it is.
IInv == /\ node \in Nodes /\ Threads
        /\ \E c : \/ /\ th["timer"].pc = "idle" /\ th["caller"].pc = "idle"
                     /\ Rests(node, c, done.list)
                  \/ /\ th["timer"].pc = "idle" /\ th["caller"].pc # "idle"
                     /\ InCall(node, th["caller"], done.list, c)
                  \/ /\ th["caller"].pc = "idle" /\ th["timer"].pc # "idle"
                     /\ InTick(node, th["timer"], done.list, fired, c)

\* When thread p moves, the other one is where it was.
LEMMA MovesKeep ==
  ASSUME Threads, NEW u, Locals(u)
  PROVE  /\ Moves("timer", u) =>
              Threads' /\ th'["timer"] = u /\ th'["caller"] = th["caller"]
         /\ Moves("caller", u) =>
              Threads' /\ th'["caller"] = u /\ th'["timer"] = th["timer"]
<1>1. ASSUME NEW p \in Thread, Moves(p, u) PROVE Threads'
  <2>1. \A q \in Thread : th'[q] = u \/ th'[q] = th[q]
    BY <1>1 DEF Moves
  <2>2. \A q \in Thread : Locals(th'[q])
    BY <2>1 DEF Threads
  <2>3. QED
    BY <1>1, <2>2 DEF Threads, Moves
<1>2. "timer" \in Thread /\ "caller" \in Thread /\ "timer" # "caller"
  BY DEF Thread
<1>3. QED
  BY <1>1, <1>2 DEF Moves

\* There are two threads.
LEMMA OtherIs == Other("timer") = "caller" /\ Other("caller") = "timer"
BY DEF Other, Thread

\* Initially no call is under way and the list is empty.
LEMMA InitInv == Init => IInv /\ Timer!Init
<1> SUFFICES ASSUME Init PROVE IInv /\ Timer!Init
  OBVIOUS
<1>1. node \in Nodes
  <2>1. Unused \in Node
    BY MaxEventsAssumption DEF Unused, Node, Null, Timer!Mode
  <2>2. QED
    BY <2>1 DEF Init, Nodes
<1>2. Threads /\ th["timer"].pc = "idle" /\ th["caller"].pc = "idle"
  BY DEF Init, Threads, Locals, Thread, Idle
<1>3. done.list = <<>> /\ done.fired = NoneFired /\ done.call = <<"none">>
  BY DEF Init
<1>4. Rests(node, <<>>, <<>>)
  <2>1. <<>> \in Seq(Links) /\ <<>> \in Seq(Entry) /\ Len(<<>>) = 0
    BY EmptySeq
  <2>2. \A l \in 0..MaxEvents : node[l].Next = Null /\ node[l].pThis = NoEvent
    BY DEF Init, Unused
  <2>3. 0 \in 0..MaxEvents /\ Links \subseteq 0..MaxEvents
    BY MaxEventsAssumption DEF Links
  <2>4. \A k \in 0..0 : node[Place(<<>>, k)].Next = Behind(<<>>, k)
    BY <2>1, <2>2, <2>3 DEF Place, Behind, Last
  <2>5. Chained(node, <<>>)
    BY <2>1, <2>4 DEF Chained
  <2>6. Taken(node) = {} /\ On(<<>>) = {}
    <3>1. Taken(node) = {}
      BY <2>2, <2>3 DEF Taken
    <3>2. 1..Len(<<>>) = {}
      BY <2>1
    <3>3. On(<<>>) = {}
      BY <3>2, Zenon DEF On
    <3>4. QED
      BY <3>1, <3>3
  <2>7. QED
    BY <2>1, <2>5, <2>6 DEF Rests, Shows
<1>5. Timer!Init
  BY <1>3 DEF Timer!Init, Timer!NoneFired, NoneFired
<1>6. QED
  BY <1>1, <1>2, <1>3, <1>4, <1>5 DEF IInv

\* When the last call returns, its record is the list that the nodes show.
LEMMA Recorded ==
  ASSUME NEW p, Record(p), NEW c, NEW B
  PROVE  /\ th'[p].pc # "idle" => done' = done
         /\ th'[p].pc = "idle" /\ Rests(node', c, B) =>
              /\ done'.list = B /\ done'.call = th[p].call
              /\ done'.fired = IF p = "timer" THEN fired ELSE NoneFired
<1>1. Rests(node', c, B) => Chain(node') = B
  BY ChainIs DEF Rests
<1>2. QED
  BY <1>1 DEF Record

\* A step of a caller's call.
LEMMA CallInv ==
  ASSUME IInv, Statement("caller"), Record("caller")
  PROVE  IInv' /\ (Timer!Next \/ UNCHANGED done)
<1>1. PICK c : /\ th["timer"].pc = "idle" /\ th["caller"].pc # "idle"
               /\ InCall(node, th["caller"], done.list, c)
  BY DEF IInv, Statement, At, Alloc, Fill, Walk, Link1, Link2, Seek, Merge, Unlink, Free, Leave
<1>2. Threads /\ node \in Nodes
  BY DEF IInv
<1> DEFINE D == done.list
           s == th["caller"]
<1>3. fired' = fired /\ node' \in Nodes
  BY <1>1, <1>2, CallGoes
<1>4. PICK u, d : /\ Moves("caller", u) /\ Locals(u)
                  /\ \/ u.pc # "idle" /\ InCall(node', u, D, d)
                     \/ u = Idle /\ CallDone(node', s, D, d)
  BY <1>1, <1>2, CallGoes
<1>5. Threads' /\ th'["caller"] = u /\ th'["timer"] = th["timer"]
  BY <1>2, <1>4, MovesKeep
<1>6. CASE u.pc # "idle" /\ InCall(node', u, D, d)
  <2>1. done' = done
    BY <1>5, <1>6, Recorded
  <2>2. QED
    BY <1>1, <1>3, <1>5, <1>6, <2>1 DEF IInv
<1>7. CASE u = Idle /\ CallDone(node', s, D, d)
  <2>1. u.pc = "idle"
    BY <1>7 DEF Idle
  <2>2. done'.call = s.call /\ done'.fired = Timer!NoneFired
    <3>1. done'.call = s.call /\ done'.fired = NoneFired
      BY <1>5, <2>1 DEF Record
    <3>2. QED
      BY <3>1 DEF NoneFired, Timer!NoneFired
  <2>3. CASE /\ s.e \in Event /\ s.ticks \in Ticks /\ s.mode \in Timer!Mode
             /\ s.call = <<"Schedule", s.e, s.ticks, s.mode>>
             /\ Rests(node', d, Timer!Scheduled(D, s.e, s.ticks, s.mode))
    <3>1. done'.list = Timer!Scheduled(D, s.e, s.ticks, s.mode)
      BY <1>5, <2>1, <2>3, Recorded
    <3>2. Timer!Schedule(s.e, s.ticks, s.mode)
      BY <2>2, <2>3, <3>1 DEF Timer!Schedule
    <3>3. Timer!Next
      BY <2>3, <3>2 DEF Timer!Next, Timer!Ticks, Ticks
    <3>4. IInv'
      BY <1>1, <1>3, <1>5, <2>1, <2>3, <3>1 DEF IInv
    <3>5. QED
      BY <3>3, <3>4
  <2>4. CASE /\ s.e \in Event /\ s.call = <<"Cancel", s.e>>
             /\ Rests(node', d, Timer!Cancelled(D, s.e))
    <3>1. done'.list = Timer!Cancelled(D, s.e)
      BY <1>5, <2>1, <2>4, Recorded
    <3>2. Timer!Cancel(s.e)
      BY <2>2, <2>4, <3>1 DEF Timer!Cancel
    <3>3. Timer!Next
      BY <2>4, <3>2 DEF Timer!Next
    <3>4. IInv'
      BY <1>1, <1>3, <1>5, <2>1, <2>4, <3>1 DEF IInv
    <3>5. QED
      BY <3>3, <3>4
  <2>5. QED
    BY <1>7, <2>3, <2>4 DEF CallDone
<1>8. QED
  BY <1>4, <1>6, <1>7

\* A step of ProcessTimers.
LEMMA TickInv ==
  ASSUME IInv, Statement("timer") \/ FireEvent \/ CancelHead \/ Again, Record("timer")
  PROVE  IInv' /\ (Timer!Next \/ UNCHANGED done)
<1>1. PICK c : /\ th["caller"].pc = "idle" /\ th["timer"].pc # "idle"
               /\ InTick(node, th["timer"], done.list, fired, c)
  BY DEF IInv, Statement, At, Alloc, Fill, Walk, Link1, Link2, Seek, Merge, Unlink, Free, Leave,
         FireEvent, CancelHead, Again
<1>2. Threads /\ node \in Nodes
  BY DEF IInv
<1> DEFINE D == done.list
           s == th["timer"]
<1>3. node' \in Nodes
  BY <1>1, <1>2, TickGoes, LoopGoes
<1>4. PICK u, d : /\ Moves("timer", u) /\ Locals(u)
                  /\ \/ u.pc # "idle" /\ InTick(node', u, D, fired', d)
                     \/ /\ u = Idle /\ Rests(node', d, Ticked(D).list)
                        /\ fired' = Ticked(D).fired /\ fired' = fired
  <2>1. CASE Statement("timer")
    BY <1>1, <1>2, <2>1, TickGoes
  <2>2. CASE FireEvent \/ CancelHead \/ Again
    BY <1>1, <1>2, <2>2, LoopGoes
  <2>3. QED
    BY <2>1, <2>2
<1>5. Threads' /\ th'["timer"] = u /\ th'["caller"] = th["caller"]
  BY <1>2, <1>4, MovesKeep
<1>6. CASE u.pc # "idle" /\ InTick(node', u, D, fired', d)
  <2>1. done' = done
    BY <1>5, <1>6, Recorded
  <2>2. QED
    BY <1>1, <1>3, <1>5, <1>6, <2>1 DEF IInv
<1>7. CASE /\ u = Idle /\ Rests(node', d, Ticked(D).list)
           /\ fired' = Ticked(D).fired /\ fired' = fired
  <2>1. u.pc = "idle"
    BY <1>7 DEF Idle
  <2>2. done'.list = Ticked(D).list /\ done'.fired = Ticked(D).fired /\ done'.call = <<"Tick">>
    BY <1>1, <1>5, <1>7, <2>1, Recorded DEF InTick
  <2>3. Timer!ProcessTimers
    BY <2>2 DEF Timer!ProcessTimers, Ticked, Start, NoneFired, Timer!NoneFired
  <2>4. Timer!Next
    BY <2>3 DEF Timer!Next
  <2>5. IInv'
    BY <1>1, <1>3, <1>5, <1>7, <2>1, <2>2 DEF IInv
  <2>6. QED
    BY <2>4, <2>5
<1>8. QED
  BY <1>4, <1>6, <1>7

\* The start of a call, which on a device is when no other is under way.
LEMMA StartInv ==
  ASSUME ~Win32, IInv,
         \/ \E e \in Event, ticks \in Ticks : StartSchedule(e, ticks)
         \/ \E e \in Event : StartCancel(e)
         \/ StartTick
  PROVE  IInv' /\ done' = done
<1>1. th["timer"].pc = "idle" /\ th["caller"].pc = "idle" /\ done' = done
  BY OtherIs DEF StartSchedule, StartCancel, StartTick, MayStart
<1>2. PICK c : Rests(node, c, done.list)
  BY <1>1 DEF IInv
<1>3. Threads /\ node \in Nodes
  BY DEF IInv
<1>4. CASE StartTick
  <2>1. node' \in Nodes
    BY <1>2, <1>3, <1>4, TickStarts
  <2>2. PICK u : Moves("timer", u) /\ Locals(u) /\ InTick(node', u, done.list, fired', c)
    BY <1>2, <1>3, <1>4, TickStarts
  <2>3. u.pc # "idle"
    BY <2>2 DEF InTick, InLoop, AtEvent, Rearming, InSchedule, AtCancel, Cancelling, InCancel,
                AtAgain, AtLeave
  <2>4. Threads' /\ th'["timer"] = u /\ th'["caller"] = th["caller"]
    BY <1>3, <2>2, MovesKeep
  <2>5. QED
    BY <1>1, <2>1, <2>2, <2>3, <2>4 DEF IInv
<1>5. CASE \/ \E e \in Event, ticks \in Ticks : StartSchedule(e, ticks)
           \/ \E e \in Event : StartCancel(e)
  <2>1. node' = node /\ fired' = fired
    BY <1>5 DEF StartSchedule, StartCancel
  <2>2. PICK u : Moves("caller", u) /\ Locals(u) /\ InCall(node, u, done.list, c)
    BY <1>2, <1>3, <1>5, CallStarts
  <2>3. u.pc # "idle"
    BY <2>2 DEF InCall, InSchedule, InCancel
  <2>4. Threads' /\ th'["caller"] = u /\ th'["timer"] = th["timer"]
    BY <1>3, <2>2, MovesKeep
  <2>5. QED
    BY <1>1, <1>3, <2>1, <2>2, <2>3, <2>4 DEF IInv
<1>6. QED
  BY <1>4, <1>5

\* Every step keeps the invariant, and does to CTimer's list what one of its steps does or nothing.
LEMMA StepInv ==
  ASSUME ~Win32, IInv, [Next]_vars
  PROVE  IInv' /\ [Timer!Next]_(Timer!vars)
<1>1. done' = done => UNCHANGED Timer!vars
  BY DEF Timer!vars
<1>2. CASE \/ \E e \in Event, ticks \in Ticks : StartSchedule(e, ticks)
           \/ \E e \in Event : StartCancel(e)
           \/ StartTick
  BY <1>1, <1>2, StartInv
<1>3. ASSUME NEW p \in Thread, Statement(p), Record(p) PROVE IInv' /\ [Timer!Next]_(Timer!vars)
  <2>1. p = "timer" \/ p = "caller"
    BY DEF Thread
  <2>2. QED
    BY <1>1, <1>3, <2>1, CallInv, TickInv
<1>4. CASE (FireEvent \/ CancelHead \/ Again) /\ Record("timer")
  BY <1>1, <1>4, TickInv
<1>5. CASE UNCHANGED vars
  <2>1. IInv'
    BY <1>5 DEF IInv, vars, Threads
  <2>2. QED
    BY <1>1, <1>5, <2>1 DEF vars
<1>6. QED
  BY <1>2, <1>3, <1>4, <1>5 DEF Next

\* With no call under way the links that are taken are those in the list.
LEMMA IInvAccounts == IInv => LinksAccounted
<1> SUFFICES ASSUME IInv, \A p \in Thread : th[p].pc = "idle"
             PROVE  /\ Nth(node)[MaxEvents + 1] = Null
                    /\ {l \in Links : node[l].pThis # NoEvent} = {Nth(node)[k] : k \in Links} \ {Null}
  BY DEF LinksAccounted
<1>1. PICK c : Rests(node, c, done.list)
  BY DEF IInv, Thread
<1>2. /\ Chained(node, c) /\ Taken(node) = On(c) /\ Len(c) \in Nat /\ MaxEvents \in Nat
      /\ Len(c) <= MaxEvents
      /\ On(c) \subseteq Links /\ Links \subseteq 0..MaxEvents /\ Null \notin 0..MaxEvents
  BY <1>1, OnLinks, ChainFits DEF Rests
<1>3. \A k \in 0..(MaxEvents + 1) : Nth(node)[k] = IF k <= Len(c) THEN Place(c, k) ELSE Null
  BY <1>2, NthIs
<1>4. Nth(node)[MaxEvents + 1] = Null
  <2>1. MaxEvents + 1 \in 0..(MaxEvents + 1) /\ ~(MaxEvents + 1 <= Len(c))
    BY <1>2
  <2>2. QED
    BY <1>3, <2>1
<1>5. \A k \in Links : Nth(node)[k] = IF k <= Len(c) THEN c[k] ELSE Null
  <2>1. \A k \in Links : k \in 0..(MaxEvents + 1) /\ k # 0
    BY <1>2 DEF Links
  <2>2. QED
    BY <1>3, <2>1 DEF Place
<1>6. \A k \in Links : k <= Len(c) <=> k \in 1..Len(c)
  BY <1>2 DEF Links
<1>7. \A k \in 1..Len(c) : k \in Links
  BY <1>2 DEF Links
<1>8. {Nth(node)[k] : k \in Links} \ {Null} = On(c)
  <2>1. \A l \in On(c) : l # Null
    BY <1>2
  <2>2. \A k \in Links : Nth(node)[k] = Null \/ Nth(node)[k] \in On(c)
    BY <1>5, <1>6 DEF On
  <2>3. \A k \in 1..Len(c) : c[k] = Nth(node)[k]
    BY <1>5, <1>6, <1>7
  <2>4. \A l \in On(c) : \E k \in Links : l = Nth(node)[k]
    BY <1>7, <2>3 DEF On
  <2>5. QED
    BY <2>1, <2>2, <2>4
<1>9. QED
  BY <1>2, <1>4, <1>8 DEF Taken

-----------------------------------------------------------------------------

\* On a device, with interrupts off during each call, no link is lost to the pool of TIMER.CPP,
\* and none is in the list twice or free and in it.
THEOREM DeviceAccounts ==
  ASSUME ~Win32
  PROVE  Spec => []LinksAccounted
<1>1. Init => IInv
  BY InitInv
<1>2. IInv /\ [Next]_vars => IInv'
  BY StepInv
<1>3. IInv => LinksAccounted
  BY IInvAccounts
<1>4. QED
  BY <1>1, <1>2, <1>3, PTL DEF Spec

\* On a device the pointer code implements CTimer: each call does to the list what CTimer's step
\* says, and a tick calls the Event()s that CTimer's does, as often.
THEOREM DeviceImplements ==
  ASSUME ~Win32
  PROVE  Spec => TimerSpec
<1>1. Init => IInv /\ Timer!Init
  BY InitInv
<1>2. IInv /\ [Next]_vars => IInv' /\ [Timer!Next]_(Timer!vars)
  BY StepInv
<1>3. QED
  BY <1>1, <1>2, PTL DEF Spec, TimerSpec, Timer!Spec
=============================================================================

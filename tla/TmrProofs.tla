------------------------------ MODULE TmrProofs ------------------------------
(***************************************************************************)
(* Proofs about CTimer and Tmr for any events and timers, any size of the  *)
(* pool of links and delays of any length.                                 *)
(***************************************************************************)
EXTENDS Tmr, SequenceTheorems, SetInduction, TLAPS

-----------------------------------------------------------------------------
(* The ticks before a link.                                                 *)

\* What a link of a list holds.
LEMMA LinkType ==
  ASSUME NEW l \in Seq(Link), NEW k \in 1..Len(l)
  PROVE  /\ l[k] \in Link /\ l[k].wDelta \in Nat /\ l[k].wDelta <= MaxTicks
         /\ l[k].pThis \in Event /\ l[k].wPeriod \in Ticks /\ l[k].Flags \in Mode
<1>1. l[k] \in Link
  BY ElementOfSeq
<1>2. QED
  BY <1>1, MaxTicksAssumption DEF Link

\* The deltas of a list, and the ticks until its links expire, which are their sums.
Deltas(l) == [k \in 1..Len(l) |-> l[k].wDelta]
DueOf(l) == [k \in 0..Len(l) |-> Due(l, k)]

\* The times links are due are the sums of the deltas.
LEMMA DueSums ==
  ASSUME NEW l \in Seq(Link)
  PROVE  Deltas(l) \in [1..Len(l) -> Nat] /\ Sums(Len(l), Deltas(l), DueOf(l))
<1> DEFINE n == Len(l)
           w == Deltas(l)
           sum == CHOOSE g : g = [i \in 0..n |-> IF i = 0 THEN 0 ELSE g[i - 1] + l[i].wDelta]
<1>1. n \in Nat /\ \A i \in 0..n : i # 0 => i \in 1..n
  BY LenProperties
<1>2. w \in [1..n -> Nat] /\ \A i \in 1..n : w[i] = l[i].wDelta
  BY LinkType DEF Deltas
<1>3. PICK h : Sums(n, w, h)
  <2> HIDE DEF n, w
  <2>1. QED
    BY <1>1, <1>2, SumsExist
<1>4. h = [i \in 0..n |-> IF i = 0 THEN 0 ELSE h[i - 1] + l[i].wDelta]
  <2> HIDE DEF w
  <2>1. QED
    BY <1>1, <1>2, <1>3 DEF Sums
<1>5. sum = [i \in 0..n |-> IF i = 0 THEN 0 ELSE sum[i - 1] + l[i].wDelta]
  BY <1>4
<1>6. \A k : Due(l, k) = sum[k]
  BY DEF Due
<1> HIDE DEF sum
<1>7. DueOf(l) = sum
  <2>1. sum = [i \in 0..n |-> sum[i]]
    BY <1>5
  <2>2. QED
    BY <1>6, <2>1 DEF DueOf
<1>8. Sums(n, w, sum)
  <2> HIDE DEF w
  <2>1. QED
    BY <1>1, <1>2, <1>5 DEF Sums
<1>9. QED
  BY <1>2, <1>7, <1>8

\* The ticks until a link add up from link to link.
LEMMA DueAddsUp ==
  ASSUME NEW l \in Seq(Link)
  PROVE  /\ Due(l, 0) = 0
         /\ \A k \in 1..Len(l) : Due(l, k) = Due(l, k - 1) + l[k].wDelta
         /\ \A k \in 0..Len(l) : Due(l, k) \in Nat
<1>1. Len(l) \in Nat
  BY LenProperties
<1>2. /\ DueOf(l)[0] = 0
      /\ \A k \in 1..Len(l) : DueOf(l)[k] = DueOf(l)[k - 1] + Deltas(l)[k]
      /\ \A k \in 0..Len(l) : DueOf(l)[k] \in Nat
  BY <1>1, DueSums, SumsAddUp
<1>3. \A k \in 0..Len(l) : DueOf(l)[k] = Due(l, k)
  BY DEF DueOf
<1>4. \A k \in 1..Len(l) : Deltas(l)[k] = l[k].wDelta /\ k \in 0..Len(l) /\ k - 1 \in 0..Len(l)
  BY <1>1 DEF Deltas
<1>5. 0 \in 0..Len(l)
  BY <1>1
<1>6. QED
  BY <1>2, <1>3, <1>4, <1>5

\* The ticks are what adds up from link to link.
LEMMA DueIs ==
  ASSUME NEW l \in Seq(Link), NEW D, D[0] = 0,
         \A k \in 1..Len(l) : D[k] = D[k - 1] + l[k].wDelta
  PROVE  \A k \in 0..Len(l) : Due(l, k) = D[k]
<1> DEFINE T == {k \in 0..Len(l) : Due(l, k) = D[k]}
<1>1. Len(l) \in Nat
  OBVIOUS
<1>2. 0 \in T
  BY <1>1, DueAddsUp
<1>3. ASSUME NEW i \in 0..(Len(l) - 1), i \in T
      PROVE  i + 1 \in T
  <2>1. i + 1 \in 1..Len(l) /\ i + 1 \in 0..Len(l) /\ (i + 1) - 1 = i
    BY <1>1
  <2>2. D[i + 1] = D[i] + l[i + 1].wDelta
    BY <2>1
  <2>3. Due(l, i + 1) = Due(l, i) + l[i + 1].wDelta
    BY <2>1, DueAddsUp
  <2>4. QED
    BY <1>3, <2>1, <2>2, <2>3
<1> HIDE DEF T
<1>4. 0..Len(l) \subseteq T
  BY <1>1, <1>2, <1>3, UpTo
<1>5. QED
  BY <1>4 DEF T

\* A link further on expires no earlier.
LEMMA DueGrows ==
  ASSUME NEW l \in Seq(Link), NEW k \in 0..Len(l), NEW j \in 0..k
  PROVE  Due(l, j) <= Due(l, k)
<1>1. Len(l) \in Nat
  BY LenProperties
<1>2. DueOf(l)[j] <= DueOf(l)[k]
  BY <1>1, DueSums, SumsGrow
<1>3. j \in 0..Len(l)
  BY <1>1
<1>4. QED
  BY <1>2, <1>3 DEF DueOf

\* The lists the program keeps.
Lists == {l \in Seq(Link) : Len(l) <= MaxEvents /\ Due(l, Len(l)) <= MaxTicks}

\* r is l with d behind the p-th link.
Inserted(l, r, p, d) ==
  /\ p \in 0..Len(l) /\ r \in Lists /\ Len(r) = Len(l) + 1
  /\ \A k \in 1..p : DeadlineOf(r, k) = DeadlineOf(l, k) /\ Due(l, k) <= d.left
  /\ DeadlineOf(r, p + 1) = d
  /\ \A k \in (p + 1)..Len(l) : DeadlineOf(r, k + 1) = DeadlineOf(l, k) /\ Due(l, k) > d.left

\* Schedule counts the links that expire no later than the new one: they are the first ones.
LEMMA Place ==
  ASSUME NEW l \in Lists, NEW ticks \in Ticks
  PROVE  LET p == Cardinality({k \in 1..Len(l) : Due(l, k) <= ticks})
         IN /\ p \in 0..Len(l) /\ Due(l, p) <= ticks
            /\ \A k \in 1..p : Due(l, k) <= ticks
            /\ \A k \in (p + 1)..Len(l) : Due(l, k) > ticks
<1> DEFINE S == {k \in 1..Len(l) : Due(l, k) <= ticks}
<1>1. l \in Seq(Link) /\ Len(l) \in Nat /\ ticks \in Nat /\ \A k \in 0..Len(l) : Due(l, k) \in Nat
  BY DueAddsUp, MaxTicksAssumption DEF Lists, Ticks
<1>2. \A i \in S : 1..i \subseteq S
  <2> SUFFICES ASSUME NEW i \in 1..Len(l), Due(l, i) <= ticks, NEW j \in 1..i
               PROVE  j \in 1..Len(l) /\ Due(l, j) <= ticks
    OBVIOUS
  <2>1. j \in 1..Len(l) /\ j \in 0..i /\ i \in 0..Len(l) /\ j \in 0..Len(l)
    BY <1>1
  <2>2. Due(l, j) <= Due(l, i)
    BY <1>1, <2>1, DueGrows
  <2>3. QED
    BY <1>1, <2>1, <2>2
<1>3. Cardinality(S) \in 0..Len(l) /\ S = 1..Cardinality(S)
  <2>1. S \subseteq 1..Len(l)
    OBVIOUS
  <2> HIDE DEF S
  <2>2. QED
    BY <1>1, <1>2, <2>1, InitialSegment
<1> DEFINE p == Cardinality(S)
<1>4. \A k \in 1..Len(l) : Due(l, k) <= ticks <=> k \in 1..p
  BY <1>3
<1>5. Due(l, p) <= ticks
  <2>1. CASE p = 0
    BY <1>1, <2>1, DueAddsUp
  <2>2. CASE p # 0
    <3> HIDE DEF p
    <3>1. p \in 1..p /\ p \in 1..Len(l)
      BY <1>1, <1>3, <2>2 DEF p
    <3>2. QED
      BY <1>4, <3>1 DEF p
  <2>3. QED
    BY <2>1, <2>2
<1>6. \A k \in (p + 1)..Len(l) : Due(l, k) > ticks
  <2> SUFFICES ASSUME NEW k \in (p + 1)..Len(l) PROVE Due(l, k) > ticks
    OBVIOUS
  <2> HIDE DEF p
  <2>1. k \in 1..Len(l) /\ k \notin 1..p /\ k \in 0..Len(l)
    BY <1>1, <1>3 DEF p
  <2>2. ~(Due(l, k) <= ticks)
    BY <1>4, <2>1 DEF p
  <2>3. QED
    BY <1>1, <2>1, <2>2
<1>7. \A k \in 1..p : Due(l, k) <= ticks
  BY <1>1, <1>3, <1>4
<1>8. QED
  BY <1>3, <1>5, <1>6, <1>7

\* Schedule into a list with room puts the new deadline behind those that are no later,
\* and moves none of the others.
LEMMA ScheduledInserts ==
  ASSUME NEW l \in Lists, Len(l) < MaxEvents, NEW e \in Event, NEW ticks \in Ticks, NEW mode \in Mode
  PROVE  \E p : Inserted(l, Scheduled(l, e, ticks, mode), p,
                         [event |-> e, left |-> ticks, period |-> ticks, mode |-> mode])
<1> DEFINE n == Len(l)
           p == Cardinality({k \in 1..Len(l) : Due(l, k) <= ticks})
           delta == ticks - Due(l, p)
           split == [k \in 1..n |-> IF k = p + 1 THEN [l[k] EXCEPT !.wDelta = @ - delta] ELSE l[k]]
           new == [pThis |-> e, wDelta |-> delta, wPeriod |-> ticks, Flags |-> mode]
           r == InsertAt(split, p + 1, new)
           D == [k \in 0..(n + 1) |->
                   IF k <= p THEN Due(l, k) ELSE IF k = p + 1 THEN ticks ELSE Due(l, k - 1)]
<1>1. /\ l \in Seq(Link) /\ n \in Nat /\ \A k \in 0..n : Due(l, k) \in Nat
      /\ \A k \in 1..n : Due(l, k) = Due(l, k - 1) + l[k].wDelta
      /\ Due(l, 0) = 0 /\ Due(l, n) <= MaxTicks
  BY DueAddsUp DEF Lists
<1>2. ticks \in Nat /\ ticks >= 1 /\ ticks <= MaxTicks /\ MaxTicks \in Nat
  BY MaxTicksAssumption DEF Ticks
<1>3. /\ p \in 0..n /\ Due(l, p) <= ticks
      /\ \A k \in 1..p : Due(l, k) <= ticks
      /\ \A k \in (p + 1)..n : Due(l, k) > ticks
  BY Place
<1>4. Scheduled(l, e, ticks, mode) = r
  BY <1>1, MaxEventsAssumption DEF Scheduled
<1> HIDE DEF p
<1>5. delta \in 0..MaxTicks /\ delta = ticks - Due(l, p)
  BY <1>1, <1>2, <1>3
<1> HIDE DEF delta
<1>6. new \in Link /\ new.wDelta = delta /\ new.pThis = e /\ new.wPeriod = ticks /\ new.Flags = mode
  BY <1>5 DEF Link
<1> HIDE DEF new
<1>7. ASSUME NEW k \in 1..n
      PROVE  /\ split[k] \in Link
             /\ split[k].wDelta = IF k = p + 1 THEN l[k].wDelta - delta ELSE l[k].wDelta
             /\ split[k].pThis = l[k].pThis /\ split[k].wPeriod = l[k].wPeriod
             /\ split[k].Flags = l[k].Flags
  <2>1. /\ l[k] \in Link /\ l[k].wDelta \in Nat /\ l[k].wDelta <= MaxTicks
    BY <1>1, LinkType
  <2>2. CASE k = p + 1
    <3>1. Due(l, p + 1) > ticks /\ Due(l, p + 1) = Due(l, p) + l[p + 1].wDelta
      <4>1. p + 1 \in (p + 1)..n /\ p + 1 \in 1..n /\ (p + 1) - 1 = p
        BY <1>1, <1>3, <2>2
      <4>2. QED
        BY <1>1, <1>3, <4>1
    <3>2. l[k].wDelta - delta \in 0..MaxTicks
      BY <1>1, <1>2, <1>3, <1>5, <2>1, <2>2, <3>1
    <3>3. split[k] = [l[k] EXCEPT !.wDelta = l[k].wDelta - delta]
      BY <2>2
    <3> HIDE DEF split
    <3>4. QED
      BY <2>1, <2>2, <3>2, <3>3 DEF Link
  <2>3. CASE k # p + 1
    BY <2>1, <2>3
  <2>4. QED
    BY <2>2, <2>3
<1>8. split \in Seq(Link) /\ Len(split) = n
  <2>1. split = [k \in 1..n |-> split[k]]
    OBVIOUS
  <2> HIDE DEF split
  <2>2. split \in [1..n -> Link]
    BY <1>7, <2>1
  <2>3. QED
    BY <1>1, <2>2, FunctionIsSeq
<1> HIDE DEF split
<1>9. /\ r \in Seq(Link) /\ Len(r) = n + 1
      /\ \A j \in 1..p : r[j] = split[j]
      /\ r[p + 1] = new
      /\ \A j \in (p + 1)..n : r[j + 1] = split[j]
  <2>1. p + 1 \in 1..(Len(split) + 1) /\ (p + 1) - 1 = p
    BY <1>1, <1>3, <1>8
  <2>2. r = SubSeq(split, 1, (p + 1) - 1) \o <<new>> \o SubSeq(split, p + 1, Len(split))
    BY DEF InsertAt
  <2> DEFINE i == p + 1
  <2> HIDE DEF r, i
  <2>3. i \in 1..(Len(split) + 1)
    BY <2>1 DEF i
  <2>4. r = SubSeq(split, 1, i - 1) \o <<new>> \o SubSeq(split, i, Len(split))
    BY <2>2 DEF i
  <2>5. HasNew(Link, split, i, new, r)
    BY <1>6, <1>8, <2>3, <2>4, PutIn, Zenon
  <2>6. QED
    BY <1>8, <2>1, <2>5 DEF i, HasNew
<1> HIDE DEF r
<1>10. \A k \in 0..(n + 1) : Due(r, k) = D[k]
  <2>1. D[0] = 0
    BY <1>1, <1>3
  <2>2. ASSUME NEW k \in 1..(n + 1)
        PROVE  D[k] = D[k - 1] + r[k].wDelta
    <3>1. D[k] = (IF k <= p THEN Due(l, k) ELSE IF k = p + 1 THEN ticks ELSE Due(l, k - 1))
          /\ D[k - 1] = (IF k - 1 <= p THEN Due(l, k - 1) ELSE IF k - 1 = p + 1 THEN ticks ELSE Due(l, (k - 1) - 1))
      BY <1>1
    <3> HIDE DEF D
    <3>2. CASE k <= p
      <4>1. k \in 1..p /\ k \in 1..n /\ k # p + 1
        BY <1>1, <1>3, <3>2
      <4>2. r[k].wDelta = l[k].wDelta
        BY <1>7, <1>9, <4>1
      <4>3. QED
        BY <1>1, <1>3, <3>1, <3>2, <4>1, <4>2
    <3>3. CASE k = p + 1
      <4>1. r[k].wDelta = delta
        BY <1>6, <1>9, <3>3
      <4>2. D[k] = ticks /\ D[k - 1] = Due(l, p) /\ Due(l, p) \in Nat
        BY <1>1, <1>3, <3>1, <3>3
      <4>3. QED
        BY <1>2, <1>5, <4>1, <4>2
    <3>4. CASE k = p + 2
      <4>1. p + 1 \in 1..n /\ p + 1 \in (p + 1)..n /\ k = (p + 1) + 1 /\ (p + 1) - 1 = p
        BY <1>1, <1>3, <3>4
      <4>2. r[k].wDelta = l[p + 1].wDelta - delta
        BY <1>7, <1>9, <4>1
      <4>3. Due(l, p + 1) = Due(l, p) + l[p + 1].wDelta
        BY <1>1, <4>1
      <4>4. D[k] = Due(l, p + 1) /\ D[k - 1] = ticks
        BY <1>1, <1>3, <3>1, <3>4
      <4>5. Due(l, p) \in Nat /\ l[p + 1].wDelta \in Nat
        BY <1>1, <1>3, <4>1, LinkType
      <4>6. QED
        BY <1>2, <1>5, <4>2, <4>3, <4>4, <4>5
    <3>5. CASE k > p + 2
      <4>1. k - 1 \in 1..n /\ k - 1 \in (p + 1)..n /\ k = (k - 1) + 1 /\ k - 1 # p + 1
        BY <1>1, <1>3, <3>5
      <4>2. r[k] = split[k - 1]
        BY <1>9, <4>1
      <4>3. r[k].wDelta = l[k - 1].wDelta
        BY <1>7, <4>1, <4>2
      <4>4. Due(l, k - 1) = Due(l, (k - 1) - 1) + l[k - 1].wDelta
        BY <1>1, <4>1
      <4>5. D[k] = Due(l, k - 1) /\ D[k - 1] = Due(l, (k - 1) - 1)
        BY <1>1, <1>3, <3>1, <3>5
      <4>6. QED
        BY <4>3, <4>4, <4>5
    <3>6. QED
      BY <1>1, <1>3, <3>2, <3>3, <3>4, <3>5
  <2> HIDE DEF D
  <2>3. QED
    BY <1>9, <2>1, <2>2, DueIs
<1>11. r \in Lists
  <2>1. n + 1 \in 0..(n + 1) /\ ~(n + 1 <= p) /\ (n + 1) - 1 = n
    BY <1>1, <1>3
  <2>2. Due(r, n + 1) = IF n + 1 = p + 1 THEN ticks ELSE Due(l, n)
    BY <1>10, <2>1
  <2>3. Due(r, n + 1) <= MaxTicks
    BY <1>1, <1>2, <2>2
  <2>4. Len(r) <= MaxEvents
    BY <1>1, <1>9, MaxEventsAssumption
  <2>5. QED
    BY <1>9, <2>3, <2>4 DEF Lists
<1>12. \A k \in 1..p : DeadlineOf(r, k) = DeadlineOf(l, k)
  <2> SUFFICES ASSUME NEW k \in 1..p PROVE DeadlineOf(r, k) = DeadlineOf(l, k)
    OBVIOUS
  <2>1. k \in 1..n /\ k \in 0..(n + 1) /\ k <= p
    BY <1>1, <1>3
  <2>2. Due(r, k) = Due(l, k)
    BY <1>10, <2>1
  <2>3. r[k] = split[k]
    BY <1>9
  <2>4. QED
    BY <1>7, <2>1, <2>2, <2>3 DEF DeadlineOf
<1>13. \A k \in (p + 1)..n : DeadlineOf(r, k + 1) = DeadlineOf(l, k)
  <2> SUFFICES ASSUME NEW k \in (p + 1)..n PROVE DeadlineOf(r, k + 1) = DeadlineOf(l, k)
    OBVIOUS
  <2>1. k \in 1..n /\ k + 1 \in 0..(n + 1) /\ ~(k + 1 <= p) /\ k + 1 # p + 1 /\ (k + 1) - 1 = k
    BY <1>1, <1>3
  <2>2. Due(r, k + 1) = Due(l, k)
    BY <1>10, <2>1
  <2>3. r[k + 1] = split[k]
    BY <1>9
  <2>4. QED
    BY <1>7, <2>1, <2>2, <2>3 DEF DeadlineOf
<1>14. DeadlineOf(r, p + 1) = [event |-> e, left |-> ticks, period |-> ticks, mode |-> mode]
  <2>1. p + 1 \in 0..(n + 1) /\ ~(p + 1 <= p)
    BY <1>1, <1>3
  <2>2. Due(r, p + 1) = ticks
    BY <1>10, <2>1
  <2>3. QED
    BY <1>6, <1>9, <2>2 DEF DeadlineOf
<1>15. Inserted(l, r, p, [event |-> e, left |-> ticks, period |-> ticks, mode |-> mode])
  BY <1>3, <1>9, <1>11, <1>12, <1>13, <1>14 DEF Inserted
<1>16. QED
  BY <1>4, <1>15

\* r is l without the a-th link.
Removed(l, r, a) ==
  /\ a \in 1..Len(l) /\ r \in Lists /\ Len(r) = Len(l) - 1
  /\ \A k \in 1..(a - 1) : DeadlineOf(r, k) = DeadlineOf(l, k)
  /\ \A k \in (a + 1)..Len(l) : DeadlineOf(r, k - 1) = DeadlineOf(l, k)

\* Cancel takes the event's first link off, and moves none of the other deadlines.
LEMMA CancelledRemoves ==
  ASSUME NEW l \in Lists, NEW e \in Event, \E k \in 1..Len(l) : l[k].pThis = e
  PROVE  \E a : /\ Removed(l, Cancelled(l, e), a) /\ l[a].pThis = e
                /\ \A j \in 1..(a - 1) : l[j].pThis # e
<1> DEFINE n == Len(l)
           own == {k \in 1..n : l[k].pThis = e}
           at == CHOOSE k \in own : \A j \in own : k <= j
           merged == [k \in 1..n |-> IF k = at + 1 THEN [l[k] EXCEPT !.wDelta = @ + l[at].wDelta] ELSE l[k]]
           r == RemoveAt(merged, at)
           D == [k \in 0..(n - 1) |-> IF k < at THEN Due(l, k) ELSE Due(l, k + 1)]
<1>1. /\ l \in Seq(Link) /\ n \in Nat /\ \A k \in 0..n : Due(l, k) \in Nat
      /\ \A k \in 1..n : Due(l, k) = Due(l, k - 1) + l[k].wDelta
      /\ Due(l, 0) = 0 /\ Due(l, n) <= MaxTicks
  BY DueAddsUp DEF Lists
<1>2. own # {} /\ Cancelled(l, e) = r
  BY DEF Cancelled
<1>3. at \in own /\ \A j \in own : at <= j
  <2>1. own \subseteq Nat
    OBVIOUS
  <2> HIDE DEF own
  <2>2. \E k \in own : \A j \in own : k <= j
    BY <1>2, <2>1, LeastNat
  <2>3. QED
    BY <2>2
<1> HIDE DEF at
<1>4. at \in 1..n /\ l[at].pThis = e /\ \A j \in 1..(at - 1) : l[j].pThis # e
  <2>1. at \in 1..n /\ l[at].pThis = e
    BY <1>3
  <2>2. \A j \in 1..(at - 1) : j \in 1..n /\ ~(at <= j)
    BY <1>1, <2>1
  <2>3. QED
    BY <1>3, <2>1, <2>2
<1>5. MaxTicks \in Nat
  BY MaxTicksAssumption
<1>6. ASSUME NEW k \in 1..n
      PROVE  /\ merged[k] \in Link
             /\ merged[k].wDelta = IF k = at + 1 THEN l[k].wDelta + l[at].wDelta ELSE l[k].wDelta
             /\ merged[k].pThis = l[k].pThis /\ merged[k].wPeriod = l[k].wPeriod
             /\ merged[k].Flags = l[k].Flags
  <2>1. l[k] \in Link /\ l[k].wDelta \in Nat /\ l[at].wDelta \in Nat
    BY <1>1, <1>4, LinkType
  <2>2. CASE k = at + 1
    <3>1. at + 1 \in 0..n /\ at + 1 \in 1..n /\ (at + 1) - 1 = at /\ at - 1 \in 0..n
      <4>1. n \in Nat /\ at \in 1..n /\ at + 1 \in 1..n
        BY <1>1, <1>4, <2>2
      <4> HIDE DEF n
      <4>2. QED
        BY <4>1
    <3>2. Due(l, at + 1) <= Due(l, n)
      <4>1. n \in 0..n /\ at + 1 \in 0..n
        BY <1>1, <3>1
      <4>2. QED
        BY <1>1, <4>1, DueGrows
    <3>3. Due(l, at + 1) = Due(l, at) + l[k].wDelta /\ Due(l, at) = Due(l, at - 1) + l[at].wDelta
      BY <1>1, <1>4, <2>2, <3>1
    <3>4. l[k].wDelta + l[at].wDelta \in 0..MaxTicks
      <4>1. Due(l, at - 1) \in Nat /\ Due(l, at) \in Nat /\ Due(l, at + 1) \in Nat /\ Due(l, n) \in Nat
        BY <1>1, <1>4, <3>1
      <4>2. Due(l, at + 1) <= MaxTicks
        BY <1>1, <1>5, <3>2, <4>1
      <4>3. l[k].wDelta + l[at].wDelta <= MaxTicks
        <5>1. \A u, v, x, y, z \in Nat : x = z + u /\ y = x + v /\ y <= MaxTicks => v + u <= MaxTicks
          BY <1>5
        <5>2. QED
          BY <2>1, <3>3, <4>1, <4>2, <5>1
      <4>4. QED
        BY <1>5, <2>1, <4>3
    <3>5. merged[k] = [l[k] EXCEPT !.wDelta = l[k].wDelta + l[at].wDelta]
      BY <2>2
    <3> HIDE DEF merged
    <3>6. QED
      BY <2>1, <2>2, <3>4, <3>5 DEF Link
  <2>3. CASE k # at + 1
    BY <2>1, <2>3
  <2>4. QED
    BY <2>2, <2>3
<1>7. merged \in Seq(Link) /\ Len(merged) = n
  <2>1. merged = [k \in 1..n |-> merged[k]]
    OBVIOUS
  <2> HIDE DEF merged
  <2>2. merged \in [1..n -> Link]
    BY <1>6, <2>1
  <2>3. QED
    BY <1>1, <2>2, FunctionIsSeq
<1> HIDE DEF merged
<1>8. /\ r \in Seq(Link) /\ Len(r) = n - 1
      /\ \A j \in 1..(at - 1) : r[j] = merged[j]
      /\ \A j \in (at + 1)..n : r[j - 1] = merged[j]
  <2>1. at \in 1..Len(merged)
    BY <1>4, <1>7
  <2>2. r = SubSeq(merged, 1, at - 1) \o SubSeq(merged, at + 1, Len(merged))
    BY DEF RemoveAt
  <2> HIDE DEF r
  <2>3. Without(Link, merged, at, r)
    BY <1>7, <2>1, <2>2, TakenOut, Zenon
  <2>4. QED
    BY <1>7, <2>3 DEF Without
<1> HIDE DEF r
<1>9. \A k \in 0..(n - 1) : Due(r, k) = D[k]
  <2>1. D[0] = 0
    BY <1>1, <1>4
  <2>2. ASSUME NEW k \in 1..(n - 1)
        PROVE  D[k] = D[k - 1] + r[k].wDelta
    <3>1. D[k] = (IF k < at THEN Due(l, k) ELSE Due(l, k + 1))
          /\ D[k - 1] = (IF k - 1 < at THEN Due(l, k - 1) ELSE Due(l, k))
      <4>1. k \in 0..(n - 1) /\ k - 1 \in 0..(n - 1) /\ (k - 1) + 1 = k
        BY <1>1
      <4>2. QED
        BY <4>1
    <3> HIDE DEF D
    <3>2. CASE k < at
      <4>1. k \in 1..(at - 1) /\ k \in 1..n /\ k # at + 1 /\ k - 1 < at
        BY <1>1, <1>4, <3>2
      <4>2. r[k].wDelta = l[k].wDelta
        BY <1>6, <1>8, <4>1
      <4>3. QED
        BY <1>1, <3>1, <3>2, <4>1, <4>2
    <3>3. CASE k = at
      <4>1. at + 1 \in 1..n /\ at + 1 \in (at + 1)..n /\ k = (at + 1) - 1 /\ at - 1 \in 0..n /\ k - 1 < at
        BY <1>1, <1>4, <3>3
      <4>2. r[k].wDelta = l[at + 1].wDelta + l[at].wDelta
        <5>1. r[k] = merged[at + 1]
          BY <1>8, <4>1
        <5>2. QED
          BY <1>6, <4>1, <5>1
      <4>3. Due(l, at + 1) = Due(l, at) + l[at + 1].wDelta /\ Due(l, at) = Due(l, at - 1) + l[at].wDelta
        BY <1>1, <1>4, <3>3, <4>1
      <4>4. D[k] = Due(l, at + 1) /\ D[k - 1] = Due(l, at - 1)
        BY <3>1, <3>3, <4>1
      <4>5. Due(l, at - 1) \in Nat /\ l[at].wDelta \in Nat /\ l[at + 1].wDelta \in Nat
        BY <1>1, <1>4, <4>1, LinkType
      <4>6. QED
        BY <4>2, <4>3, <4>4, <4>5
    <3>4. CASE k > at
      <4>1. k + 1 \in 1..n /\ k + 1 \in (at + 1)..n /\ k = (k + 1) - 1 /\ k + 1 # at + 1
            /\ ~(k < at) /\ ~(k - 1 < at)
        BY <1>1, <1>4, <3>4
      <4>2. r[k] = merged[k + 1]
        BY <1>8, <4>1
      <4>3. r[k].wDelta = l[k + 1].wDelta
        BY <1>6, <4>1, <4>2
      <4>4. Due(l, k + 1) = Due(l, k) + l[k + 1].wDelta
        BY <1>1, <4>1
      <4>5. QED
        BY <3>1, <4>1, <4>3, <4>4
    <3>5. QED
      BY <1>1, <1>4, <3>2, <3>3, <3>4
  <2> HIDE DEF D
  <2>3. QED
    BY <1>8, <2>1, <2>2, DueIs
<1>10. \A k \in 1..(at - 1) : Due(r, k) = Due(l, k)
  <2>1. \A k \in 1..(at - 1) : k \in 0..(n - 1) /\ k < at
    BY <1>1, <1>4
  <2>2. QED
    BY <1>9, <2>1
<1>11. \A k \in (at + 1)..n : Due(r, k - 1) = Due(l, k)
  <2>1. \A k \in (at + 1)..n : k - 1 \in 0..(n - 1) /\ ~(k - 1 < at) /\ (k - 1) + 1 = k
    BY <1>1, <1>4
  <2>2. QED
    BY <1>9, <2>1
<1>12. r \in Lists
  <2>1. Due(r, n - 1) <= MaxTicks
    <3>1. CASE at = n
      <4>1. n - 1 \in 0..(n - 1) /\ n - 1 < at /\ n - 1 \in 0..n /\ n \in 1..n
        BY <1>1, <1>4, <3>1
      <4>2. Due(r, n - 1) = Due(l, n - 1) /\ Due(l, n) = Due(l, n - 1) + l[n].wDelta
        BY <1>1, <1>9, <4>1
      <4>3. Due(l, n - 1) \in Nat /\ l[n].wDelta \in Nat
        BY <1>1, <4>1, LinkType
      <4>4. QED
        BY <1>1, <1>5, <4>2, <4>3
    <3>2. CASE at # n
      <4>1. n \in (at + 1)..n
        BY <1>1, <1>4, <3>2
      <4>2. QED
        BY <1>1, <1>11, <4>1
    <3>3. QED
      BY <3>1, <3>2
  <2>2. Len(r) <= MaxEvents
    BY <1>1, <1>8, MaxEventsAssumption DEF Lists
  <2>3. QED
    BY <1>8, <2>1, <2>2 DEF Lists
<1>13. \A k \in 1..(at - 1) : DeadlineOf(r, k) = DeadlineOf(l, k)
  <2> SUFFICES ASSUME NEW k \in 1..(at - 1) PROVE DeadlineOf(r, k) = DeadlineOf(l, k)
    OBVIOUS
  <2>1. k \in 1..n /\ r[k] = merged[k]
    BY <1>1, <1>4, <1>8
  <2>2. QED
    BY <1>6, <1>10, <2>1 DEF DeadlineOf
<1>14. \A k \in (at + 1)..n : DeadlineOf(r, k - 1) = DeadlineOf(l, k)
  <2> SUFFICES ASSUME NEW k \in (at + 1)..n PROVE DeadlineOf(r, k - 1) = DeadlineOf(l, k)
    OBVIOUS
  <2>1. k \in 1..n /\ r[k - 1] = merged[k]
    BY <1>1, <1>4, <1>8
  <2>2. QED
    BY <1>6, <1>11, <2>1 DEF DeadlineOf
<1>15. Removed(l, r, at)
  BY <1>4, <1>8, <1>12, <1>13, <1>14 DEF Removed
<1>16. QED
  BY <1>2, <1>4, <1>15

-----------------------------------------------------------------------------
(* One event among the others.                                              *)

\* No link is e's; one is, a single one, which expires in d ticks.
Absent(l, e) == \A k \in 1..Len(l) : l[k].pThis # e
Alone(l, e, d) == \E k \in 1..Len(l) : /\ l[k].pThis = e /\ l[k].Flags = "SINGLE" /\ Due(l, k) = d
                                       /\ \A j \in 1..Len(l) : l[j].pThis = e => j = k

\* What a deadline says of its link.
LEMMA DeadlineFields ==
  ASSUME NEW l, NEW k
  PROVE  /\ DeadlineOf(l, k).event = l[k].pThis /\ DeadlineOf(l, k).left = Due(l, k)
         /\ DeadlineOf(l, k).period = l[k].wPeriod /\ DeadlineOf(l, k).mode = l[k].Flags
BY DEF DeadlineOf

\* What the links of a list stand for, when one is put in.
LEMMA InsertedLinks ==
  ASSUME NEW l \in Lists, NEW r, NEW p, NEW d, Inserted(l, r, p, d)
  PROVE  /\ Len(l) \in Nat /\ p \in 0..Len(l) /\ Len(r) = Len(l) + 1
         /\ \A k \in 1..p : /\ r[k].pThis = l[k].pThis /\ r[k].Flags = l[k].Flags
                            /\ Due(r, k) = Due(l, k) /\ Due(l, k) <= d.left
         /\ r[p + 1].pThis = d.event /\ r[p + 1].Flags = d.mode /\ Due(r, p + 1) = d.left
         /\ \A k \in (p + 1)..Len(l) : /\ r[k + 1].pThis = l[k].pThis /\ r[k + 1].Flags = l[k].Flags
                                       /\ Due(r, k + 1) = Due(l, k) /\ Due(l, k) > d.left
<1>1. Len(l) \in Nat
  BY DEF Lists
<1>2. p \in 0..Len(l) /\ Len(r) = Len(l) + 1
  BY DEF Inserted
<1>3. ASSUME NEW k \in 1..p
      PROVE  /\ r[k].pThis = l[k].pThis /\ r[k].Flags = l[k].Flags
             /\ Due(r, k) = Due(l, k) /\ Due(l, k) <= d.left
  <2>1. DeadlineOf(r, k) = DeadlineOf(l, k) /\ Due(l, k) <= d.left
    BY DEF Inserted
  <2>2. QED
    BY <2>1, DeadlineFields
<1>4. r[p + 1].pThis = d.event /\ r[p + 1].Flags = d.mode /\ Due(r, p + 1) = d.left
  <2>1. DeadlineOf(r, p + 1) = d
    BY DEF Inserted
  <2>2. QED
    BY <2>1, DeadlineFields
<1>5. ASSUME NEW k \in (p + 1)..Len(l)
      PROVE  /\ r[k + 1].pThis = l[k].pThis /\ r[k + 1].Flags = l[k].Flags
             /\ Due(r, k + 1) = Due(l, k) /\ Due(l, k) > d.left
  <2>1. DeadlineOf(r, k + 1) = DeadlineOf(l, k) /\ Due(l, k) > d.left
    BY DEF Inserted
  <2>2. QED
    BY <2>1, DeadlineFields
<1>6. QED
  BY <1>1, <1>2, <1>3, <1>4, <1>5

\* And when one is taken out.
LEMMA RemovedLinks ==
  ASSUME NEW l \in Lists, NEW r, NEW a, Removed(l, r, a)
  PROVE  /\ Len(l) \in Nat /\ a \in 1..Len(l) /\ Len(r) = Len(l) - 1
         /\ \A k \in 1..(a - 1) : /\ r[k].pThis = l[k].pThis /\ r[k].Flags = l[k].Flags
                                  /\ Due(r, k) = Due(l, k)
         /\ \A k \in (a + 1)..Len(l) : /\ r[k - 1].pThis = l[k].pThis /\ r[k - 1].Flags = l[k].Flags
                                       /\ Due(r, k - 1) = Due(l, k)
<1>1. Len(l) \in Nat
  BY DEF Lists
<1>2. a \in 1..Len(l) /\ Len(r) = Len(l) - 1
  BY DEF Removed
<1>3. ASSUME NEW k \in 1..(a - 1)
      PROVE  r[k].pThis = l[k].pThis /\ r[k].Flags = l[k].Flags /\ Due(r, k) = Due(l, k)
  <2>1. DeadlineOf(r, k) = DeadlineOf(l, k)
    BY DEF Removed
  <2>2. QED
    BY <2>1, DeadlineFields
<1>4. ASSUME NEW k \in (a + 1)..Len(l)
      PROVE  r[k - 1].pThis = l[k].pThis /\ r[k - 1].Flags = l[k].Flags /\ Due(r, k - 1) = Due(l, k)
  <2>1. DeadlineOf(r, k - 1) = DeadlineOf(l, k)
    BY DEF Removed
  <2>2. QED
    BY <2>1, DeadlineFields
<1>5. QED
  BY <1>1, <1>2, <1>3, <1>4

\* Scheduling another event leaves it where it is.
LEMMA OtherInserted ==
  ASSUME NEW l \in Lists, NEW r, NEW p, NEW d, Inserted(l, r, p, d), NEW e, d.event # e
  PROVE  /\ Absent(l, e) => Absent(r, e)
         /\ \A n : Alone(l, e, n) => Alone(r, e, n)
<1>1. ASSUME NEW j \in 1..Len(r), r[j].pThis = e
      PROVE  \E k \in 1..Len(l) : l[k].pThis = e /\ ((k <= p /\ j = k) \/ (k > p /\ j = k + 1))
  <2>1. j # p + 1
    BY <1>1, InsertedLinks
  <2>2. CASE j <= p
    <3>1. j \in 1..p /\ j \in 1..Len(l)
      BY <2>2, InsertedLinks
    <3>2. QED
      BY <1>1, <2>2, <3>1, InsertedLinks
  <2>3. CASE j > p
    <3>1. j - 1 \in (p + 1)..Len(l) /\ (j - 1) + 1 = j /\ j - 1 \in 1..Len(l) /\ j - 1 > p
      BY <2>1, <2>3, InsertedLinks
    <3>2. l[j - 1].pThis = e
      BY <1>1, <3>1, InsertedLinks
    <3>3. QED
      BY <3>1, <3>2
  <2>4. QED
    BY <2>2, <2>3, InsertedLinks
<1>2. Absent(l, e) => Absent(r, e)
  BY <1>1 DEF Absent
<1>3. ASSUME NEW n, Alone(l, e, n)
      PROVE  Alone(r, e, n)
  <2>1. PICK k \in 1..Len(l) : /\ l[k].pThis = e /\ l[k].Flags = "SINGLE" /\ Due(l, k) = n
                               /\ \A j \in 1..Len(l) : l[j].pThis = e => j = k
    BY <1>3 DEF Alone
  <2> DEFINE q == IF k <= p THEN k ELSE k + 1
  <2>2. q \in 1..Len(r)
    BY InsertedLinks
  <2>3. r[q].pThis = e /\ r[q].Flags = "SINGLE" /\ Due(r, q) = n
    <3>1. CASE k <= p
      BY <2>1, <3>1, InsertedLinks
    <3>2. CASE k > p
      <4>1. k \in (p + 1)..Len(l) /\ q = k + 1
        BY <3>2, InsertedLinks
      <4>2. QED
        BY <2>1, <4>1, InsertedLinks
    <3>3. QED
      BY <3>1, <3>2, InsertedLinks
  <2>4. \A j \in 1..Len(r) : r[j].pThis = e => j = q
    BY <1>1, <2>1, InsertedLinks
  <2>5. QED
    BY <2>2, <2>3, <2>4 DEF Alone
<1>4. QED
  BY <1>2, <1>3

\* So does taking out a link of another event; its own link leaves none.
LEMMA LinkRemoved ==
  ASSUME NEW l \in Lists, NEW r, NEW a, Removed(l, r, a), NEW e
  PROVE  /\ Absent(l, e) => Absent(r, e)
         /\ \A n : Alone(l, e, n) /\ l[a].pThis # e => Alone(r, e, n)
         /\ \A n : Alone(l, e, n) /\ l[a].pThis = e => Absent(r, e)
<1>1. ASSUME NEW j \in 1..Len(r), r[j].pThis = e
      PROVE  \E k \in 1..Len(l) : l[k].pThis = e /\ ((k < a /\ j = k) \/ (k > a /\ j = k - 1))
  <2>1. CASE j < a
    <3>1. j \in 1..(a - 1) /\ j \in 1..Len(l)
      BY <2>1, RemovedLinks
    <3>2. QED
      BY <1>1, <2>1, <3>1, RemovedLinks
  <2>2. CASE j >= a
    <3>1. j + 1 \in (a + 1)..Len(l) /\ (j + 1) - 1 = j /\ j + 1 \in 1..Len(l) /\ j + 1 > a
      BY <2>2, RemovedLinks
    <3>2. l[j + 1].pThis = e
      BY <1>1, <3>1, RemovedLinks
    <3>3. QED
      BY <3>1, <3>2
  <2>3. QED
    BY <2>1, <2>2, RemovedLinks
<1>2. Absent(l, e) => Absent(r, e)
  BY <1>1 DEF Absent
<1>3. ASSUME NEW n, Alone(l, e, n)
      PROVE  IF l[a].pThis = e THEN Absent(r, e) ELSE Alone(r, e, n)
  <2>1. PICK k \in 1..Len(l) : /\ l[k].pThis = e /\ l[k].Flags = "SINGLE" /\ Due(l, k) = n
                               /\ \A j \in 1..Len(l) : l[j].pThis = e => j = k
    BY <1>3 DEF Alone
  <2>2. CASE l[a].pThis = e
    <3>1. a = k
      BY <2>1, <2>2, RemovedLinks
    <3>2. \A j \in 1..Len(r) : r[j].pThis # e
      BY <1>1, <2>1, <3>1, RemovedLinks
    <3>3. QED
      BY <2>2, <3>2 DEF Absent
  <2>3. CASE l[a].pThis # e
    <3> DEFINE q == IF k < a THEN k ELSE k - 1
    <3>1. k # a
      BY <2>1, <2>3
    <3>2. q \in 1..Len(r)
      BY <3>1, RemovedLinks
    <3>3. r[q].pThis = e /\ r[q].Flags = "SINGLE" /\ Due(r, q) = n
      <4>1. CASE k < a
        <5>1. k \in 1..(a - 1) /\ q = k
          BY <4>1, RemovedLinks
        <5>2. QED
          BY <2>1, <5>1, RemovedLinks
      <4>2. CASE k > a
        <5>1. k \in (a + 1)..Len(l) /\ q = k - 1
          BY <4>2, RemovedLinks
        <5>2. QED
          BY <2>1, <5>1, RemovedLinks
      <4>3. QED
        BY <3>1, <4>1, <4>2, RemovedLinks
    <3>4. \A j \in 1..Len(r) : r[j].pThis = e => j = q
      BY <1>1, <2>1, RemovedLinks
    <3>5. Alone(r, e, n)
      BY <3>2, <3>3, <3>4 DEF Alone
    <3>6. QED
      BY <2>3, <3>5
  <2>4. QED
    BY <2>2, <2>3
<1>4. QED
  BY <1>2, <1>3

\* Scheduling e's only link.
LEMMA OwnInserted ==
  ASSUME NEW l \in Lists, NEW r, NEW p, NEW d, Inserted(l, r, p, d), d.mode = "SINGLE",
         Absent(l, d.event)
  PROVE  Alone(r, d.event, d.left)
<1>1. p + 1 \in 1..Len(r)
  BY InsertedLinks
<1>2. ASSUME NEW j \in 1..Len(r), r[j].pThis = d.event
      PROVE  j = p + 1
  <2>1. CASE j <= p
    <3>1. j \in 1..p /\ j \in 1..Len(l)
      BY <2>1, InsertedLinks
    <3>2. QED
      BY <1>2, <3>1, InsertedLinks DEF Absent
  <2>2. CASE j > p + 1
    <3>1. j - 1 \in (p + 1)..Len(l) /\ (j - 1) + 1 = j /\ j - 1 \in 1..Len(l)
      BY <2>2, InsertedLinks
    <3>2. l[j - 1].pThis = d.event
      BY <1>2, <3>1, InsertedLinks
    <3>3. QED
      BY <3>1, <3>2 DEF Absent
  <2>3. QED
    BY <2>1, <2>2, InsertedLinks
<1>3. QED
  BY <1>1, <1>2, InsertedLinks DEF Alone

\* What Schedule does to another event, and to an event that is not scheduled.
LEMMA ScheduledKeeps ==
  ASSUME NEW l \in Lists, NEW f \in Event, NEW ticks \in Ticks, NEW mode \in Mode
  PROVE  /\ Scheduled(l, f, ticks, mode) \in Lists
         /\ \A e : e # f /\ Absent(l, e) => Absent(Scheduled(l, f, ticks, mode), e)
         /\ \A e, n : e # f /\ Alone(l, e, n) => Alone(Scheduled(l, f, ticks, mode), e, n)
         /\ Absent(l, f) /\ Len(l) < MaxEvents /\ mode = "SINGLE" =>
              Alone(Scheduled(l, f, ticks, mode), f, ticks)
         /\ Len(l) = MaxEvents => Scheduled(l, f, ticks, mode) = l
<1>1. CASE Len(l) = MaxEvents
  BY <1>1, MaxEventsAssumption DEF Scheduled
<1>2. CASE Len(l) # MaxEvents
  <2> DEFINE r == Scheduled(l, f, ticks, mode)
             d == [event |-> f, left |-> ticks, period |-> ticks, mode |-> mode]
  <2>1. Len(l) < MaxEvents
    BY <1>2, MaxEventsAssumption DEF Lists
  <2>2. PICK p : Inserted(l, r, p, d)
    BY <2>1, ScheduledInserts
  <2>3. d.event = f /\ d.left = ticks /\ d.mode = mode
    OBVIOUS
  <2> HIDE DEF r, d
  <2>4. r \in Lists
    BY <2>2 DEF Inserted
  <2>5. \A e : e # f /\ Absent(l, e) => Absent(r, e)
    BY <2>2, <2>3, OtherInserted
  <2>6. \A e, n : e # f /\ Alone(l, e, n) => Alone(r, e, n)
    BY <2>2, <2>3, OtherInserted
  <2>7. Absent(l, f) /\ mode = "SINGLE" => Alone(r, f, ticks)
    BY <2>2, <2>3, OwnInserted
  <2>8. QED
    BY <1>2, <2>4, <2>5, <2>6, <2>7 DEF r
<1>3. QED
  BY <1>1, <1>2

\* What Cancel does to another event, and to its own.
LEMMA CancelledKeeps ==
  ASSUME NEW l \in Lists, NEW f \in Event
  PROVE  /\ Cancelled(l, f) \in Lists
         /\ \A e : Absent(l, e) => Absent(Cancelled(l, f), e)
         /\ \A e, n : e # f /\ Alone(l, e, n) => Alone(Cancelled(l, f), e, n)
         /\ \A n : Alone(l, f, n) => Absent(Cancelled(l, f), f)
         /\ Absent(l, f) => Cancelled(l, f) = l
<1>1. CASE Absent(l, f)
  <2>1. Cancelled(l, f) = l
    <3>1. {k \in 1..Len(l) : l[k].pThis = f} = {}
      BY <1>1 DEF Absent
    <3>2. QED
      BY <3>1 DEF Cancelled
  <2>2. QED
    BY <1>1, <2>1
<1>2. CASE ~Absent(l, f)
  <2> DEFINE r == Cancelled(l, f)
  <2>1. PICK a : Removed(l, r, a) /\ l[a].pThis = f
    BY <1>2, CancelledRemoves DEF Absent
  <2> HIDE DEF r
  <2>2. r \in Lists
    BY <2>1 DEF Removed
  <2>3. /\ \A e : Absent(l, e) => Absent(r, e)
        /\ \A e, n : e # f /\ Alone(l, e, n) => Alone(r, e, n)
        /\ \A n : Alone(l, f, n) => Absent(r, f)
    BY <2>1, LinkRemoved
  <2>4. QED
    BY <1>2, <2>2, <2>3 DEF r
<1>3. QED
  BY <1>1, <1>2

-----------------------------------------------------------------------------
(* A tick.                                                                  *)

States == [list : Lists, fired : [Event -> Nat]]

\* The first z links have expired, and no other.
Expired(l, z) == z \in 0..Len(l) /\ Due(l, z) = 0 /\ \A k \in (z + 1)..Len(l) : Due(l, k) > 0

\* The due ticks are naturals.
LEMMA DueNat ==
  ASSUME NEW l \in Lists
  PROVE  /\ Len(l) \in Nat /\ \A k \in 0..Len(l) : Due(l, k) \in Nat
         /\ Due(l, 0) = 0
         /\ l # <<>> => 1 \in 1..Len(l) /\ Due(l, 1) = l[1].wDelta
<1>1. l \in Seq(Link) /\ Len(l) \in Nat /\ \A k \in 0..Len(l) : Due(l, k) \in Nat
  BY DueAddsUp DEF Lists
<1>2. ASSUME l # <<>> PROVE 1 \in 1..Len(l) /\ Due(l, 1) = l[1].wDelta
  <2>1. 1 \in 1..Len(l)
    BY <1>1, <1>2, EmptySeq
  <2>2. Due(l, 1) = Due(l, 1 - 1) + l[1].wDelta /\ Due(l, 0) = 0 /\ l[1].wDelta \in Nat
    BY <1>1, <2>1, DueAddsUp, LinkType
  <2>3. QED
    BY <2>1, <2>2
<1>3. QED
  BY <1>1, <1>2, DueAddsUp

\* Where no link has expired the head has ticks left, and the other way round.
LEMMA HeadWaits ==
  ASSUME NEW l \in Lists
  PROVE  /\ Expired(l, 0) <=> (l # <<>> => l[1].wDelta > 0)
         /\ \A z : Expired(l, z) /\ z > 0 => l # <<>> /\ l[1].wDelta = 0
         /\ \A z : Expired(l, z) /\ l # <<>> /\ l[1].wDelta = 0 => z > 0
<1>1. l \in Seq(Link)
  BY DEF Lists
<1>2. ASSUME Expired(l, 0), l # <<>> PROVE l[1].wDelta > 0
  BY <1>2, DueNat DEF Expired
<1>3. ASSUME l # <<>> => l[1].wDelta > 0 PROVE Expired(l, 0)
  <2>1. CASE l = <<>>
    BY <2>1, DueNat, EmptySeq DEF Expired
  <2>2. CASE l # <<>>
    <3>1. Due(l, 1) > 0 /\ 1 \in 0..Len(l)
      BY <1>3, <2>2, DueNat
    <3>2. ASSUME NEW k \in 1..Len(l) PROVE Due(l, k) > 0
      <4>1. k \in 0..Len(l) /\ 1 \in 0..k
        BY DueNat
      <4>2. Due(l, 1) <= Due(l, k)
        BY <1>1, <4>1, DueGrows
      <4>3. QED
        BY <3>1, <4>1, <4>2, DueNat
    <3>3. QED
      BY <3>2, DueNat DEF Expired
  <2>3. QED
    BY <2>1, <2>2
<1>4. ASSUME NEW z, Expired(l, z), z > 0 PROVE l # <<>> /\ l[1].wDelta = 0
  <2>1. z \in 0..Len(l) /\ 1 \in 0..z /\ 1 \in 0..Len(l) /\ 1 \in 1..Len(l) /\ Due(l, z) = 0
    BY <1>4, DueNat DEF Expired
  <2>2. Due(l, 1) <= Due(l, z)
    BY <1>1, <2>1, DueGrows
  <2>3. l # <<>>
    BY <2>1, EmptySeq
  <2>4. QED
    BY <2>1, <2>2, <2>3, DueNat
<1>5. ASSUME NEW z, Expired(l, z), l # <<>>, l[1].wDelta = 0 PROVE z > 0
  BY <1>5, DueNat DEF Expired
<1>6. QED
  BY <1>2, <1>3, <1>4, <1>5

\* The deadline of a list's k-th link once it is armed again. The head is if it is
\* periodic and finds room.
Rearmed(l, k) == [DeadlineOf(l, k) EXCEPT !.left = l[k].wPeriod]
Rearms(l) == l[1].Flags = "PERIODIC" /\ Len(l) < MaxEvents

\* m is l after the head, which has expired like the first z links, is armed again: behind them.
Rearming(l, z, m) == IF Rearms(l) THEN \E p \in z..Len(l) : Inserted(l, m, p, Rearmed(l, 1)) ELSE m = l

\* A turn of the loop of ProcessTimers arms the head again and then takes it off.
LEMMA TurnMoves ==
  ASSUME NEW s \in States, NEW z, Expired(s.list, z), z > 0
  PROVE  \E m : /\ Rearming(s.list, z, m) /\ m \in Lists /\ Len(m) \in Nat
                /\ Len(m) > 0 /\ m[1].pThis = s.list[1].pThis /\ Expired(m, z)
                /\ Removed(m, Expire(s).list, 1)
<1> DEFINE l == s.list
           t == l[1]
           m == IF t.Flags = "PERIODIC" THEN Scheduled(l, t.pThis, t.wPeriod, t.Flags) ELSE l
           r == Cancelled(m, t.pThis)
           d == Rearmed(l, 1)
<1>1. l \in Lists /\ l \in Seq(Link) /\ s.fired \in [Event -> Nat]
  BY DEF States, Lists
<1>2. l # <<>> /\ t.wDelta = 0 /\ 1 \in 1..Len(l) /\ Len(l) \in Nat /\ Due(l, 1) = 0
  <2>1. l # <<>> /\ t.wDelta = 0
    BY <1>1, HeadWaits
  <2>2. QED
    BY <1>1, <2>1, DueNat
<1>3. t.pThis \in Event /\ t.wPeriod \in Ticks /\ t.Flags \in Mode /\ t.wPeriod > 0
  BY <1>1, <1>2, LinkType, MaxTicksAssumption DEF Ticks
<1>4. Expire(s).list = r
  BY DEF Expire
<1>5. d = [event |-> t.pThis, left |-> t.wPeriod, period |-> t.wPeriod, mode |-> t.Flags]
  BY DEF Rearmed, DeadlineOf
<1>6. z \in 0..Len(l) /\ Due(l, z) = 0 /\ \A k \in (z + 1)..Len(l) : Due(l, k) > 0
  BY DEF Expired
<1>7. d.left = t.wPeriod /\ d.event = t.pThis
  BY <1>5
<1>8. Rearming(l, z, m) /\ m \in Lists /\ 1 \in 1..Len(m) /\ m[1].pThis = t.pThis /\ Expired(m, z)
  <2>1. CASE Rearms(l)
    <3>1. PICK p : Inserted(l, m, p, d)
      BY <1>1, <1>3, <1>5, <2>1, ScheduledInserts DEF Rearms
    <3> HIDE DEF m, d
    <3>2. m \in Lists
      BY <3>1 DEF Inserted
    <3>3. /\ p \in 0..Len(l) /\ Len(m) = Len(l) + 1
          /\ \A k \in 1..p : m[k].pThis = l[k].pThis /\ Due(m, k) = Due(l, k)
          /\ Due(m, p + 1) = d.left
          /\ \A k \in (p + 1)..Len(l) : Due(m, k + 1) = Due(l, k) /\ Due(l, k) > d.left
      BY <1>1, <3>1, InsertedLinks
    <3>4. ~(p < z)
      <4> SUFFICES ASSUME p < z PROVE FALSE
        OBVIOUS
      <4>1. z \in (p + 1)..Len(l)
        BY <1>2, <1>6, <3>3
      <4>2. Due(l, z) > d.left
        BY <3>3, <4>1
      <4>3. QED
        BY <1>3, <1>6, <1>7, <4>2, MaxTicksAssumption DEF Ticks
    <3>5. z \in 1..p /\ 1 \in 1..p /\ z \in 0..Len(m) /\ p \in z..Len(l) /\ 1 \in 1..Len(m)
      BY <1>2, <1>6, <3>3, <3>4
    <3>6. Due(m, z) = 0
      BY <1>6, <3>3, <3>5
    <3>7. ASSUME NEW k \in (z + 1)..Len(m) PROVE Due(m, k) > 0
      <4>1. CASE k <= p
        <5>1. k \in 1..p /\ k \in (z + 1)..Len(l)
          BY <1>2, <1>6, <3>3, <3>5, <4>1
        <5>2. QED
          BY <1>6, <3>3, <5>1
      <4>2. CASE k = p + 1
        BY <1>3, <1>7, <3>3, <4>2
      <4>3. CASE k > p + 1
        <5>1. k - 1 \in (p + 1)..Len(l) /\ k - 1 \in (z + 1)..Len(l) /\ (k - 1) + 1 = k
          BY <1>2, <1>6, <3>3, <3>5, <4>3
        <5>2. Due(m, k) = Due(l, k - 1) /\ Due(l, k - 1) > 0
          BY <1>6, <3>3, <5>1
        <5>3. QED
          BY <5>2
      <4>4. QED
        BY <1>6, <3>3, <4>1, <4>2, <4>3
    <3>8. Expired(m, z)
      BY <3>5, <3>6, <3>7 DEF Expired
    <3>9. Rearming(l, z, m)
      BY <2>1, <3>1, <3>5 DEF Rearming, d
    <3>10. QED
      BY <3>2, <3>3, <3>5, <3>8, <3>9
  <2>2. CASE ~Rearms(l)
    <3>1. m = l
      <4>1. CASE t.Flags = "PERIODIC"
        <5>1. Len(l) = MaxEvents
          BY <1>1, <1>2, <2>2, <4>1, MaxEventsAssumption DEF Lists, Rearms
        <5>2. Scheduled(l, t.pThis, t.wPeriod, t.Flags) = l
          BY <5>1 DEF Scheduled
        <5>3. QED
          BY <4>1, <5>2
      <4>2. CASE t.Flags # "PERIODIC"
        BY <4>2
      <4>3. QED
        BY <4>1, <4>2
    <3> HIDE DEF m
    <3>2. QED
      BY <1>1, <1>2, <2>2, <3>1 DEF Rearming
  <2>3. QED
    BY <2>1, <2>2
<1> HIDE DEF m
<1>9. Len(m) \in Nat
  BY <1>8, DueNat
<1>10. Removed(m, r, 1)
  <2>1. PICK a : Removed(m, r, a) /\ \A j \in 1..(a - 1) : m[j].pThis # t.pThis
    BY <1>3, <1>8, CancelledRemoves
  <2>2. a = 1
    <3>1. a \in 1..Len(m) /\ 1 \notin 1..(a - 1)
      BY <1>8, <2>1 DEF Removed
    <3>2. QED
      BY <1>9, <3>1
  <2>3. QED
    BY <2>1, <2>2
<1>11. QED
  BY <1>4, <1>8, <1>9, <1>10

\* A turn of the loop of ProcessTimers: the head's link goes, its event is called, and one
\* expired link less is there; links of other events stay where they are.
LEMMA ExpireTurn ==
  ASSUME NEW s \in States, NEW z, Expired(s.list, z), z > 0
  PROVE  /\ Expire(s) \in States /\ Expired(Expire(s).list, z - 1)
         /\ \A e \in Event : Expire(s).fired[e] = s.fired[e] + (IF e = s.list[1].pThis THEN 1 ELSE 0)
         /\ \A e : Absent(s.list, e) => Absent(Expire(s).list, e) /\ s.list[1].pThis # e
         /\ \A e, n : Alone(s.list, e, n) => IF s.list[1].pThis = e
                                             THEN n = 0 /\ Absent(Expire(s).list, e)
                                             ELSE Alone(Expire(s).list, e, n)
<1> DEFINE l == s.list
           t == l[1]
           r == Expire(s).list
           d == Rearmed(l, 1)
<1>1. l \in Lists /\ l \in Seq(Link) /\ s.fired \in [Event -> Nat]
  BY DEF States, Lists
<1>2. l # <<>> /\ t.wDelta = 0 /\ 1 \in 1..Len(l) /\ Len(l) \in Nat /\ Due(l, 1) = 0
  <2>1. l # <<>> /\ t.wDelta = 0
    BY <1>1, HeadWaits
  <2>2. QED
    BY <1>1, <2>1, DueNat
<1>3. t.pThis \in Event /\ t.Flags \in Mode
  BY <1>1, <1>2, LinkType
<1>4. Expire(s).fired = [s.fired EXCEPT ![t.pThis] = @ + 1]
  BY DEF Expire
<1>5. PICK m : /\ Rearming(l, z, m) /\ m \in Lists /\ Len(m) \in Nat
               /\ Len(m) > 0 /\ m[1].pThis = t.pThis /\ Expired(m, z)
               /\ Removed(m, r, 1)
  BY TurnMoves
<1>6. d.event = t.pThis
  BY DEF Rearmed, DeadlineOf
<1>7. m = l \/ \E p : Inserted(l, m, p, d)
  BY <1>5 DEF Rearming
<1>8. t.Flags = "SINGLE" => m = l
  BY <1>5 DEF Rearming, Rearms
<1>9. Removed(m, r, 1) /\ m \in Lists
  BY <1>5
<1> HIDE DEF r, d
<1>10. r \in Lists
  BY <1>9 DEF Removed
<1>11. Expired(r, z - 1)
  <2>1. z \in 1..Len(m) /\ Due(m, z) = 0 /\ \A k \in (z + 1)..Len(m) : Due(m, k) > 0
    BY <1>5 DEF Expired
  <2>2. Len(r) = Len(m) - 1 /\ \A k \in 2..Len(m) : Due(r, k - 1) = Due(m, k)
    BY <1>9, RemovedLinks
  <2>3. Due(r, z - 1) = 0
    <3>1. CASE z = 1
      BY <1>10, <3>1, DueNat
    <3>2. CASE z # 1
      BY <1>5, <2>1, <2>2, <3>2
    <3>3. QED
      BY <3>1, <3>2
  <2>4. ASSUME NEW k \in ((z - 1) + 1)..Len(r) PROVE Due(r, k) > 0
    <3>1. k + 1 \in (z + 1)..Len(m) /\ k + 1 \in 2..Len(m) /\ (k + 1) - 1 = k
      BY <1>5, <2>1, <2>2
    <3>2. Due(r, k) = Due(m, k + 1) /\ Due(m, k + 1) > 0
      BY <2>1, <2>2, <3>1
    <3>3. QED
      BY <3>2
  <2>5. z - 1 \in 0..Len(r)
    BY <1>5, <2>1, <2>2
  <2>6. QED
    BY <2>3, <2>4, <2>5 DEF Expired
<1>12. Expire(s) \in States
  <2>1. [s.fired EXCEPT ![t.pThis] = @ + 1] \in [Event -> Nat]
    BY <1>1, <1>3
  <2>2. Expire(s) = [list |-> Expire(s).list, fired |-> Expire(s).fired]
    BY DEF Expire
  <2>3. QED
    BY <1>4, <1>10, <2>1, <2>2 DEF States, r
<1>13. \A e \in Event : Expire(s).fired[e] = s.fired[e] + (IF e = t.pThis THEN 1 ELSE 0)
  BY <1>1, <1>3, <1>4
<1>14. ASSUME NEW e, Absent(l, e) PROVE Absent(r, e) /\ t.pThis # e
  <2>1. t.pThis # e
    BY <1>2, <1>14 DEF Absent
  <2>2. Absent(m, e)
    BY <1>1, <1>6, <1>7, <1>14, <2>1, OtherInserted
  <2>3. QED
    BY <1>5, <1>9, <2>1, <2>2, LinkRemoved
<1>15. ASSUME NEW e, NEW n, Alone(l, e, n)
       PROVE  IF t.pThis = e THEN n = 0 /\ Absent(r, e) ELSE Alone(r, e, n)
  <2>1. CASE t.pThis = e
    <3>1. n = 0 /\ t.Flags = "SINGLE"
      BY <1>2, <1>15, <2>1 DEF Alone
    <3>2. m = l
      BY <1>8, <3>1
    <3>3. Absent(r, e)
      BY <1>5, <1>9, <1>15, <2>1, <3>2, LinkRemoved
    <3>4. QED
      BY <2>1, <3>1, <3>3
  <2>2. CASE t.pThis # e
    <3>1. Alone(m, e, n)
      BY <1>1, <1>6, <1>7, <1>15, <2>2, OtherInserted
    <3>2. Alone(r, e, n)
      BY <1>5, <1>9, <2>2, <3>1, LinkRemoved
    <3>3. QED
      BY <2>2, <3>2
  <2>3. QED
    BY <2>1, <2>2
<1>16. QED
  BY <1>11, <1>12, <1>13, <1>14, <1>15 DEF r

\* In every list some first links have expired, maybe none.
LEMMA SomeExpired == \A l \in Lists : \E z : Expired(l, z)
<1> SUFFICES ASSUME NEW l \in Lists PROVE \E z : Expired(l, z)
  OBVIOUS
<1> DEFINE T == {k \in 0..Len(l) : \A j \in (k + 1)..Len(l) : Due(l, j) > 0}
<1>1. Len(l) \in T /\ T \subseteq Nat
  BY DueNat
<1>2. PICK z \in T : \A k \in T : z <= k
  <2> HIDE DEF T
  <2>1. QED
    BY <1>1, LeastNat
<1>3. Due(l, z) = 0
  <2>1. CASE z = 0
    BY <2>1, DueNat
  <2>2. CASE z # 0
    <3>1. z - 1 \in 0..Len(l) /\ z - 1 \notin T
      <4>1. z \in 0..Len(l) /\ Len(l) \in Nat
        BY DueNat
      <4>2. z - 1 \in 0..Len(l) /\ ~(z <= z - 1)
        BY <2>2, <4>1
      <4> HIDE DEF T
      <4>3. QED
        BY <1>2, <4>2
    <3>2. PICK j \in ((z - 1) + 1)..Len(l) : ~(Due(l, j) > 0)
      BY <3>1
    <3>3. j = z
      BY <1>2, <3>2, DueNat
    <3>4. QED
      BY <1>2, <3>2, <3>3, DueNat
  <2>3. QED
    BY <2>1, <2>2
<1>4. QED
  BY <1>2, <1>3 DEF Expired

\* A turn that finds no expired head changes nothing.
LEMMA ExpireHeadTurn ==
  ASSUME NEW s \in States, NEW z, Expired(s.list, z)
  PROVE  ExpireHead(s) = IF z > 0 THEN Expire(s) ELSE s
<1>1. s.list \in Lists
  BY DEF States
<1>2. CASE z > 0
  <2>1. s.list # <<>> /\ s.list[1].wDelta = 0
    BY <1>1, <1>2, HeadWaits
  <2>2. QED
    BY <1>2, <2>1 DEF ExpireHead
<1>3. CASE ~(z > 0)
  <2>1. ~(s.list # <<>> /\ s.list[1].wDelta = 0)
    BY <1>1, <1>3, HeadWaits
  <2>2. QED
    BY <1>3, <2>1 DEF ExpireHead
<1>4. QED
  BY <1>2, <1>3

\* The loop takes MaxEvents turns.
LEMMA LoopTurns ==
  ASSUME NEW s \in States
  PROVE  \E turn : /\ turn[0] = s
                   /\ \A i \in 0..MaxEvents : turn[i] \in States
                   /\ \A i \in 1..MaxEvents : turn[i] = ExpireHead(turn[i - 1])
                   /\ ExpireAll(s) = turn[MaxEvents]
<1> DEFINE step == [i \in 1..MaxEvents |-> [u \in States |-> ExpireHead(u)]]
           turn == CHOOSE g : g = [i \in 0..MaxEvents |-> IF i = 0 THEN s ELSE ExpireHead(g[i - 1])]
<1>1. MaxEvents \in Nat
  BY MaxEventsAssumption
<1>2. \A u \in States : ExpireHead(u) \in States
  <2> SUFFICES ASSUME NEW u \in States PROVE ExpireHead(u) \in States
    OBVIOUS
  <2>1. u.list \in Lists
    BY DEF States
  <2>2. PICK z : Expired(u.list, z)
    BY <2>1, SomeExpired
  <2>3. z > 0 => Expire(u) \in States
    BY <2>2, ExpireTurn
  <2>4. QED
    BY <2>2, <2>3, ExpireHeadTurn
<1>3. step \in [1..MaxEvents -> [States -> States]]
  BY <1>2
<1>4. PICK h : Steps(States, s, step, MaxEvents, h)
  <2> HIDE DEF step
  <2>1. QED
    BY <1>1, <1>3, StepsExist
<1>5. h = [i \in 0..MaxEvents |-> IF i = 0 THEN s ELSE ExpireHead(h[i - 1])]
  <2>1. \A i \in 1..MaxEvents : i - 1 \in 0..MaxEvents /\ h[i - 1] \in States
    BY <1>1, <1>4 DEF Steps
  <2>2. \A i \in 1..MaxEvents : h[i] = ExpireHead(h[i - 1])
    BY <1>4, <2>1 DEF Steps
  <2>3. \A i \in 0..MaxEvents : h[i] = IF i = 0 THEN s ELSE ExpireHead(h[i - 1])
    BY <1>1, <1>4, <2>2 DEF Steps
  <2>4. h = [i \in 0..MaxEvents |-> h[i]]
    BY <1>4 DEF Steps
  <2>5. QED
    BY <2>3, <2>4
<1>6. turn = [i \in 0..MaxEvents |-> IF i = 0 THEN s ELSE ExpireHead(turn[i - 1])]
  BY <1>5
<1>7. ExpireAll(s) = turn[MaxEvents]
  BY DEF ExpireAll
<1> HIDE DEF turn
<1>8. turn[0] = s /\ \A i \in 1..MaxEvents : turn[i] = ExpireHead(turn[i - 1])
  <2>1. 0 \in 0..MaxEvents /\ \A i \in 1..MaxEvents : i \in 0..MaxEvents /\ i # 0
    BY <1>1
  <2>2. QED
    BY <1>6, <2>1
<1>9. \A i \in 1..MaxEvents : turn[i - 1] \in States => turn[i] = step[i][turn[i - 1]]
  BY <1>8
<1>10. \A i \in 0..MaxEvents : turn[i] \in States
  <2> HIDE DEF step
  <2>1. QED
    BY <1>1, <1>3, <1>8, <1>9, StepsStay, Zenon
<1>11. QED
  BY <1>7, <1>8, <1>10

\* What has become of event e after some turns.
Fate(before, after, e) ==
  /\ Absent(before.list, e) => Absent(after.list, e) /\ after.fired[e] = 0
  /\ \A n : Alone(before.list, e, n) =>
       \/ Alone(after.list, e, n) /\ after.fired[e] = 0
       \/ n = 0 /\ Absent(after.list, e) /\ after.fired[e] = 1

\* The loop ends with no expired link, and an event with a single link has fired once if
\* that link had expired, and not at all otherwise.
LEMMA LoopDone ==
  ASSUME NEW s \in States, s.fired = NoneFired
  PROVE  /\ ExpireAll(s) \in States /\ Expired(ExpireAll(s).list, 0)
         /\ \A e \in Event : ExpireAll(s).fired[e] <= MaxEvents /\ Fate(s, ExpireAll(s), e)
<1>1. PICK turn : /\ turn[0] = s
                  /\ \A i \in 0..MaxEvents : turn[i] \in States
                  /\ \A i \in 1..MaxEvents : turn[i] = ExpireHead(turn[i - 1])
                  /\ ExpireAll(s) = turn[MaxEvents]
  BY LoopTurns
<1>2. MaxEvents \in Nat
  BY MaxEventsAssumption
<1> DEFINE Reached(u, i) == /\ \E z \in 0..(MaxEvents - i) : Expired(u.list, z)
                            /\ \A e \in Event : u.fired[e] <= i /\ Fate(s, u, e)
           T == {i \in 0..MaxEvents : Reached(turn[i], i)}
<1>3. 0 \in T
  <2>1. s.list \in Lists
    BY DEF States
  <2>2. PICK z : Expired(s.list, z)
    BY <2>1, SomeExpired
  <2>3. z \in 0..(MaxEvents - 0)
    BY <1>2, <2>1, <2>2, DueNat DEF Expired, Lists
  <2>4. \A e \in Event : s.fired[e] = 0
    BY DEF NoneFired
  <2>5. \A e \in Event : Fate(s, s, e)
    BY <2>4 DEF Fate
  <2>6. Reached(s, 0)
    BY <2>2, <2>3, <2>4, <2>5
  <2>7. QED
    BY <1>1, <1>2, <2>6
<1>4. ASSUME NEW i \in 0..(MaxEvents - 1), i \in T
      PROVE  i + 1 \in T
  <2> DEFINE u == turn[i]
             v == turn[i + 1]
  <2>1. i + 1 \in 1..MaxEvents /\ (i + 1) - 1 = i /\ i + 1 \in 0..MaxEvents /\ i \in 0..MaxEvents
    BY <1>2
  <2>2. v = ExpireHead(u) /\ u \in States
    BY <1>1, <2>1
  <2>3. PICK z \in 0..(MaxEvents - i) : Expired(u.list, z)
    BY <1>4
  <2>4. \A e \in Event : u.fired[e] <= i /\ Fate(s, u, e) /\ u.fired[e] \in Nat
    BY <1>4, <2>2 DEF States
  <2> HIDE DEF u, v, T
  <2>5. CASE z = 0
    <3>1. v = u
      BY <2>2, <2>3, <2>5, ExpireHeadTurn
    <3>2. 0 \in 0..(MaxEvents - (i + 1))
      BY <1>2, <2>1
    <3>3. \A e \in Event : v.fired[e] <= i + 1
      BY <2>1, <2>4, <3>1
    <3>4. Reached(v, i + 1)
      BY <2>3, <2>4, <2>5, <3>1, <3>2, <3>3
    <3>5. QED
      BY <2>1, <3>4 DEF T, v
  <2>6. CASE z > 0
    <3>1. v = Expire(u)
      BY <2>2, <2>3, <2>6, ExpireHeadTurn
    <3>2. /\ Expired(v.list, z - 1)
          /\ \A e \in Event : v.fired[e] = u.fired[e] + (IF e = u.list[1].pThis THEN 1 ELSE 0)
          /\ \A e : Absent(u.list, e) => Absent(v.list, e) /\ u.list[1].pThis # e
          /\ \A e, n : Alone(u.list, e, n) => IF u.list[1].pThis = e
                                              THEN n = 0 /\ Absent(v.list, e)
                                              ELSE Alone(v.list, e, n)
      BY <2>2, <2>3, <2>6, <3>1, ExpireTurn
    <3>3. z - 1 \in 0..(MaxEvents - (i + 1))
      BY <1>2, <2>1, <2>3, <2>6
    <3>4. ASSUME NEW e \in Event PROVE v.fired[e] <= i + 1 /\ Fate(s, v, e)
      <4>1. v.fired[e] <= i + 1
        BY <2>1, <2>4, <3>2
      <4>2. ASSUME Absent(s.list, e) PROVE Absent(v.list, e) /\ v.fired[e] = 0
        <5>1. Absent(u.list, e) /\ u.fired[e] = 0
          BY <2>4, <4>2 DEF Fate
        <5>2. QED
          BY <3>2, <5>1
      <4>3. ASSUME NEW n, Alone(s.list, e, n)
            PROVE  \/ Alone(v.list, e, n) /\ v.fired[e] = 0
                   \/ n = 0 /\ Absent(v.list, e) /\ v.fired[e] = 1
        <5>1. CASE Alone(u.list, e, n) /\ u.fired[e] = 0
          <6>1. CASE u.list[1].pThis = e
            BY <3>2, <5>1, <6>1
          <6>2. CASE u.list[1].pThis # e
            BY <3>2, <5>1, <6>2
          <6>3. QED
            BY <6>1, <6>2
        <5>2. CASE n = 0 /\ Absent(u.list, e) /\ u.fired[e] = 1
          BY <3>2, <5>2
        <5>3. QED
          BY <2>4, <4>3, <5>1, <5>2 DEF Fate
      <4>4. QED
        BY <4>1, <4>2, <4>3 DEF Fate
    <3>5. Reached(v, i + 1)
      BY <3>2, <3>3, <3>4
    <3>6. QED
      BY <2>1, <3>5 DEF T, v
  <2>7. QED
    BY <1>2, <2>3, <2>5, <2>6
<1>5. MaxEvents \in T
  <2> HIDE DEF T
  <2>1. 0..MaxEvents \subseteq T
    BY <1>2, <1>3, <1>4, UpTo
  <2>2. QED
    BY <1>2, <2>1
<1>6. PICK z \in 0..(MaxEvents - MaxEvents) : Expired(ExpireAll(s).list, z)
  BY <1>1, <1>5
<1>7. z = 0
  BY <1>2, <1>6
<1>8. QED
  BY <1>1, <1>2, <1>5, <1>6, <1>7

\* Between ticks no link has expired, and neither Schedule nor Cancel makes one expire.
LEMMA CallsKeepWaiting ==
  ASSUME NEW l \in Lists, Expired(l, 0), NEW f \in Event
  PROVE  /\ Expired(Cancelled(l, f), 0)
         /\ \A ticks \in Ticks, mode \in Mode : Expired(Scheduled(l, f, ticks, mode), 0)
<1>1. Len(l) \in Nat /\ \A k \in 1..Len(l) : Due(l, k) > 0
  BY DueNat DEF Expired
<1>2. ASSUME NEW ticks \in Ticks, NEW mode \in Mode
      PROVE  Expired(Scheduled(l, f, ticks, mode), 0)
  <2> DEFINE r == Scheduled(l, f, ticks, mode)
             d == [event |-> f, left |-> ticks, period |-> ticks, mode |-> mode]
  <2>1. CASE Len(l) = MaxEvents
    BY <2>1, ScheduledKeeps
  <2>2. CASE Len(l) # MaxEvents
    <3>1. Len(l) < MaxEvents
      BY <2>2, MaxEventsAssumption DEF Lists
    <3>2. PICK p : Inserted(l, r, p, d)
      BY <3>1, ScheduledInserts
    <3>3. d.left > 0
      BY MaxTicksAssumption DEF Ticks
    <3> HIDE DEF r, d
    <3>4. r \in Lists
      BY <3>2 DEF Inserted
    <3>5. /\ p \in 0..Len(l) /\ Len(r) = Len(l) + 1
          /\ \A k \in 1..p : Due(r, k) = Due(l, k)
          /\ Due(r, p + 1) = d.left
          /\ \A k \in (p + 1)..Len(l) : Due(r, k + 1) = Due(l, k)
      BY <3>2, InsertedLinks
    <3>6. ASSUME NEW k \in 1..Len(r) PROVE Due(r, k) > 0
      <4>1. CASE k <= p
        <5>1. k \in 1..p /\ k \in 1..Len(l)
          BY <1>1, <3>5, <4>1
        <5>2. QED
          BY <1>1, <3>5, <5>1
      <4>2. CASE k = p + 1
        BY <3>3, <3>5, <4>2
      <4>3. CASE k > p + 1
        <5>1. k - 1 \in (p + 1)..Len(l) /\ (k - 1) + 1 = k /\ k - 1 \in 1..Len(l)
          BY <1>1, <3>5, <4>3
        <5>2. Due(r, k) = Due(l, k - 1) /\ Due(l, k - 1) > 0
          BY <1>1, <3>5, <5>1
        <5>3. QED
          BY <5>2
      <4>4. QED
        BY <1>1, <3>5, <4>1, <4>2, <4>3
    <3>7. Expired(r, 0)
      BY <3>4, <3>6, DueNat DEF Expired
    <3>8. QED
      BY <3>7 DEF r
  <2>3. QED
    BY <2>1, <2>2
<1>3. Expired(Cancelled(l, f), 0)
  <2>1. CASE Absent(l, f)
    BY <2>1, CancelledKeeps
  <2>2. CASE ~Absent(l, f)
    <3> DEFINE r == Cancelled(l, f)
    <3>1. PICK a : Removed(l, r, a)
      BY <2>2, CancelledRemoves DEF Absent
    <3> HIDE DEF r
    <3>2. r \in Lists
      BY <3>1 DEF Removed
    <3>3. /\ a \in 1..Len(l) /\ Len(r) = Len(l) - 1
          /\ \A k \in 1..(a - 1) : Due(r, k) = Due(l, k)
          /\ \A k \in (a + 1)..Len(l) : Due(r, k - 1) = Due(l, k)
      BY <3>1, RemovedLinks
    <3>4. ASSUME NEW k \in 1..Len(r) PROVE Due(r, k) > 0
      <4>1. CASE k < a
        <5>1. k \in 1..(a - 1) /\ k \in 1..Len(l)
          BY <1>1, <3>3, <4>1
        <5>2. QED
          BY <1>1, <3>3, <5>1
      <4>2. CASE k >= a
        <5>1. k + 1 \in (a + 1)..Len(l) /\ (k + 1) - 1 = k /\ k + 1 \in 1..Len(l)
          BY <1>1, <3>3, <4>2
        <5>2. Due(r, k) = Due(l, k + 1) /\ Due(l, k + 1) > 0
          BY <1>1, <3>3, <5>1
        <5>3. QED
          BY <5>2
      <4>3. QED
        BY <1>1, <3>3, <4>1, <4>2
    <3>5. Expired(r, 0)
      BY <3>2, <3>4, DueNat DEF Expired
    <3>6. QED
      BY <3>5 DEF r
  <2>3. QED
    BY <2>1, <2>2
<1>4. QED
  BY <1>2, <1>3

\* The list after a tick is off the head's delta.
Ticked(l) == [l EXCEPT ![1].wDelta = l[1].wDelta - 1]

\* A tick is off the head's delta, and so off all that is due.
LEMMA TickedDue ==
  ASSUME NEW l \in Lists, Expired(l, 0), l # <<>>
  PROVE  /\ Ticked(l) \in Lists /\ Len(Ticked(l)) = Len(l) /\ Ticked(l) # <<>>
         /\ \A k \in 1..Len(l) : /\ Ticked(l)[k].pThis = l[k].pThis /\ Ticked(l)[k].Flags = l[k].Flags
                                 /\ Ticked(l)[k].wPeriod = l[k].wPeriod
                                 /\ Due(Ticked(l), k) = Due(l, k) - 1
<1> DEFINE r == Ticked(l)
           n == Len(l)
           D == [k \in 0..n |-> IF k = 0 THEN 0 ELSE Due(l, k) - 1]
           link == [l[1] EXCEPT !.wDelta = l[1].wDelta - 1]
<1>1. l \in Seq(Link) /\ n \in Nat /\ 1 \in 1..n /\ l[1].wDelta > 0 /\ l[1].wDelta = Due(l, 1)
  BY HeadWaits, DueNat DEF Lists
<1>2. l[1] \in Link /\ l[1].wDelta \in Nat /\ l[1].wDelta <= MaxTicks
  BY <1>1, LinkType
<1>3. /\ link \in Link /\ link.wDelta = l[1].wDelta - 1
      /\ link.pThis = l[1].pThis /\ link.Flags = l[1].Flags /\ link.wPeriod = l[1].wPeriod
  <2>1. l[1].wDelta - 1 \in 0..MaxTicks
    BY <1>1, <1>2, MaxTicksAssumption
  <2>2. QED
    BY <1>2, <2>1 DEF Link
<1>4. r = [l EXCEPT ![1] = link]
  BY DEF Ticked
<1> HIDE DEF r, link
<1>5. r \in Seq(Link) /\ Len(r) = n /\ \A k \in 1..n : r[k] = IF k = 1 THEN link ELSE l[k]
  BY <1>1, <1>3, <1>4, ExceptSeq
<1>6. \A k \in 1..n : Due(l, k) = Due(l, k - 1) + l[k].wDelta /\ Due(l, k) \in Nat
  <2>1. \A k \in 1..n : k \in 0..n
    BY <1>1
  <2>2. QED
    BY <1>1, <2>1, DueAddsUp
<1>7. \A k \in 0..n : Due(r, k) = D[k]
  <2>1. D[0] = 0
    BY <1>1
  <2>2. ASSUME NEW k \in 1..n PROVE D[k] = D[k - 1] + r[k].wDelta
    <3>1. D[k] = Due(l, k) - 1 /\ D[k - 1] = IF k = 1 THEN 0 ELSE Due(l, k - 1) - 1
      BY <1>1
    <3> HIDE DEF D
    <3>2. CASE k = 1
      <4>1. D[k] = l[1].wDelta - 1 /\ D[k - 1] = 0
        BY <1>1, <3>1, <3>2
      <4>2. r[k].wDelta = l[1].wDelta - 1
        BY <1>1, <1>3, <1>5, <3>2
      <4>3. QED
        BY <1>2, <4>1, <4>2
    <3>3. CASE k # 1
      <4>1. r[k] = l[k] /\ k - 1 \in 1..n
        BY <1>1, <1>5, <3>3
      <4>2. Due(l, k - 1) \in Nat /\ l[k].wDelta \in Nat
        BY <1>1, <1>6, <4>1, LinkType
      <4>3. D[k] = Due(l, k) - 1 /\ D[k - 1] = Due(l, k - 1) - 1 /\ r[k].wDelta = l[k].wDelta
        BY <3>1, <3>3, <4>1
      <4>4. Due(l, k) = Due(l, k - 1) + l[k].wDelta
        BY <1>6
      <4>5. QED
        BY <4>2, <4>3, <4>4
    <3>4. QED
      BY <3>2, <3>3
  <2> HIDE DEF D
  <2>3. QED
    BY <1>5, <2>1, <2>2, DueIs
<1>8. \A k \in 1..n : Due(r, k) = Due(l, k) - 1
  <2>1. \A k \in 1..n : k \in 0..n /\ k # 0
    BY <1>1
  <2>2. QED
    BY <1>7, <2>1
<1>9. r \in Lists
  <2>1. n \in 1..n /\ n <= MaxEvents /\ Due(l, n) <= MaxTicks
    BY <1>1 DEF Lists
  <2>2. Due(r, n) <= MaxTicks
    BY <1>6, <1>8, <2>1, MaxTicksAssumption
  <2>3. QED
    BY <1>5, <2>1, <2>2 DEF Lists
<1>10. r # <<>>
  BY <1>1, <1>5, EmptySeq
<1>11. \A k \in 1..n : r[k].pThis = l[k].pThis /\ r[k].Flags = l[k].Flags /\ r[k].wPeriod = l[k].wPeriod
  BY <1>3, <1>5
<1>12. QED
  BY <1>5, <1>8, <1>9, <1>10, <1>11 DEF r

\* A tick fires an event with a single link if the link was due in this tick, and not
\* before; no other event's link, however many expire or are armed again, changes that.
LEMMA TickKeeps ==
  ASSUME list \in Lists, Expired(list, 0), ProcessTimers
  PROVE  /\ list' \in Lists /\ Expired(list', 0) /\ fired' \in [Event -> 0..MaxEvents]
         /\ \A e \in Event : Absent(list, e) => Absent(list', e) /\ fired'[e] = 0
         /\ \A e \in Event : \A n : Alone(list, e, n) =>
              IF n = 1 THEN Absent(list', e) /\ fired'[e] = 1
              ELSE Alone(list', e, n - 1) /\ fired'[e] = 0
<1>1. NoneFired \in [Event -> 0..MaxEvents] /\ \A e \in Event : NoneFired[e] = 0
  BY MaxEventsAssumption DEF NoneFired
<1>2. CASE list = <<>>
  <2>1. list' = list /\ fired' = NoneFired
    BY <1>2 DEF ProcessTimers
  <2>2. \A e, n : ~Alone(list, e, n)
    BY <1>2, EmptySeq DEF Alone
  <2>3. QED
    BY <1>1, <2>1, <2>2
<1>3. CASE list # <<>>
  <2> DEFINE l == Ticked(list)
             s == [list |-> l, fired |-> NoneFired]
  <2>1. list[1].wDelta > 0 /\ list[1].wDelta \in Nat /\ list \in Seq(Link)
    <3>1. list \in Seq(Link) /\ 1 \in 1..Len(list)
      BY <1>3, DueNat DEF Lists
    <3>2. QED
      BY <1>3, <3>1, HeadWaits, LinkType
  <2>2. /\ l \in Lists /\ Len(l) = Len(list) /\ l # <<>>
        /\ \A k \in 1..Len(list) : /\ l[k].pThis = list[k].pThis /\ l[k].Flags = list[k].Flags
                                   /\ Due(l, k) = Due(list, k) - 1
    BY <1>3, TickedDue
  <2>3. s \in States /\ s.list = l /\ s.fired = NoneFired
    <3>1. NoneFired \in [Event -> Nat]
      BY DEF NoneFired
    <3>2. QED
      BY <2>2, <3>1 DEF States
  <2>4. \A e : Absent(list, e) => Absent(l, e)
    BY <2>2 DEF Absent
  <2>5. \A e, n : Alone(list, e, n) => Alone(l, e, n - 1) /\ n \in Nat /\ n > 0
    <3> SUFFICES ASSUME NEW e, NEW n, Alone(list, e, n)
                 PROVE  Alone(l, e, n - 1) /\ n \in Nat /\ n > 0
      OBVIOUS
    <3>1. PICK k \in 1..Len(list) : /\ list[k].pThis = e /\ list[k].Flags = "SINGLE" /\ Due(list, k) = n
                                    /\ \A j \in 1..Len(list) : list[j].pThis = e => j = k
      BY DEF Alone
    <3>2. n \in Nat /\ n > 0
      BY <3>1, DueNat DEF Expired
    <3> HIDE DEF l
    <3>3. Alone(l, e, n - 1)
      BY <2>2, <3>1 DEF Alone
    <3>4. QED
      BY <3>2, <3>3
  <2>6. CASE list[1].wDelta <= 1
    <3>1. [list EXCEPT ![1].wDelta = 0] = l
      <4>1. list[1].wDelta - 1 = 0
        BY <2>1, <2>6
      <4>2. QED
        BY <4>1 DEF Ticked
    <3>2. list' = ExpireAll(s).list /\ fired' = ExpireAll(s).fired
      BY <1>3, <2>6, <3>1 DEF ProcessTimers
    <3> HIDE DEF l, s
    <3>3. /\ ExpireAll(s) \in States /\ Expired(list', 0)
          /\ \A e \in Event : fired'[e] <= MaxEvents /\ Fate(s, ExpireAll(s), e)
      BY <2>3, <3>2, LoopDone
    <3>4. list' \in Lists /\ fired' \in [Event -> Nat]
      BY <3>2, <3>3 DEF States
    <3>5. fired' \in [Event -> 0..MaxEvents]
      BY <3>3, <3>4, MaxEventsAssumption
    <3>6. \A e \in Event : Absent(list, e) => Absent(list', e) /\ fired'[e] = 0
      BY <2>3, <2>4, <3>2, <3>3 DEF Fate
    <3>7. ASSUME NEW e \in Event, NEW n, Alone(list, e, n)
          PROVE  IF n = 1 THEN Absent(list', e) /\ fired'[e] = 1
                 ELSE Alone(list', e, n - 1) /\ fired'[e] = 0
      <4>1. \/ Alone(list', e, n - 1) /\ fired'[e] = 0
            \/ n - 1 = 0 /\ Absent(list', e) /\ fired'[e] = 1
        BY <2>3, <2>5, <3>2, <3>3, <3>7 DEF Fate
      <4>2. n \in Nat
        BY <2>5, <3>7
      <4>3. ~Alone(list', e, 0)
        BY <3>3, <3>4, DueNat DEF Alone, Expired
      <4>4. n = 1 <=> n - 1 = 0
        BY <4>2
      <4>5. QED
        BY <4>1, <4>3, <4>4
    <3>8. QED
      BY <3>3, <3>4, <3>5, <3>6, <3>7
  <2>7. CASE ~(list[1].wDelta <= 1)
    <3>1. list' = l /\ fired' = NoneFired
      BY <1>3, <2>7 DEF ProcessTimers, Ticked
    <3>2. l[1].wDelta = list[1].wDelta - 1
      <4>1. 1 \in 1..Len(list) /\ 1 \in 1..Len(l)
        BY <1>3, <2>2, DueNat
      <4>2. Due(l, 1) = l[1].wDelta /\ Due(list, 1) = list[1].wDelta
        BY <1>3, <2>2, DueNat
      <4>3. Due(l, 1) = Due(list, 1) - 1
        BY <2>2, <4>1
      <4>4. QED
        BY <4>2, <4>3
    <3>3. Expired(l, 0)
      <4>1. l[1].wDelta > 0
        BY <2>1, <2>7, <3>2
      <4>2. QED
        BY <2>2, <4>1, HeadWaits
    <3>4. \A e, n : Alone(list, e, n) => n # 1
      <4>1. ~\E e : Alone(l, e, 0)
        BY <2>2, <3>3, DueNat DEF Alone, Expired
      <4>2. 1 - 1 = 0
        OBVIOUS
      <4> HIDE DEF l
      <4>3. QED
        BY <2>5, <4>1, <4>2
    <3> HIDE DEF l
    <3>5. QED
      BY <1>1, <2>2, <2>4, <2>5, <3>1, <3>3, <3>4
  <2>8. QED
    BY <2>6, <2>7
<1>4. QED
  BY <1>2, <1>3

-----------------------------------------------------------------------------
(* The list and the timers.                                                 *)

\* No link has expired between calls, and the links fit into the pool.
ListInv == list \in Lists /\ Expired(list, 0) /\ fired \in [Event -> 0..MaxEvents]

\* What an API call does to the list, and a tick.
ListStep == \/ \E e \in Event, ticks \in Ticks, mode \in Mode : Schedule(e, ticks, mode)
            \/ \E e \in Event : Cancel(e)
            \/ ProcessTimers
            \/ UNCHANGED vars

\* The list's own steps keep it.
LEMMA ListKept == ListInv /\ ListStep => ListInv'
<1> SUFFICES ASSUME ListInv, ListStep PROVE ListInv'
  OBVIOUS
<1>1. NoneFired \in [Event -> 0..MaxEvents]
  BY MaxEventsAssumption DEF NoneFired
<1>2. ASSUME NEW e \in Event, NEW ticks \in Ticks, NEW mode \in Mode, Schedule(e, ticks, mode)
      PROVE  ListInv'
  BY <1>1, <1>2, ScheduledKeeps, CallsKeepWaiting DEF ListInv, Schedule
<1>3. ASSUME NEW e \in Event, Cancel(e)
      PROVE  ListInv'
  BY <1>1, <1>3, CancelledKeeps, CallsKeepWaiting DEF ListInv, Cancel
<1>4. CASE ProcessTimers
  BY <1>4, TickKeeps DEF ListInv
<1>5. CASE UNCHANGED vars
  BY <1>5 DEF ListInv, vars, Expired
<1>6. QED
  BY <1>2, <1>3, <1>4, <1>5 DEF ListStep

\* The list before the first call.
LEMMA ListInit == Init => ListInv
<1> SUFFICES ASSUME Init PROVE ListInv
  OBVIOUS
<1>1. list \in Seq(Link) /\ Len(list) = 0
  BY EmptySeq DEF Init
<1>2. Due(list, 0) = 0
  BY <1>1, DueAddsUp
<1>3. list \in Lists
  BY <1>1, <1>2, MaxEventsAssumption, MaxTicksAssumption DEF Lists
<1>4. Expired(list, 0)
  BY <1>1, <1>2 DEF Expired
<1>5. fired \in [Event -> 0..MaxEvents]
  BY MaxEventsAssumption DEF Init, NoneFired
<1>6. QED
  BY <1>3, <1>4, <1>5 DEF ListInv

\* What the list keeps is what CTimer promises of it.
LEMMA ListInvImplies == ListInv => TypeOK
<1> SUFFICES ASSUME ListInv PROVE TypeOK
  OBVIOUS
<1>1. list \in Seq(Link) /\ Len(list) <= MaxEvents /\ Due(list, Len(list)) <= MaxTicks
  BY DEF ListInv, Lists
<1>2. list # <<>> => list[1].wDelta > 0
  BY HeadWaits DEF ListInv
<1>3. QED
  BY <1>1, <1>2 DEF ListInv, TypeOK

\* Whatever the calls and ticks, no delta of TIMER.CPP's list goes below 0 or, added up,
\* beyond the longest delay, no expired link is left over by a tick, and the pool of
\* links is never overdrawn.
THEOREM ListIsSound == Spec => []TypeOK
<1>1. ListInv /\ [Next]_vars => ListInv'
  BY ListKept DEF Next, ListStep
<1>2. QED
  BY <1>1, ListInit, ListInvImplies, PTL DEF Spec

\* A step of the API is a step of the list.
LEMMA ApiListStep == ASSUME [TmrNext]_tmrVars PROVE ListStep
<1>1. Timer \subseteq Event /\ Func \subseteq Event /\ Delay \in Event
  BY EventAssumption
<1>2. CASE \E t \in Timer : TMR_New(t) \/ TMR_Stop(t) \/ TMR_Delete(t)
  BY <1>1, <1>2 DEF TMR_New, TMR_Stop, TMR_Delete, Deleted, ListStep
<1>3. CASE \E t \in Timer, ticks \in Ticks : TMR_Start(t, ticks)
  BY <1>1, <1>3 DEF TMR_Start, ListStep, Mode
<1>4. CASE \E e \in Func, ticks \in {0} \cup Ticks, mode \in Mode : TMR_Event(e, ticks, mode)
  <2>1. PICK e \in Func, ticks \in {0} \cup Ticks, mode \in Mode : TMR_Event(e, ticks, mode)
    BY <1>4
  <2>2. ticks > 0 => ticks \in Ticks
    BY MaxTicksAssumption DEF Ticks
  <2>3. QED
    BY <1>1, <2>1, <2>2 DEF TMR_Event, ListStep
<1>5. CASE \E ticks \in Ticks : TMR_Delay(ticks)
  BY <1>1, <1>5 DEF TMR_Delay, ListStep, Mode
<1>6. CASE DelayOver
  BY <1>6 DEF DelayOver, ListStep
<1>7. CASE Run
  BY <1>7 DEF Run, Turn, ListStep
<1>8. CASE UNCHANGED tmrVars
  BY <1>8 DEF tmrVars, ListStep
<1>9. QED
  BY <1>2, <1>3, <1>4, <1>5, <1>6, <1>7, <1>8 DEF TmrNext

\* The same under the calls of the API of TMR.CPP and its thread.
LEMMA TmrListInv == TmrSpec => []ListInv
<1>1. TmrInit => ListInv
  BY ListInit DEF TmrInit
<1>2. ListInv /\ [TmrNext]_tmrVars => ListInv'
  BY ApiListStep, ListKept
<1>3. QED
  BY <1>1, <1>2, PTL DEF TmrSpec

\* What ListIsSound says of the list, with the flags, the delay and the thread around it.
THEOREM TmrListIsSound == TmrSpec => []TypeOK
BY TmrListInv, ListInvImplies, PTL

-----------------------------------------------------------------------------
(* The flags.                                                               *)

\* The state of a flag: it has no link, and if it is set then not too early; or it has the
\* one link, and that is due when the ticks asked for are over.
OnTime(e) == \/ Absent(list, e) /\ Flag[e] <= 1 /\ (Flag[e] > 0 => age[e] >= asked[e])
             \/ Alone(list, e, asked[e] - age[e]) /\ Flag[e] = 0 /\ age[e] < asked[e]

\* The timers that are answered for, with the delay.
Watched == (Timer \ again) \cup {Delay}

FlagTypes == /\ alive \subseteq Timer /\ Flag \in [Flagged -> Nat] /\ owed \subseteq alive \cup {Delay}
             /\ asked \in [Flagged -> 0..MaxTicks] /\ age \in [Flagged -> 0..MaxTicks]

\* Flags are on time, a deleted timer has no link, and neither has the delay between two
\* calls; an event that was given a link and has none any more has had its flag set.
FlagInv == /\ FlagTypes
           /\ \A e \in Watched : OnTime(e)
           /\ \A t \in Timer \ (again \cup alive) : Absent(list, t)
           /\ ~delaying => Absent(list, Delay)
           /\ \A e \in Watched : e \in owed /\ Absent(list, e) => Flag[e] = 1

\* A call for another event leaves an event's flag on time, and so does its own cancel.
LEMMA CallsKeepFlag ==
  ASSUME ListInv, NEW e \in Flagged, OnTime(e),
         Flag'[e] = Flag[e], asked'[e] = asked[e], age'[e] = age[e],
         \/ \E f \in Event, ticks \in Ticks, mode \in Mode : f # e /\ Schedule(f, ticks, mode)
         \/ \E f \in Event : Cancel(f)
         \/ UNCHANGED list
  PROVE  OnTime(e)' /\ (Absent(list, e) => Absent(list', e))
<1>1. list \in Lists
  BY DEF ListInv
<1>2. /\ Absent(list, e) => Absent(list', e)
      /\ \A n : Alone(list, e, n) => Alone(list', e, n) \/ Absent(list', e)
  <2>1. ASSUME NEW f \in Event, NEW ticks \in Ticks, NEW mode \in Mode, f # e, Schedule(f, ticks, mode)
        PROVE  <1>2!1 /\ <1>2!2
    BY <1>1, <2>1, ScheduledKeeps DEF Schedule
  <2>2. ASSUME NEW f \in Event, Cancel(f)
        PROVE  <1>2!1 /\ <1>2!2
    BY <1>1, <2>2, CancelledKeeps DEF Cancel
  <2>3. CASE UNCHANGED list
    BY <2>3
  <2>4. QED
    BY <2>1, <2>2, <2>3
<1>3. CASE Absent(list, e) /\ Flag[e] <= 1 /\ (Flag[e] > 0 => age[e] >= asked[e])
  BY <1>2, <1>3 DEF OnTime
<1>4. CASE Alone(list, e, asked[e] - age[e]) /\ Flag[e] = 0 /\ age[e] < asked[e]
  BY <1>2, <1>4 DEF OnTime
<1>5. QED
  BY <1>2, <1>3, <1>4 DEF OnTime

\* A start that finds the event without a link leaves its flag on time: it is scheduled for
\* the ticks asked for, or nothing is, and the flag stays down.
LEMMA StartKeepsFlag ==
  ASSUME ListInv, NEW e \in Event, NEW ticks \in Ticks, Absent(list, e),
         Schedule(e, ticks, "SINGLE"), Flag'[e] = 0, asked'[e] = ticks, age'[e] = 0
  PROVE  OnTime(e)' /\ (Room => Alone(list', e, ticks))
<1>1. list \in Lists /\ Len(list) \in Nat /\ Len(list) <= MaxEvents
  BY DueNat DEF ListInv, Lists
<1>2. ticks \in Nat /\ ticks > 0 /\ ticks - 0 = ticks
  BY DEF Ticks
<1>3. CASE Room
  <2>1. Alone(list', e, ticks)
    BY <1>1, <1>3, ScheduledKeeps DEF Schedule, Room, Mode
  <2>2. QED
    BY <1>2, <2>1 DEF OnTime
<1>4. CASE ~Room
  <2>1. Len(list) = MaxEvents
    BY <1>1, <1>4, MaxEventsAssumption DEF Room
  <2>2. list' = list
    BY <1>1, <2>1, ScheduledKeeps DEF Schedule, Mode
  <2>3. QED
    BY <1>4, <2>2 DEF OnTime
<1>5. QED
  BY <1>3, <1>4

\* A tick of the thread: the flag is counted in the tick in which the ticks are over.
LEMMA TickKeepsFlag ==
  ASSUME ListInv, FlagTypes, NEW e \in Flagged, OnTime(e), Run
  PROVE  /\ OnTime(e)' /\ (Absent(list, e) => Absent(list', e) /\ Flag'[e] = Flag[e])
         /\ ~Absent(list, e) /\ Absent(list', e) => Flag'[e] = 1
<1>1. /\ e \in Event /\ Flag[e] \in Nat /\ asked[e] \in 0..MaxTicks /\ age[e] \in 0..MaxTicks
      /\ asked' = asked /\ Flag'[e] = Flag[e] + fired'[e]
      /\ age'[e] = IF age[e] < MaxTicks THEN age[e] + 1 ELSE MaxTicks
  BY EventAssumption DEF FlagTypes, Flagged, Run
<1>2. /\ Absent(list, e) => Absent(list', e) /\ fired'[e] = 0
      /\ \A n : Alone(list, e, n) => IF n = 1 THEN Absent(list', e) /\ fired'[e] = 1
                                     ELSE Alone(list', e, n - 1) /\ fired'[e] = 0
  BY <1>1, TickKeeps DEF ListInv, Run, Turn
<1>3. CASE Absent(list, e) /\ Flag[e] <= 1 /\ (Flag[e] > 0 => age[e] >= asked[e])
  <2>1. Absent(list', e) /\ Flag'[e] = Flag[e]
    BY <1>1, <1>2, <1>3
  <2>2. age[e] >= asked[e] => age'[e] >= asked[e]
    BY <1>1, MaxTicksAssumption
  <2>3. QED
    BY <1>1, <1>3, <2>1, <2>2 DEF OnTime
<1>4. CASE Alone(list, e, asked[e] - age[e]) /\ Flag[e] = 0 /\ age[e] < asked[e]
  <2>1. ~Absent(list, e)
    BY <1>4 DEF Absent, Alone
  <2>2. age'[e] = age[e] + 1
    BY <1>1, <1>4, MaxTicksAssumption
  <2>3. CASE asked[e] - age[e] = 1
    <3>1. Absent(list', e) /\ fired'[e] = 1
      BY <1>2, <1>4, <2>3
    <3>2. Flag'[e] = 1 /\ age'[e] >= asked[e]
      BY <1>1, <1>4, <2>2, <2>3, <3>1
    <3>3. QED
      BY <1>1, <2>1, <3>1, <3>2 DEF OnTime
  <2>4. CASE asked[e] - age[e] # 1
    <3>1. Alone(list', e, asked[e] - age[e] - 1) /\ fired'[e] = 0
      BY <1>2, <1>4, <2>4
    <3>2. /\ asked[e] - age[e] - 1 = asked[e] - age'[e] /\ Flag'[e] = 0
          /\ age'[e] < asked[e]
      BY <1>1, <1>4, <2>2, <2>4, <3>1
    <3>3. ~Absent(list', e)
      BY <3>1 DEF Absent, Alone
    <3>4. QED
      BY <1>1, <2>1, <3>1, <3>2, <3>3 DEF OnTime
  <2>5. QED
    BY <2>3, <2>4
<1>5. QED
  BY <1>3, <1>4 DEF OnTime

\* The flags' types are kept by every step.
LEMMA FlagTypesKept == ListInv /\ FlagTypes /\ [TmrNext]_tmrVars => FlagTypes'
<1> SUFFICES ASSUME ListInv, FlagTypes, [TmrNext]_tmrVars PROVE FlagTypes'
  OBVIOUS
<1>1. Ticks \subseteq 0..MaxTicks /\ 0 \in 0..MaxTicks /\ Flagged \subseteq Event /\ Timer \subseteq Flagged
      /\ Delay \in Flagged
  BY MaxTicksAssumption, EventAssumption DEF Ticks, Flagged
<1>2. CASE \E t \in Timer : TMR_New(t) \/ TMR_Stop(t) \/ TMR_Delete(t)
  BY <1>1, <1>2 DEF TMR_New, TMR_Stop, TMR_Delete, FlagTypes
<1>3. CASE \E t \in Timer, ticks \in Ticks : TMR_Start(t, ticks)
  BY <1>1, <1>3 DEF TMR_Start, Cleared, FlagTypes
<1>4. CASE \E e \in Func, ticks \in {0} \cup Ticks, mode \in Mode : TMR_Event(e, ticks, mode)
  BY <1>4 DEF TMR_Event, FlagTypes, apiVars
<1>5. CASE \E ticks \in Ticks : TMR_Delay(ticks)
  BY <1>1, <1>5 DEF TMR_Delay, FlagTypes
<1>6. CASE DelayOver
  BY <1>1, <1>6 DEF DelayOver, FlagTypes
<1>7. CASE Run
  <2>1. fired' \in [Event -> Nat]
    <3>1. fired' \in [Event -> 0..MaxEvents]
      BY <1>7, TickKeeps DEF ListInv, Run, Turn
    <3>2. QED
      BY <3>1, MaxEventsAssumption
  <2>2. \A e \in Flagged : Flag[e] + fired'[e] \in Nat
    BY <1>1, <2>1 DEF FlagTypes
  <2>3. \A e \in Flagged : (IF age[e] < MaxTicks THEN age[e] + 1 ELSE MaxTicks) \in 0..MaxTicks
    BY MaxTicksAssumption DEF FlagTypes
  <2>4. QED
    BY <1>7, <2>2, <2>3 DEF Run, FlagTypes
<1>8. CASE UNCHANGED tmrVars
  BY <1>8 DEF tmrVars, apiVars, FlagTypes
<1>9. QED
  BY <1>2, <1>3, <1>4, <1>5, <1>6, <1>7, <1>8 DEF TmrNext

\* Scheduling another event takes no link of an event on time away.
LEMMA OtherScheduled ==
  ASSUME ListInv, NEW e \in Flagged, OnTime(e),
         NEW f \in Event, NEW ticks \in Ticks, NEW mode \in Mode, f # e, Schedule(f, ticks, mode),
         Flag'[e] = Flag[e], asked'[e] = asked[e], age'[e] = age[e]
  PROVE  OnTime(e)' /\ (Absent(list, e) <=> Absent(list', e))
<1>1. OnTime(e)' /\ (Absent(list, e) => Absent(list', e))
  BY CallsKeepFlag
<1>2. \A n : Alone(list, e, n) => Alone(list', e, n)
  BY ScheduledKeeps DEF ListInv, Schedule
<1>3. Alone(list', e, asked[e] - age[e]) => ~Absent(list', e)
  BY DEF Absent, Alone
<1>4. QED
  BY <1>1, <1>2, <1>3 DEF OnTime

\* A call that starts nothing of a watched flag's and lowers no flag keeps them all; one
\* that takes an event's link off takes it off what is owed.
LEMMA OtherCallKeeps ==
  ASSUME ListInv, FlagInv, UNCHANGED <<Flag, asked, age, again>>,
         \/ \E f \in Func, ticks \in Ticks, mode \in Mode : Schedule(f, ticks, mode) /\ owed' = owed
         \/ \E f \in Event : Cancel(f) /\ owed' = owed \ {f}
         \/ UNCHANGED <<list, owed>>
  PROVE  /\ \A e \in Watched : OnTime(e)'
         /\ \A e \in Watched : Absent(list, e) => Absent(list', e)
         /\ \A e \in Watched : e \in owed' /\ Absent(list', e) => Flag[e] = 1
<1>1. Watched \subseteq Flagged /\ Watched \cap Func = {} /\ Func \subseteq Event /\ Watched \subseteq Event
  BY EventAssumption, DistinctAssumption DEF Watched, Flagged
<1>2. ASSUME NEW e \in Watched
      PROVE  /\ OnTime(e)' /\ (Absent(list, e) => Absent(list', e))
             /\ e \in owed' /\ Absent(list', e) => Flag[e] = 1
  <2>1. /\ OnTime(e) /\ e \in Flagged /\ e \notin Func /\ e \in Event
        /\ Flag'[e] = Flag[e] /\ asked'[e] = asked[e] /\ age'[e] = age[e]
        /\ e \in owed /\ Absent(list, e) => Flag[e] = 1
    BY <1>1, <1>2 DEF FlagInv
  <2>2. /\ OnTime(e) /\ Alone(list, e, asked[e] - age[e]) => ~Absent(list, e)
        /\ Alone(list', e, asked[e] - age[e]) => ~Absent(list', e)
    BY <2>1 DEF Absent, Alone
  <2>3. ASSUME NEW f \in Event, Cancel(f), owed' = owed \ {f}
        PROVE  <1>2!2
    <3>1. OnTime(e)' /\ (Absent(list, e) => Absent(list', e))
      BY <2>1, <2>3, CallsKeepFlag
    <3>2. CASE e = f
      BY <2>3, <3>1, <3>2
    <3>3. CASE e # f
      <4>1. \A n : Alone(list, e, n) => Alone(list', e, n)
        BY <2>1, <2>3, <3>3, CancelledKeeps DEF ListInv, Cancel
      <4>2. Absent(list', e) => Absent(list, e)
        BY <2>1, <2>2, <4>1 DEF OnTime
      <4>3. QED
        BY <2>1, <2>3, <3>1, <4>2
    <3>4. QED
      BY <3>2, <3>3
  <2>4. ASSUME NEW f \in Func, NEW ticks \in Ticks, NEW mode \in Mode,
               Schedule(f, ticks, mode), owed' = owed
        PROVE  <1>2!2
    <3>1. f \in Event /\ f # e
      BY <1>1, <2>1
    <3>2. OnTime(e)' /\ (Absent(list, e) => Absent(list', e))
      BY <2>1, <2>4, <3>1, CallsKeepFlag
    <3>3. \A n : Alone(list, e, n) => Alone(list', e, n)
      BY <2>1, <2>4, <3>1, ScheduledKeeps DEF ListInv, Schedule
    <3>4. Absent(list', e) => Absent(list, e)
      BY <2>1, <2>2, <3>3 DEF OnTime
    <3>5. QED
      BY <2>1, <2>4, <3>2, <3>4
  <2>5. CASE UNCHANGED <<list, owed>>
    BY <2>1, <2>5 DEF OnTime
  <2>6. QED
    BY <2>3, <2>4, <2>5
<1>3. QED
  BY <1>2

\* The flags' invariant at the start, and over every call, the delay's end and the tick.
LEMMA FlagInit == TmrInit => FlagInv
<1> SUFFICES ASSUME TmrInit PROVE FlagInv
  OBVIOUS
<1>1. \A e : Absent(list, e)
  BY EmptySeq DEF TmrInit, Init, Absent
<1>2. FlagTypes
  BY MaxTicksAssumption DEF TmrInit, FlagTypes, Flagged
<1>3. \A e \in Watched : OnTime(e)
  BY <1>1 DEF TmrInit, OnTime, Watched, Flagged
<1>4. QED
  BY <1>1, <1>2, <1>3 DEF FlagInv, TmrInit

\* Every step keeps the invariant of the flags.
LEMMA FlagKept == ListInv /\ FlagInv /\ [TmrNext]_tmrVars => FlagInv'
<1> SUFFICES ASSUME ListInv, FlagInv, [TmrNext]_tmrVars PROVE FlagInv'
  OBVIOUS
<1>1. FlagTypes' /\ FlagTypes
  BY FlagTypesKept DEF FlagInv
<1>2. /\ Timer \subseteq Event /\ Func \subseteq Event /\ Delay \in Event /\ Delay \in Watched
      /\ Delay \notin Timer /\ Watched \subseteq Flagged /\ Delay \in Flagged /\ Timer \subseteq Flagged
      /\ Flagged \subseteq Event
  BY EventAssumption, DistinctAssumption DEF Watched, Flagged
<1>4. ASSUME NEW t \in Timer, TMR_New(t) PROVE FlagInv'
  <2>1. /\ alive' = alive \cup {t} /\ t \notin alive /\ list' = list
        /\ Flag' = [Flag EXCEPT ![t] = 0]
        /\ UNCHANGED <<asked, age, again, delaying, owed>>
    BY <1>4 DEF TMR_New, vars
  <2>2. ASSUME NEW e \in Watched' PROVE OnTime(e)'
    <3>1. e \in Watched /\ e \in Flagged /\ OnTime(e)
      BY <1>2, <2>1, <2>2 DEF Watched, FlagInv
    <3>2. CASE e = t
      <4>1. Absent(list, e) /\ Flag'[e] = 0
        BY <1>1, <1>2, <2>1, <3>1, <3>2 DEF FlagInv, Watched, FlagTypes
      <4>2. QED
        BY <2>1, <4>1 DEF OnTime
    <3>3. CASE e # t
      <4>1. Flag'[e] = Flag[e]
        BY <1>1, <2>1, <3>1, <3>3 DEF FlagTypes
      <4>2. QED
        BY <2>1, <3>1, <4>1 DEF OnTime
    <3>4. QED
      BY <3>2, <3>3
  <2>3. ASSUME NEW e \in Watched', e \in owed', Absent(list', e) PROVE Flag'[e] = 1
    <3>1. e # t /\ e \in Watched /\ e \in Flagged
      BY <1>1, <1>2, <2>1, <2>3 DEF FlagTypes, Watched
    <3>2. Flag'[e] = Flag[e]
      BY <1>1, <2>1, <3>1 DEF FlagTypes
    <3>3. QED
      BY <2>1, <2>3, <3>1, <3>2 DEF FlagInv
  <2>4. QED
    BY <1>1, <2>1, <2>2, <2>3 DEF FlagInv
<1>5. ASSUME NEW t \in Timer, \E ticks \in Ticks : TMR_Start(t, ticks) PROVE FlagInv'
  <2>1. PICK ticks \in Ticks :
          /\ ~delaying /\ t \in alive /\ Schedule(t, ticks, "SINGLE")
          /\ Flag' = [Flag EXCEPT ![t] = 0]
          /\ asked' = [asked EXCEPT ![t] = ticks] /\ age' = [age EXCEPT ![t] = 0]
          /\ again' = (IF IsScheduled(t) THEN again \cup {t} ELSE again)
          /\ owed' = (IF Room THEN owed \cup {t} ELSE owed \ {t})
          /\ UNCHANGED <<alive, delaying>>
    BY <1>5, MaxTicksAssumption DEF TMR_Start, Unlocked, Cleared, Ticks
  <2>2. /\ Flag'[t] = 0 /\ asked'[t] = ticks /\ age'[t] = 0
        /\ \A e \in Flagged : e # t => Flag'[e] = Flag[e] /\ asked'[e] = asked[e] /\ age'[e] = age[e]
    BY <1>1, <1>2, <2>1 DEF FlagTypes
  <2>3. ASSUME NEW e \in Flagged, e # t, OnTime(e)
        PROVE  OnTime(e)' /\ (Absent(list, e) <=> Absent(list', e))
    BY <1>2, <2>1, <2>2, <2>3, OtherScheduled DEF Mode
  <2>4. ASSUME NEW e \in Watched'
        PROVE  OnTime(e)' /\ (e \in owed' /\ Absent(list', e) => Flag'[e] = 1)
    <3>1. e \in Watched /\ e \in Flagged /\ OnTime(e)
          /\ (e \in owed /\ Absent(list, e) => Flag[e] = 1)
      BY <1>2, <2>1, <2>4 DEF Watched, FlagInv
    <3>2. CASE e = t
      <4>1. t \notin again'
        BY <1>2, <2>4, <3>2 DEF Watched
      <4>2. Absent(list, t)
        BY <2>1, <4>1 DEF IsScheduled, Absent
      <4>3. OnTime(e)' /\ (Room => Alone(list', e, ticks))
        BY <1>2, <2>1, <2>2, <3>2, <4>2, StartKeepsFlag
      <4>4. Alone(list', e, ticks) => ~Absent(list', e)
        BY DEF Absent, Alone
      <4>5. QED
        BY <2>1, <3>2, <4>3, <4>4
    <3>3. CASE e # t
      <4>1. OnTime(e)' /\ (Absent(list, e) <=> Absent(list', e)) /\ Flag'[e] = Flag[e]
        BY <2>2, <2>3, <3>1, <3>3
      <4>2. e \in owed' => e \in owed
        BY <2>1, <3>3
      <4>3. QED
        BY <3>1, <4>1, <4>2
    <3>4. QED
      BY <3>2, <3>3
  <2>5. Absent(list', Delay)
    BY <1>2, <2>1, <2>3 DEF FlagInv
  <2>6. ASSUME NEW e \in (Timer \ (again \cup alive))' PROVE Absent(list', e)
    <3>1. e \in Watched /\ e \in Flagged /\ Absent(list, e) /\ e # t
      BY <1>2, <2>1, <2>6 DEF Watched, FlagInv
    <3>2. QED
      BY <2>3, <3>1 DEF FlagInv
  <2>7. QED
    BY <1>1, <2>1, <2>4, <2>5, <2>6 DEF FlagInv
<1>6. ASSUME NEW t \in Timer, TMR_Stop(t) PROVE FlagInv'
  <2>1. /\ ~delaying /\ Cancel(t) /\ owed' = owed \ {t}
        /\ UNCHANGED <<alive, Flag, asked, age, again, delaying>>
    BY <1>6 DEF TMR_Stop, Unlocked
  <2>2. /\ \A e \in Watched : OnTime(e)'
        /\ \A e \in Watched : Absent(list, e) => Absent(list', e)
        /\ \A e \in Watched : e \in owed' /\ Absent(list', e) => Flag[e] = 1
    BY <1>2, <2>1, OtherCallKeeps
  <2>3. \A e \in Timer \ (again \cup alive) : e \in Watched
    BY DEF Watched
  <2>4. QED
    BY <1>1, <1>2, <2>1, <2>2, <2>3 DEF FlagInv, Watched
<1>7. ASSUME NEW t \in Timer, TMR_Delete(t) PROVE FlagInv'
  <2>1. /\ ~delaying /\ Cancel(t) /\ alive' = alive \ {t}
        /\ owed' = owed \ {t} /\ UNCHANGED <<Flag, asked, age, again, delaying>>
    BY <1>7 DEF TMR_Delete, Deleted, Unlocked
  <2>2. /\ \A e \in Watched : OnTime(e)'
        /\ \A e \in Watched : Absent(list, e) => Absent(list', e)
        /\ \A e \in Watched : e \in owed' /\ Absent(list', e) => Flag[e] = 1
    BY <1>2, <2>1, OtherCallKeeps
  <2>3. ASSUME NEW e \in (Timer \ (again \cup alive))' PROVE Absent(list', e)
    <3>1. e \in Watched /\ OnTime(e) /\ e \in Timer \ again
      BY <2>1, <2>3 DEF Watched, FlagInv
    <3>2. CASE e = t
      BY <1>2, <2>1, <3>1, <3>2, CancelledKeeps DEF ListInv, OnTime, Cancel
    <3>3. CASE e # t
      <4>1. Absent(list, e)
        BY <2>1, <2>3, <3>3 DEF FlagInv
      <4>2. QED
        BY <2>2, <3>1, <4>1
    <3>4. QED
      BY <3>2, <3>3
  <2>4. QED
    BY <1>1, <1>2, <2>1, <2>2, <2>3 DEF FlagInv, Watched
<1>8. ASSUME NEW f \in Func, NEW ticks \in {0} \cup Ticks, NEW mode \in Mode, TMR_Event(f, ticks, mode)
      PROVE  FlagInv'
  <2>1. /\ ~delaying /\ UNCHANGED <<alive, Flag, asked, age, again, delaying>>
        /\ ((\E u \in Ticks : Schedule(f, u, mode)) /\ owed' = owed) \/ (Cancel(f) /\ owed' = owed \ {f})
    <3>1. f \notin owed
      BY <1>1, DistinctAssumption DEF FlagTypes
    <3>2. owed \ {f} = owed
      BY <3>1
    <3>3. QED
      BY <1>8, <3>2, MaxTicksAssumption DEF TMR_Event, Unlocked, apiVars, Ticks
  <2>2. /\ \A e \in Watched : OnTime(e)'
        /\ \A e \in Watched : Absent(list, e) => Absent(list', e)
        /\ \A e \in Watched : e \in owed' /\ Absent(list', e) => Flag[e] = 1
    BY <1>2, <2>1, OtherCallKeeps
  <2>3. \A e \in Timer \ (again \cup alive) : e \in Watched
    BY DEF Watched
  <2>4. QED
    BY <1>1, <1>2, <2>1, <2>2, <2>3 DEF FlagInv, Watched
<1>9. ASSUME NEW ticks \in Ticks, TMR_Delay(ticks) PROVE FlagInv'
  <2>1. /\ ~delaying /\ delaying' /\ Schedule(Delay, ticks, "SINGLE")
        /\ Flag' = [Flag EXCEPT ![Delay] = 0]
        /\ asked' = [asked EXCEPT ![Delay] = ticks] /\ age' = [age EXCEPT ![Delay] = 0]
        /\ owed' = (IF Room THEN owed \cup {Delay} ELSE owed \ {Delay})
        /\ UNCHANGED <<alive, again>>
    BY <1>9 DEF TMR_Delay, Unlocked
  <2>2. /\ Flag'[Delay] = 0 /\ asked'[Delay] = ticks /\ age'[Delay] = 0
        /\ \A e \in Flagged : e # Delay => Flag'[e] = Flag[e] /\ asked'[e] = asked[e] /\ age'[e] = age[e]
    BY <1>1, <1>2, <2>1 DEF FlagTypes
  <2>3. Absent(list, Delay)
    BY <2>1 DEF FlagInv
  <2>4. OnTime(Delay)' /\ (Room => Alone(list', Delay, ticks))
    BY <1>2, <2>1, <2>2, <2>3, StartKeepsFlag
  <2>5. ASSUME NEW e \in Flagged, e # Delay, OnTime(e)
        PROVE  OnTime(e)' /\ (Absent(list, e) <=> Absent(list', e))
    BY <1>2, <2>1, <2>2, <2>5, OtherScheduled DEF Mode
  <2>6. \A e \in Watched' : OnTime(e)'
    BY <1>2, <2>1, <2>4, <2>5 DEF FlagInv, Watched
  <2>7. \A e \in Timer \ (again \cup alive) : Absent(list', e)
    BY <1>2, <2>5 DEF FlagInv, Watched
  <2>8. ASSUME NEW e \in Watched', e \in owed', Absent(list', e) PROVE Flag'[e] = 1
    <3>1. Alone(list', e, ticks) => ~Absent(list', e)
      BY DEF Absent, Alone
    <3>2. e # Delay
      BY <2>1, <2>4, <2>8, <3>1
    <3>3. e \in Watched /\ e \in Flagged /\ e \in owed /\ OnTime(e)
      BY <1>2, <2>1, <2>8, <3>2 DEF FlagInv, Watched
    <3>4. Absent(list, e) /\ Flag'[e] = Flag[e]
      BY <2>2, <2>5, <2>8, <3>2, <3>3
    <3>5. QED
      BY <3>3, <3>4 DEF FlagInv
  <2>9. QED
    BY <1>1, <2>1, <2>6, <2>7, <2>8 DEF FlagInv
<1>10. CASE DelayOver
  <2>1. /\ ~delaying' /\ Flag' = [Flag EXCEPT ![Delay] = 0] /\ list' = list /\ Flag[Delay] > 0
        /\ owed' = owed \ {Delay} /\ UNCHANGED <<alive, asked, age, again>>
    BY <1>10 DEF DelayOver, vars
  <2>2. Flag'[Delay] = 0 /\ \A e \in Flagged : e # Delay => Flag'[e] = Flag[e]
    BY <1>1, <1>2, <2>1 DEF FlagTypes
  <2>3. Absent(list, Delay)
    BY <1>2, <2>1 DEF FlagInv, OnTime
  <2>4. ASSUME NEW e \in Watched PROVE OnTime(e)'
    <3>1. OnTime(e) /\ e \in Flagged
      BY <1>2, <2>4 DEF FlagInv
    <3>2. CASE e = Delay
      BY <2>1, <2>2, <2>3, <3>2 DEF OnTime
    <3>3. CASE e # Delay
      BY <2>1, <2>2, <3>1, <3>3 DEF OnTime
    <3>4. QED
      BY <3>2, <3>3
  <2>5. Watched' = Watched
    BY <2>1 DEF Watched
  <2>6. ASSUME NEW e \in Watched, e \in owed', Absent(list, e) PROVE Flag'[e] = 1
    BY <1>2, <2>1, <2>2, <2>6 DEF FlagInv
  <2>7. QED
    BY <1>1, <2>1, <2>3, <2>4, <2>5, <2>6 DEF FlagInv
<1>11. CASE Run
  <2>1. UNCHANGED <<alive, delaying, asked, again, owed>>
    BY <1>11 DEF Run
  <2>2. \A e \in Watched : /\ OnTime(e)' /\ (Absent(list, e) => Absent(list', e) /\ Flag'[e] = Flag[e])
                           /\ ~Absent(list, e) /\ Absent(list', e) => Flag'[e] = 1
    BY <1>1, <1>2, <1>11, TickKeepsFlag DEF FlagInv
  <2>3. \A e \in Timer \ (again \cup alive) : e \in Watched
    BY DEF Watched
  <2>4. QED
    BY <1>1, <1>2, <2>1, <2>2, <2>3 DEF FlagInv, Watched
<1>12. CASE UNCHANGED tmrVars
  <2>1. UNCHANGED <<list, alive, Flag, delaying, asked, age, again, owed>>
    BY <1>12 DEF tmrVars, vars, apiVars
  <2>2. QED
    BY <1>1, <2>1 DEF FlagInv, Watched, OnTime
<1>13. QED
  BY <1>4, <1>5, <1>6, <1>7, <1>8, <1>9, <1>10, <1>11, <1>12 DEF TmrNext

\* The invariants of the list and of the flags under the calls and the thread of TMR.CPP.
LEMMA TmrFlagInv == TmrSpec => [](ListInv /\ FlagInv)
<1>1. FlagInv /\ ListInv /\ [TmrNext]_tmrVars => FlagInv'
  BY FlagKept
<1>2. QED
  BY <1>1, TmrListInv, FlagInit, PTL DEF TmrSpec

\* A timer that found a link has its flag up from the tick it asked for on and not a tick
\* before, until it is stopped, and so has a delay, while other timers and events are
\* started, stopped, deleted, or armed again by the tick itself.
THEOREM FlagsInTime == TmrSpec => []FlagsOnTime
<1>1. FlagInv => FlagsOnTime
  <2> SUFFICES ASSUME FlagInv, NEW e \in Flagged \ again
               PROVE  /\ e \in owed => Flag[e] = IF age[e] < asked[e] THEN 0 ELSE 1
                      /\ Flag[e] > 0 => age[e] >= asked[e] /\ Flag[e] = 1
    BY DEF FlagsOnTime
  <2>1. e \in Watched /\ e \in Flagged
    BY DEF Watched, Flagged
  <2>2. /\ OnTime(e) /\ (e \in owed /\ Absent(list, e) => Flag[e] = 1) /\ Flag[e] \in Nat
        /\ age[e] \in 0..MaxTicks /\ asked[e] \in 0..MaxTicks
    BY <2>1 DEF FlagInv, FlagTypes
  <2>3. QED
    BY <2>2, MaxTicksAssumption DEF OnTime
<1>2. QED
  BY <1>1, TmrFlagInv, PTL

\* No link in the list leads to a timer that was deleted or to the stack of a delay that
\* has returned.
THEOREM NoDeadLink == TmrSpec => []NoDeadEvent
<1>1. FlagInv => NoDeadEvent
  BY DEF FlagInv, NoDeadEvent, Absent
<1>2. QED
  BY <1>1, TmrFlagInv, PTL

-----------------------------------------------------------------------------
(* The deadlines.                                                           *)

\* What a list stands for: the deadlines there are, and how many of each.
Deadlines == [event : Event, left : Nat, period : Ticks, mode : Mode]
Marks(l) == [k \in 1..Len(l) |-> DeadlineOf(l, k)]
Present(l) == {DeadlineOf(l, k) : k \in 1..Len(l)}
Number(l, d) == Cardinality({k \in 1..Len(l) : DeadlineOf(l, k) = d})
BagOf(l) == [d \in Present(l) |-> Number(l, d)]

\* The abstract state is that of the list.
LEMMA PendingIs == Pending = BagOf(list) /\ Pending' = BagOf(list')
BY DEF Pending, BagOf, Present, Number

\* A list's links have deadlines, and those that are there are the ones it has some of.
LEMMA NumberType ==
  ASSUME NEW l \in Lists
  PROVE  /\ Present(l) \subseteq Deadlines
         /\ \A d : Number(l, d) \in 0..MaxEvents
         /\ \A d : d \in Present(l) <=> Number(l, d) > 0
<1>1. l \in Seq(Link) /\ Len(l) \in Nat /\ Len(l) <= MaxEvents /\ MaxEvents \in Nat
  BY MaxEventsAssumption DEF Lists
<1>2. ASSUME NEW k \in 1..Len(l) PROVE DeadlineOf(l, k) \in Deadlines
  <2>1. l[k].pThis \in Event /\ l[k].wPeriod \in Ticks /\ l[k].Flags \in Mode
    BY <1>1, LinkType
  <2>2. Due(l, k) \in Nat
    BY <1>1, DueNat
  <2>3. QED
    BY <2>1, <2>2 DEF DeadlineOf, Deadlines
<1>3. ASSUME NEW d
      PROVE  Number(l, d) \in 0..MaxEvents /\ (d \in Present(l) <=> Number(l, d) > 0)
  <2> DEFINE A == {k \in 1..Len(l) : DeadlineOf(l, k) = d}
  <2>1. A \subseteq 1..Len(l) /\ (A = {} <=> d \notin Present(l))
    BY DEF Present
  <2> HIDE DEF A
  <2>2. IsFiniteSet(A) /\ Cardinality(A) \in 0..Len(l)
    BY <1>1, <2>1, CountUpTo
  <2>3. Cardinality(A) = 0 <=> A = {}
    BY <2>2, FS_EmptySet
  <2>4. QED
    BY <1>1, <2>1, <2>2, <2>3 DEF Number, A
<1>4. QED
  BY <1>2, <1>3 DEF Present

\* A bag with the same numbers is the same.
LEMMA SameBag ==
  ASSUME NEW l \in Lists, NEW D, NEW B, B = [d \in D |-> B[d]], D \subseteq Deadlines,
         \A d \in Deadlines : d \in D <=> Number(l, d) > 0,
         \A d \in D : B[d] = Number(l, d)
  PROVE  B = BagOf(l)
<1>1. D = Present(l)
  BY NumberType
<1>2. QED
  BY <1>1 DEF BagOf

\* One deadline more.
LEMMA InsertedNumber ==
  ASSUME NEW l \in Lists, NEW r, NEW p, NEW d, Inserted(l, r, p, d), NEW c
  PROVE  Number(r, c) = Number(l, c) + (IF c = d THEN 1 ELSE 0)
<1> DEFINE A == {k \in 1..Len(l) : DeadlineOf(l, k) = c}
           B == {k \in 1..Len(r) : DeadlineOf(r, k) = c}
<1>1. Len(l) \in Nat /\ Len(r) = Len(l) + 1 /\ p \in 0..Len(l) /\ p + 1 \in 1..Len(r)
  BY InsertedLinks
<1>2. /\ \A k \in 1..p : DeadlineOf(r, k) = DeadlineOf(l, k)
      /\ DeadlineOf(r, p + 1) = d
      /\ \A k \in (p + 1)..Len(l) : DeadlineOf(r, k + 1) = DeadlineOf(l, k)
  BY DEF Inserted
<1>3. A \subseteq 1..Len(l) /\ B \subseteq 1..(Len(l) + 1)
  BY <1>1
<1>4. \A k \in 1..p : k \in B <=> k \in A
  BY <1>1, <1>2
<1>5. \A k \in (p + 1)..Len(l) : k + 1 \in B <=> k \in A
  BY <1>1, <1>2
<1>6. p + 1 \in B <=> c = d
  BY <1>1, <1>2
<1> HIDE DEF A, B
<1>7. Shifted(Len(l), p, A, B)
  BY <1>3, <1>4, <1>5 DEF Shifted
<1>8. Cardinality(B) = Cardinality(A) + (IF p + 1 \in B THEN 1 ELSE 0)
  BY <1>1, <1>7, ShiftedCount
<1>9. QED
  BY <1>6, <1>8 DEF Number, A, B

\* One deadline less.
LEMMA RemovedNumber ==
  ASSUME NEW l \in Lists, NEW r, NEW a, Removed(l, r, a), NEW c
  PROVE  Number(l, c) = Number(r, c) + (IF c = DeadlineOf(l, a) THEN 1 ELSE 0)
<1> DEFINE A == {k \in 1..Len(r) : DeadlineOf(r, k) = c}
           B == {k \in 1..Len(l) : DeadlineOf(l, k) = c}
           n == Len(r)
           p == a - 1
<1>1. Len(l) \in Nat /\ Len(r) = Len(l) - 1 /\ a \in 1..Len(l)
  BY RemovedLinks
<1>2. n \in Nat /\ p \in 0..n /\ p + 1 = a /\ Len(l) = n + 1
  BY <1>1
<1>3. /\ \A k \in 1..(a - 1) : DeadlineOf(r, k) = DeadlineOf(l, k)
      /\ \A k \in (a + 1)..Len(l) : DeadlineOf(r, k - 1) = DeadlineOf(l, k)
  BY DEF Removed
<1>4. A \subseteq 1..n /\ B \subseteq 1..(n + 1)
  BY <1>2
<1>5. \A k \in 1..p : k \in B <=> k \in A
  BY <1>1, <1>3
<1>6. ASSUME NEW k \in (p + 1)..n PROVE k + 1 \in B <=> k \in A
  <2>1. k + 1 \in (a + 1)..Len(l) /\ (k + 1) - 1 = k /\ k \in 1..Len(r) /\ k + 1 \in 1..Len(l)
    BY <1>1
  <2>2. DeadlineOf(r, k) = DeadlineOf(l, k + 1)
    BY <1>3, <2>1
  <2>3. QED
    BY <2>1, <2>2
<1>7. p + 1 \in B <=> c = DeadlineOf(l, a)
  BY <1>1, <1>2
<1> HIDE DEF A, B
<1>8. Shifted(n, p, A, B)
  BY <1>4, <1>5, <1>6 DEF Shifted
<1> HIDE DEF n, p
<1>9. Cardinality(B) = Cardinality(A) + (IF p + 1 \in B THEN 1 ELSE 0)
  BY <1>2, <1>8, ShiftedCount
<1>10. QED
  BY <1>7, <1>9 DEF Number, A, B

\* What the abstract service counts is in the list.
LEMMA ServiceCounts ==
  ASSUME list \in Lists
  PROVE  /\ DOMAIN Pending = Present(list) /\ Pending = [d \in Present(list) |-> Pending[d]]
         /\ \A d \in Present(list) : Pending[d] = Number(list, d)
         /\ \A d : Service!Count(d) = Number(list, d)
         /\ \A S : Service!Cardinality(Service!Copies(S))
                     = Cardinality({k \in 1..Len(list) : DeadlineOf(list, k) \in S})
         /\ Service!Full <=> Len(list) = MaxEvents
<1>1. Len(list) \in Nat /\ Len(list) <= MaxEvents /\ MaxEvents \in Nat
  BY MaxEventsAssumption DEF Lists
<1>2. DOMAIN Pending = Present(list) /\ Pending = [d \in Present(list) |-> Pending[d]]
  BY PendingIs DEF BagOf
<1>3. \A d \in Present(list) : Pending[d] = Number(list, d)
  BY PendingIs DEF BagOf
<1>4. \A d : Service!Count(d) = Number(list, d)
  <2>1. \A d : d \notin Present(list) => Number(list, d) = 0
    BY NumberType, MaxEventsAssumption
  <2>2. QED
    BY <1>2, <1>3, <2>1 DEF Service!Count
<1>5. ASSUME NEW S
      PROVE  Service!Cardinality(Service!Copies(S))
               = Cardinality({k \in 1..Len(list) : DeadlineOf(list, k) \in S})
  <2> DEFINE f == Marks(list)
             n == Len(list)
  <2>1. \A k \in 1..n : f[k] = DeadlineOf(list, k)
    BY DEF Marks
  <2>2. \A d : Often(f, n, d) = Number(list, d)
    <3>1. \A d : {k \in 1..n : f[k] = d} = {k \in 1..n : DeadlineOf(list, k) = d}
      BY <2>1
    <3>2. QED
      BY <3>1 DEF Often, Number
  <2>3. {k \in 1..n : f[k] \in S} = {k \in 1..n : DeadlineOf(list, k) \in S}
    BY <2>1
  <2> HIDE DEF f, n
  <2>4. Service!Copies(S) = Numbered(S, MaxEvents, f, n)
    BY <1>4, <2>2 DEF Service!Copies, Numbered
  <2>5. Cardinality(Numbered(S, MaxEvents, f, n)) = Cardinality({k \in 1..n : f[k] \in S})
    BY <1>1, NumberedCount DEF n
  <2>6. \A X : Service!Cardinality(X) = Cardinality(X)
    BY DEF Service!Cardinality, Cardinality
  <2>7. QED
    BY <2>3, <2>4, <2>5, <2>6 DEF n
<1>6. Service!Full <=> Len(list) = MaxEvents
  <2>1. {k \in 1..Len(list) : DeadlineOf(list, k) \in Present(list)} = 1..Len(list)
    BY DEF Present
  <2>2. Cardinality(1..Len(list)) = Len(list)
    <3>1. \A n \in Nat : Cardinality(1..n) = n
      BY FS_Interval
    <3>2. QED
      BY <1>1, <3>1
  <2>3. Service!Cardinality(Service!Copies(DOMAIN Pending)) = Len(list)
    BY <1>2, <1>5, <2>1, <2>2
  <2>4. QED
    BY <2>3 DEF Service!Full
<1>7. QED
  BY <1>2, <1>3, <1>4, <1>5, <1>6

\* Schedule adds one deadline, where there is room.
LEMMA ScheduleRefines ==
  ASSUME ListInv, NEW e \in Event, NEW ticks \in Ticks, NEW mode \in Mode, Schedule(e, ticks, mode)
  PROVE  Service!Schedule(e, ticks, mode)
<1> DEFINE d == [event |-> e, left |-> ticks, period |-> ticks, mode |-> mode]
           D == Present(list) \cup {d}
           B == [c \in D |-> Service!Count(c) + (IF c = d THEN 1 ELSE 0)]
<1>1. list \in Lists /\ list' = Scheduled(list, e, ticks, mode)
  BY DEF ListInv, Schedule
<1>2. Service!Deadline(e, ticks, ticks, mode) = d
  BY DEF Service!Deadline
<1>3. fired' = Service!NoneFired /\ call' = <<"Schedule", e, ticks, mode>>
  BY DEF Schedule, NoneFired, Service!NoneFired
<1>4. CASE Service!Full
  <2>1. list' = list
    BY <1>1, <1>4, ServiceCounts, ScheduledKeeps
  <2>2. Pending' = Pending
    BY <2>1, PendingIs
  <2>3. QED
    BY <1>3, <1>4, <2>2 DEF Service!Schedule
<1>5. CASE ~Service!Full
  <2>1. Len(list) < MaxEvents
    BY <1>1, <1>5, ServiceCounts, MaxEventsAssumption DEF Lists
  <2>2. PICK p : Inserted(list, list', p, d)
    BY <1>1, <2>1, ScheduledInserts
  <2>3. list' \in Lists /\ d \in Deadlines
    BY <2>2, MaxTicksAssumption DEF Inserted, Deadlines, Ticks
  <2> HIDE DEF d
  <2>4. \A c : Number(list', c) = Number(list, c) + (IF c = d THEN 1 ELSE 0)
    BY <1>1, <2>2, InsertedNumber
  <2>5. /\ Present(list) \subseteq Deadlines
        /\ \A c : Number(list, c) \in Nat
        /\ \A c : c \in Present(list) <=> Number(list, c) > 0
    BY <1>1, NumberType, MaxEventsAssumption
  <2>6. D \subseteq Deadlines /\ \A c \in Deadlines : c \in D <=> Number(list', c) > 0
    BY <2>3, <2>4, <2>5
  <2>7. \A c \in D : B[c] = Number(list', c)
    BY <1>1, <2>4, ServiceCounts
  <2>8. B = [c \in D |-> B[c]]
    OBVIOUS
  <2>9. B = BagOf(list')
    <3> HIDE DEF B, D
    <3>1. QED
      BY <2>3, <2>6, <2>7, <2>8, SameBag
  <2>10. Pending' = B
    BY <2>9, PendingIs
  <2>11. DOMAIN Pending = Present(list)
    BY <1>1, ServiceCounts
  <2>12. QED
    BY <1>2, <1>3, <1>5, <2>10, <2>11 DEF Service!Schedule
<1>6. QED
  BY <1>4, <1>5

\* Cancel takes away the event's nearest deadline, if it has one.
LEMMA CancelRefines ==
  ASSUME ListInv, NEW e \in Event, Cancel(e)
  PROVE  Service!Cancel(e)
<1>1. list \in Lists /\ list' = Cancelled(list, e) /\ DOMAIN Pending = Present(list)
  BY ServiceCounts DEF ListInv, Cancel
<1>2. fired' = Service!NoneFired /\ call' = <<"Cancel", e>>
  BY DEF Cancel, NoneFired, Service!NoneFired
<1>3. \A k : DeadlineOf(list, k).event = list[k].pThis /\ DeadlineOf(list, k).left = Due(list, k)
  BY DeadlineFields
<1>4. CASE Absent(list, e)
  <2>1. list' = list
    BY <1>1, <1>4, CancelledKeeps
  <2>2. Pending' = Pending
    BY <2>1, PendingIs
  <2>3. Service!Of(e) = {}
    BY <1>1, <1>3, <1>4 DEF Absent, Present, Service!Of
  <2>4. QED
    BY <1>2, <2>2, <2>3 DEF Service!Cancel
<1>5. CASE ~Absent(list, e)
  <2>1. PICK a : /\ Removed(list, list', a) /\ list[a].pThis = e
                 /\ \A j \in 1..(a - 1) : list[j].pThis # e
    BY <1>1, <1>5, CancelledRemoves DEF Absent
  <2> DEFINE d == DeadlineOf(list, a)
             D == {c \in Present(list) : c = d => Pending[c] > 1}
             B == [c \in D |-> Pending[c] - (IF c = d THEN 1 ELSE 0)]
  <2>2. list' \in Lists /\ a \in 1..Len(list)
    BY <2>1 DEF Removed
  <2>3. d \in Service!Of(e)
    BY <1>1, <1>3, <2>1, <2>2 DEF Present, Service!Of
  <2>4. \A c \in Service!Of(e) : d.left <= c.left
    <3> SUFFICES ASSUME NEW c \in Service!Of(e) PROVE d.left <= c.left
      OBVIOUS
    <3>1. PICK k \in 1..Len(list) : c = DeadlineOf(list, k) /\ list[k].pThis = e
      BY <1>1, <1>3 DEF Present, Service!Of
    <3>2. k \notin 1..(a - 1) /\ Len(list) \in Nat
      BY <1>1, <2>1, <3>1, DueNat
    <3>3. k \in 0..Len(list) /\ a \in 0..k
      BY <2>2, <3>2
    <3>4. Due(list, a) <= Due(list, k)
      BY <1>1, <3>3, DueGrows DEF Lists
    <3>5. QED
      BY <1>3, <3>1, <3>4
  <2> HIDE DEF d
  <2>5. \A c : Number(list, c) = Number(list', c) + (IF c = d THEN 1 ELSE 0)
    BY <1>1, <2>1, RemovedNumber DEF d
  <2>6. /\ Present(list) \subseteq Deadlines
        /\ \A c : Number(list', c) \in Nat
        /\ \A c : c \in Present(list) <=> Number(list, c) > 0
    BY <1>1, <2>2, NumberType, MaxEventsAssumption
  <2>7. \A c \in Present(list) : Pending[c] = Number(list, c)
    BY <1>1, ServiceCounts
  <2>8. D \subseteq Deadlines /\ \A c \in Deadlines : c \in D <=> Number(list', c) > 0
    BY <2>5, <2>6, <2>7
  <2>9. \A c \in D : B[c] = Number(list', c)
    BY <2>5, <2>6, <2>7
  <2>10. B = [c \in D |-> B[c]]
    OBVIOUS
  <2>11. B = BagOf(list')
    <3> HIDE DEF B, D
    <3>1. QED
      BY <2>2, <2>8, <2>9, <2>10, SameBag
  <2>12. Pending' = Service!Without(d)
    BY <1>1, <2>11, PendingIs DEF Service!Without
  <2>13. QED
    BY <1>2, <2>3, <2>4, <2>12 DEF Service!Cancel
<1>6. QED
  BY <1>4, <1>5

\* How many of the first z links will be armed again with the deadline c, and how many of
\* them call e's Event().
ArmedAgain(l, z, c) == Cardinality({k \in 1..z : l[k].Flags = "PERIODIC" /\ Rearmed(l, k) = c})
Calls(l, z, e) == Cardinality({k \in 1..z : l[k].pThis = e})

\* The deadline that is lost, as the head is armed again before it gives its link back.
Lost(l, c) == IF l[1].Flags = "PERIODIC" /\ Len(l) = MaxEvents /\ Rearmed(l, 1) = c THEN 1 ELSE 0

\* The first z links of l are those of r behind the head.
HeadLess(l, z, r) == \A k \in 1..(z - 1) : DeadlineOf(r, k) = DeadlineOf(l, k + 1)

\* The head counts for one.
LEMMA CountsShift ==
  ASSUME NEW l, NEW r, NEW z \in Nat, z > 0, HeadLess(l, z, r)
  PROVE  /\ \A c : /\ ArmedAgain(r, z - 1, c) \in Nat
                   /\ ArmedAgain(l, z, c) = ArmedAgain(r, z - 1, c)
                        + (IF l[1].Flags = "PERIODIC" /\ Rearmed(l, 1) = c THEN 1 ELSE 0)
         /\ \A e : /\ Calls(r, z - 1, e) \in Nat
                   /\ Calls(l, z, e) = Calls(r, z - 1, e) + (IF l[1].pThis = e THEN 1 ELSE 0)
<1> DEFINE n == z - 1
<1>1. n \in Nat /\ z = n + 1 /\ 0 \in 0..n /\ 0 + 1 = 1
  OBVIOUS
<1>2. \A k \in 1..n : /\ r[k].pThis = l[k + 1].pThis /\ r[k].Flags = l[k + 1].Flags
                      /\ r[k].wPeriod = l[k + 1].wPeriod /\ DeadlineOf(r, k) = DeadlineOf(l, k + 1)
  BY DeadlineFields DEF HeadLess
<1>3. \A k \in 1..n : Rearmed(r, k) = Rearmed(l, k + 1)
  BY <1>2 DEF Rearmed
<1> HIDE DEF n
<1>4. ASSUME NEW c
      PROVE  /\ ArmedAgain(r, n, c) \in Nat
             /\ ArmedAgain(l, n + 1, c) = ArmedAgain(r, n, c)
                  + (IF l[1].Flags = "PERIODIC" /\ Rearmed(l, 1) = c THEN 1 ELSE 0)
  <2> DEFINE A == {k \in 1..n : r[k].Flags = "PERIODIC" /\ Rearmed(r, k) = c}
             B == {k \in 1..(n + 1) : l[k].Flags = "PERIODIC" /\ Rearmed(l, k) = c}
  <2>1. Shifted(n, 0, A, B)
    <3>1. \A k \in (0 + 1)..n : k \in 1..n /\ k + 1 \in 1..(n + 1)
      BY <1>1
    <3>2. QED
      BY <1>2, <1>3, <3>1 DEF Shifted
  <2>2. 0 + 1 \in B <=> l[1].Flags = "PERIODIC" /\ Rearmed(l, 1) = c
    BY <1>1
  <2> HIDE DEF A, B
  <2>3. Cardinality(A) \in 0..n /\ Cardinality(B) = Cardinality(A) + (IF 0 + 1 \in B THEN 1 ELSE 0)
    BY <1>1, <2>1, ShiftedCount
  <2>4. QED
    BY <2>2, <2>3 DEF ArmedAgain, A, B
<1>5. ASSUME NEW e
      PROVE  /\ Calls(r, n, e) \in Nat
             /\ Calls(l, n + 1, e) = Calls(r, n, e) + (IF l[1].pThis = e THEN 1 ELSE 0)
  <2> DEFINE A == {k \in 1..n : r[k].pThis = e}
             B == {k \in 1..(n + 1) : l[k].pThis = e}
  <2>1. Shifted(n, 0, A, B)
    <3>1. \A k \in (0 + 1)..n : k \in 1..n /\ k + 1 \in 1..(n + 1)
      BY <1>1
    <3>2. QED
      BY <1>2, <3>1 DEF Shifted
  <2>2. 0 + 1 \in B <=> l[1].pThis = e
    BY <1>1
  <2> HIDE DEF A, B
  <2>3. Cardinality(A) \in 0..n /\ Cardinality(B) = Cardinality(A) + (IF 0 + 1 \in B THEN 1 ELSE 0)
    BY <1>1, <2>1, ShiftedCount
  <2>4. QED
    BY <2>2, <2>3 DEF Calls, A, B
<1>6. QED
  BY <1>1, <1>4, <1>5 DEF n

\* A turn of the loop: the deadlines that are in the list or still to be armed again stay as
\* many as they are, but for one that finds no room, and so do the calls made or to be made.
LEMMA TurnNumbers ==
  ASSUME NEW s \in States, NEW z, Expired(s.list, z), z > 0
  PROVE  /\ Len(Expire(s).list) < MaxEvents
         /\ \A c \in Deadlines : c.left > 0 =>
              Number(Expire(s).list, c) + ArmedAgain(Expire(s).list, z - 1, c) + Lost(s.list, c)
                = Number(s.list, c) + ArmedAgain(s.list, z, c)
         /\ \A e \in Event : Expire(s).fired[e] + Calls(Expire(s).list, z - 1, e)
                               = s.fired[e] + Calls(s.list, z, e)
<1> DEFINE l == s.list
           r == Expire(s).list
<1>1. PICK m : /\ Rearming(l, z, m) /\ m \in Lists /\ Len(m) \in Nat
               /\ Len(m) > 0 /\ m[1].pThis = l[1].pThis /\ Expired(m, z)
               /\ Removed(m, r, 1)
  BY TurnMoves
<1>2. l \in Lists /\ r \in Lists /\ Len(l) \in Nat /\ Len(l) <= MaxEvents /\ MaxEvents \in Nat
  BY <1>1, MaxEventsAssumption DEF States, Lists, Removed
<1>3. z \in Nat /\ z > 0 /\ z \in 1..Len(l) /\ z \in 1..Len(m)
  BY <1>1, <1>2 DEF Expired
<1>4. \A e \in Event : Expire(s).fired[e] = s.fired[e] + (IF e = l[1].pThis THEN 1 ELSE 0)
  BY ExpireTurn
<1>5. \A e \in Event : s.fired[e] \in Nat
  BY DEF States
<1> HIDE DEF r
<1>6. \A k \in 1..z : DeadlineOf(m, k) = DeadlineOf(l, k)
  <2>1. CASE Rearms(l)
    <3>1. PICK p \in z..Len(l) : Inserted(l, m, p, Rearmed(l, 1))
      BY <1>1, <2>1 DEF Rearming
    <3>2. \A k \in 1..z : k \in 1..p
      BY <1>2, <1>3
    <3>3. QED
      BY <3>1, <3>2 DEF Inserted
  <2>2. CASE ~Rearms(l)
    BY <1>1, <2>2 DEF Rearming
  <2>3. QED
    BY <2>1, <2>2
<1>7. Len(r) = Len(m) - 1 /\ \A k \in (1 + 1)..Len(m) : DeadlineOf(r, k - 1) = DeadlineOf(m, k)
  BY <1>1 DEF Removed
<1>8. HeadLess(l, z, r)
  <2> SUFFICES ASSUME NEW k \in 1..(z - 1) PROVE DeadlineOf(r, k) = DeadlineOf(l, k + 1)
    BY DEF HeadLess
  <2>1. k + 1 \in (1 + 1)..Len(m) /\ (k + 1) - 1 = k /\ k + 1 \in 1..z
    BY <1>1, <1>3
  <2>2. QED
    BY <1>6, <1>7, <2>1
<1>9. /\ \A c : /\ ArmedAgain(r, z - 1, c) \in Nat
                 /\ ArmedAgain(l, z, c) = ArmedAgain(r, z - 1, c)
                      + (IF l[1].Flags = "PERIODIC" /\ Rearmed(l, 1) = c THEN 1 ELSE 0)
       /\ \A e : /\ Calls(r, z - 1, e) \in Nat
                 /\ Calls(l, z, e) = Calls(r, z - 1, e) + (IF l[1].pThis = e THEN 1 ELSE 0)
  <2> HIDE DEF l
  <2>1. QED
    BY <1>3, <1>8, CountsShift
<1>10. Len(r) < MaxEvents
  <2>1. CASE Rearms(l)
    <3>1. PICK p \in z..Len(l) : Inserted(l, m, p, Rearmed(l, 1))
      BY <1>1, <2>1 DEF Rearming
    <3>2. QED
      BY <1>2, <1>7, <2>1, <3>1 DEF Inserted, Rearms
  <2>2. CASE ~Rearms(l)
    BY <1>1, <1>2, <1>7, <2>2 DEF Rearming
  <2>3. QED
    BY <2>1, <2>2
<1>11. ASSUME NEW c \in Deadlines, c.left > 0
       PROVE  Number(r, c) + ArmedAgain(r, z - 1, c) + Lost(l, c) = Number(l, c) + ArmedAgain(l, z, c)
  <2>1. c # DeadlineOf(m, 1)
    <3>1. Due(l, 1) = 0
      <4>1. l # <<>> /\ l[1].wDelta = 0
        BY <1>2, HeadWaits
      <4>2. QED
        BY <1>2, <4>1, DueNat
    <3>2. DeadlineOf(m, 1).left = 0
      BY <1>3, <1>6, <3>1, DeadlineFields
    <3>3. QED
      BY <1>11, <3>2
  <2>2. Number(m, c) = Number(r, c) /\ Number(r, c) \in Nat /\ Number(l, c) \in Nat
    <3>1. Number(m, c) = Number(r, c) + (IF c = DeadlineOf(m, 1) THEN 1 ELSE 0)
      BY <1>1, RemovedNumber
    <3>2. Number(r, c) \in Nat /\ Number(l, c) \in Nat
      BY <1>2, NumberType
    <3>3. QED
      BY <2>1, <3>1, <3>2
  <2>3. /\ ArmedAgain(r, z - 1, c) \in Nat
        /\ ArmedAgain(l, z, c) = ArmedAgain(r, z - 1, c)
             + (IF l[1].Flags = "PERIODIC" /\ Rearmed(l, 1) = c THEN 1 ELSE 0)
    BY <1>9
  <2>4. CASE Rearms(l)
    <3>1. PICK p \in z..Len(l) : Inserted(l, m, p, Rearmed(l, 1))
      BY <1>1, <2>4 DEF Rearming
    <3>2. Number(m, c) = Number(l, c) + (IF c = Rearmed(l, 1) THEN 1 ELSE 0)
      BY <1>2, <3>1, InsertedNumber
    <3>3. Lost(l, c) = 0 /\ l[1].Flags = "PERIODIC"
      BY <1>2, <2>4 DEF Rearms, Lost
    <3>4. QED
      BY <2>2, <2>3, <3>2, <3>3
  <2>5. CASE ~Rearms(l)
    <3>1. Number(m, c) = Number(l, c)
      BY <1>1, <2>5 DEF Rearming
    <3>2. Lost(l, c) = IF l[1].Flags = "PERIODIC" /\ Rearmed(l, 1) = c THEN 1 ELSE 0
      BY <1>2, <2>5 DEF Rearms, Lost
    <3>3. QED
      BY <2>2, <2>3, <3>1, <3>2
  <2>6. QED
    BY <2>4, <2>5
<1>12. ASSUME NEW e \in Event
       PROVE  Expire(s).fired[e] + Calls(r, z - 1, e) = s.fired[e] + Calls(l, z, e)
  <2>1. /\ Calls(r, z - 1, e) \in Nat
        /\ Calls(l, z, e) = Calls(r, z - 1, e) + (IF l[1].pThis = e THEN 1 ELSE 0)
    BY <1>9
  <2>2. QED
    BY <1>4, <1>5, <2>1
<1>13. QED
  BY <1>10, <1>11, <1>12 DEF r

\* A list none of whose links is counted.
LEMMA CountsNone == \A l, c, e : ArmedAgain(l, 0, c) = 0 /\ Calls(l, 0, e) = 0
<1>1. \A l, c : {k \in 1..0 : l[k].Flags = "PERIODIC" /\ Rearmed(l, k) = c} = {}
  OBVIOUS
<1>2. \A l, e : {k \in 1..0 : l[k].pThis = e} = {}
  OBVIOUS
<1>3. QED
  BY <1>1, <1>2, FS_EmptySet DEF ArmedAgain, Calls

\* The counts are naturals.
LEMMA CountsType ==
  ASSUME NEW l, NEW z \in Nat
  PROVE  \A c, e : ArmedAgain(l, z, c) \in Nat /\ Calls(l, z, e) \in Nat
<1> SUFFICES ASSUME NEW c, NEW e PROVE ArmedAgain(l, z, c) \in Nat /\ Calls(l, z, e) \in Nat
  OBVIOUS
<1>1. {k \in 1..z : l[k].Flags = "PERIODIC" /\ Rearmed(l, k) = c} \subseteq 1..z
  OBVIOUS
<1>2. {k \in 1..z : l[k].pThis = e} \subseteq 1..z
  OBVIOUS
<1>3. QED
  BY <1>1, <1>2, CountUpTo DEF ArmedAgain, Calls

\* What u and its first y links, which have expired, still owe is what was owed by the z
\* first of the list the loop began with.
Owed(s, z, lost, u, y) ==
  /\ \A c \in Deadlines : c.left > 0 =>
       Number(u.list, c) + ArmedAgain(u.list, y, c) + (IF lost THEN Lost(s.list, c) ELSE 0)
         = Number(s.list, c) + ArmedAgain(s.list, z, c)
  /\ \A e \in Event : u.fired[e] + Calls(u.list, y, e) = Calls(s.list, z, e)

\* The loop arms every periodic link that has expired again, but for the head's where there
\* was no room, leaves every other link's deadline alone, and calls each event once for each
\* of its links that have expired.
LEMMA LoopNumbers ==
  ASSUME NEW s \in States, s.fired = NoneFired, NEW z, Expired(s.list, z), z > 0
  PROVE  Owed(s, z, TRUE, ExpireAll(s), 0)
<1>1. PICK turn : /\ turn[0] = s
                  /\ \A i \in 0..MaxEvents : turn[i] \in States
                  /\ \A i \in 1..MaxEvents : turn[i] = ExpireHead(turn[i - 1])
                  /\ ExpireAll(s) = turn[MaxEvents]
  BY LoopTurns
<1>2. MaxEvents \in Nat /\ MaxEvents > 0
  BY MaxEventsAssumption
<1>3. s.list \in Lists /\ z \in 0..MaxEvents /\ z \in Nat
  BY <1>2 DEF States, Lists, Expired
<1> DEFINE Reached(u, i) == \E y \in 0..(MaxEvents - i) :
                              /\ Expired(u.list, y) /\ Owed(s, z, i > 0, u, y)
                              /\ IF i = 0 THEN u = s /\ y = z ELSE Len(u.list) < MaxEvents
           T == {i \in 0..MaxEvents : Reached(turn[i], i)}
<1>4. 0 \in T
  <2>1. Owed(s, z, 0 > 0, s, z)
    <3>1. \A e \in Event : s.fired[e] = 0 /\ Calls(s.list, z, e) \in Nat
      BY <1>3, CountsType DEF NoneFired
    <3>2. \A c : Number(s.list, c) \in Nat /\ ArmedAgain(s.list, z, c) \in Nat
      BY <1>3, CountsType, NumberType
    <3>3. QED
      BY <3>1, <3>2 DEF Owed
  <2>2. z \in 0..(MaxEvents - 0)
    BY <1>2, <1>3
  <2>3. Reached(s, 0)
    BY <2>1, <2>2
  <2> HIDE DEF Reached
  <2>4. QED
    BY <1>1, <1>2, <2>3
<1>5. ASSUME NEW i \in 0..(MaxEvents - 1), i \in T
      PROVE  i + 1 \in T
  <2> DEFINE u == turn[i]
             v == turn[i + 1]
  <2>1. i + 1 \in 1..MaxEvents /\ (i + 1) - 1 = i /\ i + 1 \in 0..MaxEvents /\ i \in 0..MaxEvents
        /\ i + 1 > 0 /\ i + 1 # 0
    BY <1>2
  <2>2. v = ExpireHead(u) /\ u \in States /\ v \in States
    BY <1>1, <2>1
  <2>3. PICK y \in 0..(MaxEvents - i) : /\ Expired(u.list, y) /\ Owed(s, z, i > 0, u, y)
                                        /\ IF i = 0 THEN u = s /\ y = z ELSE Len(u.list) < MaxEvents
    BY <1>5
  <2> HIDE DEF u, v, T
  <2>4. CASE y = 0
    <3>1. i > 0 /\ v = u
      BY <1>3, <2>1, <2>2, <2>3, <2>4, ExpireHeadTurn
    <3>2. 0 \in 0..(MaxEvents - (i + 1))
      BY <1>2, <2>1
    <3>3. i > 0 <=> i + 1 > 0
      BY <2>1, <3>1
    <3>4. Reached(v, i + 1)
      BY <2>1, <2>3, <2>4, <3>1, <3>2, <3>3
    <3>5. QED
      BY <2>1, <3>4 DEF T, v
  <2>5. CASE y > 0
    <3>1. v = Expire(u)
      BY <2>2, <2>3, <2>5, ExpireHeadTurn
    <3>2. y - 1 \in 0..(MaxEvents - (i + 1)) /\ y \in Nat
      BY <1>2, <2>1, <2>3, <2>5
    <3>3. Expired(v.list, y - 1)
      BY <2>2, <2>3, <2>5, <3>1, ExpireTurn
    <3>4. /\ Len(v.list) < MaxEvents
          /\ \A c \in Deadlines : c.left > 0 =>
               Number(v.list, c) + ArmedAgain(v.list, y - 1, c) + Lost(u.list, c)
                 = Number(u.list, c) + ArmedAgain(u.list, y, c)
          /\ \A e \in Event : v.fired[e] + Calls(v.list, y - 1, e) = u.fired[e] + Calls(u.list, y, e)
      BY <2>2, <2>3, <2>5, <3>1, TurnNumbers
    <3>5. \A c \in Deadlines : c.left > 0 =>
            Number(v.list, c) + ArmedAgain(v.list, y - 1, c) + Lost(s.list, c)
              = Number(s.list, c) + ArmedAgain(s.list, z, c)
      <4>1. CASE i = 0
        BY <2>3, <3>4, <4>1
      <4>2. CASE i # 0
        <5>1. \A c : Lost(u.list, c) = 0
          BY <1>2, <2>3, <4>2 DEF Lost
        <5>2. \A c : Number(v.list, c) \in Nat /\ ArmedAgain(v.list, y - 1, c) \in Nat
          <6>1. y - 1 \in Nat /\ v.list \in Lists
            BY <2>2, <3>2 DEF States
          <6>2. QED
            BY <6>1, CountsType, NumberType
        <5>3. \A c \in Deadlines : c.left > 0 =>
                Number(u.list, c) + ArmedAgain(u.list, y, c) + Lost(s.list, c)
                  = Number(s.list, c) + ArmedAgain(s.list, z, c)
          BY <2>1, <2>3, <4>2 DEF Owed
        <5>4. QED
          BY <3>4, <5>1, <5>2, <5>3
      <4>3. QED
        BY <4>1, <4>2
    <3>6. \A e \in Event : v.fired[e] + Calls(v.list, y - 1, e) = Calls(s.list, z, e)
      BY <2>3, <3>4 DEF Owed
    <3>7. Owed(s, z, i + 1 > 0, v, y - 1)
      BY <2>1, <3>5, <3>6 DEF Owed
    <3>8. Reached(v, i + 1)
      BY <2>1, <3>2, <3>3, <3>4, <3>7
    <3>9. QED
      BY <2>1, <3>8 DEF T, v
  <2>6. QED
    BY <1>2, <2>3, <2>4, <2>5
<1>6. MaxEvents \in T
  <2> HIDE DEF T
  <2>1. 0..MaxEvents \subseteq T
    BY <1>2, <1>4, <1>5, UpTo
  <2>2. QED
    BY <1>2, <2>1
<1>7. PICK y \in 0..(MaxEvents - MaxEvents) : Owed(s, z, MaxEvents > 0, ExpireAll(s), y)
  BY <1>1, <1>6
<1>8. y = 0
  BY <1>2, <1>7
<1>9. QED
  BY <1>2, <1>7, <1>8 DEF Owed

\* The list of deadlines after a tick, from those before it, and the calls made in it.
LEMMA TickNumbers ==
  ASSUME ListInv, ProcessTimers, list # <<>>
  PROVE  \E z : /\ Expired(Ticked(list), z)
                /\ \A c \in Deadlines : c.left > 0 =>
                     Number(list', c) + (IF z > 0 THEN Lost(Ticked(list), c) ELSE 0)
                       = Number(Ticked(list), c) + ArmedAgain(Ticked(list), z, c)
                /\ \A e \in Event : fired'[e] = Calls(Ticked(list), z, e)
<1> DEFINE l == Ticked(list)
           s == [list |-> l, fired |-> NoneFired]
<1>1. list \in Lists /\ Expired(list, 0) /\ MaxEvents \in Nat
  BY MaxEventsAssumption DEF ListInv
<1>2. list[1].wDelta > 0 /\ list[1].wDelta \in Nat /\ list \in Seq(Link) /\ 1 \in 1..Len(list)
  <2>1. list \in Seq(Link) /\ 1 \in 1..Len(list)
    BY <1>1, DueNat DEF Lists
  <2>2. QED
    BY <1>1, <2>1, HeadWaits, LinkType
<1>3. l \in Lists /\ Len(l) = Len(list) /\ l # <<>> /\ Due(l, 1) = Due(list, 1) - 1
  BY <1>1, <1>2, TickedDue
<1>4. s \in States /\ s.list = l /\ s.fired = NoneFired
  <2>1. NoneFired \in [Event -> Nat]
    BY DEF NoneFired
  <2>2. QED
    BY <1>3, <2>1 DEF States
<1>5. l[1].wDelta = list[1].wDelta - 1
  BY <1>1, <1>3, DueNat
<1>6. CASE list[1].wDelta <= 1
  <2>1. [list EXCEPT ![1].wDelta = 0] = l
    <3>1. list[1].wDelta - 1 = 0
      BY <1>2, <1>6
    <3>2. QED
      BY <3>1 DEF Ticked
  <2>2. list' = ExpireAll(s).list /\ fired' = ExpireAll(s).fired
    BY <1>6, <2>1 DEF ProcessTimers
  <2>3. PICK z : Expired(l, z)
    <3> HIDE DEF l
    <3>1. QED
      BY <1>3, SomeExpired
  <2>4. z > 0
    <3>1. l[1].wDelta = 0
      BY <1>2, <1>5, <1>6
    <3> HIDE DEF l
    <3>2. QED
      BY <1>3, <2>3, <3>1, HeadWaits
  <2> HIDE DEF l, s
  <2>5. Owed(s, z, TRUE, ExpireAll(s), 0)
    BY <1>4, <2>3, <2>4, LoopNumbers
  <2>6. list' \in Lists /\ fired' \in [Event -> Nat]
    BY <1>4, <2>2, LoopDone DEF States
  <2>7. \A c \in Deadlines : c.left > 0 =>
          Number(list', c) + Lost(l, c) = Number(l, c) + ArmedAgain(l, z, c)
    <3>1. \A c : Number(list', c) \in Nat
      BY <2>6, NumberType
    <3>2. \A c \in Deadlines : c.left > 0 =>
            Number(list', c) + 0 + Lost(l, c) = Number(l, c) + ArmedAgain(l, z, c)
      BY <1>4, <2>2, <2>5, CountsNone DEF Owed
    <3>3. QED
      BY <3>1, <3>2
  <2>8. \A e \in Event : fired'[e] = Calls(l, z, e)
    <3>1. \A e \in Event : fired'[e] + 0 = Calls(l, z, e)
      BY <1>4, <2>2, <2>5, CountsNone DEF Owed
    <3>2. QED
      BY <2>6, <3>1
  <2>9. QED
    BY <2>3, <2>4, <2>7, <2>8 DEF l
<1>7. CASE ~(list[1].wDelta <= 1)
  <2>1. list' = l /\ fired' = NoneFired
    BY <1>7 DEF ProcessTimers, Ticked
  <2>2. Expired(l, 0)
    <3>1. l[1].wDelta > 0
      BY <1>2, <1>5, <1>7
    <3> HIDE DEF l
    <3>2. QED
      BY <1>3, <3>1, HeadWaits
  <2> HIDE DEF l
  <2>3. \A c : Number(l, c) \in Nat
    BY <1>3, NumberType
  <2>4. \A c : Number(list', c) + 0 = Number(l, c) + ArmedAgain(l, 0, c)
    BY <2>1, <2>3, CountsNone
  <2>5. \A e \in Event : fired'[e] = Calls(l, 0, e)
    BY <2>1, CountsNone DEF NoneFired
  <2>6. ~(0 > 0)
    OBVIOUS
  <2>7. QED
    BY <2>2, <2>4, <2>5, <2>6 DEF l
<1>8. QED
  BY <1>6, <1>7

\* A tick makes each deadline one tick nearer.
LEMMA TickedMarks ==
  ASSUME ListInv, list # <<>>
  PROVE  /\ \A k \in 1..Len(list) :
              /\ DeadlineOf(Ticked(list), k) = Service!Aged(DeadlineOf(list, k))
              /\ Rearmed(Ticked(list), k) = Service!Armed(DeadlineOf(list, k))
              /\ Due(list, k) \in Nat /\ Due(list, k) > 0
         /\ \A z : Expired(Ticked(list), z) =>
              \A k \in 1..Len(list) : k \in 1..z <=> Due(list, k) = 1
<1> DEFINE l == Ticked(list)
<1>1. list \in Lists /\ Expired(list, 0) /\ Len(list) \in Nat
  BY DueNat DEF ListInv
<1>2. /\ l \in Lists /\ Len(l) = Len(list)
      /\ \A k \in 1..Len(list) : /\ l[k].pThis = list[k].pThis /\ l[k].Flags = list[k].Flags
                                 /\ l[k].wPeriod = list[k].wPeriod /\ Due(l, k) = Due(list, k) - 1
  BY <1>1, TickedDue
<1> HIDE DEF l
<1>3. \A k \in 1..Len(list) : Due(list, k) \in Nat /\ Due(list, k) > 0
  BY <1>1, DueNat DEF Expired
<1>4. ASSUME NEW k \in 1..Len(list)
      PROVE  /\ DeadlineOf(l, k) = Service!Aged(DeadlineOf(list, k))
             /\ Rearmed(l, k) = Service!Armed(DeadlineOf(list, k))
  BY <1>2 DEF DeadlineOf, Rearmed, Service!Aged, Service!Armed
<1>5. ASSUME NEW z, Expired(l, z), NEW k \in 1..Len(list)
      PROVE  k \in 1..z <=> Due(list, k) = 1
  <2>1. z \in 0..Len(l) /\ Due(l, z) = 0 /\ \A j \in (z + 1)..Len(l) : Due(l, j) > 0
    BY <1>5 DEF Expired
  <2>2. CASE k \in 1..z
    <3>1. k \in 0..z /\ k \in 0..Len(l) /\ l \in Seq(Link)
      BY <1>2, <2>1, <2>2 DEF Lists
    <3>2. Due(l, k) <= Due(l, z)
      BY <2>1, <3>1, DueGrows
    <3>3. Due(l, k) = Due(list, k) - 1
      BY <1>2
    <3>4. QED
      BY <1>3, <2>1, <2>2, <3>2, <3>3
  <2>3. CASE k \notin 1..z
    <3>1. k \in (z + 1)..Len(l)
      BY <1>1, <1>2, <2>1, <2>3
    <3>2. QED
      BY <1>2, <1>3, <2>1, <2>3, <3>1
  <2>4. QED
    BY <2>2, <2>3
<1>6. QED
  BY <1>3, <1>4, <1>5 DEF l

\* The deadlines that wait are those the list has left over with their tick taken off.
LEMMA WaitingCounts ==
  ASSUME ListInv, list # <<>>
  PROVE  /\ Service!Waiting \subseteq Deadlines
         /\ \A c \in Service!Waiting : c.left > 0 /\ [c EXCEPT !.left = @ + 1] \in Present(list)
         /\ \A c \in Deadlines : c.left > 0 =>
              Number(Ticked(list), c)
                = IF c \in Service!Waiting THEN Service!Count([c EXCEPT !.left = @ + 1]) ELSE 0
<1> DEFINE l == Ticked(list)
           n == Len(list)
<1>1. list \in Lists /\ DOMAIN Pending = Present(list) /\ l \in Lists /\ Len(l) = n
  BY ServiceCounts, TickedDue DEF ListInv
<1>2. \A k \in 1..n : DeadlineOf(l, k) = Service!Aged(DeadlineOf(list, k))
  BY TickedMarks
<1>3. Present(list) \subseteq Deadlines /\ \A d \in Present(list) : d.left > 0
  <2>1. \A k \in 1..n : DeadlineOf(list, k).left > 0
    BY TickedMarks, DeadlineFields
  <2>2. QED
    BY <1>1, <2>1, NumberType DEF Present
<1>4. \A c : c \in Service!Waiting <=> \E d \in Present(list) : d.left # 1 /\ c = Service!Aged(d)
  BY <1>1 DEF Service!Waiting, Service!Due
<1>5. ASSUME NEW d \in Present(list)
      PROVE  /\ d.left # 1 => Service!Aged(d) \in Deadlines
             /\ Service!Aged(d).left = d.left - 1
             /\ [Service!Aged(d) EXCEPT !.left = @ + 1] = d
  <2>1. d \in Deadlines /\ d.left > 0
    BY <1>3
  <2>2. PICK e \in Event, m \in Nat, t \in Ticks, x \in Mode :
          d = [event |-> e, left |-> m, period |-> t, mode |-> x]
    BY <2>1 DEF Deadlines
  <2>3. Service!Aged(d) = [event |-> e, left |-> m - 1, period |-> t, mode |-> x]
    BY <2>2 DEF Service!Aged
  <2>4. (m - 1) + 1 = m /\ d.left = m
    BY <2>2
  <2>5. [Service!Aged(d) EXCEPT !.left = @ + 1] = [event |-> e, left |-> (m - 1) + 1, period |-> t, mode |-> x]
    BY <2>3
  <2>6. m # 1 => m - 1 \in Nat
    BY <2>1, <2>4
  <2>7. QED
    BY <2>2, <2>3, <2>4, <2>5, <2>6 DEF Deadlines
<1>6. ASSUME NEW c \in Service!Waiting
      PROVE  c \in Deadlines /\ c.left > 0 /\ [c EXCEPT !.left = @ + 1] \in Present(list)
  <2>1. PICK d \in Present(list) : d.left # 1 /\ c = Service!Aged(d)
    BY <1>4
  <2>2. d.left \in Nat /\ d.left > 0 /\ c.left = d.left - 1
    BY <1>3, <1>5, <2>1 DEF Deadlines
  <2>3. QED
    BY <1>5, <2>1, <2>2
<1>7. ASSUME NEW c \in Deadlines, c.left > 0
      PROVE  Number(l, c)
                = IF c \in Service!Waiting THEN Service!Count([c EXCEPT !.left = @ + 1]) ELSE 0
  <2> DEFINE w == [c EXCEPT !.left = @ + 1]
  <2>1. \A d \in Present(list) : Service!Aged(d) = c <=> d = w
    <3>1. Service!Aged(w) = c
      <4>1. PICK e \in Event, m \in Nat, t \in Ticks, x \in Mode :
              c = [event |-> e, left |-> m, period |-> t, mode |-> x]
        BY DEF Deadlines
      <4>2. w = [event |-> e, left |-> m + 1, period |-> t, mode |-> x] /\ (m + 1) - 1 = m
        BY <4>1
      <4> HIDE DEF w
      <4>3. QED
        BY <4>1, <4>2 DEF Service!Aged
    <3>2. QED
      BY <1>5, <3>1
  <2>2. {k \in 1..n : DeadlineOf(l, k) = c} = {k \in 1..n : DeadlineOf(list, k) = w}
    <3>1. \A k \in 1..n : DeadlineOf(list, k) \in Present(list)
      BY DEF Present
    <3> HIDE DEF w
    <3>2. QED
      BY <1>2, <2>1, <3>1
  <2>3. Number(l, c) = Number(list, w)
    BY <1>1, <2>2 DEF Number
  <2>4. w \notin Present(list) => Number(list, w) = 0
    BY <1>1, NumberType, MaxEventsAssumption
  <2>5. w \in Present(list) => c \in Service!Waiting
    <3>1. w.left = c.left + 1 /\ c.left \in Nat
      BY DEF Deadlines
    <3>2. w.left # 1
      BY <1>7, <3>1
    <3> HIDE DEF w
    <3>3. QED
      BY <1>4, <2>1, <3>2
  <2>6. c \in Service!Waiting => w \in Present(list)
    BY <1>6
  <2>7. Service!Count(w) = Number(list, w)
    BY <1>1, ServiceCounts
  <2> HIDE DEF w
  <2>8. Number(l, c) = IF c \in Service!Waiting THEN Service!Count(w) ELSE 0
    BY <2>3, <2>4, <2>5, <2>6, <2>7
  <2>9. QED
    BY <2>8 DEF w
<1>8. QED
  BY <1>6, <1>7

\* The deadlines that are armed again are the periodic ones among those that were due.
LEMMA AgainCounts ==
  ASSUME ListInv, list # <<>>, NEW z, Expired(Ticked(list), z)
  PROVE  /\ Service!Again \subseteq Deadlines
         /\ \A c \in Service!Again : c.left > 0 /\ [c EXCEPT !.left = 1] \in Present(list)
         /\ \A c \in Deadlines :
              ArmedAgain(Ticked(list), z, c)
                = IF c \in Service!Again THEN Service!Count([c EXCEPT !.left = 1]) ELSE 0
<1> DEFINE l == Ticked(list)
           n == Len(list)
<1>1. /\ list \in Lists /\ DOMAIN Pending = Present(list) /\ n \in Nat
      /\ \A k \in 1..n : l[k].Flags = list[k].Flags
  BY ServiceCounts, TickedDue, DueNat DEF ListInv
<1>2. /\ \A k \in 1..n : Rearmed(l, k) = Service!Armed(DeadlineOf(list, k))
      /\ \A k \in 1..n : k \in 1..z <=> Due(list, k) = 1
  BY TickedMarks
<1>3. z \in 0..n
  BY TickedDue DEF ListInv, Expired
<1>4. Present(list) \subseteq Deadlines
  BY <1>1, NumberType
<1>5. \A c : c \in Service!Again <=>
               \E d \in Present(list) : d.left = 1 /\ d.mode = "PERIODIC" /\ c = Service!Armed(d)
  BY <1>1 DEF Service!Again, Service!Due
<1>6. ASSUME NEW d \in Present(list)
      PROVE  /\ Service!Armed(d) \in Deadlines /\ Service!Armed(d).left > 0
             /\ d.left = 1 => [Service!Armed(d) EXCEPT !.left = 1] = d
             /\ Service!Armed(d).mode = d.mode
  <2>1. PICK e \in Event, m \in Nat, t \in Ticks, x \in Mode :
          d = [event |-> e, left |-> m, period |-> t, mode |-> x]
    BY <1>4 DEF Deadlines
  <2>2. Service!Armed(d) = [event |-> e, left |-> t, period |-> t, mode |-> x]
    BY <2>1 DEF Service!Armed
  <2>3. t \in Nat /\ t > 0
    BY MaxTicksAssumption DEF Ticks
  <2>4. QED
    BY <2>1, <2>2, <2>3 DEF Deadlines
<1>7. ASSUME NEW c \in Deadlines
      PROVE  ArmedAgain(l, z, c)
                = IF c \in Service!Again THEN Service!Count([c EXCEPT !.left = 1]) ELSE 0
  <2> DEFINE A == {k \in 1..z : l[k].Flags = "PERIODIC" /\ Rearmed(l, k) = c}
             w == [c EXCEPT !.left = 1]
  <2>1. \A k \in 1..n : /\ DeadlineOf(list, k) \in Present(list)
                        /\ DeadlineOf(list, k).left = Due(list, k)
                        /\ DeadlineOf(list, k).mode = list[k].Flags
    BY DeadlineFields DEF Present
  <2>2. \A k : k \in A <=> /\ k \in 1..n /\ Due(list, k) = 1 /\ list[k].Flags = "PERIODIC"
                           /\ Service!Armed(DeadlineOf(list, k)) = c
    <3>1. 1..z \subseteq 1..n
      BY <1>1, <1>3
    <3>2. QED
      BY <1>1, <1>2, <3>1
  <2>3. CASE c \in Service!Again
    <3>1. PICK d \in Present(list) : d.left = 1 /\ d.mode = "PERIODIC" /\ c = Service!Armed(d)
      BY <1>5, <2>3
    <3>2. d = w
      BY <1>6, <3>1
    <3> HIDE DEF w
    <3>3. \A k \in 1..n : k \in A <=> DeadlineOf(list, k) = w
      <4> SUFFICES ASSUME NEW k \in 1..n PROVE k \in A <=> DeadlineOf(list, k) = w
        OBVIOUS
      <4>1. ASSUME k \in A PROVE DeadlineOf(list, k) = w
        <5>1. Due(list, k) = 1 /\ Service!Armed(DeadlineOf(list, k)) = c
          BY <2>2, <4>1
        <5>2. [c EXCEPT !.left = 1] = DeadlineOf(list, k)
          BY <1>6, <2>1, <5>1
        <5>3. QED
          BY <5>2 DEF w
      <4>2. ASSUME DeadlineOf(list, k) = w PROVE k \in A
        <5>1. Due(list, k) = 1 /\ list[k].Flags = "PERIODIC"
          BY <2>1, <3>1, <3>2, <4>2
        <5>2. Service!Armed(DeadlineOf(list, k)) = c
          BY <3>1, <3>2, <4>2
        <5>3. QED
          BY <2>2, <5>1, <5>2
      <4>3. QED
        BY <4>1, <4>2
    <3>4. A = {k \in 1..n : DeadlineOf(list, k) = w}
      <4>1. \A k \in A : k \in 1..n
        BY <2>2
      <4> HIDE DEF A
      <4>2. QED
        BY <3>3, <4>1
    <3>5. Cardinality(A) = Service!Count(w)
      BY <1>1, <3>4, ServiceCounts DEF Number
    <3>6. QED
      BY <2>3, <3>5 DEF ArmedAgain, w
  <2>4. CASE c \notin Service!Again
    <3>1. A = {}
      <4>1. \A k : k \notin A
        BY <1>5, <2>1, <2>2, <2>4
      <4> HIDE DEF A
      <4>2. QED
        BY <4>1
    <3>2. QED
      BY <2>4, <3>1, FS_EmptySet DEF ArmedAgain
  <2>5. QED
    BY <2>3, <2>4
<1>8. QED
  BY <1>5, <1>6, <1>7

\* The calls of a tick are those of the deadlines that were due.
LEMMA CallsAreDue ==
  ASSUME ListInv, list # <<>>, NEW z, Expired(Ticked(list), z), NEW e
  PROVE  Calls(Ticked(list), z, e)
           = Service!Cardinality(Service!Copies({d \in Service!Due : d.event = e}))
<1> DEFINE l == Ticked(list)
           n == Len(list)
           S == {d \in Service!Due : d.event = e}
<1>1. /\ list \in Lists /\ DOMAIN Pending = Present(list) /\ n \in Nat
      /\ \A k \in 1..n : l[k].pThis = list[k].pThis
      /\ \A k \in 1..n : k \in 1..z <=> Due(list, k) = 1
  BY ServiceCounts, TickedDue, TickedMarks, DueNat DEF ListInv
<1>2. 1..z \subseteq 1..n
  <2>1. z \in 0..n
    BY TickedDue DEF ListInv, Expired
  <2>2. QED
    BY <1>1, <2>1
<1>3. {k \in 1..z : l[k].pThis = e} = {k \in 1..n : DeadlineOf(list, k) \in S}
  <2>1. \A k \in 1..n : DeadlineOf(list, k) \in S <=> Due(list, k) = 1 /\ list[k].pThis = e
    BY <1>1, DeadlineFields DEF Service!Due, Present
  <2> HIDE DEF S
  <2>2. QED
    BY <1>1, <1>2, <2>1
<1>4. QED
  BY <1>1, <1>3, ServiceCounts DEF Calls

\* A tick of the list is one of the service: what waited waits one tick less, what was due
\* is called and, where it is periodic, armed again, but for one where all places are taken.
LEMMA TickRefines ==
  ASSUME ListInv, ProcessTimers
  PROVE  Service!Tick
<1>1. list \in Lists /\ list' \in Lists /\ Expired(list', 0) /\ fired' \in [Event -> 0..MaxEvents]
  BY TickKeeps DEF ListInv
<1>2. DOMAIN Pending = Present(list) /\ call' = <<"Tick">>
  BY <1>1, ServiceCounts DEF ProcessTimers
<1> DEFINE Places == Service!Waiting \cup Service!Again
           Left(lost) == {d \in Places : d \in lost => Service!CountAfter(d) > 1}
           After(lost) == [d \in Left(lost) |-> Service!CountAfter(d) - (IF d \in lost THEN 1 ELSE 0)]
<1>3. CASE list = <<>>
  <2>1. list' = <<>> /\ fired' = NoneFired
    BY <1>3 DEF ProcessTimers
  <2>2. Present(list) = {} /\ Present(list') = {}
    BY <1>3, <2>1, EmptySeq DEF Present
  <2>3. Service!Waiting = {} /\ Service!Again = {} /\ Service!Due = {}
    BY <1>2, <2>2 DEF Service!Waiting, Service!Again, Service!Due
  <2>4. Pending' = After({})
    BY <2>2, <2>3, PendingIs DEF BagOf
  <2>5. \A e : Service!Cardinality(Service!Copies({d \in Service!Due : d.event = e})) = 0
    <3>1. \A e : {k \in 1..Len(list) : DeadlineOf(list, k) \in {d \in Service!Due : d.event = e}} = {}
      BY <2>3
    <3>2. QED
      BY <1>1, <3>1, ServiceCounts, FS_EmptySet
  <2>6. {} \in Service!Losses
    BY DEF Service!Losses
  <2>7. QED
    BY <1>2, <2>1, <2>4, <2>5, <2>6 DEF Service!Tick, NoneFired
<1>4. CASE list # <<>>
  <2> DEFINE l == Ticked(list)
  <2>1. PICK z : /\ Expired(l, z)
                 /\ \A c \in Deadlines : c.left > 0 =>
                      Number(list', c) + (IF z > 0 THEN Lost(l, c) ELSE 0)
                        = Number(l, c) + ArmedAgain(l, z, c)
                 /\ \A e \in Event : fired'[e] = Calls(l, z, e)
    BY <1>4, TickNumbers
  <2>2. /\ l \in Lists /\ Len(l) = Len(list) /\ 1 \in 1..Len(list) /\ z \in 0..Len(list)
        /\ l[1].Flags = list[1].Flags /\ Len(list) \in Nat
    BY <1>1, <1>4, <2>1, TickedDue, DueNat DEF Expired, ListInv
  <2> DEFINE d == Rearmed(l, 1)
             lost == IF z > 0 /\ l[1].Flags = "PERIODIC" /\ Len(l) = MaxEvents THEN {d} ELSE {}
  <2>3. z > 0 /\ l[1].Flags = "PERIODIC" => d \in Service!Again
    <3> SUFFICES ASSUME z > 0, l[1].Flags = "PERIODIC" PROVE d \in Service!Again
      OBVIOUS
    <3> DEFINE x == DeadlineOf(list, 1)
    <3>1. 1 \in 1..z
      BY <2>2
    <3>2. Due(list, 1) = 1 /\ d = Service!Armed(x)
      BY <1>4, <2>1, <2>2, <3>1, TickedMarks
    <3>3. x \in Present(list) /\ x.left = 1 /\ x.mode = "PERIODIC"
      BY <2>2, <3>2, DeadlineFields DEF Present
    <3> HIDE DEF x, d
    <3>4. QED
      BY <1>2, <3>2, <3>3 DEF Service!Again, Service!Due
  <2>4. lost \in Service!Losses
    <3>1. Service!Full <=> Len(l) = MaxEvents
      BY <1>1, <2>2, ServiceCounts
    <3>2. QED
      BY <2>3, <3>1 DEF Service!Losses
  <2>5. \A c : (IF z > 0 THEN Lost(l, c) ELSE 0) = (IF c \in lost THEN 1 ELSE 0)
    BY DEF Lost
  <2>6. lost \subseteq Service!Again
    BY <2>3
  <2> HIDE DEF d, lost, l
  <2>7. Places \subseteq Deadlines /\ \A c \in Places : c.left > 0
    BY <1>4, <2>1, WaitingCounts, AgainCounts DEF l
  <2>8. \A c \in Deadlines : c.left > 0 =>
          /\ Number(l, c) + ArmedAgain(l, z, c) = Service!CountAfter(c)
          /\ Number(l, c) \in Nat /\ ArmedAgain(l, z, c) \in Nat /\ Number(list', c) \in Nat
          /\ (Service!CountAfter(c) > 0 => c \in Places) /\ (c \in Places => Service!CountAfter(c) > 0)
    <3> SUFFICES ASSUME NEW c \in Deadlines, c.left > 0
                 PROVE  /\ Number(l, c) + ArmedAgain(l, z, c) = Service!CountAfter(c)
                        /\ Number(l, c) \in Nat /\ ArmedAgain(l, z, c) \in Nat /\ Number(list', c) \in Nat
                        /\ (Service!CountAfter(c) > 0 => c \in Places)
                        /\ (c \in Places => Service!CountAfter(c) > 0)
      OBVIOUS
    <3>1. Number(l, c) = IF c \in Service!Waiting THEN Service!Count([c EXCEPT !.left = @ + 1]) ELSE 0
      BY <1>4, WaitingCounts DEF l
    <3>2. ArmedAgain(l, z, c) = IF c \in Service!Again THEN Service!Count([c EXCEPT !.left = 1]) ELSE 0
      BY <1>4, <2>1, AgainCounts DEF l
    <3>3. Number(l, c) \in Nat /\ Number(list', c) \in Nat
      BY <1>1, <2>2, NumberType
    <3>4. ArmedAgain(l, z, c) \in Nat
      BY <2>2, CountsType
    <3>5. Service!CountAfter(c) = Number(l, c) + ArmedAgain(l, z, c)
      BY <3>1, <3>2 DEF Service!CountAfter
    <3>6. \A x \in Present(list) : Service!Count(x) > 0
      BY <1>1, NumberType, ServiceCounts
    <3>7. c \in Service!Waiting => Number(l, c) > 0
      <4> SUFFICES ASSUME c \in Service!Waiting PROVE Number(l, c) > 0
        OBVIOUS
      <4>1. [c EXCEPT !.left = @ + 1] \in Present(list)
        BY <1>4, WaitingCounts
      <4>2. QED
        BY <3>1, <3>6, <4>1
    <3>8. c \in Service!Again => ArmedAgain(l, z, c) > 0
      <4> SUFFICES ASSUME c \in Service!Again PROVE ArmedAgain(l, z, c) > 0
        OBVIOUS
      <4>1. [c EXCEPT !.left = 1] \in Present(list)
        BY <1>4, <2>1, AgainCounts DEF l
      <4>2. QED
        BY <3>2, <3>6, <4>1
    <3>9. QED
      BY <3>1, <3>2, <3>3, <3>4, <3>5, <3>7, <3>8
  <2> HIDE DEF Places
  <2>9. \A c \in Deadlines : c.left > 0 =>
          Number(list', c) + (IF c \in lost THEN 1 ELSE 0) = Service!CountAfter(c)
    BY <2>1, <2>5, <2>8
  <2>10. \A c \in Deadlines : ~(c.left > 0) => Number(list', c) = 0
    <3> SUFFICES ASSUME NEW c \in Deadlines, ~(c.left > 0) PROVE Number(list', c) = 0
      OBVIOUS
    <3>1. \A k \in 1..Len(list') : DeadlineOf(list', k) # c
      BY <1>1, DeadlineFields, DueNat DEF Expired
    <3>2. {k \in 1..Len(list') : DeadlineOf(list', k) = c} = {}
      BY <3>1
    <3>3. QED
      BY <3>2, FS_EmptySet DEF Number
  <2>11. \A c \in Deadlines : c \in Left(lost) <=> Number(list', c) > 0
    <3> SUFFICES ASSUME NEW c \in Deadlines PROVE c \in Left(lost) <=> Number(list', c) > 0
      OBVIOUS
    <3>1. CASE c.left > 0
      <4>1. /\ Number(list', c) + (IF c \in lost THEN 1 ELSE 0) = Service!CountAfter(c)
            /\ Number(list', c) \in Nat /\ Service!CountAfter(c) \in Nat
            /\ (c \in Places <=> Service!CountAfter(c) > 0)
        BY <2>8, <2>9, <3>1
      <4>2. QED
        BY <4>1
    <3>2. CASE ~(c.left > 0)
      BY <2>7, <2>10, <3>2
    <3>3. QED
      BY <3>1, <3>2
  <2>12. \A c \in Left(lost) : After(lost)[c] = Number(list', c)
    <3> SUFFICES ASSUME NEW c \in Left(lost) PROVE After(lost)[c] = Number(list', c)
      OBVIOUS
    <3>1. c \in Deadlines /\ c.left > 0
      BY <2>7
    <3>2. Number(list', c) + (IF c \in lost THEN 1 ELSE 0) = Service!CountAfter(c) /\ Number(list', c) \in Nat
      BY <2>8, <2>9, <3>1
    <3>3. QED
      BY <3>2
  <2>13. After(lost) = [c \in Left(lost) |-> After(lost)[c]] /\ Left(lost) \subseteq Deadlines
    BY <2>7
  <2>14. After(lost) = BagOf(list')
    <3> HIDE DEF After, Left
    <3>1. QED
      BY <1>1, <2>11, <2>12, <2>13, SameBag
  <2>15. Pending' = After(lost)
    BY <2>14, PendingIs
  <2>16. fired' = [e \in Event |-> Service!Cardinality(Service!Copies({x \in Service!Due : x.event = e}))]
    <3>1. \A e \in Event : fired'[e] = Service!Cardinality(Service!Copies({x \in Service!Due : x.event = e}))
      BY <1>4, <2>1, CallsAreDue DEF l
    <3>2. fired' = [e \in Event |-> fired'[e]]
      BY <1>1
    <3>3. QED
      BY <3>1, <3>2
  <2>17. QED
    BY <1>2, <2>4, <2>15, <2>16 DEF Service!Tick, Places
<1>5. QED
  BY <1>3, <1>4

\* A step of the list is one of the service.
LEMMA DeadlinesStep == ListInv /\ ListStep => [Service!Next]_(Service!dvars)
<1> SUFFICES ASSUME ListInv, ListStep PROVE [Service!Next]_(Service!dvars)
  OBVIOUS
<1>1. Service!Mode = Mode
  BY DEF Service!Mode, Mode
<1>2. ASSUME NEW e \in Event, NEW ticks \in Ticks, NEW mode \in Mode, Schedule(e, ticks, mode)
      PROVE  Service!Next
  BY <1>1, <1>2, ScheduleRefines DEF Service!Next
<1>3. ASSUME NEW e \in Event, Cancel(e)
      PROVE  Service!Next
  BY <1>3, CancelRefines DEF Service!Next
<1>4. CASE ProcessTimers
  BY <1>4, TickRefines DEF Service!Next
<1>5. CASE UNCHANGED vars
  <2>1. Pending' = Pending
    BY <1>5, PendingIs DEF vars
  <2>2. QED
    BY <1>5, <2>1 DEF vars, Service!dvars
<1>6. QED
  BY <1>2, <1>3, <1>4, <1>5 DEF ListStep

\* An empty list is a service without deadlines.
LEMMA DeadlinesInit == Init => Service!Init
<1> SUFFICES ASSUME Init PROVE Service!Init
  OBVIOUS
<1>1. Present(list) = {}
  BY EmptySeq DEF Init, Present
<1>2. Pending = [d \in {} |-> 0]
  BY <1>1, PendingIs DEF BagOf
<1>3. QED
  BY <1>2 DEF Init, Service!Init, NoneFired, Service!NoneFired

\* TIMER.CPP's list of deltas keeps every deadline there is, each to the tick, whatever is
\* scheduled, cancelled or armed again around it: it implements the bag of deadlines.
THEOREM ListKeepsDeadlines == Spec => DeadlinesSpec
<1>1. ListInv /\ [Next]_vars => ListInv' /\ [Service!Next]_(Service!dvars)
  BY ListKept, DeadlinesStep DEF Next, ListStep
<1>2. QED
  BY <1>1, ListInit, DeadlinesInit, PTL DEF Spec, DeadlinesSpec, Service!Spec

\* And so it does under the calls of TMR.CPP and the thread that ticks.
THEOREM TmrKeepsDeadlines == TmrSpec => DeadlinesSpec
<1>1. ListInv /\ [TmrNext]_tmrVars => [Service!Next]_(Service!dvars)
  BY ApiListStep, DeadlinesStep
<1>2. TmrInit => Service!Init
  BY DeadlinesInit DEF TmrInit
<1>3. QED
  BY <1>1, <1>2, TmrListInv, PTL DEF TmrSpec, DeadlinesSpec, Service!Spec
=============================================================================

---------------------------- MODULE SerialProofs -----------------------------
(***************************************************************************)
(* Proofs about Serial for a ring of any size, any number of bytes sent    *)
(* and any length of a packet.                                             *)
(***************************************************************************)
EXTENDS Serial, SequenceTheorems, TLAPS

\* Where the thread holds the mutex while the object is there.
Held == {"read", "put", "load", "store"}

Ring == [cells : [Cells -> Nat], get : Cells, put : Cells, space : Int]

TypeInv ==
  /\ com \in {"null", "made", "deleted"} /\ fConnected \in BOOLEAN
  /\ dev \in Seq(Nat) /\ next \in Nat /\ packet \in Seq(Nat)
  /\ thread \in Held \cup {"none", "suspended", "loop", "wait", "lock", "wild"}
  /\ main \in {"idle", "remove", "load", "store", "masked", "stopped", "end"}
  /\ crxbuf \in Ring /\ tspace \in Int /\ mspace \in Int
  /\ inserted \in Seq(Nat) /\ got \in Seq(Nat)
  /\ torn \in BOOLEAN /\ phantom \in BOOLEAN

\* Who holds the mutex is where it may be held.
MutexInv ==
  /\ com = "null" => thread = "none" /\ _mutex = "none" /\ main = "idle"
  /\ _mutex = "main" <=> main = "masked"
  /\ com = "made" => (_mutex = "thread" <=> thread \in Held)
  /\ com = "deleted" <=> main = "end"

\* A thread that wakes after Stop finds nothing to read.
StopInv ==
  /\ com = "null" => dev = <<>> /\ packet = <<>> /\ handles = {} /\ ~fConnected
  /\ com = "made" /\ packet # <<>> => thread \in Held
  /\ com = "made" /\ ~fConnected /\ thread # "suspended" =>
       "id" \notin handles /\ dev = <<>> /\ packet = <<>>
  /\ ~fConnected => thread \notin {"load", "store"}
  /\ main \in {"stopped", "end"} => ~fConnected

\* Bytes taken out and not yet counted so, and bytes put in and not yet counted.
Taken == IF main \in {"load", "store"} THEN 1 ELSE 0
Put == IF thread \in {"load", "store"} THEN 1 ELSE 0

Place(p) == IF p >= getsize THEN p - getsize ELSE p

\* The ring as a queue of n bytes: those put in and not yet taken out, each in its cell,
\* of which a number are counted.
Queued(n, counted, b, in, out) ==
  /\ n \in 0..getsize
  /\ Len(in) = Len(out) + n
  /\ b.put = Place(b.get + n)
  /\ b.space = getsize - counted
  /\ counted \in -1..getsize
  /\ \A i \in 1..Len(out) : in[i] = out[i]
  /\ \A i \in 1..n : in[Len(out) + i] = b.cells[Place(b.get + (i - 1))]

\* The bytes the count stands for.
CountedNow == Count + Taken - Put

QueueInv ==
  /\ Queued(Count, CountedNow, crxbuf, inserted, got)
  /\ Count + Taken <= getsize
  /\ ~phantom

\* What holds of the ring until a count is lost.
RingInv == ~torn => QueueInv

-----------------------------------------------------------------------------
(* Types.                                                                   *)

\* An index moved on comes round; a ring into which a byte is put is a ring.
LEMMA PutType ==
  ASSUME NEW b \in Ring, NEW c \in Nat
  PROVE  /\ PutByte(b, c) \in Ring
         /\ PutByte(b, c).put = Advanced(b.put) /\ PutByte(b, c).get = b.get
         /\ PutByte(b, c).space = b.space
         /\ PutByte(b, c).cells = [b.cells EXCEPT ![b.put] = c]
<1>1. Advanced(b.put) \in Cells
  BY SizeAssumption DEF Ring, Advanced, Cells, getsize
<1>2. [b.cells EXCEPT ![b.put] = c] \in [Cells -> Nat]
  BY DEF Ring
<1>3. QED
  BY <1>1, <1>2 DEF Ring, PutByte

\* So has a ring of which a byte is taken.
LEMMA GetType ==
  ASSUME NEW b \in Ring
  PROVE  /\ GetByte(b) \in Ring
         /\ GetByte(b).put = b.put /\ GetByte(b).get = Advanced(b.get)
         /\ GetByte(b).space = b.space /\ GetByte(b).cells = b.cells
<1>1. Advanced(b.get) \in Cells
  BY SizeAssumption DEF Ring, Advanced, Cells, getsize
<1>2. QED
  BY <1>1 DEF Ring, GetByte

\* What counting does to a ring.
LEMMA CountedType ==
  ASSUME NEW b \in Ring, NEW n \in Int
  PROVE  /\ [b EXCEPT !.space = n] \in Ring
         /\ [b EXCEPT !.space = n].space = n
         /\ [b EXCEPT !.space = n].get = b.get /\ [b EXCEPT !.space = n].put = b.put
         /\ [b EXCEPT !.space = n].cells = b.cells
BY DEF Ring

\* The ring before the first byte.
LEMMA EmptyRingType == EmptyRing \in Ring
BY SizeAssumption DEF EmptyRing, Ring, Cells, getsize

\* What a Read takes, and leaves, are sequences of bytes.
LEMMA ReadType ==
  ASSUME dev \in Seq(Nat), NEW n \in {0, ReadLength}
  PROVE  /\ n \in 0..Len(dev)
         /\ SubSeq(dev, 1, n) \in Seq(Nat) /\ SubSeq(dev, n + 1, Len(dev)) \in Seq(Nat)
<1>1. Len(dev) \in Nat
  OBVIOUS
<1>2. n \in 0..Len(dev)
  BY <1>1, PacketAssumption DEF ReadLength
<1>3. \A i \in 1..Len(dev) : dev[i] \in Nat
  BY ElementOfSeq
<1>4. QED
  BY <1>1, <1>2, <1>3, SubSeqProperties

\* Every step keeps the types.
LEMMA TypeStep == TypeInv /\ [Next]_vars => TypeInv'
<1> SUFFICES ASSUME TypeInv, [Next]_vars
             PROVE  TypeInv'
  OBVIOUS
<1> USE DEF TypeInv, Held
<1>1. CASE COM_Init
  <2>1. PICK s \in Started : fConnected' = s.ok /\ thread' = IF s.ok THEN "loop" ELSE "suspended"
    BY <1>1 DEF COM_Init
  <2>2. fConnected' \in BOOLEAN
    <3>1. s.ok = TRUE \/ s.ok = FALSE
      BY DEF Started
    <3>2. QED
      BY <2>1, <3>1
  <2>3. QED
    BY <1>1, <2>1, <2>2 DEF COM_Init, devVars, manVars, ringHist
<1>2. CASE StopNothing \/ StopMask \/ Delete \/ COM_recv_char
  BY <1>2 DEF StopNothing, StopMask, Delete, COM_recv_char, KeepMain, objVars, devVars, thrVars, ringHist
<1>3. CASE StopClose
  BY <1>3, EmptySeq DEF StopClose, thrVars, ringHist
<1>4. CASE RemoveNothing
  <2>1. phantom' \in BOOLEAN
    BY <1>4 DEF RemoveNothing
  <2>2. QED
    BY <1>4, <2>1 DEF RemoveNothing, KeepMain, objVars, devVars, thrVars
<1>5. CASE Remove
  <2>1. peek(crxbuf) \in Nat
    BY DEF Ring, peek
  <2>2. GetByte(crxbuf) \in Ring /\ Append(got, peek(crxbuf)) \in Seq(Nat)
    BY <2>1, GetType, AppendProperties
  <2>3. QED
    BY <1>5, <2>2 DEF Remove, KeepMain, objVars, devVars, thrVars
<1>6. CASE RemoveLoad
  BY <1>6 DEF RemoveLoad, Ring, KeepMain, objVars, devVars, thrVars, ringHist
<1>7. CASE RemoveStore
  <2>1. torn' \in BOOLEAN
    BY <1>7 DEF RemoveStore
  <2>2. crxbuf' \in Ring
    <3>1. mspace + 1 \in Int /\ crxbuf' = [crxbuf EXCEPT !.space = mspace + 1]
      BY <1>7 DEF RemoveStore
    <3>2. QED
      BY <3>1, CountedType
  <2>3. QED
    BY <1>7, <2>1, <2>2 DEF RemoveStore, KeepMain, objVars, devVars, thrVars
<1>8. CASE Loop \/ WaitCommEvent \/ Acquire \/ Release \/ Wild
  BY <1>8 DEF Loop, WaitCommEvent, Acquire, Release, Wild, KeepThread, devVars, manVars, ringHist
<1>9. CASE Read
  <2>1. PICK n \in {0, ReadLength} : packet' = SubSeq(dev, 1, n) /\ dev' = SubSeq(dev, n + 1, Len(dev))
    BY <1>9 DEF Read
  <2>2. packet' \in Seq(Nat) /\ dev' \in Seq(Nat)
    BY <2>1, ReadType
  <2>3. QED
    BY <1>9, <2>2 DEF Read, KeepThread, manVars, ringHist
<1>10. CASE Drop
  <2>1. Tail(packet) \in Seq(Nat)
    BY <1>10 DEF Drop
  <2>2. QED
    BY <1>10, <2>1 DEF Drop, KeepThread, devVars, manVars
<1>11. CASE Insert
  <2>1. Tail(packet) \in Seq(Nat) /\ Head(packet) \in Nat
    BY <1>11 DEF Insert
  <2>2. PutByte(crxbuf, Head(packet)) \in Ring /\ Append(inserted, Head(packet)) \in Seq(Nat)
    BY <2>1, PutType, AppendProperties
  <2>3. QED
    BY <1>11, <2>1, <2>2 DEF Insert, KeepThread, devVars, manVars
<1>12. CASE InsertLoad
  BY <1>12 DEF InsertLoad, Ring, KeepThread, devVars, manVars, ringHist
<1>13. CASE InsertStore
  <2>1. torn' \in BOOLEAN
    BY <1>13 DEF InsertStore
  <2>2. crxbuf' \in Ring
    <3>1. tspace - 1 \in Int /\ crxbuf' = [crxbuf EXCEPT !.space = tspace - 1]
      BY <1>13 DEF InsertStore
    <3>2. QED
      BY <3>1, CountedType
  <2>3. QED
    BY <1>13, <2>1, <2>2 DEF InsertStore, KeepThread, devVars, manVars
<1>14. CASE Arrive
  BY <1>14 DEF Arrive, objVars, thrVars, manVars, ringHist
<1>15. CASE UNCHANGED vars
  BY <1>15 DEF vars, objVars, devVars, thrVars, manVars, ringHist
<1>16. QED
  BY <1>1, <1>2, <1>3, <1>4, <1>5, <1>6, <1>7, <1>8, <1>9, <1>10, <1>11, <1>12, <1>13, <1>14, <1>15
  DEF Next, MainStep, ThreadStep

-----------------------------------------------------------------------------
(* Opening and closing.                                                     *)

\* Every step keeps the mutex to the one who is where it may be held.
LEMMA MutexStep == MutexInv /\ [Next]_vars => MutexInv'
<1> SUFFICES ASSUME MutexInv, [Next]_vars
             PROVE  MutexInv'
  OBVIOUS
<1> USE DEF MutexInv, Held
<1>1. CASE COM_Init
  BY <1>1 DEF COM_Init, Started, manVars
<1>2. CASE StopNothing \/ StopMask \/ StopClose \/ Delete
  BY <1>2 DEF StopNothing, StopMask, StopClose, StopMay, Delete, objVars, thrVars
<1>3. CASE COM_recv_char \/ RemoveNothing \/ Remove \/ RemoveLoad \/ RemoveStore
  BY <1>3 DEF COM_recv_char, RemoveNothing, Remove, RemoveLoad, RemoveStore, KeepMain, objVars, thrVars
<1>4. CASE Loop \/ WaitCommEvent \/ Acquire \/ Read \/ Drop \/ Insert \/ InsertLoad \/ InsertStore \/ Release
  BY <1>4 DEF Loop, WaitCommEvent, Acquire, Read, Drop, Insert, InsertLoad, InsertStore, Release,
              Runs, KeepThread, manVars
<1>5. CASE Wild
  BY <1>5 DEF Wild, KeepThread, manVars
<1>6. CASE Arrive \/ UNCHANGED vars
  BY <1>6 DEF Arrive, vars, objVars, thrVars, manVars
<1>7. QED
  BY <1>1, <1>2, <1>3, <1>4, <1>5, <1>6 DEF Next, MainStep, ThreadStep

\* Every step keeps the bytes away from a thread whose port is closed.
LEMMA StopStep == TypeInv /\ MutexInv /\ StopInv /\ [Next]_vars => StopInv'
<1> SUFFICES ASSUME TypeInv, MutexInv, StopInv, [Next]_vars
             PROVE  StopInv'
  OBVIOUS
<1> USE DEF MutexInv, StopInv, Held
<1>1. CASE COM_Init
  BY <1>1 DEF COM_Init, Started, devVars, manVars
<1>2. CASE StopNothing \/ StopMask \/ Delete
  BY <1>2 DEF StopNothing, StopMask, StopMay, Delete, objVars, devVars, thrVars
<1>a. CASE StopClose
  <2>1. thread \notin Held /\ com = "made" /\ packet = <<>>
    BY <1>a DEF StopClose, TypeInv
  <2>2. QED
    BY <1>a, <2>1 DEF StopClose, Closed, thrVars
<1>3. CASE COM_recv_char \/ RemoveNothing \/ Remove \/ RemoveLoad \/ RemoveStore
  BY <1>3 DEF COM_recv_char, RemoveNothing, Remove, RemoveLoad, RemoveStore, KeepMain, objVars, devVars, thrVars
<1>4. CASE Loop \/ WaitCommEvent \/ Acquire \/ InsertLoad \/ InsertStore \/ Release \/ Wild
  BY <1>4 DEF Loop, WaitCommEvent, Acquire, InsertLoad, InsertStore, Release, Wild,
              Runs, KeepThread, devVars, manVars
<1>5. CASE Read
  <2>1. PICK n \in {0, ReadLength} : packet' = SubSeq(dev, 1, n) /\ dev' = SubSeq(dev, n + 1, Len(dev))
    BY <1>5 DEF Read
  <2>2. dev = <<>> => packet' = <<>> /\ dev' = <<>>
    <3> SUFFICES ASSUME dev = <<>> PROVE packet' = <<>> /\ dev' = <<>>
      OBVIOUS
    <3>1. n = 0
      BY ReadType DEF TypeInv
    <3>2. QED
      BY <2>1, <3>1, SubSeqEmpty
  <2>3. QED
    BY <1>5, <2>2 DEF Read, Runs, KeepThread, manVars
<1>6. CASE Drop \/ Insert
  <2>1. fConnected
    BY <1>6 DEF Drop, Insert, Runs
  <2>2. QED
    BY <1>6, <2>1 DEF Drop, Insert, Runs, KeepThread, devVars, manVars
<1>7. CASE Arrive
  BY <1>7 DEF Arrive, objVars, thrVars, manVars
<1>8. CASE UNCHANGED vars
  BY <1>8 DEF vars, objVars, devVars, thrVars, manVars
<1>9. QED
  BY <1>1, <1>2, <1>a, <1>3, <1>4, <1>5, <1>6, <1>7, <1>8 DEF Next, MainStep, ThreadStep

\* What holds of opening and closing in every state.
LEMMA OpenAndClosed == Spec => [](TypeInv /\ MutexInv /\ StopInv)
<1>1. Init => TypeInv /\ MutexInv /\ StopInv
  <2>1. Init => TypeInv
    <3> SUFFICES ASSUME Init PROVE TypeInv
      OBVIOUS
    <3>1. dev \in Seq(Nat) /\ packet \in Seq(Nat) /\ inserted \in Seq(Nat) /\ got \in Seq(Nat)
      BY EmptySeq DEF Init
    <3>2. fConnected \in BOOLEAN /\ torn \in BOOLEAN /\ phantom \in BOOLEAN
      BY DEF Init
    <3>3. QED
      BY EmptyRingType, <3>1, <3>2 DEF Init, TypeInv, Held
  <2>2. Init => MutexInv /\ StopInv
    BY DEF Init, MutexInv, StopInv, Held
  <2>3. QED
    BY <2>1, <2>2
<1>2. (TypeInv /\ MutexInv /\ StopInv) /\ [Next]_vars => (TypeInv /\ MutexInv /\ StopInv)'
  BY TypeStep, MutexStep, StopStep
<1>3. QED
  BY <1>1, <1>2, PTL DEF Spec

\* Once ComPort::Stop has closed the port the thread puts nothing more into the ring,
\* although Stop does not wait for the thread to end and the thread may still wake on an
\* event of before: Stop excludes Process, and what it leaves to read is nothing.
THEOREM NothingAfter == Spec => NothingAfterStop
<1>1. TypeInv /\ MutexInv /\ StopInv /\ [Next]_vars => [inserted' # inserted => fConnected]_vars
  <2> SUFFICES ASSUME StopInv, [Next]_vars, inserted' # inserted
               PROVE  fConnected
    OBVIOUS
  <2>1. CASE Insert
    BY <2>1 DEF Insert, Runs, StopInv
  <2>2. CASE MainStep
    BY <2>2 DEF MainStep, COM_Init, StopNothing, StopMask, StopClose, Delete, COM_recv_char, RemoveNothing,
                Remove, RemoveLoad, RemoveStore, ringHist
  <2>3. CASE (ThreadStep /\ ~Insert) \/ Arrive
    BY <2>3 DEF ThreadStep, Loop, WaitCommEvent, Acquire, Read, Drop, InsertLoad, InsertStore, Release,
                Wild, Arrive, ringHist
  <2>4. QED
    BY <2>1, <2>2, <2>3 DEF Next, vars, ringHist
<1>2. QED
  BY <1>1, OpenAndClosed, PTL DEF Spec, NothingAfterStop

-----------------------------------------------------------------------------
(* The ring between two threads.                                            *)

\* The ring has at least one cell.
LEMMA RingHasCells == getsize \in Nat /\ getsize > 0
BY SizeAssumption DEF getsize

\* Counting cells from one on: the next one, and how far one comes before it is the same again.
LEMMA Places ==
  ASSUME NEW p \in Cells, NEW k \in 0..getsize
  PROVE  /\ Place(p) = p /\ Place(p + k) \in Cells
         /\ k < getsize => Advanced(Place(p + k)) = Place(p + (k + 1))
         /\ Place(p + k) = p <=> k \in {0, getsize}
         /\ \A j \in 0..getsize : j < k /\ Place(p + j) = Place(p + k) => j = 0 /\ k = getsize
         /\ k > 0 => Place(Advanced(p) + (k - 1)) = Place(p + k)
BY RingHasCells DEF Place, Advanced, Cells

\* Counting cells back from the last one.
LEMMA PlacesBack ==
  ASSUME NEW p \in Cells, NEW n \in 0..getsize, NEW i \in 1..n
  PROVE  Place(p + (i - 1)) = LET at == Place(p + n) - n + i - 1
                              IN IF at < 0 THEN at + getsize ELSE at
BY RingHasCells DEF Place, Cells

\* A byte put where there is room is the last one of the queue.
LEMMA PutQueues ==
  ASSUME NEW b \in Ring, NEW in \in Seq(Nat), NEW out \in Seq(Nat), NEW c \in Nat,
         NEW n \in Nat, NEW counted \in Int, n < getsize, Queued(n, counted, b, in, out)
  PROVE  Queued(n + 1, counted, PutByte(b, c), Append(in, c), out)
<1> DEFINE b2 == PutByte(b, c)
           in2 == Append(in, c)
<1>1. /\ b2.put = Advanced(b.put) /\ b2.get = b.get /\ b2.space = b.space
      /\ b2.cells = [b.cells EXCEPT ![b.put] = c]
  BY PutType
<1>2. /\ Len(in2) = Len(in) + 1
      /\ \A i \in 1..Len(in) : in2[i] = in[i]
      /\ in2[Len(in) + 1] = c
  BY AppendProperties
<1>3. b.get \in Cells /\ b.put \in Cells /\ b.cells \in [Cells -> Nat]
  BY DEF Ring
<1>4. Advanced(b.put) = Place(b.get + (n + 1))
  <2>1. n \in 0..getsize /\ b.put = Place(b.get + n)
    BY DEF Queued
  <2>2. QED
    BY <1>3, <2>1, Places
<1>5. \A i \in 1..n : Place(b.get + (i - 1)) \in Cells /\ Place(b.get + (i - 1)) # b.put
  <2> SUFFICES ASSUME NEW i \in 1..n
               PROVE  Place(b.get + (i - 1)) \in Cells /\ Place(b.get + (i - 1)) # b.put
    OBVIOUS
  <2>1. i - 1 \in 0..getsize /\ n \in 0..getsize /\ i - 1 < n /\ n # getsize
    BY RingHasCells
  <2>2. b.put = Place(b.get + n)
    BY DEF Queued
  <2>3. Place(b.get + (i - 1)) # Place(b.get + n)
    BY <1>3, <2>1, Places
  <2>4. QED
    BY <1>3, <2>1, <2>2, <2>3, Places
<1>6. Place(b.get + ((n + 1) - 1)) = b.put
  BY DEF Queued
<1>7. Len(in) = Len(out) + n /\ Len(out) \in Nat
  BY DEF Queued
<1> HIDE DEF b2, in2
<1>8. \A i \in 1..Len(out) : in2[i] = out[i]
  BY <1>2, <1>7 DEF Queued
<1>9. \A i \in 1..(n + 1) : in2[Len(out) + i] = b2.cells[Place(b2.get + (i - 1))]
  <2> SUFFICES ASSUME NEW i \in 1..(n + 1)
               PROVE  in2[Len(out) + i] = b2.cells[Place(b2.get + (i - 1))]
    OBVIOUS
  <2>1. CASE i = n + 1
    BY <1>1, <1>2, <1>3, <1>6, <1>7, <2>1
  <2>2. CASE i # n + 1
    <3>1. i \in 1..n /\ Len(out) + i \in 1..Len(in)
      BY <1>7, <2>2
    <3>2. in2[Len(out) + i] = b.cells[Place(b.get + (i - 1))]
      BY <1>2, <3>1 DEF Queued
    <3>3. b2.cells[Place(b2.get + (i - 1))] = b.cells[Place(b.get + (i - 1))]
      BY <1>1, <1>3, <1>5, <3>1
    <3>4. QED
      BY <3>2, <3>3
  <2>3. QED
    BY <2>1, <2>2
<1>10. n + 1 \in 0..getsize /\ Len(in2) = Len(out) + (n + 1)
  BY <1>2, <1>7, SizeAssumption DEF getsize
<1>11. QED
  BY <1>1, <1>4, <1>8, <1>9, <1>10 DEF Queued, b2, in2

\* The byte taken is the first one of the queue.
LEMMA GetDequeues ==
  ASSUME NEW b \in Ring, NEW in \in Seq(Nat), NEW out \in Seq(Nat),
         NEW n \in Nat, NEW counted \in Int, n > 0, Queued(n, counted, b, in, out)
  PROVE  Queued(n - 1, counted, GetByte(b), in, Append(out, peek(b)))
<1> DEFINE b2 == GetByte(b)
           out2 == Append(out, peek(b))
<1>1. b2.put = b.put /\ b2.get = Advanced(b.get) /\ b2.space = b.space /\ b2.cells = b.cells
  BY GetType
<1>2. b.get \in Cells /\ peek(b) = b.cells[b.get] /\ peek(b) \in Nat
  BY DEF Ring, peek
<1>3. /\ Len(out2) = Len(out) + 1
      /\ \A i \in 1..Len(out) : out2[i] = out[i]
      /\ out2[Len(out) + 1] = peek(b)
  BY <1>2, AppendProperties
<1>4. Len(in) = Len(out) + n /\ Len(out) \in Nat /\ n \in 1..getsize
  BY SizeAssumption DEF Queued, getsize
<1>5. b.put = Place(Advanced(b.get) + (n - 1))
  BY <1>2, <1>4, Places DEF Queued
<1>6. \A i \in 1..(n - 1) : Place(Advanced(b.get) + (i - 1)) = Place(b.get + ((i + 1) - 1))
  <2> SUFFICES ASSUME NEW i \in 1..(n - 1)
               PROVE  Place(Advanced(b.get) + (i - 1)) = Place(b.get + ((i + 1) - 1))
    OBVIOUS
  <2>1. i \in 0..getsize /\ i > 0 /\ (i + 1) - 1 = i
    BY <1>4, RingHasCells
  <2>2. Place(Advanced(b.get) + (i - 1)) = Place(b.get + i)
    BY <1>2, <2>1, Places
  <2>3. QED
    BY <2>1, <2>2
<1>7. Place(b.get + (1 - 1)) = b.get
  BY <1>2, RingHasCells DEF Place, Cells
<1> HIDE DEF b2, out2
<1>8. \A i \in 1..Len(out2) : in[i] = out2[i]
  <2>1. in[Len(out) + 1] = peek(b)
    BY <1>2, <1>4, <1>7 DEF Queued
  <2>2. \A i \in 1..Len(out) : in[i] = out[i]
    BY DEF Queued
  <2>3. \A l \in Nat : \A i \in 1..(l + 1) : i \in 1..l \/ i = l + 1
    OBVIOUS
  <2>4. QED
    BY <1>3, <1>4, <2>1, <2>2, <2>3
<1>9. \A i \in 1..(n - 1) : in[Len(out2) + i] = b2.cells[Place(b2.get + (i - 1))]
  <2> SUFFICES ASSUME NEW i \in 1..(n - 1)
               PROVE  in[Len(out2) + i] = b2.cells[Place(b2.get + (i - 1))]
    OBVIOUS
  <2>1. i + 1 \in 1..n /\ Len(out2) + i = Len(out) + (i + 1)
    BY <1>3, <1>4
  <2>2. in[Len(out) + (i + 1)] = b.cells[Place(b.get + ((i + 1) - 1))]
    BY <2>1 DEF Queued
  <2>3. QED
    BY <1>1, <1>6, <2>1, <2>2
<1>10. n - 1 \in 0..getsize /\ Len(in) = Len(out2) + (n - 1)
  BY <1>3, <1>4, SizeAssumption DEF getsize
<1>11. QED
  BY <1>1, <1>5, <1>8, <1>9, <1>10 DEF Queued, b2, out2

\* Counting changes no more than the count.
LEMMA CountQueues ==
  ASSUME NEW b \in Ring, NEW in \in Seq(Nat), NEW out \in Seq(Nat),
         NEW n \in Nat, NEW counted \in Int, NEW now \in -1..getsize, Queued(n, counted, b, in, out)
  PROVE  Queued(n, now, [b EXCEPT !.space = getsize - now], in, out)
<1>1. getsize - now \in Int
  BY SizeAssumption DEF getsize
<1>2. QED
  BY <1>1, CountedType DEF Queued

\* A step that leaves the ring and what is counted alone.
LEMMA QueueKept ==
  ASSUME QueueInv, UNCHANGED <<crxbuf, inserted, got>>, ~phantom', Taken' = Taken, Put' = Put
  PROVE  QueueInv'
<1>1. Count' = Count /\ CountedNow' = CountedNow
  BY DEF Count, CountedNow
<1>2. QED
  BY <1>1 DEF QueueInv, Queued, Place, getsize

\* The two threads keep the queue, whichever of their steps come between each other: what
\* a thread adds to, or takes off, the count is what it has put or taken, as long as no
\* store overwrites a count.
LEMMA RingStep == TypeInv /\ TypeInv' /\ MutexInv /\ StopInv /\ RingInv /\ [Next]_vars => RingInv'
<1> SUFFICES ASSUME TypeInv, TypeInv', MutexInv, StopInv, RingInv, [Next]_vars, ~torn'
             PROVE  QueueInv'
  BY DEF RingInv
<1>1. ~torn
  <2>1. torn' = torn \/ torn' = (torn \/ crxbuf.space # mspace) \/ torn' = (torn \/ crxbuf.space # tspace)
    BY DEF Next, MainStep, ThreadStep, COM_Init, StopNothing, StopMask, StopClose, Delete, COM_recv_char,
           RemoveNothing, Remove, RemoveLoad, RemoveStore, Loop, WaitCommEvent, Acquire, Read, Drop,
           Insert, InsertLoad, InsertStore, Release, Wild, Arrive, vars, ringHist
  <2>2. QED
    BY <2>1
<1>2. QueueInv
  BY <1>1 DEF RingInv
<1>3. /\ Count \in 0..getsize /\ Taken \in 0..1 /\ Put \in 0..1
      /\ CountedNow \in -1..getsize /\ CountedNow = Count + Taken - Put
      /\ getsize \in Nat /\ getsize > 0
  BY <1>2, SizeAssumption DEF QueueInv, Queued, Taken, Put, CountedNow, getsize
<1>4. crxbuf \in Ring /\ inserted \in Seq(Nat) /\ got \in Seq(Nat)
  BY DEF TypeInv
<1>5. Queued(Count, CountedNow, crxbuf, inserted, got) /\ crxbuf.space = getsize - CountedNow
  BY <1>2 DEF QueueInv, Queued
<1>6. \A n \in Nat : Len(inserted') = Len(got') + n => Count' = n
  BY DEF TypeInv, Count
<1>7. CASE COM_Init
  <2>1. Put' = Put
    BY <1>7 DEF COM_Init, MutexInv, Put
  <2>2. QED
    BY <1>2, <1>7, <2>1, QueueKept DEF COM_Init, manVars, ringHist, Taken, QueueInv
<1>8. CASE StopNothing \/ StopMask \/ StopClose \/ Delete
  BY <1>2, <1>8, QueueKept
  DEF StopNothing, StopMask, StopClose, Delete, thrVars, ringHist, Taken, Put, QueueInv
<1>9. CASE COM_recv_char
  BY <1>2, <1>9, QueueKept DEF COM_recv_char, KeepMain, thrVars, ringHist, Taken, Put, QueueInv
<1>10. CASE RemoveNothing
  <2>2. crxbuf.get = crxbuf.put
    BY <1>10 DEF RemoveNothing, IsEmpty
  <2>3. Count = 0 \/ Count = getsize
    <3>1. crxbuf.get \in Cells /\ Place(crxbuf.get + Count) = crxbuf.get
      BY <1>4, <1>5, <2>2 DEF Queued, Ring
    <3>2. QED
      BY <1>3, <3>1, Places
  <2>4. ~phantom'
    <3>1. ~phantom /\ phantom' = (phantom \/ Count \in 1..getsize - 1)
      BY <1>2, <1>10 DEF RemoveNothing, QueueInv
    <3>2. ~(Count \in 1..getsize - 1)
      BY <1>3, <2>3
    <3>3. QED
      BY <3>1, <3>2
  <2>5. QED
    BY <1>2, <1>10, <2>4, QueueKept DEF RemoveNothing, KeepMain, thrVars, Taken, Put
<1>11. CASE Remove
  <2>1. Taken = 0 /\ Taken' = 1 /\ Put' = Put
    BY <1>11 DEF Remove, KeepMain, thrVars, Taken, Put
  <2>2. Count > 0
    <3>1. crxbuf.space = 0 \/ crxbuf.get # crxbuf.put
      BY <1>11 DEF Remove, IsEmpty
    <3>2. crxbuf.space = 0 => Count > 0
      BY <1>3, <1>5, <2>1
    <3>3. Count = 0 => crxbuf.get = crxbuf.put
      <4>1. crxbuf.get \in Cells /\ Place(crxbuf.get + Count) = crxbuf.put
        BY <1>4, <1>5 DEF Queued, Ring
      <4>2. QED
        BY <1>3, <4>1, Places
    <3>4. QED
      BY <1>3, <3>1, <3>2, <3>3
  <2>3. crxbuf' = GetByte(crxbuf) /\ got' = Append(got, peek(crxbuf)) /\ UNCHANGED <<inserted, phantom>>
    BY <1>11 DEF Remove
  <2>4. Queued(Count - 1, CountedNow, GetByte(crxbuf), inserted, Append(got, peek(crxbuf)))
    BY <1>3, <1>4, <1>5, <2>2, GetDequeues
  <2>5. Queued(Count - 1, CountedNow, crxbuf', inserted', got')
    BY <2>3, <2>4
  <2>6. Count' = Count - 1
    BY <1>3, <1>6, <2>2, <2>5 DEF Queued
  <2>7. CountedNow' = CountedNow
    BY <1>3, <2>1, <2>6 DEF CountedNow
  <2>8. QED
    BY <1>2, <1>3, <2>1, <2>3, <2>5, <2>6, <2>7 DEF QueueInv, Queued, Place, getsize
<1>12. CASE RemoveLoad
  BY <1>2, <1>12, QueueKept DEF RemoveLoad, KeepMain, thrVars, ringHist, Taken, Put, QueueInv
<1>13. CASE RemoveStore
  <2>1. CountedNow >= 0 /\ Taken = 1 /\ Taken' = 0 /\ Put' = Put /\ main' = "idle"
    BY <1>3, <1>13 DEF RemoveStore, KeepMain, thrVars, Taken, Put
  <2>2. crxbuf.space = mspace
    BY <1>13 DEF RemoveStore
  <2>3. CountedNow - 1 \in -1..getsize /\ mspace + 1 = getsize - (CountedNow - 1)
    BY <1>3, <1>5, <2>1, <2>2
  <2>4. crxbuf' = [crxbuf EXCEPT !.space = getsize - (CountedNow - 1)] /\ UNCHANGED <<inserted, got, phantom>>
    BY <1>13, <2>3 DEF RemoveStore
  <2>5. Count' = Count /\ CountedNow' = CountedNow - 1
    BY <1>3, <2>1, <2>4 DEF Count, CountedNow
  <2>6. Queued(Count, CountedNow - 1, crxbuf', inserted', got')
    BY <1>3, <1>4, <1>5, <2>3, <2>4, CountQueues
  <2>7. QED
    BY <1>2, <1>3, <2>1, <2>4, <2>5, <2>6 DEF QueueInv, Queued, Place, getsize
<1>14. CASE Loop \/ WaitCommEvent \/ Acquire \/ Release \/ Read \/ Drop
  <2>1. /\ UNCHANGED <<crxbuf, inserted, got, phantom, main>>
        /\ thread \notin {"load", "store"} /\ thread' \notin {"load", "store"}
    BY <1>14 DEF Loop, WaitCommEvent, Acquire, Release, Read, Drop, KeepThread, manVars, ringHist
  <2>2. QED
    BY <1>2, <2>1, QueueKept DEF Taken, Put, QueueInv
<1>15. CASE Insert
  <2>1. Put = 0 /\ Put' = 1 /\ Taken' = Taken /\ main' = main
    BY <1>15 DEF Insert, KeepThread, manVars, Put, Taken
  <2>2. crxbuf.space # 0
    BY <1>15 DEF Insert, IsFull
  <2>3. Count + Taken < getsize
    BY <1>3, <1>5, <2>1, <2>2
  <2>4. Head(packet) \in Nat
    BY <1>15 DEF Insert, TypeInv
  <2>5. crxbuf' = PutByte(crxbuf, Head(packet)) /\ inserted' = Append(inserted, Head(packet))
        /\ UNCHANGED <<got, phantom>>
    BY <1>15 DEF Insert
  <2>6. Queued(Count + 1, CountedNow, crxbuf', inserted', got')
    BY <1>3, <1>4, <1>5, <2>3, <2>4, <2>5, PutQueues
  <2>7. Count' = Count + 1
    BY <1>3, <1>6, <2>6 DEF Queued
  <2>8. CountedNow' = CountedNow
    BY <1>3, <2>1, <2>7 DEF CountedNow
  <2>9. QED
    BY <1>2, <1>3, <2>1, <2>3, <2>5, <2>6, <2>7, <2>8 DEF QueueInv, Queued, Place, getsize
<1>16. CASE InsertLoad
  BY <1>2, <1>16, QueueKept DEF InsertLoad, KeepThread, manVars, ringHist, Taken, Put, QueueInv
<1>17. CASE InsertStore
  <2>1. Put = 1 /\ Put' = 0 /\ Taken' = Taken /\ main' = main
    BY <1>17 DEF InsertStore, KeepThread, manVars, Put, Taken
  <2>2. crxbuf.space = tspace
    BY <1>17 DEF InsertStore
  <2>3. CountedNow + 1 \in -1..getsize /\ tspace - 1 = getsize - (CountedNow + 1)
    BY <1>2, <1>3, <1>5, <2>1, <2>2 DEF QueueInv
  <2>4. crxbuf' = [crxbuf EXCEPT !.space = getsize - (CountedNow + 1)] /\ UNCHANGED <<inserted, got, phantom>>
    BY <1>17, <2>3 DEF InsertStore
  <2>5. Count' = Count /\ CountedNow' = CountedNow + 1
    BY <1>3, <2>1, <2>4 DEF Count, CountedNow
  <2>6. Queued(Count, CountedNow + 1, crxbuf', inserted', got')
    BY <1>3, <1>4, <1>5, <2>3, <2>4, CountQueues
  <2>7. QED
    BY <1>2, <1>3, <2>1, <2>4, <2>5, <2>6 DEF QueueInv, Queued, Place, getsize
<1>18. CASE Wild
  <2>1. thread \notin {"load", "store"}
    BY <1>18 DEF Wild, MutexInv, StopInv
  <2>2. QED
    BY <1>2, <1>18, <2>1, QueueKept DEF Wild, KeepThread, manVars, ringHist, Taken, Put, QueueInv
<1>19. CASE Arrive \/ UNCHANGED vars
  BY <1>2, <1>19, QueueKept DEF Arrive, vars, thrVars, manVars, ringHist, Taken, Put, QueueInv
<1>20. QED
  BY <1>7, <1>8, <1>9, <1>10, <1>11, <1>12, <1>13, <1>14, <1>15, <1>16, <1>17, <1>18, <1>19
  DEF Next, MainStep, ThreadStep

\* What is unread is what was put in behind what was taken out.
LEMMA QueueIsFifo ==
  ASSUME TypeInv, QueueInv
  PROVE  inserted = got \o Unread(crxbuf, Count)
<1> DEFINE u == Unread(crxbuf, Count)
<1>1. Count \in Nat /\ Len(got) \in Nat /\ Len(inserted) = Len(got) + Count
  BY SizeAssumption DEF TypeInv, QueueInv, Queued, getsize
<1>2. crxbuf.get \in Cells /\ crxbuf.cells \in [Cells -> Nat] /\ Count \in 0..getsize
      /\ crxbuf.put = Place(crxbuf.get + Count)
  BY DEF TypeInv, Ring, QueueInv, Queued
<1>3. \A i \in 1..Count : u[i] = crxbuf.cells[Place(crxbuf.get + (i - 1))]
  BY <1>2, PlacesBack DEF Unread
<1>4. u \in Seq(Nat) /\ Len(u) = Count
  <2>1. \A i \in 1..Count : u[i] \in Nat
    <3> SUFFICES ASSUME NEW i \in 1..Count PROVE u[i] \in Nat
      OBVIOUS
    <3>1. i - 1 \in 0..getsize
      BY <1>2, RingHasCells
    <3>2. Place(crxbuf.get + (i - 1)) \in Cells
      BY <1>2, <3>1, Places
    <3> HIDE DEF u
    <3>3. QED
      BY <1>2, <1>3, <3>2
  <2>2. u = [i \in 1..Count |-> u[i]]
    BY DEF Unread
  <2> HIDE DEF u
  <2>3. u \in [1..Count -> Nat]
    BY <2>1, <2>2
  <2>4. QED
    BY <1>1, <2>3, SeqDef, LenProperties
<1> HIDE DEF u
<1>5. got \in Seq(Nat) /\ inserted \in Seq(Nat)
  BY DEF TypeInv
<1>6. got \o u \in Seq(Nat) /\ Len(got \o u) = Len(inserted)
  BY <1>1, <1>4, <1>5, ConcatProperties
<1>7. \A i \in 1..Len(inserted) : inserted[i] = (got \o u)[i]
  <2> SUFFICES ASSUME NEW i \in 1..Len(inserted)
               PROVE  inserted[i] = (got \o u)[i]
    OBVIOUS
  <2>1. CASE i <= Len(got)
    <3>1. i \in 1..Len(got)
      BY <1>1, <2>1
    <3>2. inserted[i] = got[i]
      BY <3>1 DEF QueueInv, Queued
    <3>3. (got \o u)[i] = got[i]
      BY <1>1, <1>4, <1>5, <1>6, <2>1, ConcatProperties
    <3>4. QED
      BY <3>2, <3>3
  <2>2. CASE i > Len(got)
    <3> DEFINE j == i - Len(got)
    <3>1. j \in 1..Count /\ i = Len(got) + j
      BY <1>1, <2>2
    <3>2. (got \o u)[i] = u[j]
      BY <1>1, <1>4, <1>5, <1>6, <2>2, ConcatProperties
    <3> HIDE DEF j
    <3>3. inserted[i] = crxbuf.cells[Place(crxbuf.get + (j - 1))]
      BY <3>1 DEF QueueInv, Queued
    <3>4. QED
      BY <1>3, <3>1, <3>2, <3>3
  <2>3. i <= Len(got) \/ i > Len(got)
    BY <1>1
  <2>4. QED
    BY <2>1, <2>2, <2>3
<1>8. QED
  BY <1>5, <1>6, <1>7, SeqEqual DEF u

\* ComPort's thread and the main program share the ring without a lock. Until one of them
\* stores a count the other has changed in between, main takes out what the thread has put
\* in, each byte once and in order, whether it asked COM_recv_count first or not, what is
\* counted is there, and no index leaves the buffer; whatever the ring's size and the steps between each other.
THEOREM RingIsSound == Spec => []RingSound
<1>1. Init => RingInv
  <2> SUFFICES ASSUME Init PROVE QueueInv
    BY DEF RingInv
  <2>1. Count = 0 /\ CountedNow = 0 /\ Len(inserted) = 0 /\ Len(got) = 0 /\ Taken = 0
    BY DEF Init, Count, CountedNow, Taken, Put
  <2>2. crxbuf.get = 0 /\ crxbuf.put = 0 /\ crxbuf.space = getsize
    BY DEF Init, EmptyRing
  <2>3. QED
    BY <2>1, <2>2, SizeAssumption DEF Init, QueueInv, Queued, Place, getsize
<1>2. TypeInv /\ MutexInv /\ StopInv /\ RingInv /\ [Next]_vars /\ (TypeInv /\ MutexInv /\ StopInv)' => RingInv'
  BY RingStep
<1>3. TypeInv /\ MutexInv /\ StopInv /\ RingInv => RingSound
  <2> SUFFICES ASSUME TypeInv, MutexInv, RingInv PROVE RingSound
    OBVIOUS
  <2>1. ~torn => /\ Count \in 0..getsize /\ CountedNow \in -1..getsize
                 /\ CountedNow = Count + Taken - Put
                 /\ crxbuf.space = getsize - CountedNow /\ ~phantom
    BY DEF RingInv, QueueInv, Queued, CountedNow
  <2>2. SerialTypeOK
    BY <2>1, SizeAssumption DEF TypeInv, Ring, MutexInv, SerialTypeOK, Runs, Held, getsize
  <2>3. FifoUnlessTorn
    BY <2>1, QueueIsFifo DEF RingInv, FifoUnlessTorn
  <2>4. CountedIsThere
    BY <2>1, SizeAssumption DEF CountedIsThere, getcount, getsize, Taken, Put
  <2>5. QED
    BY <2>2, <2>3, <2>4 DEF RingSound
<1>4. QED
  BY <1>1, <1>2, <1>3, OpenAndClosed, PTL DEF Spec
=============================================================================

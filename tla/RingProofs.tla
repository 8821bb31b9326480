------------------------------ MODULE RingProofs ----------------------------
(***************************************************************************)
(* Proofs about RingBuf for every buffer size and every set of bytes, and  *)
(* about MsgQueue, which is built on it, for every largest payload: the    *)
(* ring is the queue of ByteFifo, it always holds whole messages, and what *)
(* senders and the task see of it is the queue of MsgFifo.                 *)
(***************************************************************************)
EXTENDS MsgQueue, SetInduction, SequenceTheorems, TLAPS

-----------------------------------------------------------------------------
(* RingBuf: the bytes.                                                      *)

\* The index arithmetic stays inside the buffer.
LEMMA WrapInCells ==
  ASSUME NEW i \in 0..(2 * Size - 1)
  PROVE  Wrap(i) \in Cells
BY SizeAssumption DEF Wrap, Cells

\* A block is a non-empty sequence of bytes.
LEMMA BlockIsSeq ==
  ASSUME NEW d \in Blocks
  PROVE  /\ d \in Seq(Byte)
         /\ Len(d) \in 1..MaxChunk
         /\ \A i \in 1..Len(d) : d[i] \in Byte
<1>1. PICK n \in 1..MaxChunk : d \in [1..n -> Byte]
  BY DEF Blocks
<1>2. n \in Nat
  BY ChunkAssumption
<1>3. d \in Seq(Byte) /\ Len(d) = n
  BY <1>1, <1>2
<1>4. QED
  BY <1>1, <1>2, <1>3

\* RingBufUsed of two indices of the ring is a count below Size.
LEMMA UsedInCells ==
  ASSUME NEW r \in Cells, NEW w \in Cells
  PROVE  Used(r, w) \in Cells
BY SizeAssumption DEF Used, Cells

\* Laying a block over the buffer leaves a buffer of bytes.
LEMMA FilledType ==
  ASSUME NEW w \in Cells, NEW d \in Blocks, buf \in [Cells -> Byte]
  PROVE  Filled(w, d) \in [Cells -> Byte]
<1>1. ASSUME NEW c \in Cells, Past(w, c) < Len(d)
      PROVE  d[Past(w, c) + 1] \in Byte
  <2>1. Past(w, c) + 1 \in 1..Len(d)
    BY <1>1, BlockIsSeq, SizeAssumption DEF Past, Cells
  <2>2. QED
    BY <2>1, BlockIsSeq
<1>2. QED
  BY <1>1 DEF Filled

\* No operation, wrapping and pushing out included, can corrupt an index.
LEMMA TypeKept ==
  ASSUME TypeOK, [Next]_vars
  PROVE  TypeOK'
<1>1. ASSUME NEW d \in Blocks, Write(d)
      PROVE  TypeOK'
  <2>1. Filled(WriteIndex, d) \in [Cells -> Byte]
    BY FilledType DEF TypeOK
  <2>2. WriteIndex + Len(d) \in 0..(2 * Size - 1)
    <3>1. Used(ReadIndex, WriteIndex) \in Cells
      BY UsedInCells DEF TypeOK
    <3>2. Len(d) <= (Size - 1) - Used(ReadIndex, WriteIndex)
      BY <1>1 DEF Write, Free
    <3>3. Len(d) \in Nat
      BY BlockIsSeq, ChunkAssumption
    <3>4. QED
      BY <3>1, <3>2, <3>3, SizeAssumption DEF TypeOK, Cells
  <2>3. QED
    BY <1>1, <2>1, <2>2, WrapInCells DEF TypeOK, Write
<1>2. ASSUME NEW d \in Blocks, AdvanceWrite(d)
      PROVE  TypeOK'
  <2>1. Filled(WriteIndex, d) \in [Cells -> Byte]
    BY FilledType DEF TypeOK
  <2>2. WriteIndex + Len(d) \in 0..(2 * Size - 1)
    <3>1. Len(d) \in Nat /\ Len(d) <= Size
      BY <1>2, BlockIsSeq, ChunkAssumption DEF AdvanceWrite
    <3>2. QED
      BY <3>1, SizeAssumption DEF TypeOK, Cells
  <2>3. WriteIndex' \in Cells
    BY <1>2, <2>2, WrapInCells DEF AdvanceWrite
  <2>4. Wrap(WriteIndex' + 1) \in Cells
    BY <2>3, SizeAssumption, WrapInCells DEF Cells
  <2>5. QED
    BY <1>2, <2>1, <2>3, <2>4 DEF TypeOK, AdvanceWrite
<1>3. ASSUME NEW n \in 1..MaxChunk, Read(n)
      PROVE  TypeOK'
  <2>1. n \in Nat /\ ReadIndex + n \in 0..(2 * Size - 1)
    <3>1. Used(ReadIndex, WriteIndex) \in Cells
      BY UsedInCells DEF TypeOK
    <3>2. n <= Used(ReadIndex, WriteIndex)
      BY <1>3 DEF Read
    <3>3. QED
      BY <3>1, <3>2, SizeAssumption, ChunkAssumption DEF TypeOK, Cells
  <2>2. \A i \in 1..n : Wrap(ReadIndex + i - 1) \in Cells
    BY <2>1, SizeAssumption DEF TypeOK, Cells, Wrap
  <2>3. [i \in 1..n |-> buf[Wrap(ReadIndex + i - 1)]] \in Seq(Byte)
    BY <2>1, <2>2 DEF TypeOK
  <2>4. QED
    BY <1>3, <2>1, <2>3, WrapInCells DEF TypeOK, Read
<1>4. ASSUME NEW n \in 1..MaxChunk, AdvanceRead(n)
      PROVE  TypeOK'
  <2>1. ReadIndex + Lesser(Used(ReadIndex, WriteIndex), n) \in 0..(2 * Size - 1)
    <3>1. Used(ReadIndex, WriteIndex) \in Cells
      BY UsedInCells DEF TypeOK
    <3>2. QED
      BY <3>1, SizeAssumption, ChunkAssumption DEF TypeOK, Lesser, Cells
  <2>2. QED
    BY <1>4, <2>1, WrapInCells DEF TypeOK, AdvanceRead
<1>5. CASE Flush
  BY <1>5 DEF TypeOK, Flush
<1>6. CASE UNCHANGED vars
  BY <1>6 DEF TypeOK, vars
<1>7. QED
  BY <1>1, <1>2, <1>3, <1>4, <1>5, <1>6 DEF Next

\* The indices never leave the buffer, and only bytes are handed back.
THEOREM TypeCorrect == Spec => []TypeOK
<1>1. Init => TypeOK
  BY SizeAssumption DEF Init, TypeOK, Cells
<1>2. TypeOK /\ [Next]_vars => TypeOK'
  BY TypeKept
<1>3. QED
  BY <1>1, <1>2, PTL DEF Spec

-----------------------------------------------------------------------------
(* The ring implements the FIFO.  The four arithmetic lemmas say where the  *)
(* bytes lie before and after an index moves; none of them needs %.         *)

\* Moving the write index by n where n cells are free queues n more bytes, and
\* the cells filled are exactly those past the unread ones.
LEMMA WriteMakesRoom ==
  ASSUME NEW r \in Cells, NEW w \in Cells, NEW n \in Nat, n <= Free(r, w)
  PROVE  /\ Used(r, Wrap(w + n)) = Used(r, w) + n
         /\ \A i \in 1..(Used(r, w) + n) :
              /\ Wrap(r + i - 1) \in Cells
              /\ i <= Used(r, w) => Past(w, Wrap(r + i - 1)) >= n
              /\ i > Used(r, w) => Past(w, Wrap(r + i - 1)) = (i - Used(r, w)) - 1
BY SizeAssumption DEF Used, Free, Wrap, Past, Cells

\* Moving the write index by more than is free, with the read index set one
\* past it, leaves the newest Size - 1 bytes unread.
LEMMA OverrunKeepsNewest ==
  ASSUME NEW r \in Cells, NEW w \in Cells, NEW n \in 0..Size, n > Free(r, w),
         NEW w2, w2 = Wrap(w + n), NEW r2, r2 = Wrap(w2 + 1)
  PROVE  /\ Used(r2, w2) = Size - 1
         /\ Used(r, w) + n > Size - 1
         /\ \A i \in 1..(Size - 1) :
              LET j == (Used(r, w) + n) - (Size - 1) + i
              IN /\ Wrap(r2 + i - 1) \in Cells
                 /\ j \in 1..(Used(r, w) + n)
                 /\ j <= Used(r, w) => /\ Past(w, Wrap(r2 + i - 1)) >= n
                                       /\ Wrap(r2 + i - 1) = Wrap(r + j - 1)
                 /\ j > Used(r, w) =>
                      Past(w, Wrap(r2 + i - 1)) = (j - Used(r, w)) - 1
BY SizeAssumption DEF Used, Free, Wrap, Past, Cells

\* Moving the read index by n unread bytes leaves the rest, in order.
LEMMA ReadLeavesRest ==
  ASSUME NEW r \in Cells, NEW w \in Cells, NEW n \in Nat, n <= Used(r, w)
  PROVE  /\ Used(Wrap(r + n), w) = Used(r, w) - n
         /\ \A i \in 1..(Used(r, w) - n) :
              Wrap(Wrap(r + n) + i - 1) = Wrap(r + (n + i) - 1)
BY SizeAssumption DEF Used, Wrap, Cells

\* The unread bytes are a sequence of bytes.
LEMMA UnreadIsSeq ==
  ASSUME NEW b \in [Cells -> Byte], NEW r \in Cells, NEW w \in Cells
  PROVE  /\ Unread(b, r, w) \in Seq(Byte)
         /\ Len(Unread(b, r, w)) = Used(r, w)
         /\ Used(r, w) \in 0..(Size - 1)
         /\ \A i \in 1..Used(r, w) :
              /\ Wrap(r + i - 1) \in Cells
              /\ Unread(b, r, w)[i] = b[Wrap(r + i - 1)]
<1>1. Used(r, w) \in 0..(Size - 1)
  BY UsedInCells DEF Cells
<1>2. \A i \in 1..Used(r, w) : Wrap(r + i - 1) \in Cells
  BY <1>1, SizeAssumption DEF Cells, Wrap
<1>3. QED
  BY <1>1, <1>2, SizeAssumption DEF Unread

\* A block that fits is queued behind the unread bytes.
LEMMA BlockIsAppended ==
  ASSUME TypeOK, TypeOK', NEW d \in Blocks,
         Len(d) <= Free(ReadIndex, WriteIndex),
         buf' = Filled(WriteIndex, d),
         WriteIndex' = Wrap(WriteIndex + Len(d)),
         ReadIndex' = ReadIndex
  PROVE  /\ Contents' = Contents \o d
         /\ Len(Contents) + Len(d) <= Size - 1
<1> DEFINE U == Used(ReadIndex, WriteIndex)
           n == Len(d)
<1>1. n \in Nat /\ d \in Seq(Byte) /\ \A i \in 1..n : d[i] \in Byte
  BY BlockIsSeq, ChunkAssumption
<1>2. n <= Free(ReadIndex, WriteIndex) /\ U \in 0..(Size - 1)
  <2>1. ReadIndex \in Cells /\ WriteIndex \in Cells
    BY DEF TypeOK
  <2>2. QED
    BY <2>1, UsedInCells DEF Cells
<1>3. /\ Contents \in Seq(Byte) /\ Len(Contents) = U
      /\ \A i \in 1..U : Contents[i] = buf[Wrap(ReadIndex + i - 1)]
  <2>1. buf \in [Cells -> Byte] /\ ReadIndex \in Cells /\ WriteIndex \in Cells
    BY DEF TypeOK
  <2>2. QED
    BY <2>1, UnreadIsSeq DEF Contents
<1>4. /\ Contents' \in Seq(Byte) /\ Len(Contents') = Used(ReadIndex', WriteIndex')
      /\ \A i \in 1..Used(ReadIndex', WriteIndex') :
           Contents'[i] = buf'[Wrap(ReadIndex' + i - 1)]
  <2>1. buf' \in [Cells -> Byte] /\ ReadIndex' \in Cells /\ WriteIndex' \in Cells
    BY DEF TypeOK
  <2>2. QED
    BY <2>1, UnreadIsSeq DEF Contents
<1>5. /\ Used(ReadIndex', WriteIndex') = U + n
      /\ \A i \in 1..(U + n) :
           /\ Wrap(ReadIndex + i - 1) \in Cells
           /\ i <= U => Past(WriteIndex, Wrap(ReadIndex + i - 1)) >= n
           /\ i > U => Past(WriteIndex, Wrap(ReadIndex + i - 1)) = (i - U) - 1
  <2>1. ReadIndex \in Cells /\ WriteIndex \in Cells
    BY DEF TypeOK
  <2>2. QED
    BY <1>1, <1>2, <2>1, WriteMakesRoom
<1>a. Len(d) = n
  OBVIOUS
<1> HIDE DEF U, n
<1>6. /\ Contents \o d \in Seq(Byte)
      /\ Len(Contents \o d) = U + n
      /\ \A i \in 1..(U + n) :
           (Contents \o d)[i] = IF i <= U THEN Contents[i] ELSE d[i - U]
  BY <1>1, <1>3, <1>a, ConcatProperties
<1>7. ASSUME NEW i \in 1..(U + n)
      PROVE  Contents'[i] = (Contents \o d)[i]
  <2> DEFINE c == Wrap(ReadIndex + i - 1)
  <2>1. Contents'[i] = Filled(WriteIndex, d)[c]
    BY <1>4, <1>5
  <2>2. c \in Cells
    BY <1>5
  <2> HIDE DEF c
  <2>3. CASE i <= U
    <3>1. Past(WriteIndex, c) >= n
      BY <1>5, <2>3 DEF c
    <3>2. ~(Past(WriteIndex, c) < n)
      BY <3>1, <2>2, <1>1, SizeAssumption DEF Past, TypeOK, Cells
    <3>3. Filled(WriteIndex, d)[c] = buf[c]
      BY <1>a, <2>2, <3>2 DEF Filled
    <3>4. QED
      BY <1>2, <1>3, <1>6, <2>1, <2>3, <3>3 DEF c
  <2>4. CASE i > U
    <3>1. Past(WriteIndex, c) = (i - U) - 1
      BY <1>5, <2>4 DEF c
    <3>2. Past(WriteIndex, c) < n /\ Past(WriteIndex, c) + 1 = i - U
      BY <3>1, <1>1, <1>2, <2>4
    <3>3. Filled(WriteIndex, d)[c] = d[i - U]
      BY <1>a, <2>2, <3>2 DEF Filled
    <3>4. QED
      BY <1>1, <1>2, <1>6, <2>1, <2>4, <3>3
  <2>5. i <= U \/ i > U
    BY <1>1, <1>2, SizeAssumption
  <2>6. QED
    BY <2>3, <2>4, <2>5
<1>8. Contents' = Contents \o d
  BY <1>4, <1>5, <1>6, <1>7, SeqEqual
<1>9. U + n <= Size - 1
  BY <1>1, <1>2, SizeAssumption DEF Free, U
<1>10. QED
  BY <1>3, <1>8, <1>9, <1>a

\* RingBufWrite puts its block.
LEMMA WriteIsPut ==
  ASSUME TypeOK, TypeOK', NEW d \in Blocks, Write(d)
  PROVE  Fifo!Put(d)
BY BlockIsAppended DEF Write, Fifo!Put

\* An overrun keeps the newest Size - 1 of the unread bytes and the block.
LEMMA AdvanceWriteIsForce ==
  ASSUME TypeOK, TypeOK', NEW d \in Blocks, AdvanceWrite(d)
  PROVE  Fifo!Force(d)
<1> DEFINE U == Used(ReadIndex, WriteIndex)
           n == Len(d)
           s == Contents \o d
<1>1. n \in 0..Size /\ d \in Seq(Byte) /\ \A i \in 1..n : d[i] \in Byte
  BY BlockIsSeq, ChunkAssumption, SizeAssumption DEF AdvanceWrite
<1>2. U \in 0..(Size - 1)
  BY UnreadIsSeq DEF TypeOK
<1>3. /\ Contents \in Seq(Byte) /\ Len(Contents) = U
      /\ \A i \in 1..U : Contents[i] = buf[Wrap(ReadIndex + i - 1)]
  BY UnreadIsSeq DEF Contents, TypeOK
<1>4. /\ Contents' \in Seq(Byte) /\ Len(Contents') = Used(ReadIndex', WriteIndex')
      /\ \A i \in 1..Used(ReadIndex', WriteIndex') :
           /\ Wrap(ReadIndex' + i - 1) \in Cells
           /\ Contents'[i] = buf'[Wrap(ReadIndex' + i - 1)]
  BY UnreadIsSeq DEF Contents, TypeOK
<1>5. Len(d) = n
  OBVIOUS
<1> HIDE DEF n
<1>6. /\ s \in Seq(Byte)
      /\ Len(s) = U + n
      /\ \A i \in 1..(U + n) : s[i] = IF i <= U THEN Contents[i] ELSE d[i - U]
  <2> HIDE DEF U
  <2>1. /\ Contents \o d \in Seq(Byte)
        /\ Len(Contents \o d) = Len(Contents) + Len(d)
        /\ \A i \in 1..(Len(Contents) + Len(d)) :
             (Contents \o d)[i] = IF i <= Len(Contents) THEN Contents[i]
                                 ELSE d[i - Len(Contents)]
    BY <1>1, <1>3, ConcatProperties
  <2>2. QED
    BY <1>3, <1>5, <2>1
<1>7. got' = <<>> /\ call' = <<"force", d>>
  BY DEF AdvanceWrite
<1>8. CASE n <= Free(ReadIndex, WriteIndex)
  <2>1. ReadIndex' = ReadIndex
    <3>1. ~(Free(ReadIndex, WriteIndex) < Len(d))
      BY <1>1, <1>2, <1>5, <1>8, SizeAssumption DEF Free
    <3>2. QED
      BY <3>1 DEF AdvanceWrite
  <2>2. Len(d) <= Free(ReadIndex, WriteIndex)
    BY <1>5, <1>8
  <2>3. Contents' = s
    BY <2>1, <2>2, BlockIsAppended DEF AdvanceWrite
  <2>4. Len(s) <= Size - 1
    BY <1>1, <1>2, <1>5, <1>6, <1>8, SizeAssumption DEF Free
  <2>5. QED
    BY <1>7, <2>3, <2>4 DEF Fifo!Force, Fifo!Newest
<1>9. CASE n > Free(ReadIndex, WriteIndex)
  <2> DEFINE gap == (U + n) - (Size - 1)
             kept == [i \in 1..(Size - 1) |-> s[Len(s) - (Size - 1) + i]]
  <2>1. /\ WriteIndex' = Wrap(WriteIndex + n)
        /\ ReadIndex' = Wrap(WriteIndex' + 1)
        /\ buf' = Filled(WriteIndex, d)
    <3>1. Free(ReadIndex, WriteIndex) < Len(d)
      BY <1>1, <1>2, <1>5, <1>9, SizeAssumption DEF Free
    <3>2. QED
      BY <1>5, <3>1 DEF AdvanceWrite
  <2>2. /\ Used(ReadIndex', WriteIndex') = Size - 1
        /\ U + n > Size - 1
        /\ \A i \in 1..(Size - 1) :
             /\ Wrap(ReadIndex' + i - 1) \in Cells
             /\ gap + i \in 1..(U + n)
             /\ gap + i <= U =>
                  /\ Past(WriteIndex, Wrap(ReadIndex' + i - 1)) >= n
                  /\ Wrap(ReadIndex' + i - 1) = Wrap(ReadIndex + (gap + i) - 1)
             /\ gap + i > U =>
                  Past(WriteIndex, Wrap(ReadIndex' + i - 1)) = ((gap + i) - U) - 1
    <3>1. ReadIndex \in Cells /\ WriteIndex \in Cells
      BY DEF TypeOK
    <3>2. QED
      BY <1>1, <1>9, <2>1, <3>1, OverrunKeepsNewest
  <2> HIDE DEF U, s
  <2>3. gap \in Int /\ gap > 0 /\ Len(s) - (Size - 1) = gap
    BY <1>1, <1>2, <1>6, <2>2, SizeAssumption
  <2> HIDE DEF gap
  <2>4. ASSUME NEW i \in 1..(Size - 1)
        PROVE  Contents'[i] = s[gap + i]
    <3> DEFINE c == Wrap(ReadIndex' + i - 1)
    <3>1. c \in Cells /\ gap + i \in 1..(U + n)
      BY <2>2
    <3>2. Contents'[i] = Filled(WriteIndex, d)[c]
      BY <1>4, <2>1, <2>2
    <3>3. gap + i <= U => /\ Past(WriteIndex, c) >= n
                          /\ c = Wrap(ReadIndex + (gap + i) - 1)
      BY <2>2
    <3>4. gap + i > U => Past(WriteIndex, c) = ((gap + i) - U) - 1
      BY <2>2
    <3> HIDE DEF c
    <3>5. CASE gap + i <= U
      <4>1. ~(Past(WriteIndex, c) < n)
        BY <1>1, <3>1, <3>3, <3>5, SizeAssumption DEF Past, TypeOK, Cells
      <4>2. Filled(WriteIndex, d)[c] = buf[c]
        BY <1>5, <3>1, <4>1 DEF Filled
      <4>3. gap + i \in 1..U
        BY <1>2, <2>3, <3>1, <3>5, SizeAssumption
      <4>4. QED
        BY <1>3, <1>6, <3>1, <3>2, <3>3, <3>5, <4>2, <4>3
    <3>6. CASE gap + i > U
      <4>1. Past(WriteIndex, c) < n /\ Past(WriteIndex, c) + 1 = (gap + i) - U
        BY <1>1, <1>2, <2>3, <3>1, <3>4, <3>6, SizeAssumption
      <4>2. Filled(WriteIndex, d)[c] = d[(gap + i) - U]
        BY <1>5, <3>1, <4>1 DEF Filled
      <4>3. ~(gap + i <= U)
        BY <1>2, <2>3, <3>6, SizeAssumption
      <4>4. QED
        BY <1>6, <3>1, <3>2, <4>2, <4>3
    <3>7. QED
      BY <1>2, <2>3, <3>5, <3>6, SizeAssumption
  <2>5. kept \in Seq(Byte) /\ Len(kept) = Size - 1
        /\ \A i \in 1..(Size - 1) : kept[i] = s[gap + i]
    <3>1. \A i \in 1..(Size - 1) : s[gap + i] \in Byte
      BY <1>6, <2>2, ElementOfSeq DEF gap
    <3>2. \A i \in 1..(Size - 1) : kept[i] = s[gap + i]
      BY <2>3
    <3>3. Size - 1 \in Nat
      BY SizeAssumption
    <3>4. kept \in Seq(Byte) /\ Len(kept) = Size - 1
      BY <2>3, <3>1, <3>3
    <3>5. QED
      BY <3>2, <3>4
  <2>6. Contents' = kept
    BY <1>4, <2>2, <2>4, <2>5, SeqEqual
  <2>7. ~(Len(s) <= Size - 1)
    BY <1>1, <1>2, <1>6, <2>2, SizeAssumption
  <2>8. QED
    BY <1>7, <2>6, <2>7 DEF Fifo!Force, Fifo!Newest, s
<1>10. QED
  BY <1>1, <1>2, <1>8, <1>9, SizeAssumption DEF Free

\* Moving the read index by n unread bytes removes the n oldest.
LEMMA AdvanceRemovesOldest ==
  ASSUME TypeOK, NEW n \in Nat, n <= Used(ReadIndex, WriteIndex),
         ReadIndex' = Wrap(ReadIndex + n), UNCHANGED <<buf, WriteIndex>>, TypeOK'
  PROVE  Contents' = SubSeq(Contents, n + 1, Len(Contents))
<1> DEFINE U == Used(ReadIndex, WriteIndex)
<1>1. /\ Contents \in Seq(Byte) /\ Len(Contents) = U /\ U \in 0..(Size - 1)
      /\ \A i \in 1..U : Contents[i] = buf[Wrap(ReadIndex + i - 1)]
  <2>1. buf \in [Cells -> Byte] /\ ReadIndex \in Cells /\ WriteIndex \in Cells
    BY DEF TypeOK
  <2>2. QED
    BY <2>1, UnreadIsSeq DEF Contents
<1>2. /\ Contents' \in Seq(Byte) /\ Len(Contents') = Used(ReadIndex', WriteIndex')
      /\ \A i \in 1..Used(ReadIndex', WriteIndex') :
           Contents'[i] = buf'[Wrap(ReadIndex' + i - 1)]
  <2>1. buf' \in [Cells -> Byte] /\ ReadIndex' \in Cells /\ WriteIndex' \in Cells
    BY DEF TypeOK
  <2>2. QED
    BY <2>1, UnreadIsSeq DEF Contents
<1>3. /\ Used(ReadIndex', WriteIndex') = U - n
      /\ \A i \in 1..(U - n) :
           Wrap(ReadIndex' + i - 1) = Wrap(ReadIndex + (n + i) - 1)
  BY ReadLeavesRest DEF TypeOK
<1>4. n <= U
  OBVIOUS
<1> HIDE DEF U
<1>5. SubSeq(Contents, n + 1, U) \in Seq(Byte)
      /\ Len(SubSeq(Contents, n + 1, U)) = U - n
      /\ \A i \in 1..(U - n) : SubSeq(Contents, n + 1, U)[i] = Contents[n + i]
  BY <1>1, <1>4, SizeAssumption, SubSeqProperties
<1>6. ASSUME NEW i \in 1..(U - n)
      PROVE  Contents'[i] = SubSeq(Contents, n + 1, U)[i]
  <2>1. n + i \in 1..U
    BY <1>1, <1>4, SizeAssumption
  <2>2. QED
    BY <1>1, <1>2, <1>3, <1>5, <2>1
<1>7. Contents' = SubSeq(Contents, n + 1, U)
  BY <1>2, <1>3, <1>5, <1>6, SeqEqual
<1>8. QED
  BY <1>1, <1>7

\* A read takes the oldest bytes, in order.
LEMMA ReadIsTake ==
  ASSUME TypeOK, TypeOK', NEW n \in 1..MaxChunk, Read(n)
  PROVE  Fifo!Take(n)
<1>1. n \in Nat /\ n <= Used(ReadIndex, WriteIndex)
  BY ChunkAssumption DEF Read
<1>2. Contents' = SubSeq(Contents, n + 1, Len(Contents))
  BY <1>1, AdvanceRemovesOldest DEF Read
<1>3. /\ Contents \in Seq(Byte) /\ Len(Contents) = Used(ReadIndex, WriteIndex)
      /\ \A i \in 1..Used(ReadIndex, WriteIndex) :
           Contents[i] = buf[Wrap(ReadIndex + i - 1)]
  BY UnreadIsSeq DEF Contents, TypeOK
<1>4. Len(Contents) \in Nat /\ n <= Len(Contents)
  BY <1>1, <1>3
<1>5. got' = SubSeq(Contents, 1, n)
  <2>1. SubSeq(Contents, 1, n) = [i \in 1..n |-> Contents[i]]
    BY <1>1, <1>3, <1>4
  <2>2. \A i \in 1..n : Contents[i] = buf[Wrap(ReadIndex + i - 1)]
    BY <1>1, <1>3, <1>4
  <2>3. QED
    BY <2>1, <2>2 DEF Read
<1>6. QED
  BY <1>2, <1>4, <1>5 DEF Fifo!Take, Read

\* RingBufAdvanceRead drops the oldest bytes unread.
LEMMA AdvanceReadIsDrop ==
  ASSUME TypeOK, TypeOK', NEW n \in 1..MaxChunk, AdvanceRead(n)
  PROVE  Fifo!Drop(n)
<1> DEFINE U == Used(ReadIndex, WriteIndex)
           k == Lesser(U, n)
<1>1. /\ Contents \in Seq(Byte) /\ Len(Contents) = U /\ U \in Nat
  <2>1. buf \in [Cells -> Byte] /\ ReadIndex \in Cells /\ WriteIndex \in Cells
    BY DEF TypeOK
  <2>2. U \in 0..(Size - 1)
    BY <2>1, UsedInCells DEF Cells
  <2>3. QED
    BY <2>1, <2>2, UnreadIsSeq, SizeAssumption DEF Contents
<1>2. n \in Nat
  BY ChunkAssumption
<1>3. k \in Nat /\ k <= U
  BY <1>1, <1>2 DEF Lesser
<1>4. Contents' = SubSeq(Contents, k + 1, Len(Contents))
  BY <1>3, AdvanceRemovesOldest DEF AdvanceRead
<1> HIDE DEF U
<1>5. CASE n >= U
  <2>1. k = U
    BY <1>1, <1>2, <1>5 DEF Lesser
  <2>2. SubSeq(Contents, U + 1, U) = <<>>
    BY <1>1, SubSeqEmpty
  <2>3. QED
    BY <1>1, <1>4, <1>5, <2>1, <2>2 DEF Fifo!Drop, AdvanceRead
<1>6. CASE ~(n >= U)
  <2>1. k = n
    BY <1>1, <1>2, <1>6 DEF Lesser
  <2>2. QED
    BY <1>1, <1>4, <1>6, <2>1 DEF Fifo!Drop, AdvanceRead
<1>7. QED
  BY <1>5, <1>6

\* RingBufFlush empties the queue.
LEMMA FlushIsClear ==
  ASSUME TypeOK, TypeOK', Flush
  PROVE  Fifo!Clear
<1>1. Used(ReadIndex', WriteIndex') = 0
  BY SizeAssumption DEF TypeOK, Flush, Used, Cells
<1>2. Contents' \in Seq(Byte) /\ Len(Contents') = 0
  BY <1>1, UnreadIsSeq DEF Contents, TypeOK
<1>3. Contents' = <<>>
  BY <1>2
<1>4. QED
  BY <1>3 DEF Fifo!Clear, Flush

\* Every behaviour of ringbuf.c is a behaviour of the bounded FIFO: whatever the
\* size, the wraps and the overruns, bytes come out in the order they went in,
\* none twice, and only the oldest are ever lost to an overrun.
THEOREM RingIsFifo == Spec => FifoSpec
<1>1. Init => Fifo!Init
  <2> SUFFICES ASSUME Init PROVE Fifo!Init
    OBVIOUS
  <2>1. Used(ReadIndex, WriteIndex) = 0
    BY DEF Init, Used
  <2>2. Contents = <<>>
    BY <2>1 DEF Contents, Unread
  <2>3. QED
    BY <2>2 DEF Init, Fifo!Init
<1>2. TypeOK /\ TypeOK' /\ [Next]_vars => [Fifo!Next]_(Fifo!fvars)
  <2> SUFFICES ASSUME TypeOK, TypeOK', [Next]_vars
               PROVE  [Fifo!Next]_(Fifo!fvars)
    OBVIOUS
  <2>1. Fifo!Blocks = Blocks
    BY DEF Fifo!Blocks, Blocks
  <2>2. ASSUME NEW d \in Blocks, Write(d) PROVE Fifo!Next
    BY <2>1, <2>2, WriteIsPut DEF Fifo!Next
  <2>3. ASSUME NEW d \in Blocks, AdvanceWrite(d) PROVE Fifo!Next
    BY <2>1, <2>3, AdvanceWriteIsForce DEF Fifo!Next
  <2>4. ASSUME NEW n \in 1..MaxChunk, Read(n) PROVE Fifo!Next
    BY <2>4, ReadIsTake DEF Fifo!Next
  <2>5. ASSUME NEW n \in 1..MaxChunk, AdvanceRead(n) PROVE Fifo!Next
    BY <2>5, AdvanceReadIsDrop DEF Fifo!Next
  <2>6. CASE Flush
    BY <2>6, FlushIsClear DEF Fifo!Next
  <2>7. CASE UNCHANGED vars
    BY <2>7 DEF vars, Fifo!fvars, Contents
  <2>8. QED
    BY <2>2, <2>3, <2>4, <2>5, <2>6, <2>7 DEF Next
<1>3. QED
  BY <1>1, <1>2, TypeCorrect, PTL DEF Spec, FifoSpec, Fifo!Spec
-----------------------------------------------------------------------------
(* Looking ahead.                                                           *)

\* The contiguous used block ends where the unread bytes end or the buffer does.
LEMMA ContigUsedIsUnread ==
  ASSUME NEW r \in Cells, NEW w \in Cells, NEW i \in 0..(ContigUsed(r, w) - 1)
  PROVE  /\ i \in 0..(Used(r, w) - 1)
         /\ r + i = Wrap(r + i)
BY SizeAssumption DEF ContigUsed, Used, Wrap, Cells

\* No cell of the contiguous free block is unread.
LEMMA ContigFreeIsFree ==
  ASSUME NEW r \in Cells, NEW w \in Cells, NEW i \in 0..(ContigFree(r, w) - 1),
         NEW j \in 0..(Used(r, w) - 1)
  PROVE  w + i # Wrap(r + j)
BY SizeAssumption DEF ContigFree, Used, Wrap, Cells

\* The contiguous free block lies in the buffer.
LEMMA ContigFreeInside ==
  ASSUME NEW r \in Cells, NEW w \in Cells, NEW i \in 0..(ContigFree(r, w) - 1)
  PROVE  w + i \in Cells
BY SizeAssumption DEF ContigFree, Cells

\* A block of no bytes is offered only by the empty, or the full, ring.
LEMMA NoBlockWhenEmptyOrFull ==
  ASSUME NEW r \in Cells, NEW w \in Cells
  PROVE  /\ ContigUsed(r, w) = 0 <=> Empty(r, w)
         /\ ContigFree(r, w) = 0 <=> Full(r, w)
BY SizeAssumption DEF ContigUsed, ContigFree, Empty, Full, Wrap, Cells

\* The byte that RingBufPeek shows is the next one read, and the blocks offered in place
\* are unread bytes and free cells: in every state of a ring of any size.
THEOREM LookAheadIsSound == Spec => []LookAheadSound
<1>1. TypeOK => LookAheadSound
  <2> SUFFICES ASSUME TypeOK PROVE LookAheadSound
    OBVIOUS
  <2> DEFINE r == ReadIndex
             w == WriteIndex
             unread == {Wrap(r + i) : i \in 0..(Used(r, w) - 1)}
  <2>1. r \in Cells /\ w \in Cells
    BY DEF TypeOK
  <2>2. PeekIsNextRead
    BY <2>1, SizeAssumption
    DEF PeekIsNextRead, GetAtAccepts, PeekCell, GetAtCell, ContigUsed, Used, Cells
  <2>3. {r + i : i \in 0..(ContigUsed(r, w) - 1)} \subseteq unread
    BY <2>1, ContigUsedIsUnread
  <2>4. {w + i : i \in 0..(ContigFree(r, w) - 1)} \subseteq Cells \ unread
    BY <2>1, ContigFreeInside, ContigFreeIsFree
  <2>5. QED
    BY <2>1, <2>2, <2>3, <2>4, NoBlockWhenEmptyOrFull DEF LookAheadSound, ContigBlocksSound
<1>2. QED
  BY <1>1, TypeCorrect, PTL

-----------------------------------------------------------------------------
(* MsgQueue: the messages.                                                  *)

\* The bytes c are the messages q, one behind the other: s[k] bytes of c are the first k messages.
Parse(c, q, s) ==
  /\ q \in Seq(Messages)
  /\ s \in [0..Len(q) -> Nat]
  /\ s[0] = 0 /\ s[Len(q)] = Len(c)
  /\ \A k \in 1..Len(q) : /\ s[k] = s[k - 1] + Len(q[k])
                          /\ q[k] = SubSeq(c, s[k - 1] + 1, s[k])

\* The inductive invariant: the unread bytes are whole messages.  TypeOK alone says nothing
\* of where a message starts, so GetMsg could read from the middle of one.
QueueInv == /\ TypeOK
            /\ receiving \in BOOLEAN
            /\ \E q, s : Parse(Contents, q, s)

-----------------------------------------------------------------------------
(* Messages and sequences.                                                  *)

\* A message is a block whose first byte is how many follow.
LEMMA MessageIs ==
  ASSUME NEW m \in Messages
  PROVE  /\ m \in Blocks /\ m \in Seq(Byte)
         /\ Len(m) \in 1..(MaxLen + 1)
         /\ m[1] = Len(m) - 1
<1>1. PICK n \in 0..MaxLen : m \in [1..(n + 1) -> Byte] /\ m[1] = n
  BY DEF Messages
<1>2. n \in Nat /\ n + 1 \in 1..(MaxLen + 1) /\ n + 1 \in 1..MaxChunk /\ (n + 1) - 1 = n
  BY LenAssumption, RoomAssumption, ChunkAssumption
<1>3. m \in Blocks
  BY <1>1, <1>2 DEF Blocks
<1>4. m \in Seq(Byte) /\ Len(m) = n + 1
  BY <1>1, <1>2
<1>5. QED
  BY <1>1, <1>2, <1>3, <1>4

\* The first of some elements, and the rest.
LEMMA FirstAndRest ==
  ASSUME NEW S, NEW q \in Seq(S), NEW k \in 1..Len(q)
  PROVE  <<q[k]>> \o SubSeq(q, k + 1, Len(q)) = SubSeq(q, k, Len(q))
<1> DEFINE n == Len(q)
           rest == SubSeq(q, k + 1, n)
           all == SubSeq(q, k, n)
           one == <<q[k]>>
<1>1. n \in Nat /\ k \in Nat /\ k + 1 \in Nat /\ q[k] \in S
  BY LenProperties, ElementOfSeq
<1>2. rest \in Seq(S) /\ Len(rest) = n - k /\ \A i \in 1..(n - k) : rest[i] = q[k + i]
  <2>1. n - k \in Nat /\ k + 1 \in 1..(n + 1) /\ (n - (k + 1)) + 1 = n - k
        /\ \A i \in 1..(n - k) : ((k + 1) + i) - 1 = k + i
    BY <1>1
  <2>2. k + 1 \in 1..(n + 1) => /\ rest \in Seq(S)
                               /\ Len(rest) = (n - (k + 1)) + 1
                               /\ \A i \in 1..((n - (k + 1)) + 1) : rest[i] = q[((k + 1) + i) - 1]
    BY <1>1, SubSeqProperties
  <2> HIDE DEF rest
  <2>3. QED
    BY <2>1, <2>2
<1>3. all \in Seq(S) /\ Len(all) = (n - k) + 1
      /\ \A i \in 1..((n - k) + 1) : all[i] = q[(k + i) - 1]
  BY <1>1, ElementOfSeq
<1>4. one \in Seq(S) /\ Len(one) = 1 /\ one[1] = q[k]
  BY <1>1
<1> HIDE DEF rest, all, one
<1>5. /\ one \o rest \in Seq(S)
      /\ Len(one \o rest) = Len(one) + Len(rest)
      /\ \A i \in 1..(Len(one) + Len(rest)) :
           (one \o rest)[i] = IF i <= Len(one) THEN one[i] ELSE rest[i - Len(one)]
  BY <1>2, <1>4, ConcatProperties
<1>6. Len(one) + Len(rest) = (n - k) + 1 /\ n - k \in Nat
  BY <1>1, <1>2, <1>4
<1>7. ASSUME NEW i \in 1..((n - k) + 1)
      PROVE  (one \o rest)[i] = all[i]
  <2>1. CASE i = 1
    <3>1. (k + 1) - 1 = k
      BY <1>1
    <3>2. QED
      BY <1>3, <1>4, <1>5, <1>6, <2>1, <3>1
  <2>2. CASE i # 1
    <3>1. i - 1 \in 1..(n - k) /\ ~(i <= 1) /\ k + (i - 1) = (k + i) - 1
      BY <1>1, <1>6, <2>2
    <3>2. (one \o rest)[i] = rest[i - 1]
      BY <1>4, <1>5, <1>6, <3>1
    <3>3. QED
      BY <1>2, <1>3, <3>1, <3>2
  <2>3. QED
    BY <2>1, <2>2
<1>8. one \o rest = all
  BY <1>3, <1>5, <1>6, <1>7, SeqEqual
<1>9. QED
  BY <1>8 DEF one, rest, all

-----------------------------------------------------------------------------
(* What Parsed, Whole, CntMsg and Load make of whole messages.              *)

\* Where the messages of a parse lie.
LEMMA ParsePlaces ==
  ASSUME NEW c \in Seq(Byte), NEW q, NEW s, Parse(c, q, s)
  PROVE  /\ Len(q) \in Nat /\ Len(c) \in Nat
         /\ \A k \in 0..Len(q) : s[k] \in 0..Len(c)
         /\ \A k \in 1..Len(q) : /\ q[k] \in Messages
                                 /\ s[k - 1] + 1 \in 1..Len(c)
                                 /\ c[s[k - 1] + 1] = Len(q[k]) - 1
                                 /\ s[k] = s[k - 1] + Len(q[k])
                                 /\ Len(q[k]) \in 1..(MaxLen + 1)
                                 /\ q[k] = SubSeq(c, s[k - 1] + 1, s[k])
<1> DEFINE n == Len(q)
           T == {k \in 0..n : s[k] \in 0..Len(c)}
<1>1. n \in Nat /\ Len(c) \in Nat /\ \A i \in 1..Len(c) : c[i] \in Byte
  BY LenProperties, ElementOfSeq DEF Parse
<1>2. \A k \in 1..n : /\ q[k] \in Messages
                      /\ Len(q[k]) \in 1..(MaxLen + 1)
                      /\ q[k][1] = Len(q[k]) - 1
  BY MessageIs, ElementOfSeq DEF Parse
<1>3. \A k \in 1..n : /\ s[k - 1] \in Nat /\ s[k] \in Nat
                      /\ s[k] = s[k - 1] + Len(q[k])
                      /\ q[k] = SubSeq(c, s[k - 1] + 1, s[k])
  <2>1. \A k \in 1..n : k - 1 \in 0..n /\ k \in 0..n
    BY <1>1
  <2>2. QED
    BY <2>1 DEF Parse
<1>4. 0..n \subseteq T
  <2>1. ASSUME NEW k \in 0..n, \A j \in (k + 1)..n : j \in T
        PROVE  k \in T
    <3>1. CASE k = n
      BY <1>1, <3>1 DEF Parse
    <3>2. CASE k # n
      <4>1. k + 1 \in 1..n /\ k + 1 \in (k + 1)..n /\ (k + 1) - 1 = k
        BY <1>1, <3>2
      <4>2. s[k + 1] \in 0..Len(c)
        BY <2>1, <4>1
      <4>3. s[k] \in Nat /\ s[k + 1] = s[k] + Len(q[k + 1]) /\ Len(q[k + 1]) \in 1..(MaxLen + 1)
        BY <1>2, <1>3, <4>1
      <4>4. s[k] \in 0..Len(c)
        BY <1>1, <4>2, <4>3, LenAssumption
      <4>5. QED
        BY <4>4
    <3>3. QED
      BY <3>1, <3>2
  <2>2. n \in Nat /\ 0 \in Nat
    BY <1>1
  <2> HIDE DEF T, n
  <2>3. QED
    BY <2>1, <2>2, DownTo
<1>5. ASSUME NEW k \in 1..n
      PROVE  /\ s[k - 1] + 1 \in 1..Len(c)
             /\ c[s[k - 1] + 1] = Len(q[k]) - 1
  <2>1. k \in 0..n /\ s[k] \in 0..Len(c)
    BY <1>1, <1>4
  <2>2. /\ s[k - 1] \in Nat /\ s[k] = s[k - 1] + Len(q[k]) /\ Len(q[k]) \in 1..(MaxLen + 1)
        /\ q[k] = SubSeq(c, s[k - 1] + 1, s[k]) /\ q[k][1] = Len(q[k]) - 1
    BY <1>2, <1>3
  <2>3. s[k - 1] + 1 \in 1..Len(c) /\ s[k - 1] + 1 <= s[k] /\ s[k - 1] + 1 \in Int /\ s[k] \in Int
    <3> DEFINE x == s[k - 1]
               y == s[k]
               z == Len(q[k])
    <3>1. x \in Nat /\ y = x + z /\ z \in Int /\ z >= 1 /\ y <= Len(c) /\ Len(c) \in Nat
      <4>1. \A j \in 1..(MaxLen + 1) : j \in Int /\ j >= 1
        BY LenAssumption
      <4>2. Len(c) \in Nat /\ s[k] <= Len(c)
        BY <1>1, <2>1
      <4>3. QED
        BY <2>2, <4>1, <4>2
    <3> HIDE DEF x, y, z
    <3>2. x + 1 \in 1..Len(c) /\ x + 1 <= y /\ x + 1 \in Int /\ y \in Int
      BY <3>1
    <3>3. QED
      BY <3>2 DEF x, y
  <2>4. SubSeq(c, s[k - 1] + 1, s[k])[1] = c[s[k - 1] + 1]
    <3> DEFINE lo == s[k - 1] + 1
               hi == s[k]
    <3>1. lo \in Int /\ hi \in Int /\ lo >= 1 /\ hi <= Len(c) /\ lo <= hi
      BY <2>1, <2>3
    <3> HIDE DEF lo, hi
    <3>2. \A i \in lo..hi : c[i] \in Byte
      BY <1>1, <3>1
    <3>3. \A i \in 1..(hi - lo + 1) : SubSeq(c, lo, hi)[i] = c[lo + i - 1]
      BY <3>1, <3>2, SubSeqProperties
    <3>4. 1 \in 1..(hi - lo + 1) /\ lo + 1 - 1 = lo
      BY <3>1
    <3>5. SubSeq(c, lo, hi)[1] = c[lo]
      BY <3>3, <3>4
    <3>6. QED
      BY <3>5 DEF lo, hi
  <2>5. QED
    BY <2>2, <2>3, <2>4
<1>6. QED
  BY <1>1, <1>2, <1>3, <1>4, <1>5

\* suffix meets the definition of the local function of Parsed, and ends the one of Whole's.
ParsesFrom(c, suffix) ==
  \A i \in 1..(Len(c) + MaxLen + 2) :
     suffix[i] = IF i > Len(c) THEN <<>> ELSE <<SubSeq(c, i, i + c[i])>> \o suffix[i + 1 + c[i]]
EndsFrom(c, ends) ==
  \A i \in 1..(Len(c) + MaxLen + 2) :
     ends[i] = IF i > Len(c) THEN i = Len(c) + 1 ELSE ends[i + 1 + c[i]]

\* The messages a parser finds from the bytes of a parse are the ones of the parse.
LEMMA SuffixIs ==
  ASSUME NEW c \in Seq(Byte), NEW q, NEW s, Parse(c, q, s),
         NEW suffix, ParsesFrom(c, suffix)
  PROVE  suffix[1] = q
<1> DEFINE n == Len(q)
           T == {k \in 0..n : suffix[s[k] + 1] = SubSeq(q, k + 1, n)}
<1>1. n \in Nat /\ Len(c) \in Nat /\ MaxLen \in Nat /\ q \in Seq(Messages)
  BY ParsePlaces, LenAssumption DEF Parse
<1>2. s[0] = 0 /\ s[n] = Len(c)
  BY DEF Parse
<1>a. \A j \in 1..n : /\ q[j] \in Messages
                      /\ s[j - 1] + 1 \in 1..Len(c)
                      /\ c[s[j - 1] + 1] = Len(q[j]) - 1
                      /\ s[j] = s[j - 1] + Len(q[j])
                      /\ Len(q[j]) \in 1..(MaxLen + 1)
                      /\ q[j] = SubSeq(c, s[j - 1] + 1, s[j])
  BY ParsePlaces
<1>3. ASSUME NEW k \in 0..n, \A j \in (k + 1)..n : j \in T
      PROVE  k \in T
  <2>1. CASE k = n
    <3>1. s[k] + 1 > Len(c) /\ s[k] + 1 \in 1..(Len(c) + MaxLen + 2)
      BY <1>1, <1>2, <2>1
    <3>2. suffix[s[k] + 1] = <<>>
      BY <3>1 DEF ParsesFrom
    <3>3. SubSeq(q, k + 1, n) = <<>>
      <4>1. k + 1 \in Int /\ n \in Int /\ n < k + 1
        BY <1>1, <2>1
      <4>2. QED
        BY <4>1, SubSeqEmpty
    <3>4. QED
      BY <3>2, <3>3
  <2>2. CASE k # n
    <3> DEFINE i == s[k] + 1
    <3>1. k + 1 \in 1..n /\ k + 1 \in (k + 1)..n /\ (k + 1) - 1 = k /\ (k + 1) + 1 \in Nat
      BY <1>1, <2>2
    <3>2. /\ q[k + 1] \in Messages
          /\ i \in 1..Len(c)
          /\ c[i] = Len(q[k + 1]) - 1
          /\ s[k + 1] = s[k] + Len(q[k + 1])
          /\ Len(q[k + 1]) \in 1..(MaxLen + 1)
          /\ q[k + 1] = SubSeq(c, i, s[k + 1])
      <4> DEFINE j == k + 1
      <4>1. j \in 1..n /\ j - 1 = k
        BY <3>1
      <4> HIDE DEF j
      <4>2. /\ q[j] \in Messages
            /\ s[j - 1] + 1 \in 1..Len(c)
            /\ c[s[j - 1] + 1] = Len(q[j]) - 1
            /\ s[j] = s[j - 1] + Len(q[j])
            /\ Len(q[j]) \in 1..(MaxLen + 1)
            /\ q[j] = SubSeq(c, s[j - 1] + 1, s[j])
        BY <1>a, <4>1
      <4>3. QED
        BY <4>1, <4>2 DEF j
    <3>3. s[k] \in Nat
      <4>1. k \in 0..n
        OBVIOUS
      <4>2. QED
        BY <1>1, <4>1, ParsePlaces
    <3>4. i + c[i] = s[k + 1] /\ i + 1 + c[i] = s[k + 1] + 1
      <4> DEFINE z == Len(q[k + 1])
      <4>1. z \in Int
        <5>1. \A j \in 1..(MaxLen + 1) : j \in Int
          OBVIOUS
        <5>2. QED
          BY <3>2, <5>1
      <4> DEFINE a == c[i]
                 x == s[k + 1]
                 y == s[k]
      <4>2. y \in Nat /\ a = z - 1 /\ x = y + z /\ i = y + 1
        BY <3>2, <3>3
      <4> HIDE DEF z, a, x, y, i
      <4>3. i + a = x /\ i + 1 + a = x + 1
        BY <4>1, <4>2
      <4>4. QED
        BY <4>3 DEF a, x
    <3>5. ~(i > Len(c)) /\ i \in 1..(Len(c) + MaxLen + 2)
      BY <1>1, <3>2
    <3> HIDE DEF i
    <3>6. suffix[i] = <<q[k + 1]>> \o suffix[s[k + 1] + 1]
      BY <3>2, <3>4, <3>5 DEF ParsesFrom
    <3>7. suffix[s[k + 1] + 1] = SubSeq(q, (k + 1) + 1, n)
      BY <1>3, <3>1
    <3>8. <<q[k + 1]>> \o SubSeq(q, (k + 1) + 1, n) = SubSeq(q, k + 1, n)
      BY <1>1, <3>1, FirstAndRest
    <3>9. QED
      BY <3>6, <3>7, <3>8 DEF i
  <2>3. QED
    BY <2>1, <2>2
<1>4. 0..n \subseteq T
  <2> HIDE DEF T, n
  <2>1. QED
    BY <1>1, <1>3, DownTo
<1>5. 0 \in 0..n /\ s[0] + 1 = 1
  BY <1>1, <1>2
<1>6. suffix[1] = SubSeq(q, 0 + 1, n)
  BY <1>4, <1>5
<1>7. SubSeq(q, 1, n) = q
  <2>1. \A j \in 1..n : q[j] \in Messages
    BY <1>1, ElementOfSeq
  <2>2. /\ SubSeq(q, 1, n) \in Seq(Messages)
        /\ Len(SubSeq(q, 1, n)) = IF 1 <= n THEN n - 1 + 1 ELSE 0
        /\ \A j \in 1..(n - 1 + 1) : SubSeq(q, 1, n)[j] = q[1 + j - 1]
    BY <1>1, <2>1, SubSeqProperties
  <2>3. n - 1 + 1 = n /\ (~(1 <= n) => n = 0) /\ \A j \in 1..n : 1 + j - 1 = j
    BY <1>1
  <2> DEFINE t == SubSeq(q, 1, n)
  <2>4. t \in Seq(Messages) /\ Len(t) = n /\ \A j \in 1..n : t[j] = q[j]
    BY <2>2, <2>3
  <2> HIDE DEF t
  <2>5. t = q
    BY <1>1, <2>4, SeqEqual
  <2>6. QED
    BY <2>5 DEF t
<1>8. QED
  BY <1>6, <1>7

\* A parser of the bytes of a parse ends with the last of them.
LEMMA EndsIs ==
  ASSUME NEW c \in Seq(Byte), NEW q, NEW s, Parse(c, q, s),
         NEW ends, EndsFrom(c, ends)
  PROVE  ends[1] = TRUE
<1> DEFINE n == Len(q)
           T == {k \in 0..n : ends[s[k] + 1] = TRUE}
<1>1. n \in Nat /\ Len(c) \in Nat /\ MaxLen \in Nat
  BY ParsePlaces, LenAssumption
<1>2. s[0] = 0 /\ s[n] = Len(c)
  BY DEF Parse
<1>3. \A k \in 0..n : s[k] \in 0..Len(c)
  BY ParsePlaces
<1>4. \A j \in 1..n : /\ s[j - 1] + 1 \in 1..Len(c)
                      /\ c[s[j - 1] + 1] = Len(q[j]) - 1
                      /\ s[j] = s[j - 1] + Len(q[j])
                      /\ Len(q[j]) \in 1..(MaxLen + 1)
  BY ParsePlaces
<1>5. ASSUME NEW k \in 0..n, \A j \in (k + 1)..n : j \in T
      PROVE  k \in T
  <2>1. CASE k = n
    <3>1. s[k] + 1 > Len(c) /\ s[k] + 1 \in 1..(Len(c) + MaxLen + 2) /\ s[k] + 1 = Len(c) + 1
      BY <1>1, <1>2, <2>1
    <3>2. ends[s[k] + 1] = (s[k] + 1 = Len(c) + 1)
      BY <3>1 DEF EndsFrom
    <3>3. QED
      BY <3>1, <3>2
  <2>2. CASE k # n
    <3> DEFINE j == k + 1
               i == s[k] + 1
               z == Len(q[j])
    <3>1. j \in 1..n /\ j \in (k + 1)..n /\ j - 1 = k
      BY <1>1, <2>2
    <3> HIDE DEF j
    <3>2. i \in 1..Len(c) /\ c[i] = z - 1 /\ s[j] = s[k] + z /\ z \in 1..(MaxLen + 1)
      BY <1>4, <3>1
    <3>3. s[k] \in 0..Len(c) /\ i = s[k] + 1
      BY <1>3
    <3> HIDE DEF i, z
    <3>4. z \in Int
      BY <3>2
    <3>5. i + 1 + c[i] = s[j] + 1
      <4>1. i \in Int /\ s[k] \in Int
        BY <3>2, <3>3
      <4>2. QED
        BY <3>2, <3>3, <3>4, <4>1
    <3>6. ~(i > Len(c)) /\ i \in 1..(Len(c) + MaxLen + 2)
      BY <1>1, <3>2
    <3>7. ends[i] = ends[s[j] + 1]
      BY <3>5, <3>6 DEF EndsFrom
    <3>8. ends[s[j] + 1] = TRUE
      BY <1>5, <3>1
    <3>9. QED
      BY <3>3, <3>7, <3>8
  <2>3. QED
    BY <2>1, <2>2
<1>6. 0..n \subseteq T
  <2> HIDE DEF T, n
  <2>1. QED
    BY <1>1, <1>5, DownTo
<1>7. 0 \in 0..n /\ s[0] + 1 = 1
  BY <1>1, <1>2
<1>8. QED
  BY <1>6, <1>7

\* The local function of Parsed exists.
LEMMA SuffixExists ==
  ASSUME NEW c \in Seq(Byte)
  PROVE  \E h : h = [i \in 1..(Len(c) + MaxLen + 2) |->
                       IF i > Len(c) THEN <<>>
                       ELSE <<SubSeq(c, i, i + c[i])>> \o h[i + 1 + c[i]]]
<1> DEFINE n == Len(c)
           m == n + MaxLen + 2
           P == {SubSeq(c, i, i + c[i]) : i \in 1..n}
           S == Seq(P)
           F == [i \in 1..m |-> [g \in [1..m -> S] |->
                   IF i > n THEN <<>> ELSE <<SubSeq(c, i, i + c[i])>> \o g[i + 1 + c[i]]]]
<1>1. n \in Nat /\ MaxLen \in Nat /\ m \in Nat /\ 1 \in Nat
  BY LenProperties, LenAssumption
<1>2. \A i \in 1..m : ~(i > n) => i \in 1..n /\ i + 1 + c[i] \in (i + 1)..m
  <2> SUFFICES ASSUME NEW i \in 1..m, ~(i > n)
               PROVE  i \in 1..n /\ i + 1 + c[i] \in (i + 1)..m
    OBVIOUS
  <2>1. i \in 1..n
    BY <1>1
  <2>2. c[i] \in 0..MaxLen
    BY <2>1, ElementOfSeq, LenAssumption
  <2> DEFINE x == c[i]
  <2>3. x \in 0..MaxLen
    BY <2>2
  <2> HIDE DEF x
  <2>4. i + 1 + x \in (i + 1)..m
    BY <1>1, <2>1, <2>3
  <2>5. QED
    BY <2>1, <2>4 DEF x
<1>3. <<>> \in S
  BY EmptySeq
<1>4. F \in [1..m -> [[1..m -> S] -> S]]
  <2>1. ASSUME NEW i \in 1..m, NEW g \in [1..m -> S], ~(i > n)
        PROVE  <<SubSeq(c, i, i + c[i])>> \o g[i + 1 + c[i]] \in S
    <3>1. i \in 1..n /\ i + 1 + c[i] \in (i + 1)..m
      BY <1>2, <2>1
    <3>2. i + 1 + c[i] \in 1..m
      <4>1. \A x \in (i + 1)..m : x \in 1..m
        BY <1>1
      <4>2. QED
        BY <3>1, <4>1
    <3>3. g[i + 1 + c[i]] \in Seq(P)
      BY <3>2
    <3>4. SubSeq(c, i, i + c[i]) \in P
      BY <3>1
    <3> HIDE DEF P
    <3>5. <<SubSeq(c, i, i + c[i])>> \in Seq(P)
      BY <3>4
    <3>6. QED
      BY <3>3, <3>5, ConcatProperties
  <2> HIDE DEF S, m
  <2>2. QED
    BY <1>3, <2>1
<1>5. \A i \in 1..m, g, h \in [1..m -> S] :
        (\A j \in (i + 1)..m : g[j] = h[j]) => F[i][g] = F[i][h]
  <2> HIDE DEF S, m
  <2>1. QED
    BY <1>2
<1>6. PICK f \in [1..m -> S] : \A i \in 1..m : f[i] = F[i][f]
  <2> HIDE DEF F, m, S
  <2>1. LooksUp(1, m, S, F)
    BY <1>4, <1>5 DEF LooksUp
  <2>2. \E f : Follows(f, 1, m, S, F)
    BY <1>1, <1>3, <2>1, DownwardRecursion, Zenon
  <2>3. QED
    BY <2>2 DEF Follows
<1>7. \A i \in 1..m : F[i][f] = IF i > n THEN <<>>
                                ELSE <<SubSeq(c, i, i + c[i])>> \o f[i + 1 + c[i]]
  <2> HIDE DEF S, m
  <2>1. QED
    OBVIOUS
<1>8. f = [i \in 1..m |-> IF i > n THEN <<>>
                          ELSE <<SubSeq(c, i, i + c[i])>> \o f[i + 1 + c[i]]]
  <2>1. f = [i \in 1..m |-> f[i]]
    BY <1>6
  <2> HIDE DEF F, S, m
  <2>2. QED
    BY <1>6, <1>7, <2>1
<1>9. QED
  BY <1>8

\* The local function of Whole exists.
LEMMA EndsExists ==
  ASSUME NEW c \in Seq(Byte)
  PROVE  \E h : h = [i \in 1..(Len(c) + MaxLen + 2) |->
                       IF i > Len(c) THEN i = Len(c) + 1 ELSE h[i + 1 + c[i]]]
<1> DEFINE n == Len(c)
           m == n + MaxLen + 2
           F == [i \in 1..m |-> [g \in [1..m -> BOOLEAN] |->
                   IF i > n THEN i = n + 1 ELSE g[i + 1 + c[i]]]]
<1>1. n \in Nat /\ MaxLen \in Nat /\ m \in Nat /\ 1 \in Nat
  BY LenProperties, LenAssumption
<1>2. \A i \in 1..m : ~(i > n) => i + 1 + c[i] \in (i + 1)..m /\ i + 1 + c[i] \in 1..m
  <2> SUFFICES ASSUME NEW i \in 1..m, ~(i > n)
               PROVE  i + 1 + c[i] \in (i + 1)..m /\ i + 1 + c[i] \in 1..m
    OBVIOUS
  <2>1. i \in 1..n
    BY <1>1
  <2>2. c[i] \in 0..MaxLen
    BY <2>1, ElementOfSeq, LenAssumption
  <2> DEFINE x == c[i]
  <2>3. x \in 0..MaxLen
    BY <2>2
  <2> HIDE DEF x
  <2>4. i + 1 + x \in (i + 1)..m /\ i + 1 + x \in 1..m
    BY <1>1, <2>1, <2>3
  <2>5. QED
    BY <2>4 DEF x
<1> HIDE DEF m
<1>3. F \in [1..m -> [[1..m -> BOOLEAN] -> BOOLEAN]]
  BY <1>2
<1>4. \A i \in 1..m, g, h \in [1..m -> BOOLEAN] :
        (\A j \in (i + 1)..m : g[j] = h[j]) => F[i][g] = F[i][h]
  BY <1>2
<1>5. PICK f \in [1..m -> BOOLEAN] : \A i \in 1..m : f[i] = F[i][f]
  <2> DEFINE B == BOOLEAN
  <2> HIDE DEF F
  <2>1. LooksUp(1, m, B, F) /\ TRUE \in B
    BY <1>3, <1>4 DEF LooksUp
  <2> HIDE DEF B
  <2>2. \E f : Follows(f, 1, m, B, F)
    BY <1>1, <2>1, DownwardRecursion, Zenon
  <2>3. QED
    BY <2>2 DEF Follows, B
<1>6. f = [i \in 1..m |-> IF i > n THEN i = n + 1 ELSE f[i + 1 + c[i]]]
  <2>1. f = [i \in 1..m |-> f[i]]
    BY <1>5
  <2>2. \A i \in 1..m : F[i][f] = IF i > n THEN i = n + 1 ELSE f[i + 1 + c[i]]
    OBVIOUS
  <2> HIDE DEF F
  <2>3. QED
    BY <1>5, <2>1, <2>2
<1>7. QED
  BY <1>6 DEF m

\* Parsed returns the messages of a parse, and Whole accepts it.
LEMMA ParsedIs ==
  ASSUME NEW c \in Seq(Byte), NEW q, NEW s, Parse(c, q, s)
  PROVE  Parsed(c) = q /\ Whole(c)
<1> DEFINE m == Len(c) + MaxLen + 2
           suffix == CHOOSE h : h = [i \in 1..m |->
                       IF i > Len(c) THEN <<>>
                       ELSE <<SubSeq(c, i, i + c[i])>> \o h[i + 1 + c[i]]]
           ends == CHOOSE h : h = [i \in 1..m |->
                       IF i > Len(c) THEN i = Len(c) + 1 ELSE h[i + 1 + c[i]]]
<1>1. suffix = [i \in 1..m |-> IF i > Len(c) THEN <<>>
                              ELSE <<SubSeq(c, i, i + c[i])>> \o suffix[i + 1 + c[i]]]
  BY SuffixExists
<1>2. ends = [i \in 1..m |-> IF i > Len(c) THEN i = Len(c) + 1 ELSE ends[i + 1 + c[i]]]
  BY EndsExists
<1>3. Parsed(c) = suffix[1]
  BY DEF Parsed
<1>4. Whole(c) = ends[1]
  BY DEF Whole
<1> HIDE DEF suffix, ends
<1>5. ParsesFrom(c, suffix)
  BY <1>1 DEF ParsesFrom
<1>6. EndsFrom(c, ends)
  BY <1>2 DEF EndsFrom
<1>7. suffix[1] = q
  BY <1>5, SuffixIs
<1>8. ends[1] = TRUE
  BY <1>6, EndsIs
<1>9. QED
  BY <1>3, <1>4, <1>7, <1>8

\* The bytes of the messages of a parse add up to the length of c.
LEMMA LoadIs ==
  ASSUME NEW c \in Seq(Byte), NEW q, NEW s, Parse(c, q, s)
  PROVE  Queue!Load(q) = Len(c)
<1> DEFINE n == Len(q)
           load == CHOOSE h : h = [i \in 0..n |-> IF i = 0 THEN 0 ELSE h[i - 1] + Len(q[i])]
           T == {k \in 0..n : load[k] = s[k]}
<1>1. n \in Nat
  BY ParsePlaces
<1>2. /\ s \in [0..n -> Nat] /\ s[0] = 0 /\ s[n] = Len(c)
      /\ \A k \in 1..n : s[k] = s[k - 1] + Len(q[k])
  BY DEF Parse
<1>3. s = [i \in 0..n |-> IF i = 0 THEN 0 ELSE s[i - 1] + Len(q[i])]
  <2>1. \A i \in 0..n : i # 0 => i \in 1..n
    BY <1>1
  <2>2. s = [i \in 0..n |-> s[i]]
    BY <1>2
  <2> HIDE DEF n
  <2>3. QED
    BY <1>2, <2>1, <2>2
<1>4. load = [i \in 0..n |-> IF i = 0 THEN 0 ELSE load[i - 1] + Len(q[i])]
  BY <1>3
<1>5. Queue!Load(q) = load[n]
  BY DEF Queue!Load
<1> HIDE DEF load
<1>6. 0 \in T
  BY <1>1, <1>2, <1>4
<1>7. ASSUME NEW k \in 0..(n - 1), k \in T
      PROVE  k + 1 \in T
  <2> DEFINE j == k + 1
  <2>1. j \in 1..n /\ j \in 0..n /\ j # 0 /\ j - 1 = k
    BY <1>1
  <2> HIDE DEF j
  <2>2. load[j] = load[k] + Len(q[j])
    BY <1>4, <2>1
  <2>3. load[k] = s[k]
    BY <1>7
  <2>4. s[j] = s[k] + Len(q[j])
    BY <1>2, <2>1
  <2>5. j \in T
    BY <2>1, <2>2, <2>3, <2>4
  <2>6. QED
    BY <2>5 DEF j
<1>8. 0..n \subseteq T
  <2> HIDE DEF T, n
  <2>1. QED
    BY <1>1, <1>6, <1>7, UpTo
<1>9. n \in 0..n
  BY <1>1
<1>10. QED
  BY <1>2, <1>5, <1>8, <1>9

\* The values of the local function of CntMsg at i, when cnt are those above i.
CountsAt(i, cnt) ==
  IF i >= InUse THEN {0}
  ELSE UNION {IF len > 0 /\ ~GetAtAccepts(ReadIndex, WriteIndex, i + len)
              THEN {0}
              ELSE {n + 1 : n \in cnt[i + 1 + len]} : len \in GetAt(i)}

\* A step of PTS_CntMsg goes forward and stays in the domain of its function.
LEMMA CountStep ==
  ASSUME TypeOK, NEW i \in 0..(Size + MaxLen + 1), ~(i >= InUse), NEW len \in GetAt(i)
  PROVE  /\ len \in 0..MaxLen
         /\ i + 1 + len \in (i + 1)..(Size + MaxLen + 1)
         /\ i + 1 + len \in 0..(Size + MaxLen + 1)
<1>1. len \in 0..MaxLen
  <2> DEFINE cell == GetAtCell(ReadIndex, WriteIndex, i)
  <2>1. len \in IF cell \in Cells THEN {buf[cell]} ELSE Byte
    BY DEF GetAt
  <2> HIDE DEF cell
  <2>2. cell \in Cells => buf[cell] \in Byte
    BY DEF TypeOK
  <2>3. len \in Byte
    BY <2>1, <2>2
  <2>4. QED
    BY <2>3, LenAssumption
<1>2. InUse \in 0..(Size - 1)
  BY UsedInCells DEF TypeOK, InUse, Cells
<1>3. i \in Nat /\ i < InUse /\ MaxLen \in Nat /\ Size \in Nat
  BY <1>2, SizeAssumption, LenAssumption
<1> HIDE DEF InUse
<1>4. QED
  BY <1>1, <1>2, <1>3

\* The local function of CntMsg exists.
LEMMA CountExists ==
  ASSUME TypeOK
  PROVE  \E h : h = [i \in 0..(Size + MaxLen + 1) |-> CountsAt(i, h)]
<1> DEFINE m == Size + MaxLen + 1
           S == SUBSET Nat
           F == [i \in 0..m |-> [g \in [0..m -> S] |-> CountsAt(i, g)]]
<1>1. m \in Nat /\ 0 \in Nat
  BY SizeAssumption, LenAssumption
<1>2. \A i \in 0..m : ~(i >= InUse) =>
        \A len \in GetAt(i) : i + 1 + len \in (i + 1)..m /\ i + 1 + len \in 0..m
  BY CountStep
<1> HIDE DEF m
<1>3. ASSUME NEW i \in 0..m, NEW g \in [0..m -> S]
      PROVE  CountsAt(i, g) \in S
  <2>1. CASE i >= InUse
    BY <2>1 DEF CountsAt
  <2>2. CASE ~(i >= InUse)
    <3>1. ASSUME NEW x \in CountsAt(i, g) PROVE x \in Nat
      <4>1. PICK len \in GetAt(i) : x = 0 \/ x \in {n + 1 : n \in g[i + 1 + len]}
        BY <2>2, <3>1 DEF CountsAt
      <4>2. g[i + 1 + len] \in SUBSET Nat
        BY <1>2, <2>2
      <4>3. QED
        BY <4>1, <4>2
    <3>2. QED
      BY <3>1
  <2>3. QED
    BY <2>1, <2>2
<1>4. F \in [0..m -> [[0..m -> S] -> S]]
  <2> HIDE DEF S
  <2>1. QED
    BY <1>3
<1>5. ASSUME NEW i \in 0..m, NEW g \in [0..m -> S], NEW h \in [0..m -> S],
             \A j \in (i + 1)..m : g[j] = h[j]
      PROVE  CountsAt(i, g) = CountsAt(i, h)
  <2>1. CASE i >= InUse
    BY <2>1 DEF CountsAt
  <2>2. CASE ~(i >= InUse)
    <3>1. \A len \in GetAt(i) : g[i + 1 + len] = h[i + 1 + len]
      BY <1>2, <1>5, <2>2
    <3> DEFINE lost(len) == len > 0 /\ ~GetAtAccepts(ReadIndex, WriteIndex, i + len)
               A(len) == IF lost(len) THEN {0} ELSE {n + 1 : n \in g[i + 1 + len]}
               B(len) == IF lost(len) THEN {0} ELSE {n + 1 : n \in h[i + 1 + len]}
    <3>2. \A len \in GetAt(i) : A(len) = B(len)
      BY <3>1
    <3>3. CountsAt(i, g) = UNION {A(len) : len \in GetAt(i)}
      BY <2>2 DEF CountsAt
    <3>4. CountsAt(i, h) = UNION {B(len) : len \in GetAt(i)}
      BY <2>2 DEF CountsAt
    <3> HIDE DEF A, B
    <3>5. QED
      BY <3>2, <3>3, <3>4
  <2>3. QED
    BY <2>1, <2>2
<1>6. PICK f : Follows(f, 0, m, S, F)
  <2>1. LooksUp(0, m, S, F)
    <3>1. ASSUME NEW i \in 0..m, NEW g \in [0..m -> S], NEW h \in [0..m -> S],
                 \A j \in (i + 1)..m : g[j] = h[j]
          PROVE  F[i][g] = F[i][h]
      BY <1>5, <3>1
    <3> HIDE DEF F, S
    <3>2. QED
      BY <1>4, <3>1 DEF LooksUp
  <2>2. {} \in S
    OBVIOUS
  <2> HIDE DEF F, S
  <2>3. QED
    BY <1>1, <2>1, <2>2, DownwardRecursion, Zenon
<1>7. f \in [0..m -> S] /\ \A i \in 0..m : f[i] = CountsAt(i, f)
  <2>1. \A i \in 0..m : \A g \in [0..m -> S] : F[i][g] = CountsAt(i, g)
    OBVIOUS
  <2> HIDE DEF F
  <2>2. QED
    BY <1>6, <2>1 DEF Follows
<1>8. f = [i \in 0..m |-> CountsAt(i, f)]
  <2>1. f = [i \in 0..m |-> f[i]]
    BY <1>7
  <2>2. QED
    BY <1>7, <2>1
<1>9. QED
  BY <1>8 DEF m

\* The count is 0 exactly when the unread bytes parse into no message.
LEMMA CountIs ==
  ASSUME TypeOK, NEW q, NEW s, Parse(Contents, q, s)
  PROVE  /\ InUse = Len(Contents)
         /\ \A n \in CntMsg : (n # 0) <=> (q # <<>>)
<1> DEFINE m == Size + MaxLen + 1
           cnt == CHOOSE h : h = [i \in 0..m |-> CountsAt(i, h)]
<1>1. cnt = [i \in 0..m |-> CountsAt(i, cnt)]
  BY CountExists
<1>2. CntMsg = cnt[0]
  BY DEF CntMsg, CountsAt
<1> HIDE DEF cnt
<1>3. \A i \in 0..m : cnt[i] = CountsAt(i, cnt)
  BY <1>1
<1>4. InUse = Len(Contents) /\ InUse \in 0..(Size - 1)
  <2>1. buf \in [Cells -> Byte] /\ ReadIndex \in Cells /\ WriteIndex \in Cells
    BY DEF TypeOK
  <2>2. QED
    BY <2>1, UnreadIsSeq DEF InUse, Contents
<1>5. m \in Nat /\ 0 \in Nat
  BY SizeAssumption, LenAssumption
<1>6. \A i \in 0..m : cnt[i] \subseteq Nat
  <2> DEFINE T == {i \in 0..m : cnt[i] \subseteq Nat}
  <2>1. ASSUME NEW i \in 0..m, \A j \in (i + 1)..m : j \in T
        PROVE  i \in T
    <3>a. cnt[i] = CountsAt(i, cnt)
      BY <1>3
    <3>1. CASE i >= InUse
      <4>1. cnt[i] = {0}
        BY <3>a, <3>1 DEF CountsAt
      <4>2. QED
        BY <4>1
    <3>2. CASE ~(i >= InUse)
      <4>1. ASSUME NEW x \in cnt[i] PROVE x \in Nat
        <5>1. PICK len \in GetAt(i) : x = 0 \/ x \in {n + 1 : n \in cnt[i + 1 + len]}
          BY <3>a, <3>2, <4>1 DEF CountsAt
        <5>2. i + 1 + len \in (i + 1)..m
          BY <3>2, CountStep
        <5>3. cnt[i + 1 + len] \subseteq Nat
          BY <2>1, <5>2
        <5>4. QED
          BY <5>1, <5>3
      <4>2. QED
        BY <4>1
    <3>3. QED
      BY <3>1, <3>2
  <2>2. 0..m \subseteq T
    <3> HIDE DEF T, m
    <3>1. QED
      BY <1>5, <2>1, DownTo
  <2>3. QED
    BY <2>2
<1>7. 0 \in 0..m
  BY <1>5
<1>8. CASE q = <<>>
  <2>1. InUse = 0
    BY <1>4, <1>8 DEF Parse
  <2>2. CntMsg = {0}
    BY <1>2, <1>3, <1>7, <2>1 DEF CountsAt
  <2>3. QED
    BY <1>4, <1>8, <2>2
<1>9. CASE q # <<>>
  <2>1. Contents \in Seq(Byte)
    <3>1. buf \in [Cells -> Byte] /\ ReadIndex \in Cells /\ WriteIndex \in Cells
      BY DEF TypeOK
    <3>2. QED
      BY <3>1, UnreadIsSeq DEF Contents
  <2>2. 1 \in 1..Len(q)
    <3>1. Len(q) \in Nat /\ q \in Seq(Messages)
      BY <2>1, ParsePlaces DEF Parse
    <3>2. QED
      BY <1>9, <3>1
  <2>3. s[1 - 1] + 1 \in 1..Len(Contents) /\ s[0] = 0 /\ 1 - 1 = 0
    <3>1. s[0] = 0
      BY DEF Parse
    <3>2. s[1 - 1] + 1 \in 1..Len(Contents)
      BY <2>1, <2>2, ParsePlaces
    <3>3. QED
      BY <3>1, <3>2
  <2>4. InUse > 0 /\ ~(0 >= InUse)
    BY <1>4, <2>3
  <2>5. \A len \in GetAt(0) : ~(len > 0 /\ ~GetAtAccepts(ReadIndex, WriteIndex, 0 + len))
    <3> SUFFICES ASSUME NEW len \in GetAt(0)
                 PROVE  GetAtAccepts(ReadIndex, WriteIndex, 0 + len)
      OBVIOUS
    <3>1. len = Contents[1]
      <4>1. ReadIndex \in Cells /\ WriteIndex \in Cells
        BY DEF TypeOK
      <4>2. GetAtCell(ReadIndex, WriteIndex, 0) = ReadIndex
        BY <2>4, <4>1, SizeAssumption DEF GetAtCell, ContigUsed, InUse, Used, Cells
      <4>3. len = buf[ReadIndex]
        BY <4>1, <4>2 DEF GetAt
      <4>4. Contents[1] = buf[Wrap(ReadIndex + 1 - 1)]
        BY <1>4, <2>4, <4>1, UnreadIsSeq DEF Contents, InUse, TypeOK
      <4>5. Wrap(ReadIndex + 1 - 1) = ReadIndex
        BY <4>1, SizeAssumption DEF Wrap, Cells
      <4>6. QED
        BY <4>3, <4>4, <4>5
    <3>2. /\ Contents[0 + 1] = Len(q[1]) - 1 /\ s[1] = 0 + Len(q[1])
          /\ Len(q[1]) \in 1..(MaxLen + 1)
      BY <2>1, <2>2, <2>3, ParsePlaces
    <3>3. s[1] \in 0..Len(Contents)
      BY <2>1, <2>2, ParsePlaces
    <3> DEFINE z == Len(q[1])
    <3>4. z \in Int /\ len = z - 1 /\ z <= Used(ReadIndex, WriteIndex)
      <4>1. \A j \in 1..(MaxLen + 1) : j \in Int
        OBVIOUS
      <4>2. s[1] = z
        BY <3>2, <4>1
      <4>3. QED
        BY <1>4, <3>1, <3>2, <3>3, <4>1, <4>2 DEF InUse
    <3> HIDE DEF z
    <3>5. QED
      BY <1>4, <3>4, SizeAssumption DEF GetAtAccepts, InUse
  <2>6. cnt[0] = UNION {{n + 1 : n \in cnt[0 + 1 + len]} : len \in GetAt(0)}
    BY <1>3, <1>7, <2>4, <2>5 DEF CountsAt
  <2>7. \A len \in GetAt(0) : cnt[0 + 1 + len] \subseteq Nat
    <3>1. \A len \in GetAt(0) : 0 + 1 + len \in 0..m
      BY <1>7, <2>4, CountStep
    <3>2. QED
      BY <1>6, <3>1
  <2>8. \A n \in cnt[0] : n # 0
    <3> SUFFICES ASSUME NEW x \in cnt[0] PROVE x # 0
      OBVIOUS
    <3>1. PICK len \in GetAt(0) : x \in {n + 1 : n \in cnt[0 + 1 + len]}
      BY <2>6
    <3>2. PICK n \in Nat : x = n + 1
      BY <2>7, <3>1
    <3>3. QED
      BY <3>2
  <2>9. QED
    BY <1>2, <1>4, <1>9, <2>8
<1>10. QED
  BY <1>8, <1>9

-----------------------------------------------------------------------------
(* How the parse grows and shrinks.                                         *)

\* A part of c is that part of c with m behind it.
LEMMA PartOfFirst ==
  ASSUME NEW c \in Seq(Byte), NEW m \in Seq(Byte),
         NEW lo \in Nat \ {0}, NEW hi \in Nat, hi <= Len(c)
  PROVE  SubSeq(c \o m, lo, hi) = SubSeq(c, lo, hi)
<1> DEFINE n == Len(c)
           all == c \o m
<1>1. n \in Nat /\ Len(m) \in Nat /\ \A i \in 1..n : c[i] \in Byte
  BY LenProperties, ElementOfSeq
<1>2. \A i \in 1..(n + Len(m)) : all[i] = IF i <= n THEN c[i] ELSE m[i - n]
  BY ConcatProperties
<1>3. \A i \in lo..hi : i \in 1..n /\ i \in 1..(n + Len(m)) /\ i <= n
  BY <1>1
<1>4. \A i \in lo..hi : c[i] \in Byte /\ all[i] = c[i]
  <2> HIDE DEF all, n
  <2>1. QED
    BY <1>1, <1>2, <1>3
<1> HIDE DEF all
<1>5. /\ SubSeq(c, lo, hi) \in Seq(Byte)
      /\ Len(SubSeq(c, lo, hi)) = IF lo <= hi THEN hi - lo + 1 ELSE 0
      /\ \A i \in 1..(hi - lo + 1) : SubSeq(c, lo, hi)[i] = c[lo + i - 1]
  BY <1>4, SubSeqProperties
<1>6. /\ SubSeq(all, lo, hi) \in Seq(Byte)
      /\ Len(SubSeq(all, lo, hi)) = IF lo <= hi THEN hi - lo + 1 ELSE 0
      /\ \A i \in 1..(hi - lo + 1) : SubSeq(all, lo, hi)[i] = all[lo + i - 1]
  <2>1. lo \in Int /\ hi \in Int /\ \A i \in lo..hi : all[i] \in Byte
    BY <1>4
  <2>2. QED
    BY <2>1, SubSeqProperties
<1>7. \A i \in 1..(IF lo <= hi THEN hi - lo + 1 ELSE 0) :
         i \in 1..(hi - lo + 1) /\ lo + i - 1 \in lo..hi
  OBVIOUS
<1>8. \A i \in 1..Len(SubSeq(c, lo, hi)) : SubSeq(c, lo, hi)[i] = SubSeq(all, lo, hi)[i]
  BY <1>4, <1>5, <1>6, <1>7
<1>9. SubSeq(c, lo, hi) = SubSeq(all, lo, hi)
  BY <1>5, <1>6, <1>8, SeqEqual
<1>10. QED
  BY <1>9 DEF all

\* The part of c with m behind it that follows c is m.
LEMMA PartBehind ==
  ASSUME NEW c \in Seq(Byte), NEW m \in Seq(Byte)
  PROVE  SubSeq(c \o m, Len(c) + 1, Len(c) + Len(m)) = m
<1> DEFINE n == Len(c)
           k == Len(m)
           all == c \o m
           part == SubSeq(all, n + 1, n + k)
<1>1. n \in Nat /\ k \in Nat /\ \A i \in 1..k : m[i] \in Byte
  BY LenProperties, ElementOfSeq
<1>2. \A i \in 1..(n + k) : all[i] = IF i <= n THEN c[i] ELSE m[i - n]
  BY ConcatProperties
<1> HIDE DEF all
<1>3. \A i \in (n + 1)..(n + k) : i \in 1..(n + k) /\ ~(i <= n) /\ i - n \in 1..k
  BY <1>1
<1>4. \A i \in (n + 1)..(n + k) : all[i] = m[i - n] /\ all[i] \in Byte
  <2> HIDE DEF n, k
  <2>1. QED
    BY <1>1, <1>2, <1>3
<1>5. /\ part \in Seq(Byte)
      /\ Len(part) = IF n + 1 <= n + k THEN (n + k) - (n + 1) + 1 ELSE 0
      /\ \A i \in 1..((n + k) - (n + 1) + 1) : part[i] = all[(n + 1) + i - 1]
  BY <1>1, <1>4, SubSeqProperties
<1> HIDE DEF part
<1>6. Len(part) = k /\ (n + k) - (n + 1) + 1 = k
      /\ \A i \in 1..k : (n + 1) + i - 1 \in (n + 1)..(n + k) /\ ((n + 1) + i - 1) - n = i
  BY <1>1, <1>5
<1>7. \A i \in 1..Len(part) : part[i] = m[i]
  BY <1>4, <1>5, <1>6
<1>8. part = m
  BY <1>5, <1>6, <1>7, SeqEqual
<1>9. QED
  BY <1>8 DEF part, all

\* A part of what is left of c behind its first l bytes is a part of c.
LEMMA PartOfRest ==
  ASSUME NEW c \in Seq(Byte), NEW l \in Nat, NEW lo \in Nat, NEW hi \in Nat,
         l <= lo, l <= hi, hi <= Len(c)
  PROVE  SubSeq(SubSeq(c, l + 1, Len(c)), lo - l + 1, hi - l) = SubSeq(c, lo + 1, hi)
<1> DEFINE n == Len(c)
           rest == SubSeq(c, l + 1, n)
           a == SubSeq(rest, lo - l + 1, hi - l)
           b == SubSeq(c, lo + 1, hi)
           k == IF lo + 1 <= hi THEN hi - (lo + 1) + 1 ELSE 0
<1>1. n \in Nat /\ \A i \in 1..n : c[i] \in Byte
  BY LenProperties, ElementOfSeq
<1>2. \A i \in (l + 1)..n : c[i] \in Byte
  BY <1>1
<1>3. \A i \in 1..(n - (l + 1) + 1) : rest[i] = c[(l + 1) + i - 1]
  BY <1>1, <1>2, SubSeqProperties
<1> HIDE DEF rest
<1>4. ASSUME NEW i \in (lo - l + 1)..(hi - l)
      PROVE  rest[i] = c[l + i] /\ rest[i] \in Byte
  <2>1. i \in 1..(n - (l + 1) + 1) /\ (l + 1) + i - 1 = l + i /\ l + i \in 1..n
    BY <1>1
  <2> HIDE DEF n
  <2>2. QED
    BY <1>1, <1>3, <2>1
<1>5. /\ a \in Seq(Byte)
      /\ Len(a) = IF lo - l + 1 <= hi - l THEN (hi - l) - (lo - l + 1) + 1 ELSE 0
      /\ \A i \in 1..((hi - l) - (lo - l + 1) + 1) : a[i] = rest[(lo - l + 1) + i - 1]
  <2>1. lo - l + 1 \in Int /\ hi - l \in Int
    OBVIOUS
  <2>2. QED
    BY <1>4, <2>1, SubSeqProperties
<1>6. /\ b \in Seq(Byte)
      /\ Len(b) = k
      /\ \A i \in 1..(hi - (lo + 1) + 1) : b[i] = c[(lo + 1) + i - 1]
  <2>1. \A i \in (lo + 1)..hi : c[i] \in Byte
    BY <1>1
  <2>2. QED
    BY <2>1, SubSeqProperties
<1> HIDE DEF a, b
<1>7. Len(a) = k
  BY <1>5
<1>8. ASSUME NEW i \in 1..k
      PROVE  a[i] = b[i]
  <2>1. /\ i \in 1..((hi - l) - (lo - l + 1) + 1) /\ i \in 1..(hi - (lo + 1) + 1)
        /\ (lo - l + 1) + i - 1 \in (lo - l + 1)..(hi - l)
        /\ l + ((lo - l + 1) + i - 1) = (lo + 1) + i - 1
    OBVIOUS
  <2>2. QED
    BY <1>4, <1>5, <1>6, <2>1
<1>9. a = b
  <2> HIDE DEF k
  <2>1. QED
    BY <1>5, <1>6, <1>7, <1>8, SeqEqual
<1>10. QED
  BY <1>9 DEF a, b, rest

\* What is left of c behind its first l bytes.
LEMMA LenOfRest ==
  ASSUME NEW c \in Seq(Byte), NEW l \in 0..Len(c)
  PROVE  /\ SubSeq(c, l + 1, Len(c)) \in Seq(Byte)
         /\ Len(SubSeq(c, l + 1, Len(c))) = Len(c) - l
<1> DEFINE n == Len(c)
           rest == SubSeq(c, l + 1, n)
<1>1. n \in Nat /\ \A i \in (l + 1)..n : c[i] \in Byte
  BY LenProperties, ElementOfSeq
<1>2. l \in 0..n
  OBVIOUS
<1> HIDE DEF n
<1>3. rest \in Seq(Byte) /\ Len(rest) = IF l + 1 <= n THEN n - (l + 1) + 1 ELSE 0
  BY <1>1, <1>2, SubSeqProperties
<1> HIDE DEF rest
<1>4. Len(rest) = n - l
  BY <1>1, <1>2, <1>3
<1>5. QED
  BY <1>3, <1>4 DEF n, rest

\* No bytes are no messages.
LEMMA ParseOfNothing == Parse(<<>>, <<>>, [i \in {0} |-> 0])
<1>1. <<>> \in Seq(Messages) /\ Len(<<>>) = 0 /\ 0..0 = {0} /\ 1..0 = {}
  BY EmptySeq
<1>2. QED
  BY <1>1 DEF Parse

\* A message behind whole messages makes one more.
LEMMA ParseAppended ==
  ASSUME NEW c \in Seq(Byte), NEW q, NEW s, Parse(c, q, s), NEW m \in Messages
  PROVE  \E t : Parse(c \o m, Append(q, m), t)
<1> DEFINE n == Len(q)
           q2 == Append(q, m)
           end == Len(c) + Len(m)
           t == [i \in 0..(n + 1) |-> IF i = n + 1 THEN end ELSE s[i]]
<1>1. n \in Nat /\ Len(c) \in Nat /\ q \in Seq(Messages)
  BY ParsePlaces DEF Parse
<1>2. m \in Seq(Byte) /\ Len(m) \in Nat /\ end \in Nat
  <2>1. m \in Seq(Byte)
    BY MessageIs
  <2>2. QED
    BY <1>1, <2>1, LenProperties
<1>3. q2 \in Seq(Messages) /\ Len(q2) = n + 1 /\ q2[n + 1] = m /\ \A k \in 1..n : q2[k] = q[k]
  BY <1>1, AppendProperties
<1>4. Len(c \o m) = end
  BY <1>2, ConcatProperties
<1>5. \A k \in 0..n : s[k] \in 0..Len(c)
  BY ParsePlaces
<1>6. s[0] = 0 /\ s[n] = Len(c)
  BY DEF Parse
<1> HIDE DEF q2, end
<1>7. t[0] = 0 /\ t[n + 1] = end /\ (\A k \in 0..n : t[k] = s[k]) /\ t \in [0..(n + 1) -> Nat]
  <2>1. \A k \in 0..n : k # n + 1 /\ k \in 0..(n + 1) /\ s[k] \in Nat
    BY <1>1, <1>5
  <2>2. \A k \in 0..(n + 1) : k # n + 1 => k \in 0..n
    BY <1>1
  <2>3. n + 1 \in 0..(n + 1) /\ 0 \in 0..n
    BY <1>1
  <2> HIDE DEF n
  <2>4. QED
    BY <1>2, <1>6, <2>1, <2>2, <2>3
<1> HIDE DEF t
<1>8. ASSUME NEW k \in 1..(n + 1)
      PROVE  /\ t[k] = t[k - 1] + Len(q2[k])
             /\ q2[k] = SubSeq(c \o m, t[k - 1] + 1, t[k])
  <2>1. CASE k = n + 1
    <3>1. k - 1 = n /\ n \in 0..n
      BY <1>1, <2>1
    <3>2. t[k - 1] = Len(c) /\ t[k] = end /\ q2[k] = m
      BY <1>3, <1>6, <1>7, <2>1, <3>1
    <3>3. QED
      BY <1>2, <3>2, PartBehind DEF end
  <2>2. CASE k # n + 1
    <3>1. k \in 1..n /\ k \in 0..n /\ k - 1 \in 0..n
      BY <1>1, <2>2
    <3>2. t[k - 1] = s[k - 1] /\ t[k] = s[k] /\ q2[k] = q[k]
      BY <1>3, <1>7, <3>1
    <3>3. /\ s[k] = s[k - 1] + Len(q[k])
          /\ q[k] = SubSeq(c, s[k - 1] + 1, s[k])
      BY <3>1 DEF Parse
    <3>4. s[k - 1] + 1 \in Nat \ {0} /\ s[k] \in Nat /\ s[k] <= Len(c)
      <4>1. s[k - 1] \in 0..Len(c) /\ s[k] \in 0..Len(c)
        BY <1>5, <3>1
      <4>2. QED
        BY <1>1, <4>1
    <3>5. SubSeq(c \o m, s[k - 1] + 1, s[k]) = SubSeq(c, s[k - 1] + 1, s[k])
      BY <1>2, <3>4, PartOfFirst
    <3>6. QED
      BY <3>2, <3>3, <3>5
  <2>3. QED
    BY <2>1, <2>2
<1>9. Parse(c \o m, q2, t)
  BY <1>3, <1>4, <1>7, <1>8 DEF Parse
<1>10. QED
  BY <1>9 DEF q2

\* Whole messages without the first are whole messages.
LEMMA ParseOfRest ==
  ASSUME NEW c \in Seq(Byte), NEW q, NEW s, Parse(c, q, s), q # <<>>,
         NEW l, l = Len(q[1])
  PROVE  /\ Head(q) = SubSeq(c, 1, l) /\ l \in 1..(MaxLen + 1) /\ l <= Len(c)
         /\ c[1] = l - 1
         /\ \E t : Parse(SubSeq(c, l + 1, Len(c)), Tail(q), t)
<1> DEFINE n == Len(q)
           tl == Tail(q)
           rest == SubSeq(c, l + 1, Len(c))
           t == [i \in 0..(n - 1) |-> s[i + 1] - l]
<1>1. n \in Nat /\ n # 0 /\ Len(c) \in Nat /\ q \in Seq(Messages) /\ MaxLen \in Nat
  <2>1. q \in Seq(Messages) /\ Len(c) \in Nat
    BY ParsePlaces DEF Parse
  <2>2. QED
    BY <2>1, EmptySeq, LenProperties, LenAssumption
<1>2. tl \in Seq(Messages) /\ Len(tl) = n - 1 /\ Head(q) = q[1]
      /\ \A k \in 1..(n - 1) : tl[k] = q[k + 1]
  BY <1>1, HeadTailProperties
<1>3. \A k \in 0..n : s[k] \in 0..Len(c)
  BY ParsePlaces
<1>4. s[0] = 0 /\ s[n] = Len(c)
  BY DEF Parse
<1>5. \A k \in 1..n : /\ s[k - 1] + 1 \in 1..Len(c)
                      /\ c[s[k - 1] + 1] = Len(q[k]) - 1
                      /\ s[k] = s[k - 1] + Len(q[k])
                      /\ Len(q[k]) \in 1..(MaxLen + 1)
                      /\ q[k] = SubSeq(c, s[k - 1] + 1, s[k])
  BY ParsePlaces
<1>6. 1 \in 1..n /\ 1 - 1 = 0 /\ 1 \in 0..n
  BY <1>1
<1>7. /\ l \in 1..(MaxLen + 1) /\ s[1] = l /\ l \in 0..Len(c)
      /\ q[1] = SubSeq(c, 1, l) /\ c[1] = l - 1
  <2>1. /\ c[s[0] + 1] = Len(q[1]) - 1
        /\ s[1] = s[0] + Len(q[1])
        /\ Len(q[1]) \in 1..(MaxLen + 1)
        /\ q[1] = SubSeq(c, s[0] + 1, s[1])
    BY <1>5, <1>6
  <2>2. s[0] + 1 = 1 /\ l \in Int
    BY <1>1, <1>4, <2>1
  <2>3. s[1] = l
    BY <1>4, <2>1, <2>2
  <2>4. QED
    BY <1>3, <1>4, <1>6, <2>1, <2>2, <2>3
<1>8. \A k \in 1..n : s[k] \in Nat /\ l <= s[k] /\ s[k] <= Len(c)
  <2> DEFINE T == {k \in 0..(n - 1) : l <= s[k + 1]}
  <2>1. 0 \in T
    BY <1>1, <1>7
  <2>2. ASSUME NEW k \in 0..((n - 1) - 1), k \in T PROVE k + 1 \in T
    <3> DEFINE j == (k + 1) + 1
    <3>1. j \in 1..n /\ j - 1 = k + 1 /\ k + 1 \in 0..n /\ k + 1 \in 0..(n - 1) /\ j \in 0..n
      BY <1>1
    <3> HIDE DEF j
    <3>2. s[j] = s[k + 1] + Len(q[j]) /\ Len(q[j]) \in 1..(MaxLen + 1)
      BY <1>5, <3>1
    <3>3. \A x \in 1..(MaxLen + 1) : x \in Int /\ x >= 0
      OBVIOUS
    <3>4. l <= s[j]
      <4>1. s[k + 1] \in 0..Len(c) /\ l <= s[k + 1]
        BY <1>3, <2>2, <3>1
      <4>2. Len(q[j]) \in Int /\ Len(q[j]) >= 0
        BY <3>2, <3>3
      <4> DEFINE z == Len(q[j])
      <4> HIDE DEF z
      <4>3. z \in Int /\ z >= 0 /\ s[j] = s[k + 1] + z
        BY <3>2, <4>2 DEF z
      <4>4. s[k + 1] \in Int /\ l \in Int
        BY <1>1, <1>7, <4>1
      <4>5. QED
        BY <4>1, <4>3, <4>4
    <3>5. QED
      BY <3>1, <3>4 DEF j
  <2>3. 0..(n - 1) \subseteq T
    <3>1. n - 1 \in Nat
      BY <1>1
    <3> HIDE DEF T, n
    <3>2. QED
      BY <2>1, <2>2, <3>1, UpTo
  <2>4. ASSUME NEW k \in 1..n PROVE l <= s[k] /\ s[k] \in 0..Len(c)
    <3>1. k - 1 \in 0..(n - 1) /\ (k - 1) + 1 = k /\ k \in 0..n
      BY <1>1
    <3>2. QED
      BY <1>3, <2>3, <3>1
  <2>5. QED
    BY <1>1, <2>4
<1>9. Len(rest) = Len(c) - l
  BY <1>1, <1>7, LenOfRest
<1> HIDE DEF tl, rest
<1>10. /\ t \in [0..(n - 1) -> Nat] /\ t[0] = 0 /\ t[n - 1] = Len(c) - l
       /\ \A k \in 0..(n - 1) : t[k] = s[k + 1] - l
  <2>1. \A k \in 0..(n - 1) : s[k + 1] - l \in Nat
    <3> SUFFICES ASSUME NEW k \in 0..(n - 1) PROVE s[k + 1] - l \in Nat
      OBVIOUS
    <3>1. k + 1 \in 1..n
      BY <1>1
    <3>2. s[k + 1] \in Nat /\ l <= s[k + 1] /\ l \in Nat
      BY <1>1, <1>7, <1>8, <3>1
    <3>3. QED
      BY <3>2
  <2>2. 0 \in 0..(n - 1) /\ n - 1 \in 0..(n - 1) /\ (n - 1) + 1 = n
    BY <1>1
  <2>3. s[0 + 1] - l = 0
    BY <1>7
  <2>4. QED
    BY <1>4, <2>1, <2>2, <2>3
<1> HIDE DEF t
<1>11. ASSUME NEW k \in 1..(n - 1)
       PROVE  /\ t[k] = t[k - 1] + Len(tl[k])
              /\ tl[k] = SubSeq(rest, t[k - 1] + 1, t[k])
  <2> DEFINE j == k + 1
  <2>1. j \in 1..n /\ k \in 1..n /\ j - 1 = k /\ k - 1 \in 0..(n - 1) /\ k \in 0..(n - 1) /\ (k - 1) + 1 = k
    BY <1>1
  <2> HIDE DEF j
  <2>2. t[k] = s[j] - l /\ t[k - 1] = s[k] - l
    BY <1>10, <2>1 DEF j
  <2>3. s[j] = s[k] + Len(q[j]) /\ q[j] = SubSeq(c, s[k] + 1, s[j]) /\ Len(q[j]) \in 1..(MaxLen + 1)
    BY <1>5, <2>1
  <2>4. tl[k] = q[j]
    BY <1>2 DEF j
  <2>5. s[k] \in Nat /\ s[j] \in Nat /\ l <= s[k] /\ l <= s[j] /\ s[j] <= Len(c) /\ l \in Nat
    BY <1>7, <1>8, <2>1
  <2>6. SubSeq(rest, s[k] - l + 1, s[j] - l) = SubSeq(c, s[k] + 1, s[j])
    BY <2>5, PartOfRest DEF rest
  <2>7. \A x \in 1..(MaxLen + 1) : x \in Int
    OBVIOUS
  <2>8. s[j] - l = (s[k] - l) + Len(q[j])
    <3>1. Len(q[j]) \in Int
      BY <2>3, <2>7
    <3> DEFINE z == Len(q[j])
    <3> HIDE DEF z
    <3>2. z \in Int /\ s[j] = s[k] + z
      BY <2>3, <3>1 DEF z
    <3>3. s[j] - l = (s[k] - l) + z
      BY <2>5, <3>2
    <3>4. QED
      BY <3>3 DEF z
  <2>9. QED
    BY <2>2, <2>3, <2>4, <2>6, <2>8
<1>12. Parse(rest, tl, t)
  BY <1>2, <1>9, <1>10, <1>11 DEF Parse
<1>13. QED
  BY <1>1, <1>2, <1>7, <1>12 DEF tl, rest

-----------------------------------------------------------------------------
(* The steps.                                                               *)

\* What the invariant says of a state.
LEMMA QueueState ==
  ASSUME QueueInv
  PROVE  \E q, s : /\ Parse(Contents, q, s) /\ Pending = q /\ WholeMessages
                   /\ Queue!Load(q) = Used(ReadIndex, WriteIndex)
                   /\ Contents \in Seq(Byte)
                   /\ Len(Contents) = Used(ReadIndex, WriteIndex)
                   /\ Used(ReadIndex, WriteIndex) \in 0..(Size - 1)
                   /\ \A n \in CntMsg : (n # 0) <=> (q # <<>>)
<1>1. TypeOK /\ buf \in [Cells -> Byte] /\ ReadIndex \in Cells /\ WriteIndex \in Cells
  BY DEF QueueInv, TypeOK
<1>2. PICK q, s : Parse(Contents, q, s)
  BY DEF QueueInv
<1>3. /\ Contents \in Seq(Byte) /\ Len(Contents) = Used(ReadIndex, WriteIndex)
      /\ Used(ReadIndex, WriteIndex) \in 0..(Size - 1)
  BY <1>1, UnreadIsSeq DEF Contents
<1>4. Pending = q /\ WholeMessages
  BY <1>2, <1>3, ParsedIs DEF Pending, WholeMessages
<1>5. Queue!Load(q) = Len(Contents)
  BY <1>2, <1>3, LoadIs
<1>6. \A n \in CntMsg : (n # 0) <=> (q # <<>>)
  BY <1>1, <1>2, CountIs
<1>7. QED
  BY <1>2, <1>3, <1>4, <1>5, <1>6

\* A call that leaves the ring alone leaves the parse alone.
LEMMA NoRingKeeps ==
  ASSUME QueueInv, NoRingStep, receiving' \in BOOLEAN
  PROVE  /\ QueueInv' /\ Pending' = Pending /\ got' = <<>> /\ Queue!NoPut
<1>1. Contents' = Contents
  BY DEF NoRingStep, Contents
<1>2. TypeOK'
  <2>1. <<>> \in Seq(Byte)
    BY EmptySeq
  <2>2. QED
    BY <2>1 DEF QueueInv, TypeOK, NoRingStep
<1>3. QueueInv'
  BY <1>1, <1>2 DEF QueueInv
<1>4. Pending' = Pending
  BY <1>1 DEF Pending
<1>5. Queue!NoPut
  BY DEF NoRingStep, Queue!NoPut
<1>6. QED
  BY <1>3, <1>4, <1>5 DEF NoRingStep

\* PTS_PutMsg puts its message behind the others, or drops it.
LEMMA PutMsgIsPut ==
  ASSUME QueueInv, NEW m \in Messages, PutMsg(m)
  PROVE  QueueInv' /\ Queue!Put(m)
<1>1. PICK q, s : /\ Parse(Contents, q, s) /\ Pending = q
                  /\ Queue!Load(q) = Used(ReadIndex, WriteIndex)
                  /\ Contents \in Seq(Byte)
                  /\ Used(ReadIndex, WriteIndex) \in 0..(Size - 1)
  BY QueueState
<1>2. m \in Blocks /\ Len(m) \in Nat
  <2>1. Len(m) \in 1..(MaxLen + 1) /\ m \in Blocks
    BY MessageIs
  <2>2. QED
    BY <2>1, LenAssumption
<1>3. rc' = (receiving /\ Queue!Load(Pending) + Len(m) <= Size - 1)
  <2> DEFINE u == Used(ReadIndex, WriteIndex)
             z == Len(m)
  <2>1. rc' = (receiving /\ (Size - 1) - u >= z)
    BY DEF PutMsg, Free
  <2>2. u \in Int /\ z \in Int /\ Size \in Int /\ Queue!Load(Pending) = u
    BY <1>1, <1>2, SizeAssumption
  <2> HIDE DEF u, z
  <2>3. ((Size - 1) - u >= z) <=> (u + z <= Size - 1)
    BY <2>2
  <2>4. QED
    BY <2>1, <2>2, <2>3 DEF z
<1>4. receiving' = receiving /\ receiving' \in BOOLEAN
  BY DEF PutMsg, QueueInv
<1>5. CASE rc'
  <2>1. Write(m)
    BY <1>5 DEF PutMsg
  <2>2. TypeOK'
    BY <1>2, <2>1, TypeKept DEF QueueInv, Next
  <2>3. Contents' = Contents \o m
    BY <1>2, <2>1, <2>2, BlockIsAppended DEF Write, QueueInv
  <2>4. PICK t : Parse(Contents \o m, Append(q, m), t)
    BY <1>1, ParseAppended
  <2>5. QueueInv'
    BY <1>4, <2>2, <2>3, <2>4 DEF QueueInv
  <2>6. Pending' = Append(Pending, m)
    <3>1. Contents \o m \in Seq(Byte)
      BY <1>1, MessageIs, ConcatProperties
    <3>2. Parsed(Contents \o m) = Append(q, m)
      BY <2>4, <3>1, ParsedIs
    <3>3. QED
      BY <1>1, <2>3, <3>2 DEF Pending
  <2>7. got' = <<>> /\ call' = <<"put", m>>
    BY <2>1 DEF Write
  <2>8. QED
    BY <1>3, <1>4, <1>5, <2>5, <2>6, <2>7 DEF Queue!Put
<1>6. CASE ~rc'
  <2>1. NoRingStep
    BY <1>6 DEF PutMsg
  <2>2. QueueInv' /\ Pending' = Pending /\ got' = <<>> /\ Queue!NoPut
    BY <1>4, <2>1, NoRingKeeps
  <2>3. QED
    BY <1>3, <1>4, <1>6, <2>2 DEF Queue!Put
<1>7. QED
  BY <1>5, <1>6

\* PTS_GetMsg takes the oldest message, whole.
LEMMA GetMsgIsGet ==
  ASSUME QueueInv, GetMsg
  PROVE  QueueInv' /\ Queue!Get
<1> DEFINE u == Used(ReadIndex, WriteIndex)
           len == IF InUse > 0 THEN buf[PeekCell(ReadIndex, WriteIndex)] ELSE 0
<1>1. PICK q, s : /\ Parse(Contents, q, s) /\ Pending = q
                  /\ Contents \in Seq(Byte) /\ Len(Contents) = u /\ u \in 0..(Size - 1)
                  /\ \A n \in CntMsg : (n # 0) <=> (q # <<>>)
  BY QueueState
<1>2. rc' = (Pending # <<>>)
  BY <1>1 DEF GetMsg
<1>3. receiving' = receiving /\ receiving' \in BOOLEAN
  BY DEF GetMsg, QueueInv
<1>4. IF rc' /\ InUse >= len + 1 THEN Read(len + 1) ELSE NoRingStep
  BY DEF GetMsg
<1>5. CASE rc'
  <2> DEFINE l == Len(q[1])
  <2>1. q # <<>>
    BY <1>1, <1>2, <1>5
  <2>2. /\ Head(q) = SubSeq(Contents, 1, l) /\ l \in 1..(MaxLen + 1) /\ l <= Len(Contents)
        /\ Contents[1] = l - 1
        /\ \E t : Parse(SubSeq(Contents, l + 1, Len(Contents)), Tail(q), t)
    BY <1>1, <2>1, ParseOfRest
  <2>3. l \in 1..MaxChunk /\ l \in Nat /\ MaxLen \in Nat
    BY <2>2, LenAssumption, RoomAssumption, ChunkAssumption
  <2> HIDE DEF l
  <2>4. len + 1 = l /\ InUse = u /\ u >= l
    <3>1. InUse = u
      BY DEF InUse
    <3>2. u > 0 /\ u >= l
      BY <1>1, <2>2, <2>3
    <3>3. PeekCell(ReadIndex, WriteIndex) = ReadIndex
      <4>1. ReadIndex \in Cells /\ WriteIndex \in Cells
        BY DEF QueueInv, TypeOK
      <4>2. QED
        BY <3>2, <4>1, SizeAssumption DEF PeekCell, GetAtCell, ContigUsed, Used, Cells
    <3>4. Contents[1] = buf[ReadIndex]
      <4>1. buf \in [Cells -> Byte] /\ ReadIndex \in Cells /\ WriteIndex \in Cells
        BY DEF QueueInv, TypeOK
      <4>2. 1 \in 1..u
        BY <1>1, <3>2
      <4>3. Contents[1] = buf[Wrap(ReadIndex + 1 - 1)]
        BY <4>1, <4>2, UnreadIsSeq DEF Contents
      <4>4. Wrap(ReadIndex + 1 - 1) = ReadIndex
        BY <4>1, SizeAssumption DEF Wrap, Cells
      <4>5. QED
        BY <4>3, <4>4
    <3>5. len = l - 1
      BY <2>2, <3>1, <3>2, <3>3, <3>4
    <3>6. QED
      BY <2>3, <3>1, <3>2, <3>5
  <2> HIDE DEF len, u
  <2>5. Read(l)
    BY <1>4, <1>5, <2>4
  <2>6. TypeOK'
    BY <2>3, <2>5, TypeKept DEF QueueInv, Next
  <2>7. Fifo!Take(l)
    BY <2>3, <2>5, <2>6, ReadIsTake DEF QueueInv
  <2>8. got' = Head(q) /\ Contents' = SubSeq(Contents, l + 1, Len(Contents))
    BY <2>2, <2>7 DEF Fifo!Take
  <2>9. QueueInv'
    BY <1>3, <2>2, <2>6, <2>8 DEF QueueInv
  <2>10. Pending' = Tail(Pending)
    <3>1. PICK t : Parse(SubSeq(Contents, l + 1, Len(Contents)), Tail(q), t)
      BY <2>2
    <3>2. SubSeq(Contents, l + 1, Len(Contents)) \in Seq(Byte)
      <4>1. l \in 0..Len(Contents)
        BY <1>1, <2>2, <2>3
      <4>2. QED
        BY <1>1, <4>1, LenOfRest
    <3>3. Parsed(SubSeq(Contents, l + 1, Len(Contents))) = Tail(q)
      BY <3>1, <3>2, ParsedIs
    <3>4. QED
      BY <1>1, <2>8, <3>3 DEF Pending
  <2>11. Queue!NoPut
    BY <2>5 DEF Read, Queue!NoPut
  <2>12. QED
    BY <1>1, <1>2, <1>3, <1>5, <2>8, <2>9, <2>10, <2>11 DEF Queue!Get
<1>6. CASE ~rc'
  <2>1. NoRingStep
    BY <1>4, <1>6
  <2>2. QueueInv' /\ Pending' = Pending /\ got' = <<>> /\ Queue!NoPut
    BY <1>3, <2>1, NoRingKeeps
  <2>3. QED
    BY <1>2, <1>3, <1>6, <2>2 DEF Queue!Get
<1>7. QED
  BY <1>5, <1>6

\* The task leaves or enters PTS_RUN and keeps what it holds.
LEMMA SwitchIsSwitch ==
  ASSUME QueueInv, Switch
  PROVE  QueueInv' /\ Queue!Switch
<1>1. receiving' \in BOOLEAN /\ NoRingStep /\ rc' = FALSE
  BY DEF Switch, QueueInv
<1>2. QueueInv' /\ Pending' = Pending /\ got' = <<>> /\ Queue!NoPut
  BY <1>1, NoRingKeeps
<1>3. QED
  BY <1>1, <1>2 DEF Queue!Switch

\* Every step keeps the invariant and is a step of MsgFifo.
LEMMA QueueStep ==
  ASSUME QueueInv, [MNext]_mvars
  PROVE  QueueInv' /\ [Queue!Next]_(Queue!fvars)
<1>1. ASSUME NEW m \in Messages, PutMsg(m) PROVE QueueInv' /\ Queue!Next
  BY <1>1, PutMsgIsPut DEF Queue!Next
<1>2. CASE GetMsg
  BY <1>2, GetMsgIsGet DEF Queue!Next
<1>3. CASE Switch
  BY <1>3, SwitchIsSwitch DEF Queue!Next
<1>4. CASE UNCHANGED mvars
  <2>1. Contents' = Contents /\ UNCHANGED <<receiving, got, rc, call>>
    BY <1>4 DEF mvars, vars, Contents
  <2>2. Pending' = Pending
    BY <2>1 DEF Pending
  <2>3. TypeOK'
    BY <1>4 DEF QueueInv, TypeOK, mvars, vars
  <2>4. QueueInv'
    BY <2>1, <2>3 DEF QueueInv
  <2>5. QED
    BY <2>1, <2>2, <2>4 DEF Queue!fvars
<1>5. QED
  BY <1>1, <1>2, <1>3, <1>4 DEF MNext

\* The ring starts with no message.
LEMMA QueueStart ==
  ASSUME MInit
  PROVE  QueueInv /\ Queue!Init
<1>1. TypeOK /\ receiving \in BOOLEAN
  <2>1. <<>> \in Seq(Byte)
    BY EmptySeq
  <2>2. 0 \in Cells
    BY SizeAssumption DEF Cells
  <2>3. QED
    BY <2>1, <2>2 DEF MInit, Init, TypeOK
<1>2. Contents = <<>>
  <2>1. Used(ReadIndex, WriteIndex) = 0
    BY DEF MInit, Init, Used
  <2>2. QED
    BY <2>1 DEF Contents, Unread
<1>3. QueueInv
  BY <1>1, <1>2, ParseOfNothing DEF QueueInv
<1>4. Pending = <<>>
  BY <1>2, ParseOfNothing, ParsedIs, EmptySeq DEF Pending
<1>5. QED
  BY <1>3, <1>4 DEF MInit, Init, Queue!Init

\* The invariant holds throughout.
LEMMA QueueInvHolds == MSpec => []QueueInv
<1>1. MInit => QueueInv
  BY QueueStart
<1>2. QueueInv /\ [MNext]_mvars => QueueInv'
  BY QueueStep
<1>3. QED
  BY <1>1, <1>2, PTL DEF MSpec

\* PTS_CntMsg tells an empty queue from one that holds a message, and the ring holds whole
\* messages only, whatever its size, the payloads and the order of the calls.
THEOREM CountIsRight == MSpec => []CountTellsEmpty
<1>1. QueueInv => CountTellsEmpty
  BY QueueState DEF CountTellsEmpty
<1>2. QED
  BY <1>1, QueueInvHolds, PTL

\* PTS_PutMsg and PTS_GetMsg over the ring are the queue of MsgFifo: a message is queued whole or
\* dropped with the sender told, and comes out as it went in, oldest first, over any wrap.
THEOREM QueueIsFifo == MSpec => MsgFifoSpec
<1>1. MInit => Queue!Init
  BY QueueStart
<1>2. QueueInv /\ [MNext]_mvars => [Queue!Next]_(Queue!fvars)
  BY QueueStep
<1>3. QED
  BY <1>1, <1>2, QueueInvHolds, PTL DEF MSpec, MsgFifoSpec, Queue!Spec
=============================================================================

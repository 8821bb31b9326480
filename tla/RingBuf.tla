------------------------------ MODULE RingBuf -------------------------------
(***************************************************************************)
(* The ring buffer of src/src/utils/ringbuf.c: Size cells, a write index   *)
(* and a read index, one cell always left empty so that "full" and "empty" *)
(* differ.  An operator with a parameter rb is a function of the code that *)
(* only looks at the ring; an action is one that changes it.  ASSERTs on   *)
(* the arguments are the guards: no caller in the repository breaks them.  *)
(* An operator under "Mutant" is a slip of the code that the properties    *)
(* are shown to catch; nothing else uses it.                               *)
(***************************************************************************)
EXTENDS Integers, Sequences

CONSTANTS Byte,      \* the values a cell holds
          Size,      \* ui32Size, the number of cells
          MaxChunk   \* bound: longest block one call moves

ASSUME SizeAssumption == Size \in Nat \ {0}
ASSUME ChunkAssumption == MaxChunk \in Nat
ASSUME ByteAssumption == Byte # {}

VARIABLES buf,         \* pui8Buf
          ReadIndex,   \* ui32ReadIndex
          WriteIndex,  \* ui32WriteIndex
          got,         \* what the last call handed back
          call         \* history: the last call that changed the ring

vars == <<buf, ReadIndex, WriteIndex, got, call>>

Cells == 0..(Size - 1)

\* The bytes a caller may pass in one call.
Blocks == UNION {[1..n -> Byte] : n \in 1..MaxChunk}

-----------------------------------------------------------------------------
(* Index arithmetic and the read-only functions.                            *)

\* An index moved past the end comes round again; no caller moves it by more
\* than Size, so the loop of UpdateIndexAtomic runs at most once.
Wrap(i) == IF i >= Size THEN i - Size ELSE i

Used(r, w) == IF w >= r THEN w - r ELSE Size - (r - w)

\* Mutant: no cell is kept empty.
FreeAllCells(r, w) == Size - Used(r, w)

Free(r, w) == (Size - 1) - Used(r, w)

Full(r, w) == Wrap(w + 1) = r

Empty(r, w) == w = r

ContigUsed(r, w) == IF w >= r THEN w - r ELSE Size - r

\* Mutant: the cell before a read index of 0 is offered too.
ContigFreeNoGap(r, w) == IF r > w THEN (r - w) - 1 ELSE Size - w

ContigFree(r, w) ==
  IF r > w THEN (r - w) - 1
  ELSE Size - w - (IF r = 0 THEN 1 ELSE 0)

\* RingBufGetAt: the cell it reads for an index it accepts.  The cell may lie
\* outside the buffer.
GetAtCell(r, w, index) ==
  IF index >= ContigUsed(r, w) THEN r + (index - ContigUsed(r, w)) ELSE r + index

\* The index one past the last unread byte is accepted.
GetAtAccepts(r, w, index) == Used(r, w) >= index

\* RingBufPeek is RingBufGetAt of index 0.
PeekCell(r, w) == GetAtCell(r, w, 0)

-----------------------------------------------------------------------------
(* The operations that change the ring.                                     *)

\* RingBufInit on memory fresh from malloc: the cells hold anything.
Init == /\ buf \in [Cells -> Byte]
        /\ ReadIndex = 0 /\ WriteIndex = 0
        /\ got = <<>>
        /\ call = <<"none">>

\* How far past w the cell c lies.
Past(w, c) == IF c >= w THEN c - w ELSE c + Size - w

\* The buffer with the block d laid over the cells from w on.
Filled(w, d) ==
  [c \in Cells |-> IF Past(w, c) < Len(d) THEN d[Past(w, c) + 1] ELSE buf[c]]

\* RingBufWrite; RingBufWriteOne is the block of one byte.
Write(d) ==
  /\ Len(d) <= Free(ReadIndex, WriteIndex)
  /\ buf' = Filled(WriteIndex, d)
  /\ WriteIndex' = Wrap(WriteIndex + Len(d))
  /\ got' = <<>>
  /\ call' = <<"put", d>>
  /\ UNCHANGED ReadIndex

\* RingBufRead; RingBufReadOne is the block of one byte.
Read(n) ==
  /\ n <= Used(ReadIndex, WriteIndex)
  /\ got' = [i \in 1..n |-> buf[Wrap(ReadIndex + i - 1)]]
  /\ ReadIndex' = Wrap(ReadIndex + n)
  /\ call' = <<"take", n>>
  /\ UNCHANGED <<buf, WriteIndex>>

Lesser(a, b) == IF a < b THEN a ELSE b

AdvanceRead(n) ==
  /\ ReadIndex' = Wrap(ReadIndex + Lesser(Used(ReadIndex, WriteIndex), n))
  /\ got' = <<>>
  /\ call' = <<"drop", n>>
  /\ UNCHANGED <<buf, WriteIndex>>

\* Mutant: a read index pushed on by an overrun is not wrapped.
AdvanceWriteNoWrap(d) ==
  /\ Len(d) <= Size
  /\ buf' = Filled(WriteIndex, d)
  /\ WriteIndex' = Wrap(WriteIndex + Len(d))
  /\ ReadIndex' = IF Free(ReadIndex, WriteIndex) < Len(d)
                  THEN WriteIndex' + 1 ELSE ReadIndex
  /\ got' = <<>>
  /\ call' = <<"force", d>>

\* The caller has laid the block d into the buffer and calls
\* RingBufAdvanceWrite: what does not fit pushes out the oldest bytes.
AdvanceWrite(d) ==
  /\ Len(d) <= Size
  /\ buf' = Filled(WriteIndex, d)
  /\ WriteIndex' = Wrap(WriteIndex + Len(d))
  /\ ReadIndex' = IF Free(ReadIndex, WriteIndex) < Len(d)
                  THEN Wrap(WriteIndex' + 1) ELSE ReadIndex
  /\ got' = <<>>
  /\ call' = <<"force", d>>

Flush == /\ ReadIndex' = WriteIndex
         /\ got' = <<>>
         /\ call' = <<"clear">>
         /\ UNCHANGED <<buf, WriteIndex>>

Next == \/ \E d \in Blocks : Write(d) \/ AdvanceWrite(d)
        \/ \E n \in 1..MaxChunk : Read(n) \/ AdvanceRead(n)
        \/ Flush

Spec == Init /\ [][Next]_vars

-----------------------------------------------------------------------------
(* Properties.                                                              *)

\* The indices name cells and what is handed back is bytes.
TypeOK == /\ buf \in [Cells -> Byte]
          /\ ReadIndex \in Cells
          /\ WriteIndex \in Cells
          /\ got \in Seq(Byte)

\* The unread bytes, oldest first.
Unread(b, r, w) == [i \in 1..Used(r, w) |-> b[Wrap(r + i - 1)]]

Contents == Unread(buf, ReadIndex, WriteIndex)

\* The ring is a FIFO of Size - 1 bytes: every call of ringbuf.c is a step of
\* the queue that ByteFifo describes, and the one its name says, over any wrap of the indices and with
\* bytes pushed out by RingBufAdvanceWrite.
Fifo == INSTANCE ByteFifo WITH queue <- Contents, Capacity <- Size - 1
FifoSpec == Fifo!Spec

\* RingBufPeek on a ring that holds something looks at the byte that
\* RingBufReadOne will return, as PTS_GetMsg relies on for the length byte.
PeekIsNextRead ==
  Used(ReadIndex, WriteIndex) > 0 =>
    /\ GetAtAccepts(ReadIndex, WriteIndex, 0)
    /\ PeekCell(ReadIndex, WriteIndex) = ReadIndex

\* The blocks a client may touch in place: RingBufContigUsed cells from the
\* read index all hold unread bytes and lie inside the buffer, and
\* RingBufContigFree cells from the write index hold none of them; when no
\* block is offered the ring is empty, or full.
ContigBlocksSound ==
  LET r == ReadIndex
      w == WriteIndex
      unread == {Wrap(r + i) : i \in 0..(Used(r, w) - 1)}
  IN /\ {r + i : i \in 0..(ContigUsed(r, w) - 1)} \subseteq unread
     /\ {w + i : i \in 0..(ContigFree(r, w) - 1)} \subseteq Cells \ unread
     /\ ContigUsed(r, w) = 0 <=> Empty(r, w)
     /\ ContigFree(r, w) = 0 <=> Full(r, w)

\* What the functions that look ahead show a client is what it will read, and where it may write.
LookAheadSound == PeekIsNextRead /\ ContigBlocksSound
=============================================================================

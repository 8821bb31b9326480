------------------------------- MODULE CircBuf -------------------------------
(***************************************************************************)
(* The ring of src/src/CIRCBUF.CPP, as its steps: a byte is put or taken   *)
(* first and counted afterwards, and counting is a load and a store.       *)
(***************************************************************************)
EXTENDS Integers, Sequences

CONSTANT Size   \* bytes allocated: the ring has a cell less

ASSUME SizeAssumption == Size \in Nat /\ Size > 1

getsize == Size - 1
Cells == 0..getsize - 1

\* circbuf(size) and init.
EmptyRing == [cells |-> [i \in Cells |-> 0], get |-> 0, put |-> 0, space |-> getsize]

Advanced(p) == IF p + 1 >= getsize THEN 0 ELSE p + 1

getcount(b) == getsize - b.space

\* Mutant: a byte more is let in.
IsFullLate(b) == b.space < 0

\* insert: whether there is no room.
IsFull(b) == b.space = 0

\* insert, when space says there is room, up to its count.
PutByte(b, c) == [b EXCEPT !.cells[b.put] = c, !.put = Advanced(b.put)]

\* remove: what it takes for an empty ring.
IsEmpty(b) == b.space # 0 /\ b.get = b.put

\* remove up to its count.
peek(b) == b.cells[b.get]
GetByte(b) == [b EXCEPT !.get = Advanced(b.get)]

\* The last n bytes put.
Unread(b, n) == [i \in 1..n |-> LET at == b.put - n + i - 1
                                IN b.cells[IF at < 0 THEN at + getsize ELSE at]]
=============================================================================

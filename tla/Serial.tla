------------------------------- MODULE Serial --------------------------------
(***************************************************************************)
(* The serial port: the ComPort object of src/src/comport.cpp, its thread, *)
(* and the main program that uses it through the COM_ functions of         *)
(* winlib.cpp. The thread moves what the driver has received into a ring   *)
(* and main takes it out, without a lock between them; Start, Stop and the *)
(* thread's Process exclude each other. The driver is external.            *)
(***************************************************************************)
EXTENDS CircBuf

CONSTANTS Sent,       \* bound: bytes the other side sends: 1, 2, and so on
          Packet      \* how many bytes a Read takes at most

ASSUME PacketAssumption == Packet \in Nat \ {0}

VARIABLES com,        \* the object: null, made, deleted
          fConnected,
          handles,    \* the handles open: id, osRead, osWrite
          mask,       \* whether the driver notifies received bytes
          event,      \* driver: a byte has come since the last WaitCommEvent
          dev,        \* driver: bytes received and not read
          next,       \* the byte the other side sends next
          _mutex,     \* who holds it: main, thread, none
          thread,     \* none, suspended, loop, wait, lock, read, put, load, store, wild
          packet,     \* the bytes of a Read not yet in the ring
          tspace,     \* the thread's register while it counts
          crxbuf,     \* the ring
          main,       \* where main is: idle, remove, load, store, masked, stopped, end
          mspace,     \* main's register while it counts
          inserted, got,   \* history: bytes put into the ring, and taken out of it
          torn,       \* history: whether a count was lost between a load and a store
          phantom,    \* history: whether main was refused a byte of a ring that was not full
          behind      \* history: whether a Read failed, or met more than it can take

objVars == <<com, fConnected, handles, mask>>
devVars == <<event, dev, next>>
thrVars == <<thread, packet, tspace>>
manVars == <<main, mspace>>
ringHist == <<inserted, got, torn, phantom>>
vars == <<objVars, devVars, _mutex, thrVars, crxbuf, manVars, ringHist, behind>>

Count == Len(inserted) - Len(got)

Init ==
  /\ com = "null" /\ fConnected = FALSE /\ handles = {} /\ mask = FALSE
  /\ event = FALSE /\ dev = <<>> /\ next = 1
  /\ _mutex = "none"
  /\ thread = "none" /\ packet = <<>> /\ tspace = 0
  /\ crxbuf = EmptyRing
  /\ main = "idle" /\ mspace = 0
  /\ inserted = <<>> /\ got = <<>> /\ torn = FALSE /\ phantom = FALSE
  /\ behind = FALSE

-----------------------------------------------------------------------------
(* Opening and closing.                                                     *)

\* How Start may end, and the handles it leaves: CreateFile may fail; SetCommMask, which
\* leaves the device open; what comes after, which closes it.
Started == {[ok |-> FALSE, left |-> {}, on |-> FALSE], [ok |-> FALSE, left |-> {"id"}, on |-> FALSE],
            [ok |-> TRUE, left |-> {"id", "osRead", "osWrite"}, on |-> TRUE]}

\* COM_Init: Start, and Resume where it was successful.
COM_Init ==
  /\ main = "idle" /\ com = "null"
  /\ com' = "made"
  /\ \E s \in Started : /\ fConnected' = s.ok /\ handles' = s.left /\ mask' = s.on
                        /\ thread' = IF s.ok THEN "loop" ELSE "suspended"
  /\ UNCHANGED <<devVars, _mutex, packet, tspace, crxbuf, manVars, ringHist, behind>>

\* Mutant: Stop does not wait for Process.
StopAtOnce == TRUE

StopMay == _mutex = "none"

\* Stop of a port that is not open.
StopNothing ==
  /\ main = "idle" /\ com = "made" /\ StopMay /\ ~fConnected
  /\ main' = "stopped"
  /\ UNCHANGED <<objVars, devVars, _mutex, thrVars, crxbuf, mspace, ringHist, behind>>

\* Stop: notification off, by which a thread that waits wakes up.
StopMask ==
  /\ main = "idle" /\ com = "made" /\ StopMay /\ fConnected
  /\ _mutex' = "main" /\ main' = "masked" /\ mask' = FALSE
  /\ UNCHANGED <<com, fConnected, handles, devVars, thrVars, crxbuf, mspace, ringHist, behind>>

Closed == handles \ {"id", "osRead"}

\* What the driver holds is purged.
StopClose ==
  /\ main = "masked"
  /\ handles' = Closed /\ fConnected' = FALSE
  /\ dev' = <<>> /\ event' = FALSE
  /\ _mutex' = "none" /\ main' = "stopped"
  /\ UNCHANGED <<com, mask, next, thrVars, crxbuf, mspace, ringHist, behind>>

\* COM_Term after its Sleep: the object is deleted, and nobody has told the thread.
Delete ==
  /\ main = "stopped"
  /\ com' = "deleted" /\ main' = "end"
  /\ UNCHANGED <<fConnected, handles, mask, devVars, _mutex, thrVars, crxbuf, mspace, ringHist, behind>>

-----------------------------------------------------------------------------
(* Main receives.                                                           *)

KeepMain == UNCHANGED <<objVars, devVars, _mutex, thrVars, behind>>

\* COM_recv_char is called: scripts poll it without a look at COM_recv_count.
COM_recv_char ==
  /\ main = "idle" /\ com = "made"
  /\ main' = "remove"
  /\ UNCHANGED <<mspace, crxbuf, ringHist>> /\ KeepMain

\* An empty ring, or one that is full and not yet counted so.
RemoveNothing ==
  /\ main = "remove" /\ IsEmpty(crxbuf)
  /\ main' = "idle" /\ phantom' = (phantom \/ Count \in 1..getsize - 1)
  /\ UNCHANGED <<mspace, crxbuf, inserted, got, torn>> /\ KeepMain

Remove ==
  /\ main = "remove" /\ ~IsEmpty(crxbuf)
  /\ crxbuf' = GetByte(crxbuf) /\ got' = Append(got, peek(crxbuf))
  /\ main' = "load"
  /\ UNCHANGED <<mspace, inserted, torn, phantom>> /\ KeepMain

RemoveLoad ==
  /\ main = "load"
  /\ mspace' = crxbuf.space /\ main' = "store"
  /\ UNCHANGED <<crxbuf, ringHist>> /\ KeepMain

RemoveStore ==
  /\ main = "store"
  /\ crxbuf' = [crxbuf EXCEPT !.space = mspace + 1]
  /\ torn' = (torn \/ crxbuf.space # mspace)
  /\ main' = "idle" /\ mspace' = 0
  /\ UNCHANGED <<inserted, got, phantom>> /\ KeepMain

-----------------------------------------------------------------------------
(* The thread.                                                              *)

KeepThread == UNCHANGED <<com, fConnected, handles, mask, manVars>>
Runs == com = "made"

Loop ==
  /\ Runs /\ thread = "loop" /\ fConnected
  /\ thread' = "wait"
  /\ UNCHANGED <<devVars, _mutex, packet, tspace, crxbuf, ringHist, behind>> /\ KeepThread

\* WaitCommEvent returns: a byte has come, or notification is off.
WaitCommEvent ==
  /\ Runs /\ thread = "wait" /\ (event \/ ~mask)
  /\ thread' = IF event THEN "lock" ELSE "loop"
  /\ event' = FALSE
  /\ UNCHANGED <<dev, next, _mutex, packet, tspace, crxbuf, ringHist, behind>> /\ KeepThread

Acquire ==
  /\ Runs /\ thread = "lock" /\ _mutex = "none"
  /\ _mutex' = "thread" /\ thread' = "read"
  /\ UNCHANGED <<devVars, packet, tspace, crxbuf, ringHist, behind>> /\ KeepThread

\* Mutant: the last byte is left.
ReadLengthShort == IF Len(dev) > Packet THEN Packet ELSE IF Len(dev) > 1 THEN Len(dev) - 1 ELSE Len(dev)

ReadLength == IF Len(dev) > Packet THEN Packet ELSE Len(dev)

\* Process reads what the driver has, as far as its packet goes. An error reads nothing.
Read ==
  /\ Runs /\ thread = "read"
  /\ \E n \in {0, ReadLength} :
       /\ packet' = SubSeq(dev, 1, n) /\ dev' = SubSeq(dev, n + 1, Len(dev))
       /\ behind' = (behind \/ (n = 0 /\ dev # <<>>) \/ Len(dev) > Packet)
  /\ thread' = "put"
  /\ UNCHANGED <<event, next, _mutex, tspace, crxbuf, ringHist>> /\ KeepThread

\* RxWrite: a byte for which there is no room is dropped.
Drop ==
  /\ Runs /\ thread = "put" /\ packet # <<>> /\ IsFull(crxbuf)
  /\ packet' = Tail(packet)
  /\ UNCHANGED <<devVars, _mutex, thread, tspace, crxbuf, inserted, got, torn, phantom, behind>> /\ KeepThread

Insert ==
  /\ Runs /\ thread = "put" /\ packet # <<>> /\ ~IsFull(crxbuf)
  /\ crxbuf' = PutByte(crxbuf, Head(packet)) /\ inserted' = Append(inserted, Head(packet))
  /\ packet' = Tail(packet) /\ thread' = "load"
  /\ UNCHANGED <<devVars, _mutex, tspace, got, torn, phantom, behind>> /\ KeepThread

InsertLoad ==
  /\ Runs /\ thread = "load"
  /\ tspace' = crxbuf.space /\ thread' = "store"
  /\ UNCHANGED <<devVars, _mutex, packet, crxbuf, ringHist, behind>> /\ KeepThread

InsertStore ==
  /\ Runs /\ thread = "store"
  /\ crxbuf' = [crxbuf EXCEPT !.space = tspace - 1]
  /\ torn' = (torn \/ crxbuf.space # tspace)
  /\ thread' = "put" /\ tspace' = 0
  /\ UNCHANGED <<devVars, _mutex, packet, inserted, got, phantom, behind>> /\ KeepThread

Release ==
  /\ Runs /\ thread = "put" /\ packet = <<>>
  /\ _mutex' = "none" /\ thread' = "loop"
  /\ UNCHANGED <<devVars, packet, tspace, crxbuf, ringHist, behind>> /\ KeepThread

\* The object is gone and the thread goes on reading it: nothing is known of it any more.
Wild ==
  /\ com = "deleted" /\ thread \notin {"suspended", "wild"}
  /\ thread' = "wild"
  /\ UNCHANGED <<devVars, _mutex, packet, tspace, crxbuf, ringHist, behind>> /\ KeepThread

\* A byte comes in.
Arrive ==
  /\ "id" \in handles /\ next <= Sent
  /\ dev' = Append(dev, next) /\ event' = (event \/ mask) /\ next' = next + 1
  /\ UNCHANGED <<objVars, _mutex, thrVars, crxbuf, manVars, ringHist, behind>>

MainStep == COM_Init \/ StopNothing \/ StopMask \/ StopClose \/ Delete
            \/ COM_recv_char \/ RemoveNothing \/ Remove \/ RemoveLoad \/ RemoveStore
ThreadStep == Loop \/ WaitCommEvent \/ Acquire \/ Read \/ Drop \/ Insert \/ InsertLoad \/ InsertStore
              \/ Release \/ Wild
Next == MainStep \/ ThreadStep \/ Arrive

\* The thread is scheduled again and again, and main does not stay inside Stop.
Spec == Init /\ [][Next]_vars /\ WF_vars(ThreadStep) /\ WF_vars(StopClose)

-----------------------------------------------------------------------------
(* Properties.                                                              *)

\* The indices name cells, space is one more than there is at most, for a byte taken before
\* it was counted, and who holds the mutex is where it may be held.
SerialTypeOK ==
  /\ crxbuf.get \in Cells /\ crxbuf.put \in Cells
  /\ ~torn => crxbuf.space \in 0..getsize + 1
  /\ _mutex = "main" <=> main = "masked"
  /\ Runs => (_mutex = "thread" <=> thread \in {"read", "put", "load", "store"})

\* Main takes out the bytes that were put in, each once and in order, whichever steps of
\* the two threads come between each other: as long as no count is lost between the load
\* and the store of a thread while the other one counts.
FifoUnlessTorn ==
  ~torn => /\ Count \in 0..getsize
           /\ inserted = got \o Unread(crxbuf, Count)

\* The count runs behind the bytes put in and, until main has counted as well, ahead of
\* those it has taken. So a call of COM_recv_count tells of no byte that is not there, but
\* may tell of one less, of -1 where a script has taken the one byte there was; and remove
\* finds a byte whenever there is one, but at one moment: when the last cell has been
\* filled and not been counted, it takes the full ring for empty.
CountedIsThere ==
  ~torn => /\ ~phantom
           /\ getcount(crxbuf) = Count + (IF main \in {"load", "store"} THEN 1 ELSE 0)
                                       - (IF thread \in {"load", "store"} THEN 1 ELSE 0)

\* What the ring promises two threads that share it without a lock, until a count is torn.
RingSound == SerialTypeOK /\ FifoUnlessTorn /\ CountedIsThere

\* Once Stop has closed the port nothing more gets into the ring: Stop waits for Process.
NothingAfterStop == [][inserted' # inserted => fConnected]_vars

\* What the driver has received gets out of it while the port is open: no byte waits for
\* the next one to be noticed, unless a Read failed or met more than its packet holds.
ArrivalsTaken == (dev # <<>> /\ ~behind) ~> (dev = <<>> \/ behind \/ ~fConnected)
=============================================================================

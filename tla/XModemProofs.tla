---------------------------- MODULE XModemProofs ----------------------------
(***************************************************************************)
(* Proofs about XModem: that it implements FileTransfer over every line,   *)
(* for every file of fewer blocks than there are packet numbers, and for a *)
(* file of any length when the numbers outlast the tries for the first     *)
(* frame; that its locals stay in their ranges; what a refused frame means *)
(* for the rest of the transfer, and which undamaged frames are refused.   *)
(***************************************************************************)
EXTENDS XModem, SetInduction, TLAPS

SenderPcs == {"off", "sync", "can", "send", "ack", "flush", "end", "eot", "done"}
ReceiverPcs == {"off", "try", "wait", "can", "frame", "flush", "done"}

Senders == [pc : SenderPcs, block : 1..(N + 1), crc : BOOLEAN, tries : Int, wait : Int,
            result : SendResults \cup {"none"}]
Receivers == [pc : ReceiverPcs, try : {"C", "NAK", "none"}, crc : BOOLEAN, retry : Int,
              retrans : Int, wait : Int, result : RecvResults \cup {"none"}]

\* What may be on its way to the receiver: a frame carries a block of the file.
Element == {x \in [kind : Bytes \ {"timeout"}, block : 0..N, crc : BOOLEAN, good : BOOLEAN] :
              (x.kind = "SOH" => x.block # 0) /\ (x.good => x.kind = "SOH")}

\* The sender sends no block past the end of the file, and has no result before
\* it has ended.
SenderInv == /\ s \in Senders
             /\ s.pc \in {"send", "ack"} => s.block <= N
             /\ s.pc # "done" => s.result = "none"

ReceiverInv == /\ r \in Receivers
               /\ r.pc # "done" => r.result = "none"

LineInv == toR \in Seq(Element)

FileInv == file \in Seq(1..N) /\ Len(file) <= N

\* The inductive invariant.
Inv == SenderInv /\ ReceiverInv /\ LineInv /\ FileInv

-----------------------------------------------------------------------------
(* The line.                                                                *)

\* Any byte but the first of a frame is an element.
LEMMA ByteType ==
  ASSUME NEW kind \in Bytes \ {"SOH", "timeout"}
  PROVE  Byte(kind) \in Element
BY CountsAssumption DEF Byte, Element

\* Stray bytes are elements of the line.
LEMMA StrayType ==
  ASSUME NEW n \in Nat
  PROVE  Strays(n) \in Seq(Element)
<1>1. Byte("stray") \in Element
  BY ByteType DEF Bytes
<1> DEFINE x == Byte("stray")
<1> HIDE DEF x, Element
<1>2. [i \in 1..n |-> x] \in Seq(Element)
  BY <1>1 DEF x
<1>3. QED
  BY <1>2 DEF Strays, x

\* Damage makes elements of elements.
LEMMA DamagedType ==
  ASSUME NEW x \in Seq(Element), x # <<>>, NEW kind \in FaultsToR, NEW y \in Damaged(kind, x)
  PROVE  y \in Seq(Element)
<1>1. Head(x) \in Element /\ Tail(x) \in Seq(Element)
  BY HeadTailProperties
<1>2. CASE kind = "lost"
  BY <1>1, <1>2 DEF Damaged
<1>3. CASE kind = "garbled"
  <2> DEFINE h == IF Head(x) = Frame THEN [Frame EXCEPT !.good = FALSE] ELSE Byte("stray")
  <2>1. h \in Element
    <3>1. CASE Head(x) = Frame
      <4>1. [Frame EXCEPT !.good = FALSE] \in Element
        BY <1>1, <3>1 DEF Element
      <4>2. QED
        BY <3>1, <4>1
    <3>2. CASE Head(x) # Frame
      BY <3>2, ByteType DEF Bytes
    <3>3. QED
      BY <3>1, <3>2
  <2>2. y = <<h>> \o Tail(x)
    BY <1>3 DEF Damaged
  <2> HIDE DEF h
  <2>3. <<h>> \in Seq(Element)
    BY <2>1
  <2>4. QED
    BY <1>1, <2>2, <2>3, ConcatProperties
<1>4. CASE kind = "headless"
  BY <1>4, StrayType, CountsAssumption DEF Damaged
<1>5. QED
  BY <1>2, <1>3, <1>4, FaultsAssumption

\* What is sent to the receiver stays what it may be.
LEMMA SendsKeeps ==
  ASSUME LineInv, NEW x \in Seq(Element), x # <<>>, Sends(x)
  PROVE  LineInv'
<1>1. ASSUME NEW y \in Seq(Element)
      PROVE  Carried(toR, y, r) \in Seq(Element)
  BY <1>1, ConcatProperties DEF Carried, LineInv
<1>2. CASE toR' = Carried(toR, x, r)
  BY <1>1, <1>2 DEF LineInv
<1>3. CASE Fault(FaultsToR, x, toR, r)
  <2>1. PICK kind \in FaultsToR : \E y \in Damaged(kind, x) : toR' = Carried(toR, y, r)
    BY <1>3 DEF Fault
  <2>2. PICK y \in Damaged(kind, x) : toR' = Carried(toR, y, r)
    BY <2>1
  <2>3. y \in Seq(Element)
    BY <2>2, DamagedType
  <2>4. QED
    BY <1>1, <2>2, <2>3 DEF LineInv
<1>4. QED
  BY <1>2, <1>3 DEF Sends

\* A line with more on it is a line.
LEMMA JoinType ==
  ASSUME NEW x \in Seq(Element), NEW y \in Seq(Element)
  PROVE  x \o y \in Seq(Element) /\ Len(x \o y) = Len(x) + Len(y)
<1> HIDE DEF Element
<1>1. QED
  BY ConcatProperties, Zenon

\* A control byte and the bytes of a cancellation are a line, not an empty one.
LEMMA SaysType ==
  /\ \A kind \in Bytes \ {"SOH", "timeout"} : Says(kind) \in Seq(Element) /\ Says(kind) # <<>>
  /\ Cans \in Seq(Element) /\ Cans # <<>>
<1>1. ASSUME NEW kind \in Bytes \ {"SOH", "timeout"}
      PROVE  Says(kind) \in Seq(Element) /\ Says(kind) # <<>> /\ Len(Says(kind)) = 1
  BY ByteType DEF Says
<1>2. Says("CAN") \in Seq(Element) /\ Len(Says("CAN")) = 1
  BY <1>1 DEF Bytes
<1>3. ASSUME NEW x \in Seq(Element), Len(x) = 1
      PROVE  (x \o x) \o x \in Seq(Element) /\ (x \o x) \o x # <<>>
  <2>1. x \o x \in Seq(Element) /\ Len(x \o x) = Len(x) + Len(x)
    BY JoinType, Zenon
  <2>2. (x \o x) \o x \in Seq(Element) /\ Len((x \o x) \o x) = Len(x \o x) + Len(x)
    BY <2>1, JoinType, Zenon
  <2>3. Len((x \o x) \o x) = 3
    BY <1>3, <2>1, <2>2
  <2>4. QED
    BY <2>2, <2>3
<1>4. Cans \in Seq(Element) /\ Cans # <<>>
  BY <1>2, <1>3, Zenon DEF Cans
<1>5. QED
  BY <1>1, <1>4

-----------------------------------------------------------------------------
(* The sender.                                                              *)

\* The sender's ways of going on.
LEMMA ToType ==
  ASSUME NEW a \in Senders, NEW pc \in SenderPcs, NEW w \in Int
  PROVE  /\ To(a, pc, w) \in Senders
         /\ To(a, pc, w).pc = pc /\ To(a, pc, w).block = a.block /\ To(a, pc, w).result = a.result
BY DEF To, Senders

\* The sender that ends has its result.
LEMMA EndsType ==
  ASSUME NEW a \in Senders, NEW result \in SendResults
  PROVE  /\ Ends(a, result) \in Senders
         /\ Ends(a, result).pc = "done" /\ Ends(a, result).result = result
<1> DEFINE b == To(a, "done", 0)
<1>1. b \in Senders /\ b.pc = "done"
  BY ToType DEF SenderPcs
<1>2. Ends(a, result) = [b EXCEPT !.result = result]
  BY DEF Ends
<1> HIDE DEF b
<1>3. QED
  BY <1>1, <1>2 DEF Senders

\* The sender that retries stays at its block.
LEMMA RetryType ==
  ASSUME s \in Senders, NEW pc \in SenderPcs, NEW w \in Int
  PROVE  /\ Retry(pc, w) \in Senders
         /\ Retry(pc, w).pc = pc /\ Retry(pc, w).block = s.block /\ Retry(pc, w).result = s.result
<1> DEFINE b == To(s, pc, w)
<1>1. b \in Senders /\ b.pc = pc /\ b.block = s.block /\ b.result = s.result
  BY ToType
<1>2. Retry(pc, w) = [b EXCEPT !.tries = b.tries + 1]
  BY DEF Retry
<1> HIDE DEF b
<1>3. QED
  BY <1>1, <1>2 DEF Senders

\* The sender that goes on sends the next block if there is one.
LEMMA NextBlockType ==
  ASSUME NEW a \in Senders
  PROVE  /\ NextBlock(a) \in Senders
         /\ NextBlock(a).pc \in {"send", "end"} /\ (NextBlock(a).pc = "send" => a.block <= N)
         /\ NextBlock(a).block = a.block /\ NextBlock(a).result = a.result
<1> DEFINE pc == IF a.block <= N THEN "send" ELSE "end"
           b == To(a, pc, 0)
<1>1. pc \in SenderPcs /\ pc \in {"send", "end"} /\ (pc = "send" => a.block <= N)
  BY DEF SenderPcs
<1> HIDE DEF pc
<1>2. b \in Senders /\ b.pc = pc /\ b.block = a.block /\ b.result = a.result
  BY <1>1, ToType
<1>3. NextBlock(a) = [b EXCEPT !.tries = 0]
  BY DEF NextBlock, pc
<1> HIDE DEF b
<1>4. QED
  BY <1>1, <1>2, <1>3 DEF Senders

\* One step of the sender, as FileTransfer sees it.
SenderResult == \/ s'.result = s.result
                \/ s.result = "none" /\ s'.result \in SendResults

\* A step that leads to a is a good one.
LEMMA SenderGoesOn ==
  ASSUME SenderInv, NEW a \in Senders, s' = a, a.result = s.result,
         s.pc # "done", a.pc \in {"send", "ack"} => a.block <= N
  PROVE  SenderInv' /\ SenderResult
BY DEF SenderInv, SenderResult

\* A sender that waits elsewhere keeps its invariant.
LEMMA SenderMoves ==
  ASSUME SenderInv, s.pc # "done", NEW w \in Int,
         NEW pc \in {"sync", "can", "flush", "end", "eot"}, s' = To(s, pc, w)
  PROVE  SenderInv' /\ SenderResult
<1>1. s \in Senders /\ pc \in SenderPcs
  BY DEF SenderInv, SenderPcs
<1>2. To(s, pc, w) \in Senders /\ To(s, pc, w).pc = pc /\ To(s, pc, w).result = s.result
  BY <1>1, ToType
<1>3. QED
  BY <1>2, SenderGoesOn

\* A sender that retries keeps its invariant.
LEMMA SenderRetries ==
  ASSUME SenderInv, s.pc # "done", NEW w \in Int,
         NEW pc \in {"sync", "send", "end"}, s' = Retry(pc, w), pc = "send" => s.block <= N
  PROVE  SenderInv' /\ SenderResult
<1>1. s \in Senders /\ pc \in SenderPcs
  BY DEF SenderInv, SenderPcs
<1>2. /\ Retry(pc, w) \in Senders /\ Retry(pc, w).pc = pc
      /\ Retry(pc, w).block = s.block /\ Retry(pc, w).result = s.result
  BY <1>1, RetryType
<1>3. QED
  BY <1>2, SenderGoesOn

\* A sender that ends keeps its invariant.
LEMMA SenderEnds ==
  ASSUME SenderInv, NEW result \in SendResults, s' = Ends(s, result), s.pc # "done"
  PROVE  SenderInv' /\ SenderResult
<1>1. s' \in Senders /\ s'.pc = "done" /\ s'.result = result
  BY EndsType DEF SenderInv
<1>2. QED
  BY <1>1 DEF SenderInv, SenderResult

\* Every step of the sender keeps the invariant and leaves the receiver alone.
LEMMA SenderKeeps ==
  ASSUME SenderInv, LineInv, SenderNext
  PROVE  SenderInv' /\ LineInv' /\ SenderResult /\ r' = r /\ file' = file
<1> USE DEF SenderStep
<1>0. /\ s \in Senders /\ N \in Nat /\ s.block \in 1..(N + 1)
      /\ AckWait \in Int /\ PollWait \in Int /\ CanWait \in Int /\ FlushWait \in Int
  BY CountsAssumption DEF SenderInv, Senders, AckWait, PollWait, CanWait, FlushWait
<1>1. CASE BeginSend
  <2>1. s' = To(s, "sync", PollWait) /\ s.pc = "off" /\ toR' = toR /\ r' = r /\ file' = file
    BY <1>1 DEF BeginSend
  <2>2. QED
    BY <1>0, <2>1, SenderMoves DEF LineInv
<1>2. CASE NoSync
  <2>1. s' = Ends(s, "no sync") /\ s.pc = "sync" /\ r' = r /\ file' = file /\ Sends(Cans)
    BY <1>2 DEF NoSync
  <2>2. QED
    BY <2>1, SenderEnds, SendsKeeps, SaysType DEF SendResults
<1>3. CASE SendBlock
  <2>1. s' = To(s, "ack", AckWait) /\ s.pc = "send" /\ r' = r /\ file' = file /\ Sends(<<Frame>>)
    BY <1>3 DEF SendBlock
  <2>2. s.block <= N
    BY <2>1 DEF SenderInv
  <2>3. Frame \in Element
    BY <1>0, <2>2 DEF Frame, Element, Bytes, Senders
  <2>4. <<Frame>> \in Seq(Element) /\ <<Frame>> # <<>>
    BY <2>3
  <2>5. /\ To(s, "ack", AckWait) \in Senders /\ To(s, "ack", AckWait).pc = "ack"
        /\ To(s, "ack", AckWait).block = s.block /\ To(s, "ack", AckWait).result = s.result
    <3>1. "ack" \in SenderPcs
      BY DEF SenderPcs
    <3>2. QED
      BY <1>0, <3>1, ToType, Zenon
  <2>6. LineInv'
    BY <2>1, <2>4, SendsKeeps
  <2>7. SenderInv' /\ SenderResult
    BY <2>1, <2>2, <2>5, SenderGoesOn
  <2>8. QED
    BY <2>1, <2>6, <2>7
<1>4. CASE GiveUp
  <2>1. s' = To(s, "flush", FlushWait) /\ s.pc = "send" /\ r' = r /\ file' = file /\ Sends(Cans)
    BY <1>4 DEF GiveUp
  <2>2. QED
    BY <1>0, <2>1, SenderMoves, SendsKeeps, SaysType
<1>5. CASE SendEot
  <2>1. s' = To(s, "eot", PollWait) /\ s.pc = "end" /\ r' = r /\ file' = file /\ Sends(Says("EOT"))
    BY <1>5 DEF SendEot
  <2>3. Says("EOT") \in Seq(Element) /\ Says("EOT") # <<>>
    BY SaysType DEF Bytes
  <2>4. QED
    BY <1>0, <2>1, <2>3, SenderMoves, SendsKeeps
<1>6. CASE NoAnswer
  <2>1. s' = Ends(s, "no answer") /\ s.pc = "end" /\ r' = r /\ file' = file /\ toR' = toR
    BY <1>6 DEF NoAnswer
  <2>2. QED
    BY <2>1, SenderEnds DEF SendResults, LineInv
<1>7. ASSUME NEW c \in Bytes, Sync(c)
      PROVE  SenderInv' /\ LineInv' /\ SenderResult /\ r' = r /\ file' = file
  <2>1. s.pc = "sync" /\ toR' = toR /\ r' = r /\ file' = file
    BY <1>7 DEF Sync
  <2>2. CASE c \in {"C", "NAK"}
    <3> DEFINE a == [s EXCEPT !.crc = (c = "C")]
    <3>1. a \in Senders /\ a.block = s.block /\ a.result = s.result
      BY <1>0 DEF Senders
    <3>2. s' = NextBlock(a)
      BY <1>7, <2>2 DEF Sync
    <3> HIDE DEF a
    <3>3. QED
      BY <2>1, <3>1, <3>2, NextBlockType, SenderGoesOn DEF LineInv
  <2>3. CASE c = "CAN"
    <3>1. s' = To(s, "can", CanWait)
      BY <1>7, <2>3 DEF Sync
    <3>2. QED
      BY <1>0, <2>1, <3>1, SenderMoves DEF LineInv
  <2>4. CASE c \notin {"C", "NAK", "CAN"}
    <3>1. s' = Resync
      BY <1>7, <2>4 DEF Sync
    <3>2. QED
      BY <2>1, <3>1, SenderRetries DEF Resync, LineInv, PollWait
  <2>5. QED
    BY <2>2, <2>3, <2>4
<1>8. ASSUME NEW c \in Bytes, SyncCan(c)
      PROVE  SenderInv' /\ LineInv' /\ SenderResult /\ r' = r /\ file' = file
  <2>1. s.pc = "can"
    BY <1>8 DEF SyncCan
  <2>2. CASE c = "CAN"
    <3>1. s' = Ends(s, "cancelled") /\ r' = r /\ file' = file /\ Sends(Says("ACK"))
      BY <1>8, <2>2 DEF SyncCan
    <3>2. Says("ACK") \in Seq(Element) /\ Says("ACK") # <<>>
      BY SaysType DEF Bytes
    <3>3. QED
      BY <2>1, <3>1, <3>2, SenderEnds, SendsKeeps DEF SendResults
  <2>3. CASE c # "CAN"
    <3>1. s' = Resync /\ r' = r /\ file' = file /\ toR' = toR
      BY <1>8, <2>3 DEF SyncCan
    <3>2. QED
      BY <2>1, <3>1, SenderRetries DEF Resync, LineInv, PollWait
  <2>4. QED
    BY <2>2, <2>3
<1>9. ASSUME NEW c \in Bytes, AckOf(c)
      PROVE  SenderInv' /\ LineInv' /\ SenderResult /\ r' = r /\ file' = file
  <2>1. s.pc = "ack" /\ s.block <= N
    BY <1>9 DEF AckOf, SenderInv
  <2>2. CASE c = "CAN"
    <3>1. s' = Ends(s, "cancelled") /\ r' = r /\ file' = file /\ Sends(Says("ACK"))
      BY <1>9, <2>2 DEF AckOf
    <3>2. Says("ACK") \in Seq(Element) /\ Says("ACK") # <<>>
      BY SaysType DEF Bytes
    <3>3. QED
      BY <2>1, <3>1, <3>2, SenderEnds, SendsKeeps DEF SendResults
  <2>3. CASE c = "ACK"
    <3> DEFINE a == [s EXCEPT !.block = @ + 1]
    <3>1. a \in Senders /\ a.result = s.result
      <4>1. s.block + 1 \in 1..(N + 1)
        BY <1>0, <2>1
      <4>2. QED
        BY <1>0, <4>1 DEF Senders
    <3>2. s' = NextBlock(a) /\ r' = r /\ file' = file /\ toR' = toR
      BY <1>9, <2>3 DEF AckOf
    <3> HIDE DEF a
    <3>3. QED
      BY <2>1, <3>1, <3>2, NextBlockType, SenderGoesOn DEF LineInv
  <2>4. CASE c \notin {"CAN", "ACK"}
    <3>1. s' = Retry("send", 0) /\ r' = r /\ file' = file /\ toR' = toR
      BY <1>9, <2>4 DEF AckOf
    <3>2. QED
      BY <2>1, <3>1, SenderRetries DEF LineInv
  <2>5. QED
    BY <2>2, <2>3, <2>4
<1>10. ASSUME NEW c \in Bytes, SendFlush(c)
       PROVE  SenderInv' /\ LineInv' /\ SenderResult /\ r' = r /\ file' = file
  <2>1. s.pc = "flush" /\ r' = r /\ file' = file /\ toR' = toR
    BY <1>10 DEF SendFlush
  <2>2. CASE c = "timeout"
    <3>1. s' = Ends(s, "xmit error")
      BY <1>10, <2>2 DEF SendFlush
    <3>2. QED
      BY <2>1, <3>1, SenderEnds DEF SendResults, LineInv
  <2>3. CASE c # "timeout"
    <3>1. s' = To(s, "flush", FlushWait)
      BY <1>10, <2>3 DEF SendFlush
    <3>2. QED
      BY <1>0, <2>1, <3>1, SenderMoves DEF LineInv
  <2>4. QED
    BY <2>2, <2>3
<1>11. ASSUME NEW c \in Bytes, EotAnswer(c)
       PROVE  SenderInv' /\ LineInv' /\ SenderResult /\ r' = r /\ file' = file
  <2>1. s.pc = "eot" /\ r' = r /\ file' = file /\ toR' = toR
    BY <1>11 DEF EotAnswer
  <2>2. CASE c = "ACK"
    <3>1. s' = Ends(s, "success")
      BY <1>11, <2>2 DEF EotAnswer
    <3>2. QED
      BY <2>1, <3>1, SenderEnds DEF SendResults, LineInv
  <2>3. CASE c # "ACK"
    <3>1. s' = Retry("end", 0)
      BY <1>11, <2>3 DEF EotAnswer
    <3>2. QED
      BY <2>1, <3>1, SenderRetries DEF LineInv
  <2>4. QED
    BY <2>2, <2>3
<1>12. QED
  BY <1>1, <1>2, <1>3, <1>4, <1>5, <1>6, <1>7, <1>8, <1>9, <1>10, <1>11 DEF SenderNext

-----------------------------------------------------------------------------
(* The receiver.                                                            *)

\* The receiver's ways of going on.
LEMMA RecvToType ==
  ASSUME NEW a \in Receivers, NEW pc \in ReceiverPcs, NEW w \in Int
  PROVE  To(a, pc, w) \in Receivers /\ To(a, pc, w).pc = pc /\ To(a, pc, w).result = a.result
BY DEF To, Receivers

\* The receiver that ends has its result.
LEMMA RecvEndsType ==
  ASSUME NEW a \in Receivers, NEW result \in RecvResults
  PROVE  /\ Ends(a, result) \in Receivers
         /\ Ends(a, result).pc = "done" /\ Ends(a, result).result = result
<1> DEFINE b == To(a, "done", 0)
<1>1. b \in Receivers /\ b.pc = "done"
  BY RecvToType DEF ReceiverPcs
<1>2. Ends(a, result) = [b EXCEPT !.result = result]
  BY DEF Ends
<1> HIDE DEF b
<1>3. QED
  BY <1>1, <1>2 DEF Receivers

\* The receiver that tries again has no result yet.
LEMMA TryType ==
  ASSUME NEW a \in Receivers
  PROVE  /\ Outer(a) \in Receivers /\ Outer(a).result = a.result
         /\ NextTry(a) \in Receivers /\ NextTry(a).result = a.result
<1> DEFINE b == To(a, "try", 0)
<1>1. b \in Receivers /\ b.result = a.result
  BY RecvToType DEF ReceiverPcs
<1>2. Outer(a) = [b EXCEPT !.retry = 0] /\ NextTry(a) = [b EXCEPT !.retry = b.retry + 1]
  BY DEF Outer, NextTry
<1> HIDE DEF b
<1>3. QED
  BY <1>1, <1>2 DEF Receivers

\* The receiver that has seen the first byte of a frame has no result yet.
LEMMA StartedType ==
  ASSUME r \in Receivers
  PROVE  Started \in Receivers /\ Started.result = r.result
BY DEF Started, Receivers

\* What the receiver takes from the line leaves elements on it.
LEMMA TakesKeeps ==
  ASSUME LineInv, NEW c, Takes(c)
  PROVE  LineInv'
<1>1. CASE toR = <<>>
  BY <1>1 DEF Takes, LineInv
<1>2. CASE toR # <<>>
  BY <1>2, HeadTailProperties DEF Takes, LineInv
<1>3. QED
  BY <1>1, <1>2

\* A frame that is passed by leaves elements on it.
LEMMA CanFrameKeeps ==
  ASSUME LineInv, RecvCanFrame
  PROVE  LineInv'
<1>1. toR # <<>> /\ toR \in Seq(Element) /\ toR' = Strays(FrameBytes - 1) \o Tail(toR)
  BY DEF RecvCanFrame, LineInv
<1>2. Tail(toR) \in Seq(Element)
  BY <1>1, HeadTailProperties
<1>3. Strays(FrameBytes - 1) \in Seq(Element)
  BY StrayType, CountsAssumption
<1>4. QED
  BY <1>1, <1>2, <1>3, JoinType DEF LineInv

\* A frame it takes carries a block of the file.
LEMMA TakesFrame ==
  ASSUME LineInv, Takes("SOH"), Head(toR).good
  PROVE  toR # <<>> /\ Head(toR).kind = "SOH" /\ Head(toR).block \in 1..N
<1>1. toR # <<>>
  BY DEF Takes
<1>2. Head(toR) \in Element
  BY <1>1, HeadTailProperties DEF LineInv
<1>3. QED
  BY <1>1, <1>2, CountsAssumption DEF Element

\* While the packet number does not wrap, the next frame carries the next block.
LEMMA NextIsNext ==
  ASSUME N < Modulus, FileInv, NEW x, x.block \in 1..N, IsNext(x)
  PROVE  x.block = Len(file) + 1
<1>1. N \in Nat /\ Modulus \in Nat \ {0} /\ Len(file) + 1 \in 1..(N + 1)
  BY CountsAssumption DEF FileInv
<1>2. x.block % Modulus = x.block
  BY <1>1
<1>3. CASE Len(file) + 1 < Modulus
  <2>1. (Len(file) + 1) % Modulus = Len(file) + 1
    BY <1>1, <1>3
  <2>2. QED
    BY <1>2, <2>1 DEF IsNext, Number, Expected
<1>4. CASE Len(file) + 1 = Modulus
  <2>1. (Len(file) + 1) % Modulus = 0
    BY <1>1, <1>4
  <2>2. QED
    BY <1>2, <2>1 DEF IsNext, Number, Expected
<1>5. QED
  BY <1>1, <1>3, <1>4

\* One step of the receiver, as FileTransfer sees it.
Writes == /\ r.result = "none" /\ r'.result = "none"
          /\ Len(file) < N
          /\ file' = Append(file, Len(file) + 1)
ReceiverResult == \/ r'.result = r.result
                  \/ r.result = "none" /\ r'.result \in RecvResults
ReceiverEffect == Writes \/ (file' = file /\ ReceiverResult)

\* A step that leads to a and writes nothing is a good one.
LEMMA ReceiverGoesOn ==
  ASSUME ReceiverInv, FileInv, r.pc # "done", NEW a \in Receivers, r' = a,
         a.result = r.result, file' = file
  PROVE  ReceiverInv' /\ FileInv' /\ ReceiverEffect
BY DEF ReceiverInv, FileInv, ReceiverEffect, ReceiverResult

\* A receiver that ends keeps its invariant.
LEMMA ReceiverEnds ==
  ASSUME ReceiverInv, FileInv, r.pc # "done", NEW a \in Receivers, NEW result \in RecvResults,
         r' = Ends(a, result), file' = file
  PROVE  ReceiverInv' /\ FileInv' /\ ReceiverEffect
<1>1. r' \in Receivers /\ r'.pc = "done" /\ r'.result = result
  BY RecvEndsType
<1>2. QED
  BY <1>1 DEF ReceiverInv, FileInv, ReceiverEffect, ReceiverResult

\* A frame with the next number carries the next block.
InOrder == (r.pc = "wait" /\ toR # <<>> /\ Head(toR).kind = "SOH" /\ IsNext(Head(toR))) =>
             Head(toR).block = Len(file) + 1

\* A frame that is taken is the next block or changes no file.
LEMMA AcceptKeeps ==
  ASSUME ReceiverInv, LineInv, FileInv, InOrder, Accept
  PROVE  ReceiverInv' /\ LineInv' /\ FileInv' /\ ReceiverEffect /\ s' = s
<1> DEFINE x == Head(toR)
           left == (IF IsNext(x) THEN MaxRetrans + 1 ELSE r.retrans) - 1
           locals == [Started EXCEPT !.retrans = left]
<1>1. r.pc = "wait" /\ Takes("SOH") /\ s' = s
  BY DEF Accept, ReceiverStep
<1>2. LineInv' /\ toR # <<>> /\ x.kind = "SOH" /\ x.block \in 1..N
  <2>1. x.good
    BY DEF Accept, Acceptable
  <2>2. QED
    BY <1>1, <2>1, TakesKeeps, TakesFrame
<1>3. MaxRetrans \in Nat /\ MaxRetrans > 0 /\ r \in Receivers /\ r.retrans \in Int /\ r.result = "none"
  BY <1>1, CountsAssumption DEF ReceiverInv, Receivers
<1>4. left \in Int /\ (IsNext(x) => left > 0)
  BY <1>3
<1>5. /\ file' = IF IsNext(x) THEN Append(file, x.block) ELSE file
      /\ r' = IF left <= 0 THEN Ends(locals, "too many retries") ELSE Outer(locals)
  BY DEF Accept, ReceiverStep
<1> HIDE DEF left, x
<1>6. locals \in Receivers /\ locals.result = r.result
  <2>1. Started \in Receivers /\ Started.result = r.result
    BY <1>3, StartedType
  <2>2. QED
    BY <1>4, <2>1 DEF Receivers
<1> HIDE DEF locals
<1>7. CASE IsNext(x)
  <2>1. x.block = Len(file) + 1
    BY <1>1, <1>2, <1>7 DEF InOrder, x
  <2>2. file' = Append(file, Len(file) + 1) /\ Len(file) < N /\ Len(file) + 1 \in 1..N
    <3>1. file' = Append(file, x.block)
      BY <1>5, <1>7, Zenon
    <3>2. Len(file) + 1 \in 1..N /\ Len(file) \in Nat /\ N \in Nat
      BY <1>2, <2>1, CountsAssumption DEF FileInv
    <3>3. file' = Append(file, Len(file) + 1)
      BY <2>1, <3>1, Zenon
    <3>4. Len(file) < N
      BY <3>2
    <3>5. QED
      BY <3>2, <3>3, <3>4
  <2>3. FileInv'
    <3>1. file \in Seq(1..N) /\ Len(file) \in Nat /\ N \in Nat
      BY CountsAssumption DEF FileInv
    <3>2. file' \in Seq(1..N)
      BY <2>2, <3>1, AppendProperties, Zenon
    <3>3. Len(file') = Len(file) + 1
      BY <2>2, <3>1, AppendProperties, Zenon
    <3>4. QED
      BY <2>2, <3>1, <3>2, <3>3 DEF FileInv
  <2>4. r' = Outer(locals)
    <3>1. left \in Int /\ left > 0
      BY <1>4, <1>7, Zenon
    <3>2. ~(left <= 0)
      BY <3>1
    <3>3. QED
      BY <1>5, <3>2, Zenon
  <2>5. r' \in Receivers /\ r'.result = "none"
    <3>1. Outer(locals) \in Receivers /\ Outer(locals).result = locals.result
      BY <1>6, TryType, Zenon
    <3>2. QED
      BY <1>3, <1>6, <2>4, <3>1
  <2>6. QED
    BY <1>1, <1>2, <1>3, <2>2, <2>3, <2>5 DEF ReceiverInv, ReceiverEffect, Writes
<1>8. CASE ~IsNext(x)
  <2>1. file' = file
    BY <1>5, <1>8
  <2>2. CASE left <= 0
    <3>1. r' = Ends(locals, "too many retries")
      BY <1>5, <2>2
    <3>2. "too many retries" \in RecvResults
      BY DEF RecvResults
    <3>3. QED
      BY <1>1, <1>2, <1>6, <2>1, <3>1, <3>2, ReceiverEnds
  <2>3. CASE ~(left <= 0)
    <3>1. r' = Outer(locals)
      BY <1>5, <2>3
    <3>2. QED
      BY <1>1, <1>2, <1>6, <2>1, <3>1, TryType, ReceiverGoesOn
  <2>4. QED
    BY <2>2, <2>3
<1>9. QED
  BY <1>7, <1>8

\* Every step of the receiver keeps the invariant and leaves the sender alone.
LEMMA ReceiverKeeps ==
  ASSUME ReceiverInv, LineInv, FileInv, InOrder, ReceiverNext
  PROVE  ReceiverInv' /\ LineInv' /\ FileInv' /\ ReceiverEffect /\ s' = s
<1> USE DEF ReceiverStep
<1>0. /\ r \in Receivers
      /\ PollWait \in Int /\ CanWait \in Int /\ FrameWait \in Int /\ FlushWait \in Int
      /\ "wait" \in ReceiverPcs /\ "can" \in ReceiverPcs
      /\ "frame" \in ReceiverPcs /\ "flush" \in ReceiverPcs
      /\ {"sync error", "success", "cancelled"} \subseteq RecvResults
  BY DEF ReceiverInv, PollWait, CanWait, FrameWait, FlushWait, ReceiverPcs, RecvResults
<1>a. \A p \in ReceiverPcs, v \in Int : To(r, p, v) \in Receivers /\ To(r, p, v).result = r.result
  <2>1. r \in Receivers
    BY <1>0
  <2>2. QED
    BY <2>1, RecvToType
<1>1. CASE BeginRecv
  <2>1. r.pc # "done" /\ r' = Outer(r) /\ toR' = toR /\ file' = file /\ s' = s
    BY <1>1 DEF BeginRecv
  <2>2. QED
    BY <1>0, <2>1, TryType, ReceiverGoesOn DEF LineInv
<1>2. CASE Try
  <2>1. r.pc # "done" /\ r' = To(r, "wait", PollWait) /\ toR' = toR /\ file' = file /\ s' = s
    BY <1>2 DEF Try
  <2>2. To(r, "wait", PollWait) \in Receivers /\ To(r, "wait", PollWait).result = r.result
    BY <1>0, <1>a
  <2>3. QED
    BY <2>1, <2>2, ReceiverGoesOn DEF LineInv
<1>3. CASE TryNak
  <2> DEFINE a == [r EXCEPT !.try = "NAK"]
  <2>1. r.pc # "done" /\ r' = Outer(a) /\ toR' = toR /\ file' = file /\ s' = s
    BY <1>3 DEF TryNak
  <2>2. a \in Receivers /\ a.result = r.result
    BY <1>0 DEF Receivers
  <2> HIDE DEF a
  <2>3. QED
    BY <2>1, <2>2, TryType, ReceiverGoesOn DEF LineInv
<1>4. CASE SyncError
  <2>1. r.pc # "done" /\ r' = Ends(r, "sync error") /\ toR' = toR /\ file' = file /\ s' = s
    BY <1>4 DEF SyncError
  <2>2. QED
    BY <1>0, <2>1, ReceiverEnds DEF LineInv
<1>5. CASE Accept
  BY <1>5, AcceptKeeps
<1>6. ASSUME NEW pc \in {"flush", "frame"}, Refuse(pc)
      PROVE  ReceiverInv' /\ LineInv' /\ FileInv' /\ ReceiverEffect /\ s' = s
  <2> DEFINE w == IF pc = "frame" THEN FrameWait ELSE FlushWait
  <2>1. r.pc # "done" /\ r' = To(Started, pc, w) /\ file' = file /\ s' = s
    BY <1>6 DEF Refuse
  <2>2. LineInv'
    BY <1>6, TakesKeeps DEF Refuse
  <2>3. Started \in Receivers /\ Started.result = r.result
    BY <1>0, StartedType
  <2>4. w \in Int /\ pc \in ReceiverPcs
    BY <1>0
  <2> HIDE DEF w
  <2>5. To(Started, pc, w) \in Receivers /\ To(Started, pc, w).result = r.result
    BY <2>3, <2>4, RecvToType
  <2>6. QED
    BY <2>1, <2>2, <2>5, ReceiverGoesOn
<1>7. CASE RecvEot
  <2>1. r.pc # "done" /\ r' = Ends(r, "success") /\ file' = file /\ s' = s
    BY <1>7 DEF RecvEot
  <2>2. LineInv'
    BY <1>7, TakesKeeps DEF RecvEot
  <2>3. QED
    BY <1>0, <2>1, <2>2, ReceiverEnds
<1>8. ASSUME NEW c \in Bytes, RecvFlush(c)
      PROVE  ReceiverInv' /\ LineInv' /\ FileInv' /\ ReceiverEffect /\ s' = s
  <2>1. r.pc # "done" /\ file' = file /\ s' = s
    BY <1>8 DEF RecvFlush
  <2>2. LineInv'
    BY <1>8, TakesKeeps DEF RecvFlush
  <2>3. \/ r' = Outer(r)
        \/ r' = To(r, "flush", FlushWait)
    BY <1>8 DEF RecvFlush
  <2>4. /\ To(r, "flush", FlushWait) \in Receivers
        /\ To(r, "flush", FlushWait).result = r.result
    BY <1>0, <1>a
  <2>5. QED
    BY <1>0, <2>1, <2>2, <2>3, <2>4, TryType, ReceiverGoesOn
<1>9. ASSUME NEW c \in Bytes, Other(c)
      PROVE  ReceiverInv' /\ LineInv' /\ FileInv' /\ ReceiverEffect /\ s' = s
  <2>1. r.pc # "done" /\ file' = file /\ s' = s
    BY <1>9 DEF Other
  <2>2. LineInv'
    BY <1>9, TakesKeeps DEF Other
  <2>3. \/ r' = NextTry(r)
        \/ r' = To(r, "can", CanWait)
    BY <1>9 DEF Other
  <2>4. /\ To(r, "can", CanWait) \in Receivers
        /\ To(r, "can", CanWait).result = r.result
    BY <1>0, <1>a
  <2>5. QED
    BY <1>0, <2>1, <2>2, <2>3, <2>4, TryType, ReceiverGoesOn
<1>10. ASSUME NEW c \in Bytes, RecvCan(c)
       PROVE  ReceiverInv' /\ LineInv' /\ FileInv' /\ ReceiverEffect /\ s' = s
  <2>1. r.pc # "done" /\ file' = file /\ s' = s
    BY <1>10 DEF RecvCan
  <2>2. LineInv'
    BY <1>10, TakesKeeps DEF RecvCan
  <2>3. CASE r' = NextTry(r)
    BY <1>0, <2>1, <2>2, <2>3, TryType, ReceiverGoesOn
  <2>4. CASE r' = Ends(r, "cancelled")
    BY <1>0, <2>1, <2>2, <2>4, ReceiverEnds
  <2>5. QED
    BY <1>10, <2>3, <2>4 DEF RecvCan
<1>11. ASSUME NEW c \in Bytes, RecvFrame(c)
       PROVE  ReceiverInv' /\ LineInv' /\ FileInv' /\ ReceiverEffect /\ s' = s
  <2>1. r.pc # "done" /\ file' = file /\ s' = s
    BY <1>11 DEF RecvFrame
  <2>2. LineInv'
    BY <1>11, TakesKeeps DEF RecvFrame
  <2>3. r' = To(r, "flush", FlushWait) \/ r' = To(r, "frame", FrameWait)
    BY <1>11 DEF RecvFrame
  <2>4. /\ To(r, "flush", FlushWait) \in Receivers
        /\ To(r, "flush", FlushWait).result = r.result
        /\ To(r, "frame", FrameWait) \in Receivers
        /\ To(r, "frame", FrameWait).result = r.result
    BY <1>0, <1>a
  <2>5. QED
    BY <1>0, <2>1, <2>2, <2>3, <2>4, ReceiverGoesOn
<1>12. CASE RecvCanFrame
  <2>1. r.pc # "done" /\ file' = file /\ s' = s /\ r' = NextTry(r)
    BY <1>12 DEF RecvCanFrame
  <2>2. LineInv'
    BY <1>12, CanFrameKeeps
  <2>3. QED
    BY <1>0, <2>1, <2>2, TryType, ReceiverGoesOn
<1>13. QED
  BY <1>1, <1>2, <1>3, <1>4, <1>5, <1>6, <1>7, <1>8, <1>9, <1>10, <1>11, <1>12 DEF ReceiverNext

-----------------------------------------------------------------------------
(* Time, and the whole.                                                     *)

\* Time changes only how long a side still waits.
LEMMA TickKeeps ==
  ASSUME SenderInv, ReceiverInv, Tick
  PROVE  SenderInv' /\ ReceiverInv' /\ s'.result = s.result /\ r'.result = r.result
<1>1. s \in Senders /\ r \in Receivers
  BY DEF SenderInv, ReceiverInv
<1> DEFINE waits == {side \in {s, r} : side.wait > 0}
           first == CHOOSE x \in waits : \A y \in waits : x.wait <= y.wait
           after(side) == IF side.wait > 0 THEN [side EXCEPT !.wait = @ - first.wait] ELSE side
<1>2. \E x \in waits : \A y \in waits : x.wait <= y.wait
  <2>1. waits # {}
    BY DEF Tick
  <2>2. s.wait \in Int /\ r.wait \in Int
    BY <1>1 DEF Senders, Receivers
  <2>3. QED
    BY <2>1, <2>2
<1>3. first \in {s, r}
  BY <1>2
<1>4. first.wait \in Int
  BY <1>1, <1>3 DEF Senders, Receivers
<1>5. s' = after(s) /\ r' = after(r)
  BY Zenon DEF Tick
<1> HIDE DEF first
<1>6. after(s) \in Senders /\ after(s).pc = s.pc /\ after(s).block = s.block
      /\ after(s).result = s.result
  BY <1>1, <1>4 DEF Senders
<1>7. after(r) \in Receivers /\ after(r).pc = r.pc /\ after(r).result = r.result
  BY <1>1, <1>4 DEF Receivers
<1>8. QED
  BY <1>5, <1>6, <1>7 DEF SenderInv, ReceiverInv

\* The invariant holds at the start, and the start is one of a transfer.
LEMMA InvInit == Init => Inv /\ Transfer!Init
<1> SUFFICES ASSUME Init PROVE Inv /\ Transfer!Init
  OBVIOUS
<1>1. N \in Nat /\ MaxRetrans \in Nat
  BY CountsAssumption
<1>2. SenderInv
  BY <1>1 DEF Init, SenderInv, Senders, SenderPcs
<1>3. ReceiverInv
  BY <1>1 DEF Init, ReceiverInv, Receivers, ReceiverPcs
<1>4. LineInv /\ FileInv /\ Transfer!Init
  BY <1>1 DEF Init, LineInv, FileInv, Transfer!Init
<1>5. QED
  BY <1>2, <1>3, <1>4 DEF Inv

\* Every step keeps the invariant, and is a step of FileTransfer or none.
LEMMA StepMaps ==
  ASSUME InOrder, Inv, [Next]_vars
  PROVE  Inv' /\ [Transfer!Next]_Transfer!vars
<1> USE DEF Inv
<1>1. CASE SenderNext
  <2>1. SenderInv' /\ LineInv' /\ SenderResult /\ r' = r /\ file' = file
    BY <1>1, SenderKeeps
  <2>2. Inv'
    BY <2>1 DEF ReceiverInv, FileInv
  <2>3. [Transfer!Next]_Transfer!vars
    BY <2>1 DEF SenderResult, Transfer!Next, Transfer!EndSend, Transfer!vars
  <2>4. QED
    BY <2>2, <2>3
<1>2. CASE ReceiverNext
  <2>1. ReceiverInv' /\ LineInv' /\ FileInv' /\ ReceiverEffect /\ s' = s
    BY <1>2, ReceiverKeeps
  <2>2. Inv'
    BY <2>1 DEF SenderInv
  <2>3. [Transfer!Next]_Transfer!vars
    BY <2>1 DEF ReceiverEffect, Writes, ReceiverResult, Transfer!Next, Transfer!Write,
                Transfer!EndRecv, Transfer!vars
  <2>4. QED
    BY <2>2, <2>3
<1>3. CASE Tick
  <2>1. SenderInv' /\ ReceiverInv' /\ s'.result = s.result /\ r'.result = r.result
    BY <1>3, TickKeeps
  <2>2. toR' = toR /\ file' = file
    BY <1>3 DEF Tick
  <2>3. QED
    BY <2>1, <2>2 DEF LineInv, FileInv, Transfer!vars
<1>4. CASE UNCHANGED vars
  BY <1>4 DEF vars, SenderInv, ReceiverInv, LineInv, FileInv, Transfer!vars
<1>5. QED
  BY <1>1, <1>2, <1>3, <1>4 DEF Next

\* Whatever the line loses, damages or turns into stray bytes, the receiver writes
\* the blocks of the file in order and each once, and each side ends once with a
\* result, for every file that fits in one round of packet numbers.
THEOREM TransferHolds ==
  ASSUME N < Modulus
  PROVE  Spec => TransferSpec
<1>1. ASSUME Inv PROVE InOrder
  <2>1. ASSUME toR # <<>>, Head(toR).kind = "SOH" PROVE Head(toR).block \in 1..N
    <3>1. Head(toR) \in Element
      BY <1>1, <2>1, HeadTailProperties DEF Inv, LineInv
    <3>2. QED
      BY <2>1, <3>1, CountsAssumption DEF Element
  <2>2. QED
    BY <1>1, <2>1, NextIsNext DEF InOrder, Inv
<1>2. Inv /\ [Next]_vars => Inv' /\ [Transfer!Next]_Transfer!vars
  BY <1>1, StepMaps
<1>3. QED
  BY <1>2, InvInit, PTL DEF Spec, TransferSpec, Transfer!Spec

-----------------------------------------------------------------------------
(* The ranges of the locals, for every file.                                *)

\* How many tries may have been counted at a place of the sender's, and how
\* long it may still wait there.
TriesAt(pc) == CASE pc = "sync" -> MaxTry [] pc = "can" -> MaxTry - 1
                 [] pc = "send" -> MaxRetrans [] pc = "ack" -> MaxRetrans - 1
                 [] pc = "end" -> MaxEot [] pc = "eot" -> MaxEot - 1
                 [] pc = "off" -> 0 [] OTHER -> MaxTry + MaxRetrans + MaxEot
WaitAt(pc) == CASE pc = "ack" -> AckWait [] pc = "send" -> 0 [] OTHER -> PollWait

SenderCounts(a) == a.tries \in 0..TriesAt(a.pc) /\ a.wait \in 0..WaitAt(a.pc)

ReceiverCounts(a) ==
  /\ a.retry \in 0..(IF a.pc \in {"wait", "can", "frame", "flush"} THEN MaxTry - 1 ELSE MaxTry)
  /\ a.retrans \in (IF a.pc = "done" THEN 0 ELSE 1)..MaxRetrans
  /\ a.wait \in 0..PollWait

\* The inductive invariant that bounds the locals.
CountInv == /\ SenderInv /\ LineInv /\ r \in Receivers
            /\ SenderCounts(s) /\ ReceiverCounts(r)
            /\ file \in Seq(1..N) /\ faults \in 0..MaxFaults

\* The limits of the code in units of the clock.
LEMMA Bounds ==
  /\ MaxTry \in Nat /\ MaxTry > 0 /\ MaxRetrans \in Nat /\ MaxRetrans > 0
  /\ MaxEot \in Nat /\ MaxEot > 0 /\ N \in Nat /\ MaxFaults \in Nat
  /\ AckWait = 2 /\ PollWait = 4 /\ CanWait = 2 /\ FrameWait = 2 /\ FlushWait = 3
  /\ PollWait \in Nat /\ 0 \in 0..PollWait /\ 0 \in 0..MaxTry
BY CountsAssumption, FaultsAssumption DEF AckWait, PollWait, CanWait, FrameWait, FlushWait

\* A fault is counted only while there are some to come.
LEMMA FaultsCounted ==
  ASSUME faults \in 0..MaxFaults, SenderNext \/ ReceiverNext
  PROVE  faults' \in 0..MaxFaults
<1> DEFINE Counted == faults' = faults \/ (faults < MaxFaults /\ faults' = faults + 1)
<1>1. \A x : (Sends(x) => Counted) /\ (Answers(x) => Counted)
  BY DEF Sends, Answers, Fault
<1>2. UNCHANGED faults => Counted
  OBVIOUS
<1> SUFFICES Counted
  BY Bounds
<1> HIDE DEF Counted
<1>3. CASE SenderNext
  <2>1. ASSUME NEW c, Sync(c) \/ SyncCan(c) \/ AckOf(c) \/ SendFlush(c) \/ EotAnswer(c) PROVE Counted
    BY <1>1, <1>2, <2>1, Zenon DEF Sync, SyncCan, AckOf, SendFlush, EotAnswer
  <2>2. CASE BeginSend \/ NoSync \/ SendBlock \/ GiveUp \/ SendEot \/ NoAnswer
    BY <1>1, <1>2, <2>2 DEF BeginSend, NoSync, SendBlock, GiveUp, SendEot, NoAnswer
  <2>3. QED
    BY <1>3, <2>1, <2>2 DEF SenderNext
<1>4. CASE ReceiverNext
  <2>1. ASSUME NEW c, RecvFrame(c) \/ RecvFlush(c) \/ Other(c) \/ RecvCan(c) PROVE Counted
    BY <1>1, <1>2, <2>1, Zenon DEF RecvFrame, RecvFlush, Other, RecvCan
  <2>2. CASE \/ BeginRecv \/ Try \/ TryNak \/ SyncError \/ RecvEot \/ RecvCanFrame
             \/ \E pc \in {"flush", "frame"} : Refuse(pc)
    BY <1>1, <1>2, <2>2 DEF BeginRecv, Try, TryNak, SyncError, Refuse, RecvEot, RecvCanFrame
  <2>3. CASE Accept
    BY <1>1, <2>3 DEF Accept
  <2>4. QED
    BY <1>4, <2>1, <2>2, <2>3 DEF ReceiverNext
<1>5. QED
  BY <1>3, <1>4

\* The sender counts its tries at each place up to its own bound.
LEMMA SenderCountsKept ==
  ASSUME s \in Senders, SenderCounts(s), SenderNext
  PROVE  SenderCounts(s')
<1> USE Bounds DEF Senders, SenderCounts, TriesAt, WaitAt, SenderStep, To, Ends, SenderPcs
<1>1. CASE BeginSend
  BY <1>1 DEF BeginSend
<1>2. CASE NoSync
  BY <1>2 DEF NoSync
<1>3. CASE SendBlock
  BY <1>3 DEF SendBlock
<1>4. CASE GiveUp
  BY <1>4 DEF GiveUp
<1>5. CASE SendEot
  BY <1>5 DEF SendEot
<1>6. CASE NoAnswer
  BY <1>6 DEF NoAnswer
<1>7. ASSUME NEW c \in Bytes, Sync(c) PROVE SenderCounts(s')
  BY <1>7 DEF Sync, NextBlock, Resync, Retry
<1>8. ASSUME NEW c \in Bytes, SyncCan(c) PROVE SenderCounts(s')
  <2>1. s.pc = "can" /\ (s' = Ends(s, "cancelled") \/ s' = Resync)
    BY <1>8 DEF SyncCan
  <2>2. s.tries \in Nat /\ s.tries < MaxTry
    BY <2>1
  <2>3. CASE s' = Ends(s, "cancelled")
    BY <2>2, <2>3
  <2>4. CASE s' = Resync
    <3>1. s'.pc = "sync" /\ s'.tries = s.tries + 1 /\ s'.wait \in {PollWait, 0}
      BY <2>4 DEF Resync, Retry
    <3>2. QED
      BY <2>2, <3>1
  <2>5. QED
    BY <2>1, <2>3, <2>4
<1>9. ASSUME NEW c \in Bytes, AckOf(c) PROVE SenderCounts(s')
  <2>1. /\ s.pc = "ack"
        /\ \/ s' = Ends(s, "cancelled") \/ s' = Retry("send", 0)
           \/ s' = NextBlock([s EXCEPT !.block = @ + 1])
    BY <1>9 DEF AckOf
  <2>2. s.tries \in Nat /\ s.tries < MaxRetrans
    BY <2>1
  <2>3. CASE s' = Ends(s, "cancelled")
    BY <2>2, <2>3
  <2>4. CASE s' = Retry("send", 0)
    BY <2>2, <2>4 DEF Retry
  <2>5. CASE s' = NextBlock([s EXCEPT !.block = @ + 1])
    BY <2>5 DEF NextBlock
  <2>6. QED
    BY <2>1, <2>3, <2>4, <2>5
<1>10. ASSUME NEW c \in Bytes, SendFlush(c) PROVE SenderCounts(s')
  BY <1>10 DEF SendFlush
<1>11. ASSUME NEW c \in Bytes, EotAnswer(c) PROVE SenderCounts(s')
  BY <1>11 DEF EotAnswer, Retry
<1>12. QED
  BY <1>1, <1>2, <1>3, <1>4, <1>5, <1>6, <1>7, <1>8, <1>9, <1>10, <1>11 DEF SenderNext

\* Where a receiver goes it is, and waits.
LEMMA RecvPlace ==
  ASSUME NEW a \in Receivers, NEW pc, NEW w
  PROVE  To(a, pc, w).pc = pc /\ To(a, pc, w).wait = w
BY DEF To, Receivers

\* The fields of a receiver that goes on or ends.
LEMMA RecvFields ==
  ASSUME NEW a \in Receivers
  PROVE  /\ \A pc \in ReceiverPcs, w \in Int :
              /\ To(a, pc, w) \in Receivers /\ To(a, pc, w).pc = pc /\ To(a, pc, w).wait = w
              /\ To(a, pc, w).retry = a.retry /\ To(a, pc, w).retrans = a.retrans
         /\ \A result \in RecvResults :
              /\ Ends(a, result) \in Receivers /\ Ends(a, result).pc = "done"
              /\ Ends(a, result).wait = 0
              /\ Ends(a, result).retry = a.retry /\ Ends(a, result).retrans = a.retrans
         /\ Outer(a) \in Receivers /\ Outer(a).pc = "try" /\ Outer(a).wait = 0
         /\ Outer(a).retry = 0 /\ Outer(a).retrans = a.retrans
         /\ NextTry(a) \in Receivers /\ NextTry(a).pc = "try" /\ NextTry(a).wait = 0
         /\ NextTry(a).retry = a.retry + 1 /\ NextTry(a).retrans = a.retrans
<1>1. \A p \in ReceiverPcs, v \in Int :
        /\ To(a, p, v) \in Receivers /\ To(a, p, v).pc = p /\ To(a, p, v).wait = v
        /\ To(a, p, v).retry = a.retry /\ To(a, p, v).retrans = a.retrans
  BY DEF To, Receivers
<1>2. /\ Outer(a) \in Receivers /\ NextTry(a) \in Receivers
      /\ \A result \in RecvResults : Ends(a, result) \in Receivers
  BY TryType, RecvEndsType
<1>3. "try" \in ReceiverPcs /\ "done" \in ReceiverPcs /\ 0 \in Int
  BY DEF ReceiverPcs
<1>4. \A b \in Receivers :
        /\ \A q : [b EXCEPT !.retry = q].pc = b.pc /\ [b EXCEPT !.retry = q].wait = b.wait
                  /\ [b EXCEPT !.retry = q].retry = q /\ [b EXCEPT !.retry = q].retrans = b.retrans
        /\ \A q : [b EXCEPT !.result = q].pc = b.pc /\ [b EXCEPT !.result = q].wait = b.wait
                  /\ [b EXCEPT !.result = q].retry = b.retry /\ [b EXCEPT !.result = q].retrans = b.retrans
  BY DEF Receivers
<1>5. Outer(a).pc = "try" /\ Outer(a).wait = 0 /\ Outer(a).retry = 0 /\ Outer(a).retrans = a.retrans
  BY <1>1, <1>3, <1>4 DEF Outer
<1>6. /\ NextTry(a).pc = "try" /\ NextTry(a).wait = 0 /\ NextTry(a).retry = a.retry + 1
      /\ NextTry(a).retrans = a.retrans
  <2>1. NextTry(a) = [To(a, "try", 0) EXCEPT !.retry = To(a, "try", 0).retry + 1]
    BY DEF NextTry
  <2>2. QED
    BY <1>1, <1>3, <1>4, <2>1
<1>7. \A result : /\ Ends(a, result).pc = "done" /\ Ends(a, result).wait = 0
                   /\ Ends(a, result).retry = a.retry /\ Ends(a, result).retrans = a.retrans
  BY <1>1, <1>3, <1>4 DEF Ends
<1>8. QED
  BY <1>1, <1>2, <1>5, <1>6, <1>7

\* The steps of the receiver, by what it goes on with.
RecvMoves(a) ==
  \/ \E w \in {PollWait, CanWait, FrameWait, FlushWait}, pc \in {"wait", "can", "frame", "flush"} :
       r' = To(a, pc, w) /\ a.retry < MaxTry
  \/ \E result \in RecvResults : r' = Ends(a, result)
  \/ r' = Outer(a)
  \/ r' = NextTry(a) /\ a.retry < MaxTry

\* Each of them stays in the bounds.
LEMMA MovesCounted ==
  ASSUME NEW a \in Receivers, ReceiverCounts(a), RecvMoves(a), a.retrans > 0 \/ r'.pc = "done"
  PROVE  r' \in Receivers /\ ReceiverCounts(r')
<1>1. a.retry \in 0..MaxTry /\ a.retrans \in 0..MaxRetrans
  BY Bounds DEF ReceiverCounts
<1>2. ASSUME NEW w \in {PollWait, CanWait, FrameWait, FlushWait},
             NEW pc \in {"wait", "can", "frame", "flush"},
             r' = To(a, pc, w), a.retry < MaxTry
      PROVE  r' \in Receivers /\ ReceiverCounts(r')
  <2>1. w \in 0..PollWait /\ w \in Int /\ pc \in ReceiverPcs
    BY Bounds DEF ReceiverPcs
  <2>2. r' \in Receivers /\ r'.pc = pc /\ r'.wait = w /\ r'.retry = a.retry /\ r'.retrans = a.retrans
    BY <1>2, <2>1, RecvFields
  <2>3. QED
    BY <1>1, <1>2, <2>1, <2>2, Bounds DEF ReceiverCounts
<1>3. ASSUME NEW result \in RecvResults, r' = Ends(a, result)
      PROVE  r' \in Receivers /\ ReceiverCounts(r')
  <2>1. r' \in Receivers /\ r'.pc = "done" /\ r'.wait = 0 /\ r'.retry = a.retry /\ r'.retrans = a.retrans
    BY <1>3, RecvFields
  <2>2. QED
    BY <1>1, <2>1, Bounds DEF ReceiverCounts
<1>4. CASE r' = Outer(a)
  <2>1. r' \in Receivers /\ r'.pc = "try" /\ r'.wait = 0 /\ r'.retry = 0 /\ r'.retrans = a.retrans
    BY <1>4, RecvFields
  <2>2. QED
    BY <1>1, <2>1, Bounds DEF ReceiverCounts
<1>5. CASE r' = NextTry(a) /\ a.retry < MaxTry
  <2>1. /\ r' \in Receivers /\ r'.pc = "try" /\ r'.wait = 0 /\ r'.retry = a.retry + 1
        /\ r'.retrans = a.retrans
    BY <1>5, RecvFields
  <2>2. QED
    BY <1>1, <1>5, <2>1, Bounds DEF ReceiverCounts
<1>6. QED
  BY <1>2, <1>3, <1>4, <1>5 DEF RecvMoves

\* Nothing the receiver counts is in how blocks are checked.
LEMMA StartedCounts ==
  ASSUME r \in Receivers
  PROVE  /\ Started \in Receivers /\ Started.pc = r.pc /\ Started.retry = r.retry
         /\ Started.wait = r.wait /\ Started.retrans = r.retrans
         /\ \A n \in Int : LET a == [Started EXCEPT !.retrans = n]
                           IN /\ a \in Receivers /\ a.pc = r.pc /\ a.retry = r.retry
                              /\ a.wait = r.wait /\ a.retrans = n
<1>1. /\ Started \in Receivers /\ Started.pc = r.pc /\ Started.retry = r.retry
      /\ Started.wait = r.wait /\ Started.retrans = r.retrans
  BY DEF Started, Receivers
<1>2. QED
  BY <1>1 DEF Receivers

\* The receiver counts its tries up to its bounds, and what it writes are blocks of the file.
LEMMA ReceiverCountsKept ==
  ASSUME r \in Receivers, ReceiverCounts(r), LineInv, file \in Seq(1..N), ReceiverNext
  PROVE  r' \in Receivers /\ ReceiverCounts(r') /\ LineInv' /\ file' \in Seq(1..N) /\ s' = s
<1> USE DEF ReceiverStep
<1>1. /\ r.retry \in 0..MaxTry /\ r.retrans \in 0..MaxRetrans /\ r.wait \in 0..PollWait
      /\ r.pc # "done" => r.retrans > 0
      /\ r.pc \in {"wait", "can", "frame", "flush"} => r.retry < MaxTry
      /\ {"sync error", "too many retries", "cancelled", "success"} \subseteq RecvResults
  BY Bounds DEF ReceiverCounts, RecvResults
<1>2. ASSUME r.pc # "done", RecvMoves(r) PROVE r' \in Receivers /\ ReceiverCounts(r')
  BY <1>1, <1>2, MovesCounted
<1>3. CASE BeginRecv
  BY <1>2, <1>3 DEF BeginRecv, LineInv, RecvMoves
<1>4. CASE Try
  BY <1>1, <1>2, <1>4 DEF Try, LineInv, RecvMoves
<1>5. CASE TryNak
  <2> DEFINE a == [r EXCEPT !.try = "NAK"]
  <2>1. r.pc # "done" /\ r' = Outer(a) /\ toR' = toR /\ file' = file /\ s' = s
    BY <1>5 DEF TryNak
  <2>2. /\ a \in Receivers /\ a.pc = r.pc /\ a.retry = r.retry /\ a.retrans = r.retrans
        /\ a.wait = r.wait
    BY DEF Receivers
  <2> HIDE DEF a
  <2>3. ReceiverCounts(a) /\ a.retrans > 0 /\ RecvMoves(a)
    BY <1>1, <2>1, <2>2 DEF ReceiverCounts, RecvMoves
  <2>4. QED
    BY <2>1, <2>2, <2>3, MovesCounted DEF LineInv
<1>6. CASE SyncError
  BY <1>1, <1>2, <1>6 DEF SyncError, LineInv, RecvMoves
<1>7. CASE Accept
  <2> DEFINE x == Head(toR)
             left == (IF IsNext(x) THEN MaxRetrans + 1 ELSE r.retrans) - 1
             a == [Started EXCEPT !.retrans = left]
  <2>1. r.pc = "wait" /\ Takes("SOH") /\ s' = s /\ LineInv' /\ x.block \in 1..N
    <3>1. r.pc = "wait" /\ Takes("SOH") /\ s' = s
      BY <1>7 DEF Accept
    <3>2. x.good
      BY <1>7 DEF Accept, Acceptable
    <3>3. QED
      BY <3>1, <3>2, TakesKeeps, TakesFrame
  <2>2. file' = IF IsNext(x) THEN Append(file, x.block) ELSE file
    BY <1>7 DEF Accept
  <2>3. r' = IF left <= 0 THEN Ends(a, "too many retries") ELSE Outer(a)
    BY <1>7 DEF Accept
  <2> HIDE DEF x
  <2>4. file' \in Seq(1..N)
    <3>1. Append(file, x.block) \in Seq(1..N)
      BY <2>1, AppendProperties
    <3>2. QED
      BY <2>2, <3>1
  <2>5. left \in 0..MaxRetrans
    <3>1. r.retrans > 0 /\ r.retrans \in 0..MaxRetrans /\ MaxRetrans \in Nat /\ MaxRetrans > 0
      BY <1>1, <2>1, Bounds, Zenon
    <3>2. CASE IsNext(x)
      BY <3>1, <3>2
    <3>3. CASE ~IsNext(x)
      BY <3>1, <3>3
    <3>4. QED
      BY <3>2, <3>3
  <2> HIDE DEF left
  <2>6. /\ a \in Receivers /\ a.pc = "wait" /\ a.retry = r.retry /\ a.wait = r.wait
        /\ a.retrans = left
    BY <2>1, <2>5, Bounds, StartedCounts
  <2> HIDE DEF a
  <2>7. CASE left <= 0
    <3>1. r' \in Receivers /\ r'.pc = "done" /\ r'.wait = 0 /\ r'.retry = a.retry
          /\ r'.retrans = a.retrans
      BY <1>1, <2>3, <2>6, <2>7, RecvFields
    <3>2. r'.retry \in 0..MaxTry /\ r'.retrans \in 0..MaxRetrans /\ r'.wait \in 0..PollWait
      BY <1>1, <2>5, <2>6, <3>1, Bounds
    <3>3. ReceiverCounts(r')
      BY <3>1, <3>2 DEF ReceiverCounts
    <3>4. QED
      BY <2>1, <2>4, <3>1, <3>3
  <2>8. CASE ~(left <= 0)
    <3>1. r' \in Receivers /\ r'.pc = "try" /\ r'.wait = 0 /\ r'.retry = 0 /\ r'.retrans = a.retrans
      BY <1>1, <2>3, <2>6, <2>8, RecvFields
    <3>2. left > 0
      BY <2>5, <2>8
    <3>3. r'.retry \in 0..MaxTry /\ r'.retrans \in 0..MaxRetrans /\ r'.retrans > 0
      BY <2>5, <2>6, <3>1, <3>2, Bounds
    <3>4. r'.wait \in 0..PollWait
      BY <3>1, Bounds
    <3>5. ReceiverCounts(r')
      <4>1. r'.retrans \in 1..MaxRetrans
        BY <3>3, Bounds
      <4>2. QED
        BY <3>1, <3>3, <3>4, <4>1 DEF ReceiverCounts
    <3>6. QED
      BY <2>1, <2>4, <3>1, <3>5
  <2>9. QED
    BY <2>7, <2>8
<1>8. ASSUME NEW pc \in {"flush", "frame"}, Refuse(pc)
      PROVE  r' \in Receivers /\ ReceiverCounts(r') /\ LineInv' /\ file' = file /\ s' = s
  <2>1. /\ LineInv' /\ r.pc = "wait"
        /\ r' = To(Started, "flush", FlushWait) \/ r' = To(Started, "frame", FrameWait)
        /\ file' = file /\ s' = s
    BY <1>8, TakesKeeps DEF Refuse
  <2>2. /\ Started \in Receivers /\ Started.pc = r.pc /\ Started.retry = r.retry
        /\ Started.wait = r.wait /\ Started.retrans = r.retrans
    BY StartedCounts
  <2>3. ReceiverCounts(Started) /\ Started.retrans > 0 /\ RecvMoves(Started)
    BY <1>1, <2>1, <2>2 DEF ReceiverCounts, RecvMoves
  <2>4. QED
    BY <2>1, <2>2, <2>3, MovesCounted
<1>9. CASE RecvEot
  <2>1. LineInv'
    BY <1>9, TakesKeeps DEF RecvEot
  <2>2. QED
    BY <1>1, <1>2, <1>9, <2>1 DEF RecvEot, RecvMoves
<1>10. ASSUME NEW c \in Bytes, RecvFrame(c) \/ RecvFlush(c) \/ Other(c) \/ RecvCan(c)
       PROVE  r' \in Receivers /\ ReceiverCounts(r') /\ LineInv' /\ file' = file /\ s' = s
  <2>1. LineInv'
    BY <1>10, TakesKeeps DEF RecvFrame, RecvFlush, Other, RecvCan
  <2>2. r.pc \in {"wait", "can", "frame", "flush"} /\ file' = file /\ s' = s
    BY <1>10 DEF RecvFrame, RecvFlush, Other, RecvCan
  <2>3. RecvMoves(r)
    BY <1>1, <1>10, <2>2 DEF RecvFrame, RecvFlush, Other, RecvCan, RecvMoves
  <2>4. QED
    BY <1>2, <2>1, <2>2, <2>3
<1>11. CASE RecvCanFrame
  <2>1. r.pc = "can" /\ r' = NextTry(r) /\ file' = file /\ s' = s
    BY <1>11 DEF RecvCanFrame
  <2>2. RecvMoves(r)
    BY <1>1, <2>1 DEF RecvMoves
  <2>3. QED
    BY <1>2, <1>11, <2>1, <2>2, CanFrameKeeps
<1>12. QED
  BY <1>3, <1>4, <1>5, <1>6, <1>7, <1>8, <1>9, <1>10, <1>11 DEF ReceiverNext

\* Time is taken from both waits in step, and leaves none of them below 0.
LEMMA TimePasses ==
  ASSUME s \in Senders, r \in Receivers, s.wait >= 0, r.wait >= 0, Tick
  PROVE  \E d \in Nat : /\ d > 0
                        /\ s' = IF s.wait > 0 THEN [s EXCEPT !.wait = s.wait - d] ELSE s
                        /\ r' = IF r.wait > 0 THEN [r EXCEPT !.wait = r.wait - d] ELSE r
                        /\ s.wait > 0 => s.wait >= d
                        /\ r.wait > 0 => r.wait >= d
<1> DEFINE waits == {side \in {s, r} : side.wait > 0}
           first == CHOOSE x \in waits : \A y \in waits : x.wait <= y.wait
           after(side) == IF side.wait > 0 THEN [side EXCEPT !.wait = @ - first.wait] ELSE side
<1>1. s.wait \in Int /\ r.wait \in Int
  BY DEF Senders, Receivers
<1>2. \E x \in waits : \A y \in waits : x.wait <= y.wait
  <2>1. waits # {}
    BY DEF Tick
  <2>2. QED
    BY <1>1, <2>1
<1>3. first \in waits /\ \A y \in waits : first.wait <= y.wait
  BY <1>2
<1>4. s' = after(s) /\ r' = after(r)
  BY Zenon DEF Tick
<1> HIDE DEF first
<1>5. first.wait \in Nat /\ first.wait > 0
  BY <1>1, <1>3
<1>6. QED
  BY <1>1, <1>3, <1>4, <1>5

\* The counts are in their ranges at the start.
LEMMA CountInit == Init => CountInv
<1> SUFFICES ASSUME Init PROVE CountInv
  OBVIOUS
<1>1. SenderInv /\ LineInv /\ r \in Receivers
  BY InvInit DEF Inv, ReceiverInv
<1>2. SenderCounts(s) /\ ReceiverCounts(r)
  BY Bounds DEF Init, SenderCounts, ReceiverCounts, TriesAt, WaitAt
<1>3. file \in Seq(1..N) /\ faults \in 0..MaxFaults
  BY Bounds, EmptySeq DEF Init
<1>4. QED
  BY <1>1, <1>2, <1>3 DEF CountInv

\* Every step keeps the counts in their ranges.
LEMMA CountKept == CountInv /\ [Next]_vars => CountInv'
<1> SUFFICES ASSUME CountInv, [Next]_vars PROVE CountInv'
  OBVIOUS
<1> USE DEF CountInv
<1>1. CASE SenderNext
  <2>1. s \in Senders
    BY DEF SenderInv
  <2>2. SenderInv' /\ LineInv' /\ r' = r /\ file' = file
    BY <1>1, SenderKeeps
  <2>3. SenderCounts(s') /\ faults' \in 0..MaxFaults
    BY <1>1, <2>1, SenderCountsKept, FaultsCounted
  <2>4. QED
    BY <2>2, <2>3
<1>2. CASE ReceiverNext
  BY <1>2, ReceiverCountsKept, FaultsCounted DEF SenderInv
<1>3. CASE Tick
  <2>1. s.wait >= 0 /\ r.wait >= 0 /\ s \in Senders
    BY Bounds DEF SenderInv, Senders, Receivers, SenderCounts, ReceiverCounts
  <2>2. PICK d \in Nat : /\ d > 0
                         /\ s' = IF s.wait > 0 THEN [s EXCEPT !.wait = s.wait - d] ELSE s
                         /\ r' = IF r.wait > 0 THEN [r EXCEPT !.wait = r.wait - d] ELSE r
                         /\ s.wait > 0 => s.wait >= d
                         /\ r.wait > 0 => r.wait >= d
    BY <1>3, <2>1, TimePasses
  <2>3. SenderInv' /\ SenderCounts(s')
    <3>1. /\ s' \in Senders /\ s'.pc = s.pc /\ s'.block = s.block /\ s'.tries = s.tries
          /\ s'.result = s.result /\ s'.wait = IF s.wait > 0 THEN s.wait - d ELSE s.wait
      BY <2>1, <2>2 DEF Senders
    <3>2. SenderInv'
      BY <3>1 DEF SenderInv
    <3>3. WaitAt(s.pc) \in Nat
      BY Bounds DEF WaitAt
    <3>4. s'.wait \in 0..WaitAt(s.pc)
      BY <2>2, <3>1, <3>3 DEF SenderCounts
    <3>5. QED
      BY <3>1, <3>2, <3>4 DEF SenderCounts
  <2>4. r' \in Receivers /\ ReceiverCounts(r')
    <3>1. /\ r' \in Receivers /\ r'.pc = r.pc /\ r'.retry = r.retry /\ r'.retrans = r.retrans
          /\ r'.wait = IF r.wait > 0 THEN r.wait - d ELSE r.wait
      BY <2>1, <2>2 DEF Receivers
    <3>2. r.wait \in 0..PollWait
      BY DEF ReceiverCounts
    <3>3. r'.wait \in 0..PollWait
      <4>1. r.wait \in 0..4 /\ (r.wait > 0 => r.wait >= d) /\ PollWait = 4
        BY <2>2, <3>2, Bounds
      <4>2. r'.wait = IF r.wait > 0 THEN r.wait - d ELSE r.wait
        BY <3>1
      <4>3. r'.wait \in 0..4
        BY <4>1, <4>2
      <4>4. QED
        BY <4>1, <4>3
    <3>4. QED
      BY <3>1, <3>3 DEF ReceiverCounts
  <2>5. UNCHANGED <<toR, file, faults>>
    BY <1>3 DEF Tick
  <2>6. QED
    BY <2>3, <2>4, <2>5 DEF LineInv
<1>4. CASE UNCHANGED vars
  BY <1>4 DEF vars, SenderInv, LineInv
<1>5. QED
  BY <1>1, <1>2, <1>3, <1>4 DEF Next

\* No try is counted past the bound its loop tests by equality, in whatever order answers,
\* damage and timeouts come, and no wait goes below 0.
THEOREM LocalsInRange == Spec => []TypeOK
<1>1. CountInv => TypeOK
  <2> SUFFICES ASSUME CountInv PROVE TypeOK
    OBVIOUS
  <2>1. s.pc \in SenderPcs /\ s.block \in 1..(N + 1) /\ s.result \in SendResults \cup {"none"}
    BY DEF CountInv, SenderInv, Senders
  <2>2. TriesAt(s.pc) \in 0..(MaxTry + MaxRetrans + MaxEot) /\ WaitAt(s.pc) \in 0..PollWait
    BY Bounds DEF TriesAt, WaitAt
  <2>3. s.tries \in 0..(MaxTry + MaxRetrans + MaxEot) /\ s.wait \in 0..PollWait
    BY <2>2, Bounds DEF CountInv, SenderCounts
  <2>4. r.pc \in ReceiverPcs /\ r.try \in {"C", "NAK", "none"} /\ r.result \in RecvResults \cup {"none"}
    BY DEF CountInv, Receivers
  <2>5. r.retry \in 0..MaxTry /\ r.retrans \in 0..MaxRetrans /\ r.wait \in 0..PollWait
    BY Bounds DEF CountInv, ReceiverCounts
  <2>6. QED
    BY <2>1, <2>3, <2>4, <2>5 DEF CountInv, TypeOK, SenderPcs, ReceiverPcs
<1>2. QED
  BY <1>1, CountInit, CountKept, PTL DEF Spec

-----------------------------------------------------------------------------
(* A refused frame.                                                         *)

\* What is on the line besides frames.
Plain == {x \in Element : x.kind # "SOH"}

\* While the sender has sent nothing, nothing comes.  Once a frame was refused, and none lost,
\* a sender that still sends frames finds the receiver reading the rest of a frame or
\* flushing, and as long as nothing is on the line the one that flushes waits for longer than
\* the sender does; a receiver that has gone on finds no frame.
RefuseInv ==
  /\ s.pc \in {"off", "sync", "can"} => toR = <<>>
  /\ (refused /\ ~missed) =>
       /\ s.pc \notin {"off", "sync", "can"}
       /\ s.pc \in {"send", "ack"} => r.pc \in {"frame", "flush", "done"}
       /\ s.pc \in {"send", "ack"} /\ r.pc = "flush" => toR # <<>> \/ r.wait > s.wait
       /\ r.pc \notin {"frame", "flush", "done"} => toR \in Seq(Plain)

\* What is sent besides frames, whole or damaged.
Quiet == toR' = toR \/ \E x \in Seq(Plain) : x # <<>> /\ Sends(x)

\* What the sender says besides frames is plain.
LEMMA PlainType ==
  /\ \A kind \in {"ACK", "CAN", "EOT"} : Says(kind) \in Seq(Plain) /\ Says(kind) # <<>>
  /\ Cans \in Seq(Plain) /\ Cans # <<>>
  /\ Byte("stray") \in Plain
<1>1. \A kind \in {"ACK", "CAN", "EOT", "stray"} : Byte(kind) \in Plain
  <2>1. \A kind \in {"ACK", "CAN", "EOT", "stray"} : Byte(kind) \in Element
    BY ByteType DEF Bytes
  <2>2. \A kind : Byte(kind).kind = kind
    BY DEF Byte
  <2>3. QED
    BY <2>1, <2>2 DEF Plain
<1>2. \A x \in Plain : <<x>> \in Seq(Plain) /\ Len(<<x>>) = 1
  OBVIOUS
<1>3. \A kind \in {"ACK", "CAN", "EOT"} : Says(kind) \in Seq(Plain) /\ Len(Says(kind)) = 1
  BY <1>1, <1>2 DEF Says
<1>4. ASSUME NEW x \in Seq(Plain), Len(x) = 1
      PROVE  (x \o x) \o x \in Seq(Plain) /\ Len((x \o x) \o x) = 3
  <2> HIDE DEF Plain
  <2>1. x \o x \in Seq(Plain) /\ Len(x \o x) = Len(x) + Len(x)
    BY ConcatProperties, Zenon
  <2>2. (x \o x) \o x \in Seq(Plain) /\ Len((x \o x) \o x) = Len(x \o x) + Len(x)
    BY <2>1, ConcatProperties, Zenon
  <2>3. QED
    BY <1>4, <2>1, <2>2
<1>5. Cans \in Seq(Plain) /\ Len(Cans) = 3
  BY <1>3, <1>4, Zenon DEF Cans
<1>6. Cans # <<>>
  BY <1>5, EmptySeq
<1>7. \A kind \in {"ACK", "CAN", "EOT"} : Says(kind) # <<>>
  BY <1>3, EmptySeq
<1>8. QED
  BY <1>1, <1>3, <1>5, <1>6, <1>7

\* What damage leaves of plain bytes is plain.
LEMMA DamagedPlain ==
  ASSUME NEW kind \in FaultsToR, NEW x \in Seq(Plain), x # <<>>, NEW y \in Damaged(kind, x)
  PROVE  y \in Seq(Plain)
<1>1. Head(x) \in Plain /\ Tail(x) \in Seq(Plain)
  BY HeadTailProperties
<1>2. Head(x) # Frame
  BY <1>1 DEF Plain, Frame
<1>3. CASE kind = "lost"
  BY <1>1, <1>3 DEF Damaged
<1>4. CASE kind = "garbled"
  <2>1. y = <<Byte("stray")>> \o Tail(x)
    BY <1>2, <1>4 DEF Damaged
  <2>2. <<Byte("stray")>> \in Seq(Plain)
    BY PlainType
  <2>3. QED
    BY <1>1, <2>1, <2>2, ConcatProperties
<1>5. CASE kind = "headless"
  BY <1>2, <1>5 DEF Damaged
<1>6. QED
  BY <1>3, <1>4, <1>5, FaultsAssumption

\* A plain line that is said something plain stays plain.
LEMMA QuietKeeps ==
  ASSUME toR \in Seq(Plain), Quiet
  PROVE  toR' \in Seq(Plain)
<1>1. ASSUME NEW y \in Seq(Plain) PROVE Carried(toR, y, r) \in Seq(Plain)
  <2>1. toR \o y \in Seq(Plain)
    BY ConcatProperties
  <2>2. QED
    BY <2>1 DEF Carried
<1>2. ASSUME NEW x \in Seq(Plain), x # <<>>, Sends(x)
      PROVE  toR' \in Seq(Plain)
  <2>1. CASE toR' = Carried(toR, x, r)
    BY <1>1, <1>2, <2>1
  <2>2. CASE Fault(FaultsToR, x, toR, r)
    <3>1. PICK kind \in FaultsToR : \E y \in Damaged(kind, x) : toR' = Carried(toR, y, r)
      BY <2>2 DEF Fault
    <3>2. PICK y \in Damaged(kind, x) : toR' = Carried(toR, y, r)
      BY <3>1
    <3>3. y \in Seq(Plain)
      BY <1>2, <3>1, <3>2, DamagedPlain
    <3>4. QED
      BY <1>1, <3>2, <3>3
  <2>3. QED
    BY <1>2, <2>1, <2>2 DEF Sends
<1>3. QED
  BY <1>2 DEF Quiet

\* The ways of the sender: until it sends frames, when it has stopped, from an answer to the
\* next try, and the sending of a frame.
LEMMA SenderPath ==
  ASSUME s \in Senders, SenderNext
  PROVE  \/ toR' = toR /\ s.pc \in {"off", "sync", "can"}
         \/ Quiet /\ s'.pc \notin {"off", "sync", "can", "send", "ack"}
         \/ Quiet /\ s.pc = "ack" /\ s'.pc = "send"
         \/ SendBlock
<1> USE DEF SenderStep
<1>1. CASE BeginSend
  BY <1>1 DEF BeginSend
<1>2. CASE NoSync
  <2>1. Quiet /\ s' = Ends(s, "no sync")
    BY <1>2, PlainType DEF NoSync, Quiet
  <2>2. QED
    BY <2>1, EndsType DEF SendResults
<1>3. CASE GiveUp
  BY <1>3, PlainType DEF GiveUp, Quiet, To, Senders
<1>4. CASE SendEot
  BY <1>4, PlainType DEF SendEot, Quiet, To, Senders
<1>5. CASE NoAnswer
  BY <1>5, EndsType DEF NoAnswer, Quiet, SendResults
<1>6. ASSUME NEW c \in Bytes, Sync(c) \/ SyncCan(c)
      PROVE  \/ toR' = toR /\ s.pc \in {"off", "sync", "can"}
             \/ Quiet /\ s'.pc \notin {"off", "sync", "can", "send", "ack"}
  <2>1. CASE Sync(c)
    BY <2>1 DEF Sync
  <2>2. CASE SyncCan(c)
    <3>1. s.pc = "can" /\ (toR' = toR \/ (Sends(Says("ACK")) /\ s' = Ends(s, "cancelled")))
      BY <2>2 DEF SyncCan
    <3>2. Ends(s, "cancelled").pc = "done"
      BY EndsType DEF SendResults
    <3>3. QED
      BY <3>1, <3>2, PlainType DEF Quiet
  <2>3. QED
    BY <1>6, <2>1, <2>2
<1>7. ASSUME NEW c \in Bytes, AckOf(c)
      PROVE  /\ Quiet /\ s.pc = "ack"
             /\ s'.pc \notin {"off", "sync", "can", "ack"}
  <2>1. s.pc = "ack"
    BY <1>7 DEF AckOf
  <2>2. CASE c = "CAN"
    <3>1. Sends(Says("ACK")) /\ s' = Ends(s, "cancelled")
      BY <1>7, <2>2 DEF AckOf
    <3>2. s'.pc = "done"
      BY <3>1, EndsType DEF SendResults
    <3>3. QED
      BY <2>1, <3>1, <3>2, PlainType DEF Quiet
  <2>3. CASE c = "ACK"
    <3> DEFINE a == [s EXCEPT !.block = @ + 1]
    <3>1. toR' = toR /\ s' = NextBlock(a)
      BY <1>7, <2>3 DEF AckOf
    <3>2. NextBlock(a).pc \in {"send", "end"}
      BY DEF NextBlock, To, Senders
    <3>3. QED
      BY <2>1, <3>1, <3>2 DEF Quiet
  <2>4. CASE c \notin {"CAN", "ACK"}
    <3>1. toR' = toR /\ s' = Retry("send", 0)
      BY <1>7, <2>4 DEF AckOf
    <3>2. s'.pc = "send"
      BY <3>1, RetryType DEF SenderPcs
    <3>3. QED
      BY <2>1, <3>1, <3>2 DEF Quiet
  <2>5. QED
    BY <2>2, <2>3, <2>4
<1>8. ASSUME NEW c \in Bytes, SendFlush(c) \/ EotAnswer(c)
      PROVE  Quiet /\ s'.pc \notin {"off", "sync", "can", "send", "ack"}
  <2>1. toR' = toR /\ \/ s' = Ends(s, "xmit error") \/ s' = To(s, "flush", FlushWait)
                      \/ s' = Ends(s, "success") \/ s' = Retry("end", 0)
    BY <1>8 DEF SendFlush, EotAnswer
  <2>2. s'.pc \in {"done", "flush", "end"}
    <3>1. Ends(s, "xmit error").pc = "done" /\ Ends(s, "success").pc = "done"
      BY EndsType DEF SendResults
    <3>2. To(s, "flush", FlushWait).pc = "flush"
      BY DEF To, Senders
    <3>3. Retry("end", 0).pc = "end"
      BY RetryType DEF SenderPcs
    <3>4. QED
      BY <2>1, <3>1, <3>2, <3>3
  <2>3. QED
    BY <2>1, <2>2 DEF Quiet
<1>9. CASE SendBlock
  BY <1>9
<1>10. QED
  BY <1>1, <1>2, <1>3, <1>4, <1>5, <1>6, <1>7, <1>8, <1>9 DEF SenderNext

\* A frame that is sent, and not lost, is on the line.
LEMMA SentIsThere ==
  ASSUME SenderInv, LineInv, SendBlock, toR' # toR
  PROVE  toR' # <<>>
<1>1. Frame \in Element
  <2>1. s \in Senders /\ s.block \in 1..N
    BY CountsAssumption DEF SenderInv, Senders, SendBlock
  <2>2. QED
    BY <2>1, CountsAssumption DEF Frame, Element, Bytes, Senders
<1>2. <<Frame>> \in Seq(Element) /\ <<Frame>> # <<>>
  BY <1>1
<1>3. \E y \in Seq(Element) : toR' = Carried(toR, y, r)
  BY <1>2, DamagedType DEF SendBlock, Sends, Fault
<1>4. PICK y \in Seq(Element) : toR' = toR \o y
  BY <1>3 DEF Carried
<1>5. Len(toR') = Len(toR) + Len(y) /\ Len(toR) \in Nat /\ Len(y) \in Nat
  <2> HIDE DEF Element
  <2>1. QED
    BY <1>4, ConcatProperties DEF LineInv
<1>6. CASE Len(toR) > 0
  BY <1>5, <1>6, EmptySeq
<1>7. CASE Len(toR) = 0
  BY <1>7 DEF LineInv
<1>8. QED
  BY <1>5, <1>6, <1>7

\* Nothing is sent between an answer and the frame after it.
LEMMA AckSilent ==
  ASSUME s \in Senders, SenderNext, s.pc = "ack", s'.pc = "send"
  PROVE  toR' = toR
<1>1. ASSUME NEW c, AckOf(c) PROVE toR' = toR
  <2>1. c # "CAN"
    BY <1>1, EndsType DEF AckOf, SenderStep, SendResults
  <2>2. QED
    BY <1>1, <2>1 DEF AckOf
<1>2. QED
  BY <1>1 DEF SenderNext, BeginSend, NoSync, SendBlock, GiveUp, SendEot, NoAnswer, Sync, SyncCan,
              SendFlush, EotAnswer

\* A receiver that has ended does nothing, and after a frame it accepts it does not flush.
LEMMA ReceiverGoing == ASSUME ReceiverNext PROVE r.pc # "done"
BY DEF ReceiverNext, BeginRecv, Try, TryNak, SyncError, Accept, Refuse, RecvEot, RecvFrame,
       RecvFlush, Other, RecvCan, RecvCanFrame

\* The receiver that takes a frame does not wait for silence.
LEMMA AcceptGoes ==
  ASSUME r \in Receivers, Accept
  PROVE  r'.pc \notin {"frame", "flush"}
<1> DEFINE left == (IF IsNext(Head(toR)) THEN MaxRetrans + 1 ELSE r.retrans) - 1
           a == [Started EXCEPT !.retrans = left]
<1>1. r' = Ends(a, "too many retries") \/ r' = Outer(a)
  BY DEF Accept, ReceiverStep
<1>2. left \in Int
  <2>1. r.retrans \in Int /\ MaxRetrans + 1 \in Int
    BY Bounds DEF Receivers
  <2>2. QED
    BY <2>1
<1> HIDE DEF left
<1>3. a \in Receivers
  BY <1>2, StartedCounts
<1> HIDE DEF a
<1>4. QED
  BY <1>1, <1>3, RecvFields DEF RecvResults

\* What the history says of a step.
LEMMA Remembered ==
  ASSUME Remember, refused' /\ ~missed'
  PROVE  /\ ~missed
         /\ refused \/ (r.pc = "wait" /\ r'.pc \in {"flush", "frame"})
         /\ s.pc = "send" /\ s'.pc = "ack" => toR' # toR
BY DEF Remember

\* The waits that the two sides compare.
LEMMA SenderWaits ==
  ASSUME NEW a, SenderCounts(a)
  PROVE  /\ a.wait \in Nat
         /\ a.pc = "send" => a.wait = 0
         /\ a.pc \in {"send", "ack"} => a.wait < FlushWait
<1>1. a.wait \in 0..WaitAt(a.pc)
  BY DEF SenderCounts
<1>2. WaitAt(a.pc) \in Nat /\ (a.pc = "send" => WaitAt(a.pc) = 0) /\ (a.pc = "ack" => WaitAt(a.pc) = 2)
  BY Bounds DEF WaitAt
<1>3. QED
  BY <1>1, <1>2, Bounds

\* The sender gives up waiting for an ACK before the receiver's silence is over.
LEMMA WaitsCompared ==
  ASSUME CountInv
  PROVE  /\ s.wait \in Nat /\ r.wait \in Nat
         /\ s.pc = "send" => s.wait = 0
         /\ s.pc \in {"send", "ack"} => s.wait < FlushWait
<1>1. SenderCounts(s) /\ r.wait \in 0..PollWait
  BY DEF CountInv, ReceiverCounts
<1>2. QED
  BY <1>1, SenderWaits, Bounds

\* A step of the sender keeps the line busy for a receiver that has refused.
LEMMA SenderRefuses ==
  ASSUME CountInv, CountInv', RefuseInv, SenderNext, Remember
  PROVE  RefuseInv'
<1>1. s \in Senders /\ r' = r /\ SenderInv /\ LineInv
  BY SenderKeeps DEF CountInv, SenderInv
<1>2. ASSUME refused', ~missed'
      PROVE  /\ refused /\ ~missed
             /\ s.pc = "send" /\ s'.pc = "ack" => toR' # toR
  BY <1>1, <1>2, Remembered
<1>3. Quiet /\ toR \in Seq(Plain) => toR' \in Seq(Plain)
  BY QuietKeeps
<1>4. s'.wait \in Nat /\ r.wait \in Nat /\ s.wait \in Nat /\ (s'.pc = "send" => s'.wait = 0)
  <2>1. SenderCounts(s')
    BY DEF CountInv
  <2>2. QED
    BY <2>1, SenderWaits, WaitsCompared
<1>5. CASE toR' = toR /\ s.pc \in {"off", "sync", "can"}
  <2>1. ~(refused' /\ ~missed')
    BY <1>2, <1>5 DEF RefuseInv
  <2>2. toR' = <<>>
    BY <1>5 DEF RefuseInv
  <2>3. QED
    BY <2>1, <2>2 DEF RefuseInv
<1>6. CASE Quiet /\ s'.pc \notin {"off", "sync", "can", "send", "ack"}
  BY <1>1, <1>2, <1>3, <1>6 DEF RefuseInv
<1>7. CASE Quiet /\ s.pc = "ack" /\ s'.pc = "send"
  <2>1. ASSUME refused', ~missed', r.pc = "flush" PROVE toR' # <<>> \/ r.wait > s'.wait
    <3>1. toR # <<>> \/ r.wait > s.wait
      BY <1>2, <1>7, <2>1 DEF RefuseInv
    <3>2. toR # <<>> => toR' # <<>>
      <4>1. toR' = toR
        BY <1>1, <1>7, AckSilent
      <4>2. QED
        BY <4>1
    <3>3. QED
      BY <1>4, <1>7, <3>1, <3>2
  <2>2. QED
    BY <1>1, <1>2, <1>3, <1>7, <2>1 DEF RefuseInv
<1>8. CASE SendBlock
  <2>1. s.pc = "send" /\ s'.pc = "ack"
    BY <1>1, <1>8 DEF SendBlock, SenderStep, To, Senders
  <2>2. ASSUME refused', ~missed' PROVE toR' # <<>> /\ r.pc \in {"frame", "flush", "done"}
    BY <1>1, <1>2, <1>8, <2>1, <2>2, SentIsThere DEF RefuseInv
  <2>3. QED
    BY <1>1, <2>1, <2>2 DEF RefuseInv
<1>9. QED
  BY <1>1, <1>5, <1>6, <1>7, <1>8, SenderPath

\* What the receiver does with the line: it takes the first element, or hears nothing for as
\* long as it waits.
LEMMA TakesPlain ==
  ASSUME LineInv, NEW c, Takes(c)
  PROVE  /\ toR \in Seq(Plain) => toR' \in Seq(Plain)
         /\ toR = <<>> => toR' = <<>> /\ c = "timeout"
         /\ c = "timeout" => toR = <<>> /\ r.wait = 0
<1>1. CASE toR = <<>>
  BY <1>1 DEF Takes
<1>2. CASE toR # <<>>
  <2>1. c \in ReadAs(Head(toR)) /\ toR' = Tail(toR)
    BY <1>2 DEF Takes
  <2>2. Head(toR) \in Element
    BY <1>2, HeadTailProperties DEF LineInv
  <2>3. c # "timeout"
    BY <2>1, <2>2 DEF Element, ReadAs
  <2>4. ASSUME toR \in Seq(Plain) PROVE toR' \in Seq(Plain)
    BY <1>2, <2>1, <2>4, HeadTailProperties
  <2>5. QED
    BY <1>2, <2>3, <2>4
<1>3. QED
  BY <1>1, <1>2

\* A receiver that has refused goes on waiting and writes nothing.
LEMMA ReceiverRefuses ==
  ASSUME CountInv, CountInv', RefuseInv, ReceiverNext, Remember
  PROVE  RefuseInv' /\ (refused /\ ~missed => file' = file)
<1> USE DEF ReceiverStep
<1>1. s' = s /\ LineInv /\ r \in Receivers
  BY ReceiverCountsKept DEF CountInv
<1>2. ASSUME refused', ~missed'
      PROVE  ~missed /\ (refused \/ (r.pc = "wait" /\ r'.pc \in {"flush", "frame"}))
  BY <1>2, Remembered
<1>3. /\ s.wait \in Nat /\ r.wait \in Nat
      /\ s.pc = "send" => s.wait = 0
      /\ s.pc \in {"send", "ack"} => s.wait < FlushWait
  BY WaitsCompared
<1>4. ASSUME NEW c, Takes(c)
      PROVE  /\ toR \in Seq(Plain) => toR' \in Seq(Plain)
             /\ toR = <<>> => toR' = <<>> /\ c = "timeout"
             /\ c = "timeout" => toR = <<>> /\ r.wait = 0
  BY <1>1, <1>4, TakesPlain
\* The receiver is not in a frame it has refused, or after it: the sender is past its frames.
<1>5. ASSUME {r.pc, r'.pc} \cap {"frame", "flush"} = {},
             toR = <<>> => toR' = <<>>, toR \in Seq(Plain) => toR' \in Seq(Plain),
             refused /\ ~missed => file' = file
      PROVE  RefuseInv' /\ (refused /\ ~missed => file' = file)
  <2>1. s.pc \in {"off", "sync", "can"} => toR' = <<>>
    BY <1>5 DEF RefuseInv
  <2>2. ASSUME refused', ~missed'
        PROVE  /\ s.pc \notin {"off", "sync", "can", "send", "ack"}
               /\ toR' \in Seq(Plain)
    <3>1. refused /\ ~missed
      BY <1>2, <1>5, <2>2
    <3>2. r.pc \notin {"frame", "flush", "done"}
      BY <1>1, <1>5, ReceiverGoing
    <3>3. QED
      BY <1>5, <3>1, <3>2 DEF RefuseInv
  <2>3. QED
    BY <1>1, <1>5, <2>1, <2>2 DEF RefuseInv
<1>6. CASE BeginRecv
  <2>1. r.pc = "off" /\ r'.pc = "try" /\ toR' = toR /\ file' = file
    BY <1>1, <1>6, RecvFields DEF BeginRecv
  <2>2. QED
    BY <1>5, <2>1
<1>7. CASE Try
  <2>1. r.pc = "try" /\ toR' = toR /\ file' = file /\ r' = To(r, "wait", PollWait)
    BY <1>7 DEF Try
  <2>2. r'.pc = "wait"
    BY <1>1, <2>1, Bounds, RecvFields DEF ReceiverPcs
  <2>3. QED
    BY <1>5, <2>1, <2>2
<1>8. CASE TryNak
  <2> DEFINE a == [r EXCEPT !.try = "NAK"]
  <2>1. r.pc = "try" /\ toR' = toR /\ file' = file /\ r' = Outer(a)
    BY <1>8 DEF TryNak
  <2>2. a \in Receivers
    BY <1>1 DEF Receivers
  <2> HIDE DEF a
  <2>3. r'.pc = "try"
    BY <2>1, <2>2, RecvFields
  <2>4. QED
    BY <1>5, <2>1, <2>3
<1>9. CASE SyncError
  <2>1. r.pc = "try" /\ toR' = toR /\ file' = file /\ r' = Ends(r, "sync error")
    BY <1>9 DEF SyncError
  <2>2. r'.pc = "done"
    BY <1>1, <2>1, RecvFields DEF RecvResults
  <2>3. QED
    BY <1>5, <2>1, <2>2
<1>10. CASE Accept
  <2>1. r.pc = "wait" /\ Takes("SOH") /\ Head(toR).good
    BY <1>10 DEF Accept, Acceptable
  <2>2. toR # <<>> /\ Head(toR).kind = "SOH"
    BY <1>1, <2>1, TakesFrame
  <2>3. toR \notin Seq(Plain)
    BY <2>2, HeadTailProperties DEF Plain
  <2>4. ~(refused /\ ~missed)
    BY <2>1, <2>3 DEF RefuseInv
  <2>5. r'.pc \notin {"frame", "flush"}
    BY <1>1, <1>10, AcceptGoes
  <2>6. QED
    BY <1>5, <2>1, <2>2, <2>3, <2>4, <2>5
<1>11. ASSUME NEW pc \in {"flush", "frame"}, Refuse(pc)
       PROVE  RefuseInv' /\ (refused /\ ~missed => file' = file)
  <2>1. /\ r.pc = "wait" /\ Takes("SOH") /\ file' = file
        /\ \/ pc = "flush" /\ r' = To(Started, "flush", FlushWait)
           \/ pc = "frame" /\ r' = To(Started, "frame", FrameWait)
    BY <1>11 DEF Refuse
  <2>2. toR # <<>>
    BY <1>4, <2>1
  <2>3. r'.pc = "frame" \/ (r'.pc = "flush" /\ r'.wait = FlushWait)
    <3> DEFINE b == Started
    <3>1. /\ b \in Receivers /\ "flush" \in ReceiverPcs /\ "frame" \in ReceiverPcs
          /\ FlushWait \in Int /\ FrameWait \in Int
      BY <1>1, StartedType, Bounds DEF ReceiverPcs
    <3>2. r' = To(b, "flush", FlushWait) \/ r' = To(b, "frame", FrameWait)
      BY <2>1
    <3> HIDE DEF b
    <3>3. ASSUME NEW place \in ReceiverPcs, NEW w \in Int
          PROVE  To(b, place, w).pc = place /\ To(b, place, w).wait = w
      BY <3>1, RecvPlace
    <3>4. /\ To(b, "flush", FlushWait).pc = "flush"
          /\ To(b, "flush", FlushWait).wait = FlushWait
      BY <3>1, <3>3
    <3>5. To(b, "frame", FrameWait).pc = "frame"
      BY <3>1, <3>3
    <3>6. QED
      BY <3>2, <3>4, <3>5
  <2>4. s.pc \notin {"off", "sync", "can"}
    BY <2>2 DEF RefuseInv
  <2>5. s.pc \in {"send", "ack"} /\ r'.pc = "flush" => r'.wait > s.wait
    BY <1>3, <2>3, Bounds
  <2>6. QED
    BY <1>1, <2>1, <2>3, <2>4, <2>5 DEF RefuseInv
<1>12. CASE RecvEot
  <2>1. r.pc = "wait" /\ Takes("EOT") /\ r' = Ends(r, "success") /\ file' = file
    BY <1>12 DEF RecvEot
  <2>2. r'.pc = "done"
    BY <1>1, <2>1, RecvFields DEF RecvResults
  <2>3. QED
    BY <1>4, <1>5, <2>1, <2>2
<1>13. ASSUME NEW c \in Bytes, RecvFlush(c)
       PROVE  RefuseInv' /\ (refused /\ ~missed => file' = file)
  <2>1. r.pc = "flush" /\ Takes(c) /\ file' = file
    BY <1>13 DEF RecvFlush
  <2>2. CASE c = "timeout"
    <3>1. r' = Outer(r) /\ toR = <<>> /\ r.wait = 0 /\ toR' = toR
      BY <1>4, <1>13, <2>1, <2>2 DEF RecvFlush
    <3>2. r'.pc = "try"
      BY <1>1, <3>1, RecvFields
    <3>3. toR \in Seq(Plain)
      BY <3>1, EmptySeq
    <3>4. ASSUME refused', ~missed' PROVE s.pc \notin {"send", "ack", "off", "sync", "can"}
      <4>1. refused /\ ~missed
        BY <1>2, <2>1, <3>4
      <4>2. ~(r.wait > s.wait)
        BY <1>3, <3>1
      <4>3. QED
        BY <2>1, <3>1, <4>1, <4>2 DEF RefuseInv
    <3>5. QED
      BY <1>1, <2>1, <3>1, <3>2, <3>3, <3>4 DEF RefuseInv
  <2>3. CASE c # "timeout"
    <3>1. r' = To(r, "flush", FlushWait)
      BY <1>13, <2>3 DEF RecvFlush
    <3>2. r'.pc = "flush" /\ r'.wait = FlushWait
      BY <1>1, <3>1, RecvFields, Bounds DEF ReceiverPcs
    <3>3. s.pc \in {"send", "ack"} => r'.wait > s.wait
      BY <1>3, <3>2, Bounds
    <3>4. refused' /\ ~missed' => refused /\ ~missed
      BY <1>2, <2>1
    <3>5. QED
      BY <1>1, <1>4, <2>1, <3>2, <3>3, <3>4 DEF RefuseInv
  <2>4. QED
    BY <2>2, <2>3
<1>14. ASSUME NEW c \in Bytes, RecvFrame(c)
       PROVE  RefuseInv' /\ (refused /\ ~missed => file' = file)
  <2>1. /\ r.pc = "frame" /\ Takes(c) /\ file' = file
        /\ r' = To(r, "flush", FlushWait) \/ r' = To(r, "frame", FrameWait)
    BY <1>14 DEF RecvFrame
  <2>2. r'.pc = "frame" \/ (r'.pc = "flush" /\ r'.wait = FlushWait)
    BY <1>1, <2>1, RecvFields, Bounds DEF ReceiverPcs
  <2>3. s.pc \in {"send", "ack"} /\ r'.pc = "flush" => r'.wait > s.wait
    BY <1>3, <2>2, Bounds
  <2>4. refused' /\ ~missed' => refused /\ ~missed
    BY <1>2, <2>1
  <2>5. QED
    BY <1>1, <1>4, <2>1, <2>2, <2>3, <2>4 DEF RefuseInv
<1>15. ASSUME NEW c \in Bytes, Other(c) \/ RecvCan(c)
       PROVE  RefuseInv' /\ (refused /\ ~missed => file' = file)
  <2>1. /\ r.pc \in {"wait", "can"} /\ Takes(c) /\ file' = file
        /\ \/ r' = To(r, "can", CanWait) \/ r' = NextTry(r) \/ r' = Ends(r, "cancelled")
    BY <1>15 DEF Other, RecvCan
  <2>2. r'.pc \in {"can", "try", "done"}
    <3>1. "can" \in ReceiverPcs /\ "cancelled" \in RecvResults /\ CanWait \in Int
      BY Bounds DEF ReceiverPcs, RecvResults
    <3>2. To(r, "can", CanWait).pc = "can" /\ NextTry(r).pc = "try" /\ Ends(r, "cancelled").pc = "done"
      BY <1>1, <3>1, RecvFields
    <3>3. QED
      BY <2>1, <3>2
  <2>3. QED
    BY <1>4, <1>5, <2>1, <2>2
<1>16. CASE RecvCanFrame
  <2>1. /\ r.pc = "can" /\ toR # <<>> /\ Head(toR).kind = "SOH"
        /\ r' = NextTry(r) /\ file' = file
    BY <1>16 DEF RecvCanFrame
  <2>2. r'.pc = "try"
    BY <1>1, <2>1, RecvFields
  <2>3. toR \notin Seq(Plain)
    BY <2>1, HeadTailProperties DEF Plain
  <2>4. QED
    BY <1>5, <2>1, <2>2, <2>3
<1>17. QED
  BY <1>6, <1>7, <1>8, <1>9, <1>10, <1>11, <1>12, <1>13, <1>14, <1>15, <1>16 DEF ReceiverNext

\* Nothing has been refused at the start.
LEMMA RefuseInit == Init => RefuseInv
BY EmptySeq DEF Init, RefuseInv

\* Frames are refused only while the receiver waits, and time does not pass then.
LEMMA RefuseKept ==
  ASSUME CountInv, CountInv', RefuseInv, [Next]_vars
  PROVE  RefuseInv' /\ (refused /\ ~missed => file' = file)
<1>1. CASE SenderNext /\ Remember
  <2>1. file' = file
    BY <1>1, SenderKeeps DEF CountInv
  <2>2. QED
    BY <1>1, <2>1, SenderRefuses
<1>2. CASE ReceiverNext /\ Remember
  BY <1>2, ReceiverRefuses
<1>3. CASE Tick /\ Remember
  <2>1. s \in Senders /\ r \in Receivers /\ s.wait \in Nat /\ r.wait \in Nat
        /\ (s.pc = "send" => s.wait = 0)
    BY WaitsCompared DEF CountInv, SenderInv
  <2>2. PICK d \in Nat : /\ d > 0
                         /\ s' = IF s.wait > 0 THEN [s EXCEPT !.wait = s.wait - d] ELSE s
                         /\ r' = IF r.wait > 0 THEN [r EXCEPT !.wait = r.wait - d] ELSE r
                         /\ s.wait > 0 => s.wait >= d
                         /\ r.wait > 0 => r.wait >= d
    BY <1>3, <2>1, TimePasses
  <2>3. /\ s'.pc = s.pc /\ s'.wait = IF s.wait > 0 THEN s.wait - d ELSE s.wait
        /\ r'.pc = r.pc /\ r'.wait = IF r.wait > 0 THEN r.wait - d ELSE r.wait
    BY <2>1, <2>2 DEF Senders, Receivers
  <2>4. /\ toR' = toR /\ file' = file /\ Waits(s, toS) /\ Waits(r, toR)
    BY <1>3 DEF Tick
  <2>5. refused' /\ ~missed' => refused /\ ~missed
    BY <1>3, <2>3, Remembered
  <2>6. ASSUME s.pc \in {"send", "ack"}, r.pc = "flush", toR # <<>> \/ r.wait > s.wait
        PROVE  r'.wait > s'.wait
    <3>1. s.wait > 0 /\ r.wait > 0 /\ toR = <<>>
      BY <2>1, <2>4, <2>6 DEF Waits
    <3>2. QED
      BY <2>1, <2>2, <2>3, <2>6, <3>1
  <2>7. QED
    BY <2>3, <2>4, <2>5, <2>6 DEF RefuseInv
<1>4. CASE UNCHANGED vars
  BY <1>4 DEF vars, RefuseInv
<1>5. QED
  BY <1>1, <1>2, <1>3, <1>4 DEF Next

\* Once a frame was refused, and as long as none is lost, the receiver writes nothing more:
\* it answers when the line has been silent for a second and a half, and by then the sender,
\* which repeats the frame every second, has given up or come to the end of the file.
THEOREM RefusalEndsIt == Spec => RefusalIsFatal
<1>1. CountInv /\ CountInv' /\ RefuseInv /\ [Next]_vars => RefuseInv'
  BY RefuseKept
<1>2. CountInv /\ CountInv' /\ RefuseInv /\ [Next]_vars => [refused /\ ~missed => file' = file]_vars
  BY RefuseKept
<1>3. QED
  BY <1>1, <1>2, CountInit, CountKept, RefuseInit, PTL DEF Spec, RefusalIsFatal

-----------------------------------------------------------------------------
(* A good frame that is refused.                                            *)

\* The sender sends no more frames.
Over(a) == a.pc \in {"flush", "end", "eot", "done"}

\* From place i of a line on come m plain elements, unless the line ends with them.
Gap(line, i, m, a) == /\ \A j \in i..(i + m - 1) : j <= Len(line) => line[j].kind # "SOH"
                      /\ Over(a) \/ i + m <= Len(line) + 1

\* The most elements that a receiver's tries take: a byte that is read as CAN is worth the
\* next one as well.
Patience == 2 * MaxTry

\* A frame that came without its first byte is worth more than a receiver's tries.
Broken(line, a) ==
  \A i \in 2..Len(line) :
    line[i].kind # "SOH" /\ line[i - 1].kind = "SOH" => Gap(line, i, Patience, a)

\* What place i of the line comes after, when n blocks are written.
Before(line, i, n) == IF i = 1 THEN n ELSE line[i - 1].block

\* Up to place i the line has frames only.
Framed(line, i) == \A j \in 1..i : line[j].kind = "SOH"

\* With m elements left to try, a receiver that has written n blocks comes to no frame after a
\* gap, and the frames up to there, and the one the sender is at, each repeat a block or carry the next.
InStep(line, n, m, a) ==
  /\ line # <<>> /\ line[1].kind # "SOH" => Gap(line, 1, m, a)
  /\ \A i \in 1..Len(line) : Framed(line, i) =>
       line[i].block \in {Before(line, i, n), Before(line, i, n) + 1}
  /\ Framed(line, Len(line)) =>
       /\ a.pc = "send" => a.block \in {Before(line, Len(line) + 1, n), Before(line, Len(line) + 1, n) + 1}
       /\ a.pc = "ack" => a.block = Before(line, Len(line) + 1, n)

\* All frames are the first of the file.
Firsts(line) == \A i \in 1..Len(line) : line[i].kind = "SOH" => line[i].block = 1

\* A line that is told one more.
LEMMA AppendAt ==
  ASSUME NEW line \in Seq(Element), NEW f \in Element
  PROVE  LET after == line \o <<f>>
         IN /\ after \in Seq(Element) /\ Len(after) = Len(line) + 1 /\ Len(line) \in Nat
            /\ after[Len(line) + 1] = f /\ \A i \in 1..Len(line) : after[i] = line[i]
<1>1. <<f>> \in Seq(Element) /\ Len(<<f>>) = 1 /\ <<f>>[1] = f
  OBVIOUS
<1> HIDE DEF Element
<1>2. QED
  BY <1>1, ConcatProperties

\* A line that is told something plain.
LEMMA PlainAt ==
  ASSUME NEW line \in Seq(Element), NEW y \in Seq(Plain)
  PROVE  LET after == line \o y
         IN /\ after \in Seq(Element) /\ Len(after) = Len(line) + Len(y)
            /\ Len(line) \in Nat /\ Len(y) \in Nat
            /\ \A i \in 1..Len(line) : after[i] = line[i]
            /\ \A i \in (Len(line) + 1)..Len(after) : after[i].kind # "SOH"
            /\ \A i \in (Len(line) + 1)..Len(after) : \E j \in 1..Len(y) : after[i] = y[j]
<1>1. y \in Seq(Element)
  BY DEF Plain
<1> DEFINE after == line \o y
<1>2. /\ after \in Seq(Element) /\ Len(after) = Len(line) + Len(y)
      /\ Len(line) \in Nat /\ Len(y) \in Nat
      /\ \A i \in 1..(Len(line) + Len(y)) : after[i] = IF i <= Len(line) THEN line[i] ELSE y[i - Len(line)]
  <2> HIDE DEF Element
  <2>1. QED
    BY <1>1, ConcatProperties
<1>3. \A j \in 1..Len(y) : y[j] \in Plain
  BY <1>2, ElementOfSeq
<1> HIDE DEF after
<1>4. ASSUME NEW i \in (Len(line) + 1)..Len(after)
      PROVE  \E j \in 1..Len(y) : after[i] = y[j] /\ y[j].kind # "SOH"
  <2>1. i - Len(line) \in 1..Len(y) /\ after[i] = y[i - Len(line)]
    BY <1>2
  <2>2. y[i - Len(line)].kind # "SOH"
    BY <1>3, <2>1 DEF Plain
  <2>3. QED
    BY <2>1, <2>2
<1>5. /\ \A i \in 1..Len(line) : after[i] = line[i]
      /\ \A i \in (Len(line) + 1)..Len(after) : after[i].kind # "SOH"
      /\ \A i \in (Len(line) + 1)..Len(after) : \E j \in 1..Len(y) : after[i] = y[j]
  <2>1. \A i \in 1..Len(line) : i \in 1..(Len(line) + Len(y)) /\ i <= Len(line)
    BY <1>2
  <2>2. \A i \in 1..Len(line) : after[i] = line[i]
    BY <1>2, <2>1
  <2>3. QED
    BY <1>4, <2>2
<1>6. QED
  BY <1>2, <1>5 DEF after

\* A line whose first element is taken.
LEMMA TailAt ==
  ASSUME NEW line \in Seq(Element), line # <<>>
  PROVE  /\ Head(line) = line[1] /\ Tail(line) \in Seq(Element) /\ Len(line) \in Nat
         /\ Len(line) > 0 /\ Len(Tail(line)) = Len(line) - 1 /\ line[1] \in Element
         /\ \A i \in 1..(Len(line) - 1) : Tail(line)[i] = line[i + 1]
<1> HIDE DEF Element
<1>1. QED
  BY HeadTailProperties, ElementOfSeq, EmptySeq

\* There is always something left to try.
LEMMA PatienceLasts == Patience \in Nat /\ Patience = 2 * MaxTry /\ Patience >= 2
BY Bounds DEF Patience

\* Another frame after the last.
LEMMA InStepFrame ==
  ASSUME NEW line \in Seq(Element), NEW n \in Nat, NEW m \in Nat,
         NEW a, NEW b, a.pc = "send", b.pc = "ack", b.block = a.block,
         NEW f \in Element, f.kind = "SOH", f.block = a.block,
         Broken(line, a)
  PROVE  /\ Broken(line \o <<f>>, b)
         /\ InStep(line, n, m, a) => InStep(line \o <<f>>, n, m, b)
<1> DEFINE after == line \o <<f>>
           k == Len(line)
<1>1. /\ after \in Seq(Element) /\ Len(after) = k + 1 /\ k \in Nat
      /\ after[k + 1] = f /\ \A i \in 1..k : after[i] = line[i]
  BY AppendAt
<1> HIDE DEF after, k
<1>2. ~Over(a) /\ ~Over(b)
  BY DEF Over
<1>3. ASSUME NEW i \in 1..k, NEW h, Gap(line, i, h, a), h \in Nat PROVE Gap(after, i, h, b)
  BY <1>1, <1>2, <1>3 DEF Gap, k
<1>4. Broken(after, b)
  <2> SUFFICES ASSUME NEW i \in 2..(k + 1), after[i].kind # "SOH", after[i - 1].kind = "SOH"
               PROVE  Gap(after, i, Patience, b)
    BY <1>1 DEF Broken
  <2>1. i \in 2..k
    BY <1>1
  <2>2. after[i] = line[i] /\ after[i - 1] = line[i - 1]
    BY <1>1, <2>1
  <2>3. Gap(line, i, Patience, a)
    BY <2>1, <2>2 DEF Broken, k
  <2>4. QED
    BY <1>3, <2>1, <2>3, PatienceLasts
<1>5. ASSUME InStep(line, n, m, a) PROVE InStep(after, n, m, b)
  <2>1. ASSUME after[1].kind # "SOH" PROVE Gap(after, 1, m, b)
    <3>1. k >= 1 /\ line # <<>>
      BY <1>1, <2>1 DEF k
    <3>2. Gap(line, 1, m, a)
      BY <1>1, <1>5, <2>1, <3>1 DEF InStep
    <3>3. QED
      BY <1>1, <1>3, <3>1, <3>2
  <2>2. ASSUME NEW i \in 1..k PROVE Framed(after, i) <=> Framed(line, i)
    BY <1>1, <2>2 DEF Framed
  <2>3. ASSUME NEW i \in 1..(k + 1) PROVE Before(after, i, n) = Before(line, i, n)
    BY <1>1, <2>3 DEF Before
  <2>4. ASSUME NEW i \in 1..k, Framed(after, i)
        PROVE  after[i].block \in {Before(after, i, n), Before(after, i, n) + 1}
    <3>1. line[i].block \in {Before(line, i, n), Before(line, i, n) + 1}
      BY <1>5, <2>2, <2>4 DEF InStep, k
    <3>2. QED
      BY <1>1, <2>3, <3>1
  <2>5. ASSUME Framed(after, k + 1)
        PROVE  after[k + 1].block \in {Before(after, k + 1, n), Before(after, k + 1, n) + 1}
    <3>1. Framed(line, k)
      BY <1>1, <2>5 DEF Framed
    <3>2. a.block \in {Before(line, k + 1, n), Before(line, k + 1, n) + 1}
      BY <1>5, <3>1 DEF InStep, k
    <3>3. QED
      BY <1>1, <2>3, <3>2
  <2>6. Before(after, k + 2, n) = b.block
    BY <1>1 DEF Before
  <2>7. QED
    BY <1>1, <2>1, <2>4, <2>5, <2>6 DEF InStep
<1>6. QED
  BY <1>4, <1>5 DEF after

\* A frame without its first byte, or what the sender says after its last frame.
LEMMA InStepPlain ==
  ASSUME NEW line \in Seq(Element), NEW n \in Nat, NEW m \in 1..Patience,
         NEW a, NEW b, Over(a) => Over(b), NEW y \in Seq(Plain),
         Over(b) \/ Len(y) >= Patience,
         Broken(line, a)
  PROVE  /\ Broken(line \o y, b)
         /\ InStep(line, n, m, a) => InStep(line \o y, n, m, b)
<1> DEFINE after == line \o y
           k == Len(line)
<1>1. /\ after \in Seq(Element) /\ Len(after) = k + Len(y) /\ k \in Nat /\ Len(y) \in Nat
      /\ \A i \in 1..k : after[i] = line[i]
      /\ \A i \in (k + 1)..Len(after) : after[i].kind # "SOH"
  BY PlainAt
<1>2. /\ m \in Nat /\ m >= 1 /\ m <= Patience /\ Patience \in Nat /\ Patience >= 2
      /\ ~Over(b) => Len(y) >= Patience
  BY PatienceLasts
<1> HIDE DEF after, k
<1>3. ASSUME NEW i \in 1..k, NEW h \in Nat, Gap(line, i, h, a) PROVE Gap(after, i, h, b)
  <2>1. ASSUME NEW j \in i..(i + h - 1), j <= Len(after) PROVE after[j].kind # "SOH"
    BY <1>1, <1>3, <2>1 DEF Gap, k
  <2>2. Over(b) \/ i + h <= Len(after) + 1
    BY <1>1, <1>3 DEF Gap, k
  <2>3. QED
    BY <2>1, <2>2 DEF Gap
<1>4. ASSUME NEW h \in Nat, h <= Patience PROVE Gap(after, k + 1, h, b)
  BY <1>1, <1>2, <1>4 DEF Gap
<1>5. Broken(after, b)
  <2> SUFFICES ASSUME NEW i \in 2..Len(after), after[i].kind # "SOH", after[i - 1].kind = "SOH"
               PROVE  Gap(after, i, Patience, b)
    BY DEF Broken
  <2>1. i <= k + 1
    BY <1>1
  <2>2. CASE i = k + 1
    BY <1>2, <1>4, <2>2
  <2>3. CASE i \in 2..k
    <3>1. after[i] = line[i] /\ after[i - 1] = line[i - 1]
      BY <1>1, <2>3
    <3>2. Gap(line, i, Patience, a)
      BY <2>3, <3>1 DEF Broken, k
    <3>3. QED
      BY <1>2, <1>3, <2>3, <3>2
  <2>4. QED
    BY <1>1, <2>1, <2>2, <2>3
<1>6. ASSUME InStep(line, n, m, a) PROVE InStep(after, n, m, b)
  <2>1. ASSUME after[1].kind # "SOH" PROVE Gap(after, 1, m, b)
    <3>1. CASE k = 0
      BY <1>2, <1>4, <3>1
    <3>2. CASE k >= 1
      <4>1. line # <<>> /\ line[1].kind # "SOH"
        BY <1>1, <2>1, <3>2 DEF k
      <4>2. Gap(line, 1, m, a)
        BY <1>6, <4>1 DEF InStep
      <4>3. QED
        BY <1>1, <1>2, <1>3, <3>2, <4>2
    <3>3. QED
      BY <1>1, <3>1, <3>2
  <2>2. ASSUME NEW i \in 1..Len(after), Framed(after, i)
        PROVE  after[i].block \in {Before(after, i, n), Before(after, i, n) + 1}
    <3>1. i \in 1..k
      BY <1>1, <2>2 DEF Framed
    <3>2. Framed(line, i) /\ after[i] = line[i]
      BY <1>1, <2>2, <3>1 DEF Framed
    <3>3. Before(after, i, n) = Before(line, i, n)
      BY <1>1, <3>1 DEF Before
    <3>4. QED
      BY <1>6, <3>1, <3>2, <3>3 DEF InStep, k
  <2>3. Framed(after, Len(after)) => b.pc \notin {"send", "ack"}
    <3>1. Over(b) => b.pc \notin {"send", "ack"}
      BY DEF Over
    <3>2. ~Over(b) => ~Framed(after, Len(after))
      BY <1>1, <1>2 DEF Framed
    <3>3. QED
      BY <3>1, <3>2
  <2>4. QED
    BY <2>1, <2>2, <2>3 DEF InStep
<1>7. QED
  BY <1>5, <1>6 DEF after

\* The sender has its answer, and repeats the frame or goes on to the next.
LEMMA InStepAnswer ==
  ASSUME NEW line, NEW n, NEW m, NEW a, NEW b, a.pc = "ack", b.pc = "send",
         b.block \in {a.block, a.block + 1}
  PROVE  /\ Broken(line, a) => Broken(line, b)
         /\ InStep(line, n, m, a) => InStep(line, n, m, b)
<1>1. ~Over(a) /\ ~Over(b)
  BY DEF Over
<1>2. \A i, h : Gap(line, i, h, a) <=> Gap(line, i, h, b)
  BY <1>1 DEF Gap
<1> HIDE DEF Gap
<1>3. QED
  BY <1>1, <1>2 DEF Broken, InStep

\* What is left of a line when its first element is taken.
LEMMA BrokenTail ==
  ASSUME NEW line \in Seq(Element), line # <<>>, NEW a, Broken(line, a)
  PROVE  Broken(Tail(line), a)
<1> DEFINE after == Tail(line)
           k == Len(line) - 1
<1>1. k \in Nat /\ Len(after) = k /\ Len(line) = k + 1 /\ \A i \in 1..k : after[i] = line[i + 1]
  BY TailAt
<1> HIDE DEF after, k
<1>2. SUFFICES ASSUME NEW i \in 2..k, after[i].kind # "SOH", after[i - 1].kind = "SOH"
               PROVE  Gap(after, i, Patience, a)
  BY <1>1 DEF Broken, after
<1>3. after[i] = line[i + 1] /\ after[i - 1] = line[i]
  BY <1>1
<1>4. Gap(line, i + 1, Patience, a)
  <2>1. i + 1 \in 2..Len(line) /\ (i + 1) - 1 = i
    BY <1>1
  <2>2. QED
    BY <1>2, <1>3, <2>1 DEF Broken
<1>5. ASSUME NEW j \in i..(i + Patience - 1), j <= k PROVE after[j].kind # "SOH"
  <2>1. j + 1 \in (i + 1)..((i + 1) + Patience - 1) /\ after[j] = line[j + 1]
    BY <1>1, <1>5, PatienceLasts
  <2>2. QED
    BY <1>1, <1>4, <1>5, <2>1 DEF Gap
<1>6. QED
  BY <1>1, <1>4, <1>5, PatienceLasts DEF Gap

\* The receiver takes a frame, and has all its tries again.
LEMMA InStepTaken ==
  ASSUME NEW line \in Seq(Element), line # <<>>, line[1].kind = "SOH", NEW a, Broken(line, a),
         NEW n \in Nat,
         \/ \E h \in Nat, m \in Nat : InStep(line, h, m, a) /\ n = line[1].block
         \/ Firsts(line) /\ n = 1 /\ (a.block = 1 \/ Over(a))
  PROVE  InStep(Tail(line), n, Patience, a)
<1> DEFINE after == Tail(line)
           k == Len(line) - 1
<1>1. k \in Nat /\ Len(after) = k /\ Len(line) = k + 1 /\ \A i \in 1..k : after[i] = line[i + 1]
  BY TailAt
<1> HIDE DEF after, k
<1>2. ASSUME after # <<>>, after[1].kind # "SOH" PROVE Gap(after, 1, Patience, a)
  <2>1. k >= 1
    BY <1>1, <1>2, TailAt, EmptySeq DEF after
  <2>2. Gap(line, 2, Patience, a)
    BY <1>1, <1>2, <2>1 DEF Broken
  <2>3. ASSUME NEW j \in 1..(1 + Patience - 1), j <= k PROVE after[j].kind # "SOH"
    <3>1. j + 1 \in 2..(2 + Patience - 1) /\ after[j] = line[j + 1]
      BY <1>1, <2>3, PatienceLasts
    <3>2. QED
      BY <1>1, <2>2, <2>3, <3>1 DEF Gap
  <2>4. QED
    BY <1>1, <2>2, <2>3, PatienceLasts DEF Gap
<1>3. CASE \E h \in Nat, m \in Nat : InStep(line, h, m, a) /\ n = line[1].block
  <2>1. PICK h \in Nat, m \in Nat : InStep(line, h, m, a) /\ n = line[1].block
    BY <1>3
  <2>2. ASSUME NEW i \in 0..k PROVE Framed(after, i) => Framed(line, i + 1)
    <3>1. ASSUME Framed(after, i), NEW j \in 2..(i + 1) PROVE line[j].kind = "SOH"
      <4>1. j - 1 \in 1..i /\ j - 1 \in 1..k /\ after[j - 1] = line[(j - 1) + 1]
        BY <1>1, <2>2, <3>1
      <4>2. QED
        BY <3>1, <4>1 DEF Framed
    <3>2. QED
      BY <1>1, <2>2, <3>1 DEF Framed
  <2>3. ASSUME NEW i \in 1..(k + 1) PROVE Before(after, i, n) = Before(line, i + 1, h)
    BY <1>1, <2>1, <2>3 DEF Before
  <2>4. ASSUME NEW i \in 1..k, Framed(after, i)
        PROVE  after[i].block \in {Before(after, i, n), Before(after, i, n) + 1}
    <3>1. line[i + 1].block \in {Before(line, i + 1, h), Before(line, i + 1, h) + 1}
      BY <1>1, <2>1, <2>2, <2>4 DEF InStep
    <3>2. QED
      BY <1>1, <2>3, <3>1
  <2>5. ASSUME Framed(after, k)
        PROVE  /\ a.pc = "send" => a.block \in {Before(after, k + 1, n), Before(after, k + 1, n) + 1}
               /\ a.pc = "ack" => a.block = Before(after, k + 1, n)
    <3>1. Framed(line, k + 1)
      BY <1>1, <2>2, <2>5
    <3>2. Before(after, k + 1, n) = Before(line, (k + 1) + 1, h)
      BY <1>1, <2>3
    <3>3. QED
      BY <1>1, <2>1, <3>1, <3>2 DEF InStep
  <2>6. QED
    BY <1>1, <1>2, <2>4, <2>5 DEF InStep, after
<1>4. CASE Firsts(line) /\ n = 1 /\ (a.block = 1 \/ Over(a))
  <2>1. ASSUME NEW i \in 1..k, after[i].kind = "SOH" PROVE after[i].block = 1
    BY <1>1, <1>4, <2>1 DEF Firsts
  <2>2. ASSUME NEW i \in 1..(k + 1), Framed(after, i - 1) PROVE Before(after, i, n) = 1
    <3>1. CASE i = 1
      BY <1>4, <3>1 DEF Before
    <3>2. CASE i > 1
      <4>1. after[i - 1].kind = "SOH" /\ i - 1 \in 1..k
        BY <1>1, <2>2, <3>2 DEF Framed
      <4>2. QED
        BY <2>1, <3>2, <4>1 DEF Before
    <3>3. QED
      BY <3>1, <3>2
  <2>3. ASSUME NEW i \in 1..k, Framed(after, i)
        PROVE  after[i].block \in {Before(after, i, n), Before(after, i, n) + 1}
    <3>1. Framed(after, i - 1) /\ after[i].kind = "SOH"
      BY <2>3 DEF Framed
    <3>2. QED
      BY <1>1, <2>1, <2>2, <3>1
  <2>4. ASSUME Framed(after, k)
        PROVE  /\ a.pc = "send" => a.block = Before(after, k + 1, n)
               /\ a.pc = "ack" => a.block = Before(after, k + 1, n)
    <3>1. Before(after, k + 1, n) = 1
      BY <1>1, <2>2, <2>4
    <3>2. QED
      BY <1>4, <3>1 DEF Over
  <2>5. QED
    BY <1>1, <1>2, <2>3, <2>4 DEF InStep, after
<1>5. QED
  BY <1>3, <1>4

\* The receiver takes what is no frame, and has one element less to try.
LEMMA InStepTry ==
  ASSUME NEW line \in Seq(Element), line # <<>>, line[1].kind # "SOH", NEW a,
         NEW n, NEW m \in Nat, m > 1, InStep(line, n, m, a)
  PROVE  InStep(Tail(line), n, m - 1, a) /\ Gap(Tail(line), 1, 1, a)
<1> DEFINE after == Tail(line)
           k == Len(line) - 1
<1>1. k \in Nat /\ Len(after) = k /\ Len(line) = k + 1 /\ \A i \in 1..k : after[i] = line[i + 1]
  BY TailAt
<1>2. Gap(line, 1, m, a)
  BY DEF InStep
<1> HIDE DEF after, k
<1>3. Gap(after, 1, m - 1, a)
  <2>1. ASSUME NEW j \in 1..(m - 1), j <= k PROVE after[j].kind # "SOH"
    <3>1. j + 1 \in 1..(1 + m - 1) /\ after[j] = line[j + 1]
      BY <1>1, <2>1
    <3>2. QED
      BY <1>1, <1>2, <2>1, <3>1 DEF Gap
  <2>2. Over(a) \/ 1 + (m - 1) <= k + 1
    BY <1>1, <1>2 DEF Gap
  <2>3. QED
    BY <1>1, <2>1, <2>2 DEF Gap
<1>4. k >= 1 => after[1].kind # "SOH"
  BY <1>1, <1>3 DEF Gap
<1>5. k = 0 => Over(a)
  BY <1>1, <1>3 DEF Gap
<1>6. ASSUME NEW i \in 1..k PROVE ~Framed(after, i)
  BY <1>1, <1>4 DEF Framed
<1>7. Framed(after, k) => a.pc \notin {"send", "ack"}
  <2>1. CASE k = 0
    BY <1>5, <2>1 DEF Over
  <2>2. CASE k >= 1
    BY <1>1, <1>6, <2>2
  <2>3. QED
    BY <1>1, <2>1, <2>2
<1>8. Gap(after, 1, 1, a)
  BY <1>1, <1>4, <1>5 DEF Gap
<1>9. QED
  BY <1>1, <1>3, <1>6, <1>7, <1>8 DEF InStep, after

\* A line that begins with something plain still does when more is said.
LEMMA GapGrows ==
  ASSUME NEW line \in Seq(Element), NEW y \in Seq(Element), NEW a, NEW b, Over(a) => Over(b),
         Gap(line, 1, 1, a), y \in Seq(Plain) \/ ~Over(a)
  PROVE  Gap(line \o y, 1, 1, b)
<1> DEFINE after == line \o y
           k == Len(line)
<1>1. /\ Len(after) = k + Len(y) /\ k \in Nat /\ Len(y) \in Nat
      /\ \A i \in 1..(k + Len(y)) : after[i] = IF i <= k THEN line[i] ELSE y[i - k]
  <2> HIDE DEF Element
  <2>1. QED
    BY ConcatProperties
<1>2. y \in Seq(Plain) => \A i \in 1..Len(y) : y[i].kind # "SOH"
  BY ElementOfSeq DEF Plain
<1> HIDE DEF after, k
<1>3. (k >= 1 => line[1].kind # "SOH") /\ (Over(a) \/ 1 <= k)
  BY <1>1 DEF Gap, k
<1>4. ASSUME Len(after) >= 1 PROVE after[1].kind # "SOH"
  <2>1. CASE k >= 1
    BY <1>1, <1>3, <2>1
  <2>2. CASE k = 0
    <3>1. Len(y) >= 1 /\ after[1] = y[1] /\ y \in Seq(Plain)
      BY <1>1, <1>3, <1>4, <2>2
    <3>2. QED
      BY <1>1, <1>2, <3>1
  <2>3. QED
    BY <1>1, <2>1, <2>2
<1>5. QED
  BY <1>1, <1>3, <1>4 DEF Gap, after

\* Fewer elements to try.
LEMMA InStepLess ==
  ASSUME NEW line \in Seq(Element), NEW n, NEW m \in Nat, NEW h \in Nat, h <= m, NEW a,
         InStep(line, n, m, a)
  PROVE  InStep(line, n, h, a)
<1>1. Len(line) \in Nat
  BY LenProperties
<1>2. Gap(line, 1, m, a) => Gap(line, 1, h, a)
  BY <1>1 DEF Gap
<1>3. QED
  BY <1>2 DEF InStep

\* Nothing is on the line, or nothing will be but what the sender says at the end.
LEMMA InStepNothing ==
  ASSUME NEW line \in Seq(Element), NEW a, NEW n, NEW m,
         \/ line = <<>> /\ \E h : InStep(line, n, h, a)
         \/ Over(a) /\ line \in Seq(Plain)
  PROVE  InStep(line, n, m, a)
<1>1. CASE line = <<>> /\ \E h : InStep(line, n, h, a)
  BY <1>1 DEF InStep
<1>2. CASE Over(a) /\ line \in Seq(Plain)
  <2>1. Len(line) \in Nat /\ \A i \in 1..Len(line) : line[i].kind # "SOH"
    BY <1>2, LenProperties, ElementOfSeq DEF Plain
  <2>2. line # <<>> => Gap(line, 1, m, a)
    BY <1>2, <2>1 DEF Gap
  <2>3. \A i \in 1..Len(line) : ~Framed(line, i)
    BY <2>1 DEF Framed
  <2>4. a.pc \notin {"send", "ack"}
    BY <1>2 DEF Over
  <2>5. QED
    BY <2>2, <2>3, <2>4 DEF InStep
<1>3. QED
  BY <1>1, <1>2

\* What a sender that says nothing but bytes leaves on the line, if the receiver still reads.
LEMMA QuietAdds ==
  ASSUME toR \in Seq(Element), r.pc # "done", Quiet
  PROVE  \E y \in Seq(Plain) : toR' = toR \o y
<1>1. toR = toR \o <<>> /\ <<>> \in Seq(Plain)
  BY ConcatEmptySeq, EmptySeq
<1>2. ASSUME NEW x \in Seq(Plain), x # <<>>, Sends(x)
      PROVE  \E y \in Seq(Plain) : toR' = toR \o y
  <2>1. CASE toR' = Carried(toR, x, r)
    BY <2>1 DEF Carried
  <2>2. CASE Fault(FaultsToR, x, toR, r)
    <3>1. PICK kind \in FaultsToR : \E y \in Damaged(kind, x) : toR' = Carried(toR, y, r)
      BY <2>2 DEF Fault
    <3>2. PICK y \in Damaged(kind, x) : toR' = Carried(toR, y, r)
      BY <3>1
    <3>3. y \in Seq(Plain)
      BY <1>2, <3>1, DamagedPlain
    <3>4. QED
      BY <3>2, <3>3 DEF Carried
  <2>3. QED
    BY <1>2, <2>1, <2>2 DEF Sends
<1>3. QED
  BY <1>1, <1>2 DEF Quiet

\* Stray bytes are plain.
LEMMA StraysPlain ==
  ASSUME NEW n \in Nat
  PROVE  Strays(n) \in Seq(Plain) /\ Len(Strays(n)) = n
<1>1. Strays(n) \in [1..n -> Plain]
  BY PlainType DEF Strays
<1>2. QED
  BY <1>1, SeqDef, LenProperties

\* What a frame leaves on the line, if the receiver still reads: nothing, the frame, damaged or
\* not, or as many plain bytes.
LEMMA FrameAdds ==
  ASSUME SenderInv, LineInv, r.pc # "done", SendBlock
  PROVE  \/ toR' = toR
         \/ \E f \in Element : /\ f.kind = "SOH" /\ f.block = s.block /\ f.crc = s.crc
                               /\ toR' = toR \o <<f>>
         \/ \E y \in Seq(Plain) : Len(y) = FrameBytes /\ toR' = toR \o y
<1> DEFINE damaged == [Frame EXCEPT !.good = FALSE]
<1>1. /\ Frame \in Element /\ Frame.kind = "SOH" /\ Frame.block = s.block /\ Frame.crc = s.crc
      /\ damaged \in Element /\ damaged.kind = "SOH" /\ damaged.block = s.block
      /\ damaged.crc = s.crc
  <2>1. s \in Senders /\ s.block \in 1..N /\ s.crc \in BOOLEAN
    BY CountsAssumption DEF SenderInv, Senders, SendBlock
  <2>2. Frame \in Element
    BY <2>1, CountsAssumption DEF Frame, Element, Bytes
  <2>3. QED
    BY <2>1, <2>2 DEF Frame, Element
<1> DEFINE x == <<Frame>>
<1>2. Head(x) = Frame /\ Tail(x) = <<>>
  OBVIOUS
<1>3. toR \o <<>> = toR
  BY ConcatEmptySeq DEF LineInv
<1>4. Strays(FrameBytes) \in Seq(Plain) /\ Len(Strays(FrameBytes)) = FrameBytes
  BY StraysPlain, CountsAssumption
<1> HIDE DEF x, damaged
<1>5. Sends(x)
  BY DEF SendBlock, x
<1>6. ASSUME NEW y, toR' = Carried(toR, y, r) PROVE toR' = toR \o y
  BY <1>6 DEF Carried
<1>7. CASE toR' = Carried(toR, x, r)
  BY <1>1, <1>6, <1>7 DEF x
<1>8. CASE Fault(FaultsToR, x, toR, r)
  <2>1. PICK kind \in FaultsToR : \E y \in Damaged(kind, x) : toR' = Carried(toR, y, r)
    BY <1>8 DEF Fault
  <2>2. PICK y \in Damaged(kind, x) : toR' = toR \o y
    BY <1>6, <2>1
  <2>3. CASE kind = "lost"
    BY <1>2, <1>3, <2>2, <2>3 DEF Damaged
  <2>4. CASE kind = "garbled"
    <3>1. y = <<damaged>> \o <<>>
      BY <1>2, <2>2, <2>4 DEF Damaged, damaged
    <3>2. y = <<damaged>>
      BY <3>1
    <3>3. QED
      BY <1>1, <2>2, <3>2
  <2>5. CASE kind = "headless"
    <3>1. y = Strays(FrameBytes)
      BY <1>2, <2>2, <2>5 DEF Damaged
    <3>2. QED
      BY <1>4, <2>2, <3>1
  <2>6. QED
    BY <2>1, <2>3, <2>4, <2>5, FaultsAssumption
<1>9. QED
  BY <1>5, <1>7, <1>8 DEF Sends

\* The bytes of these kinds, and what damage makes of them.
Saying(K) == {Byte(kind) : kind \in K \cup {"stray"}}

\* The answers on the line, when one more of them is given.
LEMMA AnswersAdd ==
  ASSUME NEW K, "SOH" \notin K, toS \in Seq(Saying(K)), NEW kind \in K, Answers(Says(kind))
  PROVE  toS' \in Seq(Saying(K)) /\ Len(toS') \in 0..(Len(toS) + 1)
<1>1. Byte(kind) \in Saying(K) /\ Byte("stray") \in Saying(K) /\ Byte(kind) # Frame
  BY DEF Saying, Byte, Frame
<1> DEFINE x == Says(kind)
<1>2. x \in Seq(Saying(K)) /\ Head(x) # Frame /\ Tail(x) = <<>> /\ Len(x) = 1
  BY <1>1 DEF Says
<1> HIDE DEF x
<1>3. Answers(x)
  BY DEF x
<1>4. ASSUME NEW y \in Seq(Saying(K)), Len(y) <= 1
      PROVE  /\ Carried(toS, y, s) \in Seq(Saying(K))
             /\ Len(Carried(toS, y, s)) \in 0..(Len(toS) + 1)
  <2>1. Len(toS) \in Nat /\ Len(y) \in Nat
    BY LenProperties
  <2>2. toS \o y \in Seq(Saying(K)) /\ Len(toS \o y) = Len(toS) + Len(y)
    BY ConcatProperties
  <2>3. QED
    BY <1>4, <2>1, <2>2 DEF Carried
<1>5. ASSUME NEW fault \in FaultsToS, NEW y \in Damaged(fault, x)
      PROVE  y \in Seq(Saying(K)) /\ Len(y) <= 1
  <2>1. CASE fault = "lost"
    <3>1. y = <<>>
      BY <1>2, <1>5, <2>1 DEF Damaged
    <3>2. <<>> \in Seq(Saying(K)) /\ Len(<<>>) = 0
      BY EmptySeq
    <3>3. QED
      BY <3>1, <3>2
  <2>2. CASE fault = "garbled"
    <3>1. y = <<Byte("stray")>> \o <<>>
      BY <1>2, <1>5, <2>2 DEF Damaged
    <3>2. QED
      BY <1>1, <3>1
  <2>3. QED
    BY <2>1, <2>2, FaultsAssumption
<1>6. CASE toS' = Carried(toS, x, s)
  <2>1. x \in Seq(Saying(K)) /\ Len(x) <= 1
    BY <1>2
  <2>2. QED
    BY <1>4, <1>6, <2>1
<1>7. CASE Fault(FaultsToS, x, toS, s)
  <2>1. PICK fault \in FaultsToS : \E y \in Damaged(fault, x) : toS' = Carried(toS, y, s)
    BY <1>7 DEF Fault
  <2>2. QED
    BY <1>4, <1>5, <2>1
<1>8. QED
  BY <1>3, <1>6, <1>7 DEF Answers

\* The answers on the line, when the sender reads one.
LEMMA HeardSays ==
  ASSUME NEW K, toS \in Seq(Saying(K)), NEW c, Heard(c)
  PROVE  /\ toS' \in Seq(Saying(K)) /\ c \in K \cup {"stray", "timeout"}
         /\ \/ toS = <<>> /\ toS' = <<>> /\ c = "timeout" /\ s.wait = 0
            \/ toS # <<>> /\ Len(toS) > 0 /\ Len(toS') = Len(toS) - 1
<1>1. CASE toS = <<>>
  BY <1>1 DEF Heard
<1>2. CASE toS # <<>>
  <2>1. /\ Head(toS) \in Saying(K) /\ Tail(toS) \in Seq(Saying(K))
        /\ Len(toS) > 0 /\ Len(Tail(toS)) = Len(toS) - 1
    BY <1>2, HeadTailProperties, EmptySeq
  <2>2. Head(toS).kind \in K \cup {"stray"}
    BY <2>1 DEF Saying, Byte
  <2>3. QED
    BY <1>2, <2>1, <2>2 DEF Heard
<1>3. QED
  BY <1>1, <1>2

\* The fields of a sender that goes on to a block.
LEMMA SenderFields ==
  ASSUME NEW a \in Senders
  PROVE  /\ \A crc : /\ NextBlock([a EXCEPT !.crc = crc]).pc \in {"send", "end"}
                     /\ NextBlock([a EXCEPT !.crc = crc]).block = a.block
                     /\ NextBlock([a EXCEPT !.crc = crc]).crc = crc
         /\ NextBlock([a EXCEPT !.block = @ + 1]).pc \in {"send", "end"}
         /\ NextBlock([a EXCEPT !.block = @ + 1]).block = a.block + 1
         /\ NextBlock([a EXCEPT !.block = @ + 1]).crc = a.crc
BY DEF To, Ends, NextBlock, Senders

\* The ways of the sender: to its first frame, past its last one, from an answer to the next
\* try, and the sending of a frame.
LEMMA SenderWays ==
  ASSUME s \in Senders, SenderNext
  PROVE  \/ /\ s.pc \in {"off", "sync", "can"} /\ s'.pc \in {"sync", "can"}
            /\ toR' = toR /\ s'.block = s.block
         \/ /\ s.pc = "sync" /\ s'.pc = "send" /\ toR' = toR /\ s'.block = s.block
            /\ \E c \in {"C", "NAK"} : Heard(c) /\ s'.crc = (c = "C")
         \/ /\ Over(s') /\ Quiet
            /\ s'.block = s.block \/ (s'.block = s.block + 1 /\ Heard("ACK"))
         \/ /\ s.pc = "ack" /\ s'.pc = "send" /\ toR' = toR /\ s'.crc = s.crc
            /\ \/ s'.block = s.block /\ \E c \in Bytes : Heard(c)
               \/ s'.block = s.block + 1 /\ Heard("ACK")
         \/ SendBlock /\ s'.pc = "ack" /\ s'.block = s.block /\ s'.crc = s.crc
<1> USE DEF SenderStep
<1>0. /\ \A pc, w : /\ To(s, pc, w).pc = pc /\ To(s, pc, w).block = s.block /\ To(s, pc, w).crc = s.crc
                    /\ Retry(pc, w).pc = pc /\ Retry(pc, w).block = s.block /\ Retry(pc, w).crc = s.crc
      /\ \A result : Ends(s, result).pc = "done" /\ Ends(s, result).block = s.block
  BY DEF To, Ends, Retry, Senders
<1>1. CASE BeginSend
  BY <1>0, <1>1 DEF BeginSend
<1>2. CASE NoSync
  BY <1>0, <1>2, PlainType DEF NoSync, Quiet, Over
<1>3. CASE GiveUp
  BY <1>0, <1>3, PlainType DEF GiveUp, Quiet, Over
<1>4. CASE SendEot
  BY <1>0, <1>4, PlainType DEF SendEot, Quiet, Over
<1>5. CASE NoAnswer
  BY <1>0, <1>5 DEF NoAnswer, Quiet, Over
<1>6. CASE SendBlock
  BY <1>0, <1>6 DEF SendBlock
<1>7. ASSUME NEW c \in Bytes, Sync(c)
      PROVE  \/ /\ s.pc \in {"off", "sync", "can"} /\ s'.pc \in {"sync", "can"}
                /\ toR' = toR /\ s'.block = s.block
             \/ /\ s.pc = "sync" /\ s'.pc = "send" /\ toR' = toR /\ s'.block = s.block
                /\ Heard(c) /\ c \in {"C", "NAK"} /\ s'.crc = (c = "C")
             \/ Over(s') /\ Quiet /\ s'.block = s.block
  <2>1. s.pc = "sync" /\ toR' = toR /\ Heard(c)
    BY <1>7 DEF Sync
  <2>2. CASE c \in {"C", "NAK"}
    <3> DEFINE crc == (c = "C")
    <3>1. s' = NextBlock([s EXCEPT !.crc = crc])
      BY <1>7, <2>2 DEF Sync
    <3> HIDE DEF crc
    <3>2. s'.pc \in {"send", "end"} /\ s'.block = s.block /\ s'.crc = crc
      BY <3>1, SenderFields
    <3>3. QED
      BY <2>1, <2>2, <3>2 DEF Over, Quiet, crc
  <2>3. CASE c \notin {"C", "NAK"}
    <3>1. s' = To(s, "can", CanWait) \/ s' = Resync
      BY <1>7, <2>3 DEF Sync
    <3>2. QED
      BY <1>0, <2>1, <3>1 DEF Resync
  <2>4. QED
    BY <2>2, <2>3
<1>8. ASSUME NEW c \in Bytes, SyncCan(c)
      PROVE  \/ /\ s.pc \in {"off", "sync", "can"} /\ s'.pc \in {"sync", "can"}
                /\ toR' = toR /\ s'.block = s.block
             \/ Over(s') /\ Quiet /\ s'.block = s.block
  <2>1. s.pc = "can" /\ \/ Sends(Says("ACK")) /\ s' = Ends(s, "cancelled")
                        \/ s' = Resync /\ toR' = toR
    BY <1>8 DEF SyncCan
  <2>2. QED
    BY <1>0, <2>1, PlainType DEF Resync, Over, Quiet
<1>9. ASSUME NEW c \in Bytes, AckOf(c)
      PROVE  \/ /\ Over(s') /\ Quiet
                /\ s'.block = s.block \/ (s'.block = s.block + 1 /\ Heard("ACK"))
             \/ /\ s.pc = "ack" /\ s'.pc = "send" /\ toR' = toR /\ s'.crc = s.crc
                /\ \/ s'.block = s.block /\ Heard(c)
                   \/ s'.block = s.block + 1 /\ Heard("ACK")
  <2>1. s.pc = "ack" /\ Heard(c)
    BY <1>9 DEF AckOf
  <2>2. CASE c = "CAN"
    BY <1>0, <1>9, <2>2, PlainType DEF AckOf, Quiet, Over
  <2>3. CASE c = "ACK"
    <3>1. toR' = toR /\ s' = NextBlock([s EXCEPT !.block = @ + 1])
      BY <1>9, <2>3 DEF AckOf
    <3>2. s'.pc \in {"send", "end"} /\ s'.block = s.block + 1 /\ s'.crc = s.crc
      BY <3>1, SenderFields
    <3>3. QED
      BY <2>1, <2>3, <3>1, <3>2 DEF Over, Quiet
  <2>4. CASE c \notin {"CAN", "ACK"}
    BY <1>0, <1>9, <2>1, <2>4 DEF AckOf
  <2>5. QED
    BY <2>2, <2>3, <2>4
<1>10. ASSUME NEW c \in Bytes, SendFlush(c) \/ EotAnswer(c)
       PROVE  Over(s') /\ Quiet /\ s'.block = s.block
  <2>1. toR' = toR /\ \/ s' = Ends(s, "xmit error") \/ s' = To(s, "flush", FlushWait)
                      \/ s' = Ends(s, "success") \/ s' = Retry("end", 0)
    BY <1>10 DEF SendFlush, EotAnswer
  <2>2. s'.pc \in {"done", "flush", "end"} /\ s'.block = s.block
    <3>1. /\ Ends(s, "xmit error").pc = "done" /\ Ends(s, "xmit error").block = s.block
          /\ Ends(s, "success").pc = "done" /\ Ends(s, "success").block = s.block
      BY <1>0
    <3>2. /\ To(s, "flush", FlushWait).pc = "flush" /\ To(s, "flush", FlushWait).block = s.block
          /\ Retry("end", 0).pc = "end" /\ Retry("end", 0).block = s.block
      BY <1>0
    <3>3. QED
      BY <2>1, <3>1, <3>2
  <2>3. QED
    BY <2>1, <2>2 DEF Over, Quiet
<1>11. QED
  BY <1>1, <1>2, <1>3, <1>4, <1>5, <1>6, <1>7, <1>8, <1>9, <1>10 DEF SenderNext

\* The sender reads one answer or none, and a sender that is past its frames stays so.
LEMMA SenderReads ==
  ASSUME s \in Senders, SenderNext
  PROVE  /\ toS' = toS \/ \E c \in Bytes : Heard(c)
         /\ Over(s) => Over(s')
<1>1. toS' = toS \/ \E c \in Bytes : Heard(c)
  BY DEF SenderNext, BeginSend, NoSync, SendBlock, GiveUp, SendEot, NoAnswer, Sync, SyncCan, AckOf,
         SendFlush, EotAnswer
<1>2. Over(s) => Over(s')
  <2>1. \/ s.pc \in {"off", "sync", "can"} \/ s.pc = "ack" \/ s.pc = "send" \/ Over(s')
    BY SenderWays DEF SendBlock
  <2>2. QED
    BY <2>1 DEF Over
<1>3. QED
  BY <1>1, <1>2

\* All frames have the checksum that is asked for with "C".
Crcs(line) == \A i \in 1..Len(line) : line[i].kind = "SOH" => line[i].crc

\* Until the receiver has seen a frame nothing is written or acknowledged, and the sender is
\* at its first block.
Unstarted == /\ file = <<>> /\ Firsts(toR) /\ (s.block = 1 \/ Over(s))
             /\ toS \in Seq(Saying({"C", "NAK"}))

\* The receiver has never asked for frames without a CRC, and there are none.
Checked == /\ toS \in Seq(Saying({"C", "ACK"}))
           /\ Crcs(toR) /\ (s.pc \in {"send", "ack"} => s.crc)

\* The elements that the tries left to the receiver take.
Room(b) == 2 * (MaxTry - b.retry) - (IF b.pc = "can" THEN 1 ELSE 0)

\* The invariant: what is on the line, and what the sender does next, while the receiver has
\* refused nothing and no frame was lost.
ForgiveInv ==
  (r.pc # "done" /\ ~refused /\ ~missed) =>
    /\ r.pc \notin {"frame", "flush"}
    /\ s.pc \in {"off", "sync", "can"} => toR = <<>> /\ r.try # "none"
    /\ r.pc = "off" => r.try # "none"
    /\ r.pc = "can" /\ r.try = "none" => Gap(toR, 1, 1, s)
    /\ r.crc => r.try = "none"
    /\ Broken(toR, s)
    /\ r.try # "none" => Unstarted
    /\ r.try = "none" /\ r.retry < MaxTry => InStep(toR, Len(file), Room(r), s)
    /\ r.try = "C" \/ r.crc => Checked

\* More on the line, and the frames there.
LEMMA FramesSaid ==
  ASSUME NEW line \in Seq(Element)
  PROVE  /\ \A y \in Seq(Plain) : /\ Firsts(line) => Firsts(line \o y)
                                  /\ Crcs(line) => Crcs(line \o y)
         /\ \A f \in Element : /\ Firsts(line) /\ f.block = 1 => Firsts(line \o <<f>>)
                               /\ Crcs(line) /\ f.crc => Crcs(line \o <<f>>)
<1>1. ASSUME NEW y \in Seq(Plain)
      PROVE  /\ Firsts(line) => Firsts(line \o y)
             /\ Crcs(line) => Crcs(line \o y)
  <2> DEFINE after == line \o y
  <2>1. /\ Len(line) \in Nat /\ Len(after) \in Nat
        /\ \A i \in 1..Len(line) : after[i] = line[i]
        /\ \A i \in (Len(line) + 1)..Len(after) : after[i].kind # "SOH"
    BY PlainAt
  <2> HIDE DEF after
  <2>2. \A i \in 1..Len(after) : after[i].kind = "SOH" => i \in 1..Len(line) /\ after[i] = line[i]
    BY <2>1
  <2>3. QED
    BY <2>2 DEF Firsts, Crcs, after
<1>2. ASSUME NEW f \in Element
      PROVE  /\ Firsts(line) /\ f.block = 1 => Firsts(line \o <<f>>)
             /\ Crcs(line) /\ f.crc => Crcs(line \o <<f>>)
  <2> DEFINE after == line \o <<f>>
  <2>1. /\ Len(line) \in Nat /\ Len(after) = Len(line) + 1
        /\ \A i \in 1..Len(line) : after[i] = line[i]
        /\ after[Len(line) + 1] = f
    BY AppendAt
  <2> HIDE DEF after
  <2>2. \A i \in 1..Len(after) : after[i] = f \/ (i \in 1..Len(line) /\ after[i] = line[i])
    BY <2>1
  <2>3. QED
    BY <2>2 DEF Firsts, Crcs, after
<1>3. QED
  BY <1>1, <1>2

\* A step of the sender keeps it.
LEMMA SenderForgives ==
  ASSUME CountInv, Patience <= FrameBytes, ForgiveInv, SenderNext, Remember
  PROVE  ForgiveInv'
<1>1. s \in Senders /\ r' = r /\ file' = file /\ SenderInv /\ LineInv /\ toR \in Seq(Element)
  BY SenderKeeps DEF CountInv, SenderInv, LineInv
<1>2. r.retry \in 0..MaxTry /\ MaxTry \in Nat /\ MaxTry > 0 /\ FrameBytes \in Nat /\ Len(file) \in Nat
  <2>1. r.retry \in 0..MaxTry
    BY Bounds DEF CountInv, ReceiverCounts
  <2>2. QED
    BY <2>1, CountsAssumption, LenProperties DEF CountInv
<1>3. SUFFICES ASSUME r.pc # "done", ~refused', ~missed' PROVE ForgiveInv'
  BY <1>1 DEF ForgiveInv
<1>4. ~refused /\ ~missed /\ (s.pc = "send" /\ s'.pc = "ack" => toR' # toR)
  BY <1>3 DEF Remember
<1>5. /\ r.pc \notin {"frame", "flush"}
      /\ s.pc \in {"off", "sync", "can"} => toR = <<>> /\ r.try # "none"
      /\ r.pc = "off" => r.try # "none"
      /\ r.pc = "can" /\ r.try = "none" => Gap(toR, 1, 1, s)
      /\ r.crc => r.try = "none"
      /\ Broken(toR, s)
      /\ r.try # "none" => Unstarted
      /\ r.try = "none" /\ r.retry < MaxTry => InStep(toR, Len(file), Room(r), s)
      /\ r.try = "C" \/ r.crc => Checked
  BY <1>3, <1>4 DEF ForgiveInv
<1>6. ASSUME s'.pc \in {"off", "sync", "can"} => toR' = <<>> /\ r.try # "none",
             r.pc = "can" /\ r.try = "none" => Gap(toR', 1, 1, s'),
             Broken(toR', s'),
             r.try # "none" => Unstarted',
             r.try = "none" /\ r.retry < MaxTry => InStep(toR', Len(file), Room(r), s'),
             r.try = "C" \/ r.crc => Checked'
      PROVE  ForgiveInv'
  BY <1>1, <1>5, <1>6 DEF ForgiveInv
<1>7. ASSUME NEW K, toS \in Seq(Saying(K)) PROVE toS' \in Seq(Saying(K))
  BY <1>1, <1>7, SenderReads, HeardSays
<1>8. /\ r.try # "none" => toS' \in Seq(Saying({"C", "NAK"}))
      /\ r.try = "C" \/ r.crc => toS' \in Seq(Saying({"C", "ACK"}))
  BY <1>5, <1>7 DEF Unstarted, Checked
<1>9. (r.retry < MaxTry => Room(r) \in 1..Patience /\ Room(r) \in Nat) /\ 1 \in 1..Patience
  BY <1>2, PatienceLasts DEF Room
<1>10. CASE /\ s.pc \in {"off", "sync", "can"} /\ s'.pc \in {"sync", "can"}
            /\ toR' = toR /\ s'.block = s.block
  <2>1. toR' = <<>> /\ r.try # "none" /\ ~Over(s)
    BY <1>5, <1>10 DEF Over
  <2>2. Broken(toR', s')
    BY <2>1 DEF Broken
  <2>3. r.try # "none" => Unstarted'
    BY <1>1, <1>5, <1>8, <1>10, <2>1 DEF Unstarted
  <2>4. r.try = "C" \/ r.crc => Checked'
    BY <1>5, <1>8, <1>10 DEF Checked
  <2>5. QED
    BY <1>6, <1>10, <2>1, <2>2, <2>3, <2>4
<1>11. CASE /\ s.pc = "sync" /\ s'.pc = "send" /\ toR' = toR /\ s'.block = s.block
            /\ \E c \in {"C", "NAK"} : Heard(c) /\ s'.crc = (c = "C")
  <2>1. toR' = <<>> /\ r.try # "none" /\ ~Over(s)
    BY <1>5, <1>11 DEF Over
  <2>2. Broken(toR', s')
    BY <2>1 DEF Broken
  <2>3. r.try # "none" => Unstarted'
    BY <1>1, <1>5, <1>8, <1>11, <2>1 DEF Unstarted
  <2>4. ASSUME r.try = "C" \/ r.crc PROVE Checked'
    <3>1. PICK c \in {"C", "NAK"} : Heard(c) /\ s'.crc = (c = "C")
      BY <1>11
    <3>2. c \in {"C", "ACK"} \cup {"stray", "timeout"}
      BY <1>5, <2>4, <3>1, HeardSays DEF Checked
    <3>3. s'.crc
      BY <3>1, <3>2
    <3>4. QED
      BY <1>5, <1>8, <1>11, <2>4, <3>3 DEF Checked
  <2>5. QED
    BY <1>6, <1>11, <2>1, <2>2, <2>3, <2>4
<1>12. CASE Over(s') /\ Quiet
  <2>1. PICK y \in Seq(Plain) : toR' = toR \o y
    BY <1>1, <1>3, <1>12, QuietAdds
  <2>2. /\ Broken(toR', s')
        /\ r.try = "none" /\ r.retry < MaxTry => InStep(toR', Len(file), Room(r), s')
    <3>1. \A m \in 1..Patience : /\ Broken(toR \o y, s')
                                 /\ InStep(toR, Len(file), m, s) => InStep(toR \o y, Len(file), m, s')
      BY <1>1, <1>2, <1>5, <1>12, InStepPlain
    <3>2. QED
      BY <1>5, <1>9, <2>1, <3>1
  <2>3. s'.pc \notin {"off", "sync", "can", "send", "ack"}
    BY <1>12 DEF Over
  <2>4. (Firsts(toR) => Firsts(toR')) /\ (Crcs(toR) => Crcs(toR'))
    BY <1>1, <2>1, FramesSaid
  <2>5. r.pc = "can" /\ r.try = "none" => Gap(toR', 1, 1, s')
    <3>1. y \in Seq(Element)
      BY DEF Plain
    <3>2. QED
      BY <1>1, <1>5, <1>12, <2>1, <3>1, GapGrows
  <2>6. r.try # "none" => Unstarted'
    BY <1>1, <1>5, <1>8, <1>12, <2>4 DEF Unstarted
  <2>7. r.try = "C" \/ r.crc => Checked'
    BY <1>5, <1>8, <2>3, <2>4 DEF Checked
  <2>8. QED
    BY <1>6, <2>2, <2>3, <2>5, <2>6, <2>7
<1>13. CASE /\ s.pc = "ack" /\ s'.pc = "send" /\ toR' = toR /\ s'.crc = s.crc
            /\ \/ s'.block = s.block /\ \E c \in Bytes : Heard(c)
               \/ s'.block = s.block + 1 /\ Heard("ACK")
  <2>1. ~Over(s) /\ ~Over(s')
    BY <1>13 DEF Over
  <2>2. /\ Broken(toR, s')
        /\ Gap(toR, 1, 1, s) => Gap(toR, 1, 1, s')
        /\ \A n, m : InStep(toR, n, m, s) => InStep(toR, n, m, s')
    BY <1>5, <1>13, <2>1, InStepAnswer DEF Gap
  <2>3. ASSUME r.try # "none" PROVE Unstarted'
    <3>1. ~Heard("ACK")
      BY <1>5, <2>3, HeardSays DEF Unstarted
    <3>2. s'.block = 1
      BY <1>5, <1>13, <2>1, <2>3, <3>1 DEF Unstarted
    <3>3. QED
      BY <1>1, <1>5, <1>8, <1>13, <2>3, <3>2 DEF Unstarted
  <2>4. r.try = "C" \/ r.crc => Checked'
    BY <1>5, <1>8, <1>13 DEF Checked
  <2>5. QED
    BY <1>5, <1>6, <1>13, <2>1, <2>2, <2>3, <2>4
<1>14. CASE SendBlock /\ s'.pc = "ack" /\ s'.block = s.block /\ s'.crc = s.crc
  <2>1. s.pc = "send" /\ ~Over(s) /\ toR' # toR
    BY <1>4, <1>14 DEF Over, SendBlock
  <2>1a. ASSUME NEW y \in Seq(Element), toR' = toR \o y
         PROVE  r.pc = "can" /\ r.try = "none" => Gap(toR', 1, 1, s')
    BY <1>1, <1>5, <2>1, <2>1a, GapGrows
  <2>2. CASE \E f \in Element : /\ f.kind = "SOH" /\ f.block = s.block /\ f.crc = s.crc
                                /\ toR' = toR \o <<f>>
    <3>1. PICK f \in Element : /\ f.kind = "SOH" /\ f.block = s.block /\ f.crc = s.crc
                               /\ toR' = toR \o <<f>>
      BY <2>2
    <3>2. /\ Broken(toR', s')
          /\ r.try = "none" /\ r.retry < MaxTry => InStep(toR', Len(file), Room(r), s')
      <4>1. \A m \in Nat : /\ Broken(toR \o <<f>>, s')
                           /\ InStep(toR, Len(file), m, s) => InStep(toR \o <<f>>, Len(file), m, s')
        BY <1>1, <1>2, <1>5, <1>14, <2>1, <3>1, InStepFrame
      <4>2. 1 \in Nat
        OBVIOUS
      <4>3. QED
        BY <1>5, <1>9, <3>1, <4>1, <4>2
    <3>3. r.try # "none" => Unstarted'
      BY <1>1, <1>5, <1>8, <1>14, <2>1, <3>1, FramesSaid DEF Unstarted
    <3>4. r.try = "C" \/ r.crc => Checked'
      BY <1>1, <1>5, <1>8, <1>14, <2>1, <3>1, FramesSaid DEF Checked
    <3>5. r.pc = "can" /\ r.try = "none" => Gap(toR', 1, 1, s')
      <4>1. <<f>> \in Seq(Element)
        OBVIOUS
      <4>2. QED
        BY <2>1a, <3>1, <4>1
    <3>6. QED
      BY <1>5, <1>6, <1>14, <2>1, <3>2, <3>3, <3>4, <3>5
  <2>3. CASE \E y \in Seq(Plain) : Len(y) = FrameBytes /\ toR' = toR \o y
    <3>1. PICK y \in Seq(Plain) : Len(y) = FrameBytes /\ toR' = toR \o y
      BY <2>3
    <3>2. /\ Broken(toR', s')
          /\ r.try = "none" /\ r.retry < MaxTry => InStep(toR', Len(file), Room(r), s')
      <4>1. Len(y) >= Patience
        BY <1>2, <3>1, PatienceLasts
      <4>2. ASSUME NEW m \in 1..Patience
            PROVE  /\ Broken(toR \o y, s')
                   /\ InStep(toR, Len(file), m, s) => InStep(toR \o y, Len(file), m, s')
        BY <1>1, <1>2, <1>5, <2>1, <3>1, <4>1, InStepPlain
      <4>3. Broken(toR', s')
        <5>1. 1 \in 1..Patience
          BY <1>9
        <5>2. Broken(toR \o y, s')
          BY <4>2, <5>1
        <5>3. QED
          BY <3>1, <5>2
      <4>4. QED
        BY <1>5, <1>9, <3>1, <4>2, <4>3
    <3>3. r.try # "none" => Unstarted'
      BY <1>1, <1>5, <1>8, <1>14, <2>1, <3>1, FramesSaid DEF Unstarted
    <3>4. r.try = "C" \/ r.crc => Checked'
      BY <1>1, <1>5, <1>8, <1>14, <2>1, <3>1, FramesSaid DEF Checked
    <3>5. r.pc = "can" /\ r.try = "none" => Gap(toR', 1, 1, s')
      <4>1. y \in Seq(Element)
        BY DEF Plain
      <4>2. QED
        BY <2>1a, <3>1, <4>1
    <3>6. QED
      BY <1>5, <1>6, <1>14, <2>1, <3>2, <3>3, <3>4, <3>5
  <2>4. QED
    BY <1>1, <1>3, <1>14, <2>1, <2>2, <2>3, FrameAdds
<1>15. QED
  BY <1>1, <1>10, <1>11, <1>12, <1>13, <1>14, SenderWays

\* The number in its place among the multiples of another.
LEMMA NumberPlaced ==
  ASSUME NEW q \in Nat, NEW t \in Nat, NEW m \in Nat, m > 1, t < m
  PROVE  (m * q + t) % m = t
OBVIOUS

\* The packet number of the next block.
LEMMA NumberOfNext ==
  ASSUME NEW n \in Nat, NEW m \in Nat, m > 1
  PROVE  /\ n % m \in 0..(m - 1)
         /\ (n + 1) % m = IF n % m = m - 1 THEN 0 ELSE (n % m) + 1
<1> DEFINE q == n \div m
           c == n % m
<1>1. c \in 0..(m - 1) /\ q \in Int /\ c = n - m * q
  OBVIOUS
<1>2. q >= 0
  <2>1. q <= -1 => m * q <= -m
    BY <1>1
  <2>2. QED
    BY <1>1, <2>1
<1>3. q \in Nat /\ n = m * q + c
  BY <1>1, <1>2
<1> HIDE DEF q, c
<1>4. CASE c = m - 1
  <2>1. n + 1 = m * (q + 1) + 0
    BY <1>1, <1>3, <1>4
  <2>2. (m * (q + 1) + 0) % m = 0
    BY <1>3
  <2>3. QED
    BY <1>1, <1>4, <2>1, <2>2 DEF c
<1>5. CASE c < m - 1
  <2> DEFINE t == c + 1
  <2>1. n + 1 = m * q + t /\ t \in Nat /\ t < m
    BY <1>1, <1>3, <1>5
  <2> HIDE DEF t
  <2>2. (n + 1) % m = t
    BY <1>3, <2>1, NumberPlaced
  <2>3. QED
    BY <1>1, <1>5, <2>2 DEF c, t
<1>6. QED
  BY <1>1, <1>4, <1>5

\* What the receiver leaves when it has taken something.
LEMMA TakesLeaves ==
  ASSUME LineInv, NEW c, Takes(c)
  PROVE  /\ Firsts(toR) => Firsts(toR')
         /\ Crcs(toR) => Crcs(toR')
         /\ \A a : Broken(toR, a) => Broken(toR', a)
         /\ toR \in Seq(Plain) => toR' \in Seq(Plain)
<1>1. CASE toR = <<>>
  BY <1>1 DEF Takes
<1>2. CASE toR # <<>>
  <2>1. toR' = Tail(toR)
    BY <1>2 DEF Takes
  <2>2. /\ Len(toR) \in Nat /\ Len(toR') = Len(toR) - 1
        /\ \A i \in 1..(Len(toR) - 1) : toR'[i] = toR[i + 1]
    BY <1>2, <2>1, TailAt DEF LineInv
  <2>3. \A a : Broken(toR, a) => Broken(toR', a)
    BY <1>2, <2>1, BrokenTail DEF LineInv
  <2>4. \A i \in 1..Len(toR') : i + 1 \in 1..Len(toR) /\ toR'[i] = toR[i + 1]
    BY <2>2
  <2>5. QED
    BY <2>3, <2>4, <1>1, TakesPlain DEF Firsts, Crcs
<1>3. QED
  BY <1>1, <1>2

\* How the receiver asks for frames and how it checks them stay with it when it goes on.
LEMMA RecvTries ==
  ASSUME NEW a \in Receivers
  PROVE  /\ \A pc, w : To(a, pc, w).try = a.try /\ To(a, pc, w).crc = a.crc
         /\ Outer(a).try = a.try /\ Outer(a).crc = a.crc
         /\ NextTry(a).try = a.try /\ NextTry(a).crc = a.crc
BY DEF To, Outer, NextTry, Receivers

\* The first frame on the line, before a receiver that waits, is the next or the last again.
LEMMA HeadFollows ==
  ASSUME CountInv, Modulus > 1, ForgiveInv, r.pc = "wait", ~refused, ~missed,
         toR # <<>>, Head(toR).kind = "SOH"
  PROVE  LET x == Head(toR)
             n == Len(file)
         IN /\ x \in Element /\ x = toR[1] /\ n \in Nat
            /\ r.try # "none" => x.block = 1 /\ n = 0
            /\ r.try = "none" => x.block \in {n, n + 1} /\ InStep(toR, n, Room(r), s)
            /\ IsNext(x) <=> x.block = n + 1
            /\ x.block = n => IsLast(x) \/ (Expected = 0 /\ Number(x) = Modulus - 1)
<1> DEFINE x == Head(toR)
           n == Len(file)
<1>1. x \in Element /\ x = toR[1] /\ Len(toR) \in Nat /\ Len(toR) > 0
  BY TailAt DEF CountInv, LineInv
<1>2. n \in Nat /\ Modulus \in Nat
  BY CountsAssumption, LenProperties DEF CountInv
<1>3. r.retry < MaxTry
  BY Bounds DEF CountInv, ReceiverCounts
<1>4. ASSUME r.try # "none" PROVE x.block = 1 /\ n = 0
  <2>1. Firsts(toR) /\ file = <<>>
    BY <1>4 DEF ForgiveInv, Unstarted
  <2>2. QED
    BY <1>1, <2>1 DEF Firsts
<1>5. ASSUME r.try = "none" PROVE x.block \in {n, n + 1} /\ InStep(toR, n, Room(r), s)
  <2>1. InStep(toR, n, Room(r), s)
    BY <1>3, <1>5 DEF ForgiveInv
  <2>2. Framed(toR, 1) /\ Before(toR, 1, n) = n
    BY <1>1 DEF Framed, Before
  <2>3. QED
    BY <1>1, <2>1, <2>2 DEF InStep
<1>6. x.block \in {n, n + 1}
  BY <1>4, <1>5
<1> DEFINE before == n % Modulus
           after == (n + 1) % Modulus
<1>7. before \in 0..(Modulus - 1) /\ after = IF before = Modulus - 1 THEN 0 ELSE before + 1
  BY <1>2, NumberOfNext
<1>8. /\ Expected = after
      /\ x.block = n => Number(x) = before
      /\ x.block = n + 1 => Number(x) = after
  BY DEF Expected, Number
<1> HIDE DEF x, n, before, after
<1>9. IsNext(x) <=> x.block = n + 1
  BY <1>2, <1>6, <1>7, <1>8 DEF IsNext
<1>10. x.block = n => IsLast(x) \/ (Expected = 0 /\ Number(x) = Modulus - 1)
  BY <1>2, <1>7, <1>8 DEF IsLast
<1>11. QED
  BY <1>1, <1>2, <1>4, <1>5, <1>9, <1>10 DEF x, n

\* Why a good frame is refused.
LEMMA RefusalForgiven ==
  ASSUME CountInv, Modulus > 1, ForgiveInv, ~refused, ~missed, Head(toR).good,
         NEW pc \in {"flush", "frame"}, Refuse(pc)
  PROVE  \/ Expected = 0 /\ Number(Head(toR)) = Modulus - 1
         \/ Head(toR).crc /\ ~Started.crc
<1> DEFINE x == Head(toR)
<1>1. r.pc = "wait" /\ toR # <<>> /\ x.kind = "SOH" /\ ~Acceptable(x)
  <2>1. r.pc = "wait" /\ Takes("SOH") /\ ~Acceptable(x)
    BY DEF Refuse
  <2>2. QED
    BY <2>1, TakesFrame DEF CountInv
<1>2. /\ x \in Element /\ x = toR[1]
      /\ IsNext(x) \/ IsLast(x) \/ (Expected = 0 /\ Number(x) = Modulus - 1)
  BY <1>1, HeadFollows
<1>3. /\ r.crc \in BOOLEAN /\ Started.crc = (r.crc \/ r.try = "C")
      /\ x.crc \in BOOLEAN
  BY <1>2 DEF CountInv, Receivers, Started, Element
<1>4. Started.crc => x.crc
  <2>1. ASSUME Started.crc PROVE Crcs(toR)
    BY <1>1, <1>3, <2>1 DEF ForgiveInv, Checked
  <2>2. Len(toR) \in Nat /\ Len(toR) > 0
    BY <1>1, TailAt DEF CountInv, LineInv
  <2>3. QED
    BY <1>1, <1>2, <2>1, <2>2 DEF Crcs
<1>5. x.crc = Started.crc \/ (x.crc /\ ~Started.crc)
  BY <1>3, <1>4
<1>6. QED
  BY <1>1, <1>2, <1>5 DEF Acceptable

\* A line without frames is plain.
LEMMA PlainSeq ==
  ASSUME NEW line \in Seq(Element), \A j \in 1..Len(line) : line[j] \in Plain
  PROVE  line \in Seq(Plain)
<1>1. Len(line) \in Nat /\ line \in [1..Len(line) -> Element]
  BY LenProperties
<1>2. line \in [1..Len(line) -> Plain]
  BY <1>1
<1>3. QED
  BY <1>1, <1>2, SeqDef

\* What the receiver goes on with after a frame it accepts.
LEMMA AcceptForgives ==
  ASSUME CountInv, Modulus > 1, ForgiveInv, Accept, ~refused, ~missed, r'.pc # "done"
  PROVE  /\ s' = s /\ r'.pc = "try" /\ r'.try = "none" /\ r'.retry = 0
         /\ s.pc \notin {"off", "sync", "can"}
         /\ Broken(toR', s) /\ InStep(toR', Len(file'), Patience, s)
         /\ r'.crc => Checked'
<1> USE DEF ReceiverStep
<1> DEFINE x == Head(toR)
           left == (IF IsNext(x) THEN MaxRetrans + 1 ELSE r.retrans) - 1
           a == [Started EXCEPT !.retrans = left]
<1>1. /\ r.pc = "wait" /\ Takes("SOH") /\ Acceptable(x) /\ s' = s
      /\ file' = IF IsNext(x) THEN Append(file, x.block) ELSE file
      /\ \/ r' = Ends(a, "too many retries")
         \/ r' = Outer(a) /\ Answers(Says("ACK"))
  BY DEF Accept
<1>2. toR # <<>> /\ x.kind = "SOH" /\ toR' = Tail(toR) /\ toR \in Seq(Element) /\ r \in Receivers
  <2>1. x.good
    BY <1>1 DEF Acceptable
  <2>2. QED
    BY <1>1, <2>1, TakesFrame DEF Takes, CountInv, LineInv
<1>3. left \in Int
  <2>1. r.retrans \in Int /\ MaxRetrans + 1 \in Int
    BY <1>2, Bounds DEF Receivers
  <2>2. QED
    BY <2>1
<1> HIDE DEF left
<1>4. a \in Receivers /\ a.try = "none" /\ a.crc = (r.crc \/ r.try = "C")
  BY <1>2, <1>3, StartedCounts DEF Started, Receivers
<1> HIDE DEF a
<1>5. r' = Outer(a) /\ Answers(Says("ACK"))
  <2>1. Ends(a, "too many retries").pc = "done"
    BY <1>4, RecvFields DEF RecvResults
  <2>2. QED
    BY <1>1, <2>1
<1>6. r'.pc = "try" /\ r'.retry = 0 /\ r'.try = "none" /\ r'.crc = (r.crc \/ r.try = "C")
  BY <1>4, <1>5, RecvFields, RecvTries
<1>7. s.pc \notin {"off", "sync", "can"} /\ Broken(toR, s)
  BY <1>1, <1>2 DEF ForgiveInv
<1>8. Broken(toR', s)
  BY <1>2, <1>7, BrokenTail
<1> DEFINE n == Len(file)
<1>9. /\ x \in Element /\ x = toR[1] /\ n \in Nat
      /\ r.try # "none" => x.block = 1 /\ n = 0
      /\ r.try = "none" => x.block \in {n, n + 1} /\ InStep(toR, n, Room(r), s)
      /\ IsNext(x) <=> x.block = n + 1
  BY <1>1, <1>2, HeadFollows
<1>10. Len(file') = x.block
  <2>1. CASE IsNext(x)
    <3>1. file \in Seq(1..N) /\ file' = Append(file, x.block)
      BY <1>1, <2>1 DEF CountInv
    <3>2. Len(file') = Len(file) + 1
      BY <3>1
    <3>3. QED
      BY <1>9, <2>1, <3>2
  <2>2. CASE ~IsNext(x)
    <3>1. x.block \in {n, n + 1}
      <4>1. r.try # "none" => x.block = n + 1
        BY <1>9
      <4>2. QED
        BY <1>9, <4>1
    <3>2. x.block = n
      BY <1>9, <2>2, <3>1
    <3>3. file' = file
      BY <1>1, <2>2
    <3>4. QED
      BY <3>2, <3>3
  <2>3. QED
    BY <2>1, <2>2
<1> HIDE DEF x, n
<1>11. InStep(toR', x.block, Patience, s)
  <2>1. x.block \in Nat
    BY <1>9
  <2>2. CASE r.try # "none"
    <3>1. Firsts(toR) /\ (s.block = 1 \/ Over(s))
      BY <1>1, <2>2 DEF ForgiveInv, Unstarted
    <3>2. QED
      BY <1>2, <1>7, <1>9, <2>1, <2>2, <3>1, InStepTaken DEF x
  <2>3. CASE r.try = "none"
    <3>1. Room(r) \in Nat
      <4>1. r.pc = "wait" /\ r.retry \in 0..(MaxTry - 1) /\ MaxTry \in Nat
        BY <1>1, Bounds DEF CountInv, ReceiverCounts
      <4>2. QED
        BY <4>1 DEF Room
    <3>2. QED
      BY <1>2, <1>7, <1>9, <2>1, <2>3, <3>1, InStepTaken DEF x
  <2>4. QED
    BY <2>2, <2>3
<1>12. ASSUME r'.crc PROVE Checked'
  <2>1. Checked
    BY <1>1, <1>6, <1>12 DEF ForgiveInv
  <2>2. toS' \in Seq(Saying({"C", "ACK"}))
    BY <1>5, <2>1, AnswersAdd DEF Checked
  <2>3. Crcs(toR')
    BY <1>1, <2>1, TakesLeaves DEF Checked, CountInv
  <2>4. QED
    BY <1>1, <2>1, <2>2, <2>3 DEF Checked
<1>13. QED
  BY <1>1, <1>6, <1>7, <1>8, <1>10, <1>11, <1>12

\* Something plain before a line changes nothing for the frames there.
LEMMA PlainAhead ==
  ASSUME NEW line \in Seq(Element), NEW y \in Seq(Plain), NEW a
  PROVE  /\ Firsts(line) => Firsts(y \o line)
         /\ Crcs(line) => Crcs(y \o line)
         /\ Broken(line, a) => Broken(y \o line, a)
<1> DEFINE after == y \o line
           k == Len(y)
<1>1. /\ Len(after) = k + Len(line) /\ k \in Nat /\ Len(line) \in Nat
      /\ \A i \in 1..k : after[i] = y[i] /\ after[i].kind # "SOH"
      /\ \A i \in (k + 1)..(k + Len(line)) : after[i] = line[i - k]
  <2>1. y \in Seq(Element)
    BY DEF Plain
  <2>2. /\ Len(after) = k + Len(line) /\ k \in Nat /\ Len(line) \in Nat
        /\ \A i \in 1..(k + Len(line)) : after[i] = IF i <= k THEN y[i] ELSE line[i - k]
    <3> HIDE DEF Element
    <3>1. QED
      BY <2>1, ConcatProperties
  <2>3. \A i \in 1..k : y[i].kind # "SOH"
    BY ElementOfSeq DEF Plain
  <2> HIDE DEF after, k
  <2>4. ASSUME NEW i \in 1..k PROVE after[i] = y[i] /\ after[i].kind # "SOH"
    BY <2>2, <2>3
  <2>5. ASSUME NEW i \in (k + 1)..(k + Len(line)) PROVE after[i] = line[i - k]
    BY <2>2
  <2>6. QED
    BY <2>2, <2>4, <2>5
<1> HIDE DEF after, k
<1>2. \A i \in 1..Len(after) : after[i].kind = "SOH" => i - k \in 1..Len(line) /\ after[i] = line[i - k]
  BY <1>1
<1>3. ASSUME Broken(line, a), NEW i \in 2..Len(after), after[i].kind # "SOH", after[i - 1].kind = "SOH"
      PROVE  Gap(after, i, Patience, a)
  <2>1. i - 1 > k
    BY <1>1, <1>3
  <2>2. i - k \in 2..Len(line) /\ after[i] = line[i - k] /\ after[i - 1] = line[(i - k) - 1]
    BY <1>1, <2>1
  <2>3. Gap(line, i - k, Patience, a)
    BY <1>3, <2>2 DEF Broken
  <2>4. ASSUME NEW j \in i..(i + Patience - 1), j <= Len(after) PROVE after[j].kind # "SOH"
    <3>1. j - k \in (i - k)..((i - k) + Patience - 1) /\ j - k <= Len(line) /\ after[j] = line[j - k]
      BY <1>1, <2>1, <2>4, PatienceLasts
    <3>2. QED
      BY <2>3, <3>1 DEF Gap
  <2>5. Over(a) \/ i + Patience <= Len(after) + 1
    BY <1>1, <2>3, PatienceLasts DEF Gap
  <2>6. QED
    BY <2>4, <2>5 DEF Gap
<1>4. Broken(line, a) => Broken(after, a)
  BY <1>3 DEF Broken
<1>5. QED
  BY <1>2, <1>4 DEF Firsts, Crcs, after

\* The elements left to try when the receiver goes on.
LEMMA RoomLeft ==
  ASSUME NEW a, NEW b, a.retry \in Nat, a.retry < MaxTry, a.pc = "wait" \/ a.pc = "can"
  PROVE  /\ Room(a) \in Nat /\ Room(a) >= 1 /\ (a.pc = "wait" => Room(a) > 1)
         /\ b.retry = a.retry /\ a.pc = "wait" /\ b.pc = "can" => Room(b) = Room(a) - 1
         /\ b.retry = a.retry + 1 /\ b.retry < MaxTry /\ b.pc = "try" =>
              /\ Room(b) = Room(a) - (IF a.pc = "can" THEN 1 ELSE 2)
              /\ Room(b) \in Nat /\ Room(b) > 1
<1> DEFINE k == MaxTry - a.retry
<1>1. k \in Nat /\ k >= 1
  BY Bounds
<1>2. /\ a.pc = "wait" => Room(a) = 2 * k
      /\ a.pc = "can" => Room(a) = 2 * k - 1
  BY <1>1 DEF Room
<1>3. b.retry = a.retry /\ b.pc = "can" => Room(b) = 2 * k - 1
  BY DEF Room
<1>4. b.retry = a.retry + 1 /\ b.retry < MaxTry /\ b.pc = "try" =>
        Room(b) = 2 * (k - 1) /\ k > 1
  BY Bounds DEF Room
<1> HIDE DEF k
<1>5. QED
  BY <1>1, <1>2, <1>3, <1>4

\* A step of the receiver keeps the invariant.
LEMMA ReceiverForgives ==
  ASSUME CountInv, Modulus > 1, ForgiveInv, ReceiverNext, Remember
  PROVE  ForgiveInv'
<1> USE DEF ReceiverStep
<1>1. s' = s /\ LineInv /\ r \in Receivers /\ r.pc # "done" /\ toR \in Seq(Element)
  BY ReceiverCountsKept, ReceiverGoing DEF CountInv, LineInv
<1>2. SUFFICES ASSUME r'.pc # "done", ~refused', ~missed' PROVE ForgiveInv'
  BY DEF ForgiveInv
<1>3. ~refused /\ ~missed /\ ~(r.pc = "wait" /\ r'.pc \in {"flush", "frame"})
  BY <1>2 DEF Remember
<1>4. /\ r.pc \notin {"frame", "flush"}
      /\ s.pc \in {"off", "sync", "can"} => toR = <<>> /\ r.try # "none"
      /\ r.pc = "off" => r.try # "none"
      /\ r.pc = "can" /\ r.try = "none" => Gap(toR, 1, 1, s)
      /\ r.crc => r.try = "none"
      /\ Broken(toR, s)
      /\ r.try # "none" => Unstarted
      /\ r.try = "none" /\ r.retry < MaxTry => InStep(toR, Len(file), Room(r), s)
      /\ r.try = "C" \/ r.crc => Checked
  BY <1>1, <1>3 DEF ForgiveInv
<1>5. /\ r.retry \in 0..MaxTry /\ (r.pc \in {"wait", "can"} => r.retry < MaxTry)
      /\ MaxTry \in Nat /\ MaxTry > 0 /\ Len(file) \in Nat
  BY Bounds, LenProperties DEF CountInv, ReceiverCounts
\* The receiver writes nothing and goes on asking as before.
<1>6. ASSUME r'.pc \in {"try", "wait", "can"}, r'.try = r.try, r'.crc = r.crc, file' = file,
             s.pc \in {"off", "sync", "can"} => toR' = <<>>,
             r'.pc = "can" /\ r.try = "none" => Gap(toR', 1, 1, s),
             Broken(toR', s), Firsts(toR) => Firsts(toR'), Crcs(toR) => Crcs(toR'),
             r.try # "none" => toS' \in Seq(Saying({"C", "NAK"})),
             r.try = "C" \/ r.crc => toS' \in Seq(Saying({"C", "ACK"})),
             r.try = "none" /\ r'.retry < MaxTry => InStep(toR', Len(file), Room(r'), s)
      PROVE  ForgiveInv'
  <2>1. r.try # "none" => Unstarted'
    BY <1>1, <1>4, <1>6 DEF Unstarted
  <2>2. r.try = "C" \/ r.crc => Checked'
    BY <1>1, <1>4, <1>6 DEF Checked
  <2>3. QED
    BY <1>1, <1>4, <1>6, <2>1, <2>2 DEF ForgiveInv
<1>7. /\ r.try # "none" => toS \in Seq(Saying({"C", "NAK"}))
      /\ r.try = "C" \/ r.crc => toS \in Seq(Saying({"C", "ACK"}))
  BY <1>4 DEF Unstarted, Checked
<1>7a. /\ \A w \in {PollWait, CanWait}, pc \in {"wait", "can"} :
           /\ To(r, pc, w).pc = pc /\ To(r, pc, w).try = r.try
           /\ To(r, pc, w).crc = r.crc /\ To(r, pc, w).retry = r.retry
       /\ \A result \in RecvResults : Ends(r, result).pc = "done"
       /\ {"sync error", "success", "cancelled"} \subseteq RecvResults
  <2>1. PollWait \in Int /\ CanWait \in Int /\ {"wait", "can"} \subseteq ReceiverPcs
    BY Bounds DEF ReceiverPcs
  <2>2. {"sync error", "success", "cancelled"} \subseteq RecvResults
    BY DEF RecvResults
  <2>3. \A w \in {PollWait, CanWait}, pc \in {"wait", "can"} :
          To(r, pc, w).pc = pc /\ To(r, pc, w).retry = r.retry
    BY <1>1, <2>1, RecvFields
  <2>4. \A result \in RecvResults : Ends(r, result).pc = "done"
    BY <1>1, RecvFields
  <2>5. \A w, pc : To(r, pc, w).try = r.try /\ To(r, pc, w).crc = r.crc
    BY <1>1, RecvTries
  <2>6. QED
    BY <2>2, <2>3, <2>4, <2>5
<1>8. CASE BeginRecv
  <2>1. r.pc = "off" /\ r' = Outer(r) /\ UNCHANGED <<toR, toS, file>>
    BY <1>8 DEF BeginRecv
  <2>2. r'.pc = "try" /\ r'.try = r.try /\ r'.crc = r.crc
    BY <1>1, <2>1, RecvFields, RecvTries
  <2>3. QED
    BY <1>4, <1>6, <1>7, <2>1, <2>2
<1>9. CASE Try
  <2>1. /\ r.pc = "try" /\ r' = To(r, "wait", PollWait) /\ toR' = toR /\ file' = file
        /\ IF r.try = "none" THEN toS' = toS ELSE Answers(Says(r.try))
    BY <1>9 DEF Try
  <2>2. r'.pc = "wait" /\ r'.try = r.try /\ r'.crc = r.crc /\ r'.retry = r.retry
    BY <1>7a, <2>1
  <2>2a. Room(r') = Room(r)
    BY <2>1, <2>2 DEF Room
  <2>3. r.try \in {"C", "NAK", "none"}
    BY <1>1 DEF Receivers
  <2>4. r.try # "none" => toS' \in Seq(Saying({"C", "NAK"}))
    BY <1>7, <2>1, <2>3, AnswersAdd
  <2>5. r.try = "C" \/ r.crc => toS' \in Seq(Saying({"C", "ACK"}))
    <3>1. CASE r.try = "C"
      BY <1>7, <2>1, <3>1, AnswersAdd
    <3>2. CASE r.crc
      BY <1>4, <1>7, <2>1, <3>2
    <3>3. QED
      BY <3>1, <3>2
  <2>6. QED
    BY <1>4, <1>6, <2>1, <2>2, <2>2a, <2>4, <2>5
<1>10. CASE TryNak
  <2> DEFINE a == [r EXCEPT !.try = "NAK"]
  <2>1. r.try = "C" /\ r.pc = "try" /\ r' = Outer(a) /\ UNCHANGED <<toR, toS, file>>
    BY <1>10 DEF TryNak
  <2>2. a \in Receivers /\ a.try = "NAK" /\ a.crc = r.crc
    BY <1>1 DEF Receivers
  <2> HIDE DEF a
  <2>3. r'.pc = "try" /\ r'.try = "NAK" /\ r'.crc = r.crc
    BY <2>1, <2>2, RecvFields, RecvTries
  <2>4. Unstarted'
    BY <1>1, <1>4, <2>1 DEF Unstarted
  <2>5. QED
    BY <1>1, <1>4, <2>1, <2>3, <2>4 DEF ForgiveInv
<1>11. CASE Accept
  <2>1. /\ s' = s /\ r'.pc = "try" /\ r'.try = "none" /\ r'.retry = 0
        /\ s.pc \notin {"off", "sync", "can"}
        /\ Broken(toR', s) /\ InStep(toR', Len(file'), Patience, s)
        /\ r'.crc => Checked'
    BY <1>2, <1>3, <1>11, AcceptForgives
  <2>2. Room(r') = Patience
    BY <1>5, <2>1 DEF Room, Patience
  <2>3. QED
    BY <2>1, <2>2 DEF ForgiveInv
<1>12. CASE SyncError \/ RecvEot
  <2>1. r' = Ends(r, "sync error") \/ r' = Ends(r, "success")
    BY <1>12 DEF SyncError, RecvEot
  <2>2. QED
    BY <1>2, <1>7a, <2>1
<1>13. ASSUME NEW pc \in {"flush", "frame"}, Refuse(pc) PROVE ForgiveInv'
  <2>1. /\ r.pc = "wait"
        /\ r' = To(Started, "flush", FlushWait) \/ r' = To(Started, "frame", FrameWait)
    BY <1>13 DEF Refuse
  <2>2. /\ Started \in Receivers /\ "flush" \in ReceiverPcs /\ "frame" \in ReceiverPcs
        /\ FlushWait \in Int /\ FrameWait \in Int
    BY <1>1, StartedType, Bounds DEF ReceiverPcs
  <2>3. To(Started, "flush", FlushWait).pc = "flush" /\ To(Started, "frame", FrameWait).pc = "frame"
    BY <2>2, RecvFields
  <2>4. QED
    BY <1>3, <2>1, <2>3
<1>14. ASSUME NEW c \in Bytes, RecvFlush(c) \/ RecvFrame(c) PROVE ForgiveInv'
  BY <1>4, <1>14 DEF RecvFlush, RecvFrame
<1>15. ASSUME NEW c \in Bytes, Takes(c)
       PROVE  /\ Firsts(toR) => Firsts(toR')
              /\ Crcs(toR) => Crcs(toR')
              /\ Broken(toR', s)
              /\ toR \in Seq(Plain) => toR' \in Seq(Plain)
              /\ toR = <<>> => toR' = <<>>
  BY <1>1, <1>4, <1>15, TakesLeaves DEF Takes
<1>16. ASSUME r.try = "none", NEW c \in Bytes, Takes(c), c # "SOH", r.pc \in {"wait", "can"}
       PROVE  /\ toR # <<>> /\ r.pc = "wait" =>
                   InStep(toR', Len(file), Room(r) - 1, s) /\ Gap(toR', 1, 1, s)
              /\ \A b : b.retry = r.retry + 1 /\ b.retry < MaxTry /\ b.pc = "try" =>
                          InStep(toR', Len(file), Room(b), s)
  <2>1. InStep(toR, Len(file), Room(r), s)
    BY <1>4, <1>5, <1>16
  <2>2. /\ Room(r) \in Nat /\ Room(r) >= 1 /\ (r.pc = "wait" => Room(r) > 1)
        /\ \A b : b.retry = r.retry + 1 /\ b.retry < MaxTry /\ b.pc = "try" =>
                    Room(b) \in Nat /\ Room(b) > 1 /\ Room(b) <= Room(r) - 1
    <3>1. r.retry \in Nat /\ r.retry < MaxTry
      BY <1>5, <1>16
    <3>2. QED
      BY <1>16, <3>1, RoomLeft
  <2>3. CASE toR = <<>>
    BY <1>1, <1>16, <2>1, <2>3, InStepNothing DEF Takes
  <2>4. CASE toR # <<>> /\ Room(r) > 1
    <3>1. toR' = Tail(toR) /\ c \in ReadAs(Head(toR)) /\ Head(toR) = toR[1]
      BY <1>1, <1>16, <2>4, TailAt DEF Takes
    <3>2. toR[1].kind # "SOH" /\ toR' \in Seq(Element)
      BY <1>1, <1>16, <2>4, <3>1, TailAt DEF ReadAs
    <3>3. InStep(toR', Len(file), Room(r) - 1, s) /\ Gap(toR', 1, 1, s)
      BY <1>1, <2>1, <2>2, <2>4, <3>1, <3>2, InStepTry
    <3>4. ASSUME NEW b, b.retry = r.retry + 1, b.retry < MaxTry, b.pc = "try"
          PROVE  InStep(toR', Len(file), Room(b), s)
      <4>1. Room(b) \in Nat /\ Room(r) - 1 \in Nat /\ Room(b) <= Room(r) - 1
        BY <2>2, <3>4
      <4>2. QED
        BY <3>2, <3>3, <4>1, InStepLess
    <3>5. QED
      BY <3>3, <3>4
  <2>5. CASE Room(r) = 1
    BY <2>2, <2>5
  <2>6. QED
    BY <2>2, <2>3, <2>4, <2>5
<1>17. /\ NextTry(r).pc = "try" /\ NextTry(r).retry = r.retry + 1
       /\ NextTry(r).try = r.try /\ NextTry(r).crc = r.crc
  BY <1>1, RecvFields, RecvTries
<1>18. ASSUME NEW c \in Bytes, Other(c) PROVE ForgiveInv'
  <2>1. r.pc = "wait" /\ c # "SOH" /\ Takes(c) /\ UNCHANGED <<toS, file>>
        /\ r' = IF c = "CAN" THEN To(r, "can", CanWait) ELSE NextTry(r)
    BY <1>18 DEF Other
  <2>2. CASE c = "CAN"
    <3>1. r'.pc = "can" /\ r'.try = r.try /\ r'.crc = r.crc /\ r'.retry = r.retry
      BY <1>7a, <2>1, <2>2
    <3>2. toR # <<>>
      BY <2>1, <2>2 DEF Takes
    <3>3. Room(r') = Room(r) - 1
      BY <2>1, <3>1, <1>5 DEF Room
    <3>4. r.try = "none" => InStep(toR', Len(file), Room(r'), s) /\ Gap(toR', 1, 1, s)
      BY <1>16, <2>1, <3>2, <3>3
    <3>5. QED
      BY <1>4, <1>6, <1>7, <1>15, <2>1, <3>1, <3>4
  <2>3. CASE c # "CAN"
    <3>1. r' = NextTry(r)
      BY <2>1, <2>3
    <3>2. r.try = "none" /\ r'.retry < MaxTry => InStep(toR', Len(file), Room(r'), s)
      BY <1>16, <1>17, <2>1, <3>1
    <3>3. QED
      BY <1>4, <1>6, <1>7, <1>15, <1>17, <2>1, <3>1, <3>2
  <2>4. QED
    BY <2>2, <2>3
<1>19. ASSUME NEW c \in Bytes, RecvCan(c) PROVE ForgiveInv'
  <2>1. r.pc = "can" /\ c # "SOH" /\ Takes(c) /\ file' = file
        /\ (r' = Ends(r, "cancelled") \/ (r' = NextTry(r) /\ toS' = toS))
    BY <1>19 DEF RecvCan
  <2>2. r' = NextTry(r) /\ toS' = toS
    BY <1>2, <1>7a, <2>1
  <2>3. r.try = "none" /\ r'.retry < MaxTry => InStep(toR', Len(file), Room(r'), s)
    BY <1>16, <1>17, <2>1, <2>2
  <2>4. QED
    BY <1>4, <1>6, <1>7, <1>15, <1>17, <2>1, <2>2, <2>3
<1>20. CASE RecvCanFrame
  <2>1. /\ r.pc = "can" /\ toR # <<>> /\ Head(toR).kind = "SOH"
        /\ toR' = Strays(FrameBytes - 1) \o Tail(toR) /\ r' = NextTry(r)
        /\ UNCHANGED <<toS, file>>
    BY <1>20 DEF RecvCanFrame
  <2>2. /\ Head(toR) = toR[1] /\ Tail(toR) \in Seq(Element) /\ Len(toR) \in Nat /\ Len(toR) >= 1
        /\ Len(Tail(toR)) = Len(toR) - 1
        /\ \A i \in 1..(Len(toR) - 1) : Tail(toR)[i] = toR[i + 1]
    BY <1>1, <2>1, TailAt
  <2>3. r.try # "none"
    BY <1>4, <2>1, <2>2 DEF Gap
  <2>4. Strays(FrameBytes - 1) \in Seq(Plain)
    BY StraysPlain, CountsAssumption
  <2>5. \A i \in 1..Len(Tail(toR)) : i + 1 \in 1..Len(toR) /\ Tail(toR)[i] = toR[i + 1]
    BY <2>2
  <2>6. (Firsts(toR) => Firsts(Tail(toR))) /\ (Crcs(toR) => Crcs(Tail(toR)))
    BY <2>5 DEF Firsts, Crcs
  <2>7. Broken(Tail(toR), s)
    BY <1>1, <1>4, <2>1, BrokenTail
  <2>8. Broken(toR', s) /\ (Firsts(toR) => Firsts(toR')) /\ (Crcs(toR) => Crcs(toR'))
    BY <2>1, <2>2, <2>4, <2>6, <2>7, PlainAhead
  <2>9. QED
    BY <1>4, <1>6, <1>7, <1>17, <2>1, <2>3, <2>8
<1>21. QED
  BY <1>8, <1>9, <1>10, <1>11, <1>12, <1>13, <1>14, <1>18, <1>19, <1>20 DEF ReceiverNext

\* At the start nothing is on the line or written.
LEMMA ForgiveInit == Init => ForgiveInv
<1> SUFFICES ASSUME Init PROVE ForgiveInv
  OBVIOUS
<1>1. /\ toR = <<>> /\ toS = <<>> /\ file = <<>> /\ s.pc = "off" /\ s.block = 1
      /\ r.pc = "off" /\ r.try = "C" /\ ~r.crc
  BY DEF Init
<1>2. \A K : <<>> \in Seq(Saying(K))
  BY EmptySeq
<1>3. Broken(toR, s) /\ Unstarted /\ Checked
  BY <1>1, <1>2 DEF Broken, Unstarted, Checked, Firsts, Crcs
<1>4. QED
  BY <1>1, <1>3 DEF ForgiveInv

\* Time and steps that change nothing leave it as it is.
LEMMA WaitForgives ==
  ASSUME ForgiveInv, UNCHANGED <<toR, toS, file>>,
         s'.pc = s.pc, s'.block = s.block, s'.crc = s.crc,
         r'.pc = r.pc, r'.try = r.try, r'.crc = r.crc, r'.retry = r.retry,
         ~refused' /\ ~missed' => ~refused /\ ~missed
  PROVE  ForgiveInv'
<1>1. Over(s') <=> Over(s)
  BY DEF Over
<1>2. /\ \A line : Broken(line, s) => Broken(line, s')
      /\ \A line, n, m : InStep(line, n, m, s) => InStep(line, n, m, s')
      /\ \A line : Gap(line, 1, 1, s) => Gap(line, 1, 1, s')
      /\ Room(r') = Room(r)
  BY <1>1 DEF Broken, InStep, Gap, Room
<1>3. (Unstarted => Unstarted') /\ (Checked => Checked')
  BY <1>1 DEF Unstarted, Checked
<1>4. QED
  BY <1>1, <1>2, <1>3 DEF ForgiveInv

\* Every step keeps the invariant.
LEMMA ForgiveKept ==
  ASSUME CountInv, Patience <= FrameBytes, Modulus > 1, ForgiveInv, [Next]_vars
  PROVE  ForgiveInv'
<1>1. CASE SenderNext /\ Remember
  BY <1>1, SenderForgives
<1>2. CASE ReceiverNext /\ Remember
  BY <1>2, ReceiverForgives
<1>3. CASE Tick /\ Remember
  <2>1. s \in Senders /\ r \in Receivers /\ s.wait \in Nat /\ r.wait \in Nat
    BY WaitsCompared DEF CountInv, SenderInv
  <2>2. PICK d \in Nat : /\ s' = IF s.wait > 0 THEN [s EXCEPT !.wait = s.wait - d] ELSE s
                         /\ r' = IF r.wait > 0 THEN [r EXCEPT !.wait = r.wait - d] ELSE r
    BY <1>3, <2>1, TimePasses
  <2>3. /\ s'.pc = s.pc /\ s'.block = s.block /\ s'.crc = s.crc
        /\ r'.pc = r.pc /\ r'.try = r.try /\ r'.crc = r.crc /\ r'.retry = r.retry
    BY <2>1, <2>2 DEF Senders, Receivers
  <2>4. UNCHANGED <<toR, toS, file>>
    BY <1>3 DEF Tick
  <2>5. ~refused' /\ ~missed' => ~refused /\ ~missed
    BY <1>3 DEF Remember
  <2>6. QED
    BY <2>3, <2>4, <2>5, WaitForgives
<1>4. CASE UNCHANGED vars
  BY <1>4, WaitForgives DEF vars
<1>5. QED
  BY <1>1, <1>2, <1>3, <1>4 DEF Next

\* A receiver that waits reads on and flushes only after a frame it refuses.
LEMMA FlushRefuses ==
  ASSUME CountInv, Next, r.pc = "wait", r'.pc \in {"flush", "frame"}
  PROVE  \E pc \in {"flush", "frame"} : Refuse(pc)
<1> USE DEF ReceiverStep
<1>1. SenderInv /\ LineInv /\ s \in Senders /\ r \in Receivers
  BY DEF CountInv, SenderInv
<1>2. ~SenderNext
  BY <1>1, SenderKeeps
<1>3. ~Tick
  <2>1. s.wait \in Nat /\ r.wait \in Nat
    BY WaitsCompared
  <2>2. ASSUME Tick PROVE r'.pc = r.pc
    <3>1. PICK d \in Nat : r' = IF r.wait > 0 THEN [r EXCEPT !.wait = r.wait - d] ELSE r
      BY <1>1, <2>1, <2>2, TimePasses
    <3>2. QED
      BY <1>1, <3>1 DEF Receivers
  <2>3. QED
    BY <2>2
<1>4. ~Accept
  BY <1>1, AcceptGoes
<1>5. ~RecvEot
  BY <1>1, RecvFields DEF RecvEot, RecvResults
<1>6. ASSUME NEW c, Other(c) PROVE FALSE
  <2>1. r' = To(r, "can", CanWait) \/ r' = NextTry(r)
    BY <1>6 DEF Other
  <2>2. CanWait \in Int /\ "can" \in ReceiverPcs
    BY Bounds DEF ReceiverPcs
  <2>3. To(r, "can", CanWait).pc = "can" /\ NextTry(r).pc = "try"
    BY <1>1, <2>2, RecvFields
  <2>4. QED
    BY <2>1, <2>3
<1>7. QED
  BY <1>2, <1>3, <1>4, <1>5, <1>6 DEF Next, ReceiverNext, BeginRecv, Try, TryNak, SyncError,
                                      RecvFlush, RecvFrame, RecvCan, RecvCanFrame

\* While no frame was lost or refused, a good frame is refused only if it repeats the block
\* before the packet number wraps, or was made for a "C" that the receiver has given up.  What
\* keeps the sender in step is that a frame without its first byte leaves more stray bytes than
\* the receiver's tries take, one of which may be two bytes long: 132 and 16 in the code.  No
\* frame behind them is looked at before a stray byte is refused as the start of one, or the
\* receiver has given up.
THEOREM AnswersAreForgiven ==
  ASSUME 2 * MaxTry <= FrameBytes, Modulus > 1
  PROVE  Spec => AnswersForgiven
<1>1. CountInv /\ ForgiveInv /\ [Next]_vars => ForgiveInv'
  BY ForgiveKept DEF Patience
<1>2. CountInv /\ ForgiveInv /\ [Next]_vars =>
        [(r.pc = "wait" /\ r'.pc \in {"flush", "frame"} /\ Head(toR).good /\ ~missed /\ ~refused)
           => \/ Expected = 0 /\ Number(Head(toR)) = Modulus - 1
              \/ Head(toR).crc /\ ~Started.crc]_vars
  <2>1. ASSUME CountInv, ForgiveInv, Next, r.pc = "wait", r'.pc \in {"flush", "frame"},
               Head(toR).good, ~missed, ~refused
        PROVE  \/ Expected = 0 /\ Number(Head(toR)) = Modulus - 1
               \/ Head(toR).crc /\ ~Started.crc
    <3>1. PICK pc \in {"flush", "frame"} : Refuse(pc)
      BY <2>1, FlushRefuses
    <3>2. QED
      BY <2>1, <3>1, RefusalForgiven
  <2>2. QED
    BY <2>1
<1>3. QED
  BY <1>1, <1>2, CountInit, CountKept, ForgiveInit, PTL DEF Spec, AnswersForgiven

-----------------------------------------------------------------------------
(* Files of any length.                                                     *)

\* The most blocks the sender is ever ahead of the file.
Most == 2 * MaxTry + 1

\* The frames on a line, those that bring no block the receiver has not got when they come, and
\* whether a block is in the file of n or on the line.
Frames(line) == {i \in 1..Len(line) : line[i].kind = "SOH"}
Repeats(line, n) ==
  {i \in Frames(line) : \/ line[i].block <= n
                        \/ \E j \in Frames(line) : j < i /\ line[j].block = line[i].block}
Held(line, n, b) == b <= n \/ \E j \in Frames(line) : line[j].block = b

\* The frames come in the order of their blocks, the first may be the last block of the file, and
\* none is further than the sender.
Sorted(line, n, b) ==
  /\ n <= b
  /\ \A i \in Frames(line) : /\ line[i].block \in n..b
                             /\ \A j \in Frames(line) : i < j => line[i].block <= line[j].block

\* Some numbers and those that have one more.
LEMMA MovedCount ==
  ASSUME NEW k \in Nat, NEW A, A \subseteq 1..k, NEW B, B \subseteq 1..(k + 1),
         \A i \in A : i + 1 \in B
  PROVE  /\ Cardinality(A) \in Nat /\ Cardinality(B) \in Nat
         /\ Cardinality(A) + (IF 1 \in B THEN 1 ELSE 0) <= Cardinality(B)
<1> DEFINE C == {i \in B : i = 1 \/ i - 1 \in A}
<1>1. Shifted(k, 0, A, C)
  <2>1. C \subseteq 1..(k + 1)
    OBVIOUS
  <2>2. ASSUME NEW i \in 1..k PROVE i + 1 \in C <=> i \in A
    <3>1. i + 1 # 1 /\ (i + 1) - 1 = i
      OBVIOUS
    <3>2. QED
      BY <3>1
  <2> HIDE DEF C
  <2>3. QED
    BY <2>1, <2>2 DEF Shifted
<1>2. Cardinality(A) \in 0..k /\ Cardinality(C) = Cardinality(A) + (IF 1 \in C THEN 1 ELSE 0)
  BY <1>1, ShiftedCount
<1>3. IsFiniteSet(B) /\ Cardinality(B) \in Nat
  <2> DEFINE m == k + 1
  <2>1. m \in Nat /\ B \subseteq 1..m
    OBVIOUS
  <2> HIDE DEF m, C
  <2>2. IsFiniteSet(B) /\ Cardinality(B) \in 0..m
    BY <2>1, CountUpTo
  <2>3. QED
    BY <2>2
<1>4. Cardinality(C) <= Cardinality(B)
  BY <1>3, FS_Subset
<1>5. 1 \in C <=> 1 \in B
  OBVIOUS
<1> HIDE DEF C
<1>6. QED
  BY <1>2, <1>3, <1>4, <1>5

\* Nothing that has no frame changes what is counted.
LEMMA RepeatsPlain ==
  ASSUME NEW line \in Seq(Element), NEW y \in Seq(Plain), NEW n
  PROVE  /\ Frames(line \o y) = Frames(line) /\ \A i \in Frames(line) : (line \o y)[i] = line[i]
         /\ Repeats(line \o y, n) = Repeats(line, n)
         /\ \A b : Held(line \o y, n, b) => Held(line, n, b)
         /\ \A b : Sorted(line, n, b) => Sorted(line \o y, n, b)
<1> DEFINE after == line \o y
<1>1. /\ Len(line) \in Nat /\ Len(after) \in Nat /\ Len(after) >= Len(line)
      /\ \A i \in 1..Len(line) : after[i] = line[i]
      /\ \A i \in (Len(line) + 1)..Len(after) : after[i].kind # "SOH"
  BY PlainAt
<1> HIDE DEF after
<1>2. Frames(after) = Frames(line) /\ \A i \in Frames(line) : after[i] = line[i]
  BY <1>1 DEF Frames
<1>3. Repeats(after, n) = Repeats(line, n)
  BY <1>2 DEF Repeats
<1>4. /\ \A b : Held(after, n, b) => Held(line, n, b)
      /\ \A b : Sorted(line, n, b) => Sorted(after, n, b)
  BY <1>2 DEF Held, Sorted
<1>5. QED
  BY <1>2, <1>3, <1>4 DEF after

\* One more frame, of the block the sender is at.
LEMMA RepeatsFrame ==
  ASSUME NEW line \in Seq(Element), NEW f \in Element, f.kind = "SOH", NEW n \in Nat
  PROVE  LET after == line \o <<f>>
             more == IF Held(line, n, f.block) THEN 1 ELSE 0
         IN /\ \A i \in Frames(after) : (i \in Frames(line) /\ after[i] = line[i]) \/ after[i] = f
            /\ Cardinality(Repeats(line, n)) \in Nat
            /\ Cardinality(Repeats(after, n)) = Cardinality(Repeats(line, n)) + more
            /\ Sorted(line, n, f.block) => Sorted(after, n, f.block)
<1> DEFINE after == line \o <<f>>
           k == Len(line)
<1>1. /\ k \in Nat /\ Len(after) = k + 1
      /\ \A i \in 1..k : after[i] = line[i]
      /\ after[k + 1] = f
  BY AppendAt
<1>2. f.block \in Nat
  BY CountsAssumption DEF Element
<1> HIDE DEF after
<1>3. /\ Frames(line) \subseteq 1..k
      /\ Frames(after) = Frames(line) \cup {k + 1}
      /\ \A i \in Frames(line) : after[i] = line[i]
  BY <1>1 DEF Frames
<1> HIDE DEF k
<1>4. Repeats(line, n) \subseteq 1..k /\ k + 1 \notin Repeats(line, n)
  BY <1>1, <1>3 DEF Repeats
<1>5. IsFiniteSet(Repeats(line, n)) /\ Cardinality(Repeats(line, n)) \in Nat
  BY <1>1, <1>4, CountUpTo
<1>6. \A i \in Frames(line) : i \in Repeats(after, n) <=> i \in Repeats(line, n)
  <2>1. \A i, j : i \in Frames(line) /\ j \in Frames(after) /\ j < i => j \in Frames(line)
    BY <1>1, <1>3
  <2>2. QED
    BY <1>3, <2>1 DEF Repeats
<1>7. k + 1 \in Repeats(after, n) <=> Held(line, n, f.block)
  <2>1. \A j \in Frames(after) : j < k + 1 <=> j \in Frames(line)
    BY <1>1, <1>3
  <2>2. QED
    BY <1>1, <1>3, <2>1 DEF Repeats, Held
<1>8. Repeats(after, n) \subseteq Frames(line) \cup {k + 1} /\ Repeats(line, n) \subseteq Frames(line)
  BY <1>3 DEF Repeats
<1>9. Cardinality(Repeats(after, n)) =
        Cardinality(Repeats(line, n)) + (IF Held(line, n, f.block) THEN 1 ELSE 0)
  <2>1. CASE Held(line, n, f.block)
    <3>1. Repeats(after, n) = Repeats(line, n) \cup {k + 1}
      BY <1>6, <1>7, <1>8, <2>1
    <3>2. QED
      BY <1>4, <1>5, <2>1, <3>1, FS_AddElement
  <2>2. CASE ~Held(line, n, f.block)
    <3>1. Repeats(after, n) = Repeats(line, n)
      BY <1>6, <1>7, <1>8, <2>2
    <3>2. QED
      BY <1>5, <2>2, <3>1
  <2>3. QED
    BY <2>1, <2>2
<1>10. ASSUME Sorted(line, n, f.block) PROVE Sorted(after, n, f.block)
  <2>1. n <= f.block /\ f.block \in n..f.block /\ \A i \in Frames(line) : line[i].block <= f.block
    BY <1>2, <1>10 DEF Sorted
  <2>2. \A i \in Frames(after) : ~(k + 1 < i)
    BY <1>1, <1>3
  <2>3. QED
    BY <1>1, <1>3, <1>10, <2>1, <2>2 DEF Sorted
<1>11. \A i \in Frames(after) : (i \in Frames(line) /\ after[i] = line[i]) \/ after[i] = f
  BY <1>1, <1>3
<1>12. QED
  BY <1>5, <1>9, <1>10, <1>11 DEF after

\* What is left when the first of a line is taken: if it was a frame, either the file has its
\* block already, or it is the next and is written.
LEMMA RepeatsTail ==
  ASSUME NEW line \in Seq(Element), line # <<>>, NEW n \in Nat,
         NEW b \in Nat, Sorted(line, n, b)
  PROVE  LET after == Tail(line)
             x == line[1]
         IN /\ Cardinality(Repeats(line, n)) \in Nat
            /\ Cardinality(Repeats(after, n)) \in Nat
            /\ Cardinality(Repeats(after, n)) <= Cardinality(Repeats(line, n))
            /\ Sorted(after, n, b) /\ (Held(after, n, b) => Held(line, n, b))
            /\ \A m : (\A i \in Frames(line) : line[i].block > m) =>
                        \A i \in Frames(after) : after[i].block > m
            /\ x.kind = "SOH" /\ x.block = n =>
                 Cardinality(Repeats(after, n)) + 1 <= Cardinality(Repeats(line, n))
            /\ x.kind = "SOH" /\ x.block = n + 1 =>
                 /\ Cardinality(Repeats(after, n + 1)) \in Nat
                 /\ Cardinality(Repeats(after, n + 1)) <= Cardinality(Repeats(line, n))
                 /\ Sorted(after, n + 1, b) /\ (Held(after, n + 1, b) => Held(line, n, b))
<1> DEFINE after == Tail(line)
           k == Len(line) - 1
           x == line[1]
<1>1. /\ k \in Nat /\ Len(after) = k /\ Len(line) = k + 1 /\ \A i \in 1..k : after[i] = line[i + 1]
      /\ \A i \in 1..(k + 1) : line[i] \in Element
  BY TailAt, ElementOfSeq
<1>2. \A i \in 1..(k + 1) : line[i].block \in Nat
  BY <1>1, CountsAssumption DEF Element
<1> HIDE DEF after, k, x
<1>3. /\ Frames(line) \subseteq 1..(k + 1) /\ Frames(after) \subseteq 1..k
      /\ \A i \in Frames(after) : i + 1 \in Frames(line) /\ after[i] = line[i + 1]
      /\ x.kind = "SOH" <=> 1 \in Frames(line)
  BY <1>1 DEF Frames, x
<1>4. ASSUME NEW m \in Nat, \A i \in Frames(after) : after[i].block <= m => i + 1 \in Repeats(line, n)
      PROVE  /\ Cardinality(Repeats(after, m)) \in Nat /\ Cardinality(Repeats(line, n)) \in Nat
             /\ Cardinality(Repeats(after, m)) + (IF 1 \in Repeats(line, n) THEN 1 ELSE 0)
                  <= Cardinality(Repeats(line, n))
  <2>1. Repeats(after, m) \subseteq 1..k /\ Repeats(line, n) \subseteq 1..(k + 1)
    BY <1>3 DEF Repeats
  <2>2. ASSUME NEW i \in Repeats(after, m) PROVE i + 1 \in Repeats(line, n)
    <3>1. i \in Frames(after) /\ i + 1 \in Frames(line)
      BY <1>3, <2>2 DEF Repeats
    <3>2. CASE after[i].block <= m
      BY <1>4, <3>1, <3>2
    <3>3. ASSUME NEW j \in Frames(after), j < i, after[j].block = after[i].block
          PROVE  i + 1 \in Repeats(line, n)
      <4>1. j + 1 \in Frames(line) /\ j + 1 < i + 1 /\ line[j + 1].block = line[i + 1].block
        BY <1>3, <3>1, <3>3
      <4>2. QED
        BY <3>1, <4>1 DEF Repeats
    <3>4. QED
      BY <2>2, <3>2, <3>3 DEF Repeats
  <2>3. QED
    BY <1>1, <2>1, <2>2, MovedCount
<1>5. \A i \in Frames(after) : after[i].block <= n => i + 1 \in Repeats(line, n)
  BY <1>3 DEF Repeats
<1>6. /\ Cardinality(Repeats(line, n)) \in Nat /\ Cardinality(Repeats(after, n)) \in Nat
      /\ Cardinality(Repeats(after, n)) + (IF 1 \in Repeats(line, n) THEN 1 ELSE 0)
           <= Cardinality(Repeats(line, n))
  BY <1>4, <1>5
<1>7. Cardinality(Repeats(after, n)) <= Cardinality(Repeats(line, n))
  BY <1>6
<1>8. Sorted(after, n, b)
  BY <1>3 DEF Sorted
<1>9. Held(after, n, b) => Held(line, n, b)
  BY <1>3 DEF Held
<1>10. \A m : (\A i \in Frames(line) : line[i].block > m) =>
                \A i \in Frames(after) : after[i].block > m
  BY <1>3
<1>11. ASSUME x.kind = "SOH", x.block = n
       PROVE  Cardinality(Repeats(after, n)) + 1 <= Cardinality(Repeats(line, n))
  <2>1. 1 \in Repeats(line, n)
    BY <1>3, <1>11 DEF Repeats, x
  <2>2. QED
    BY <1>6, <2>1
<1>12. ASSUME x.kind = "SOH", x.block = n + 1
       PROVE  /\ Cardinality(Repeats(after, n + 1)) \in Nat
              /\ Cardinality(Repeats(after, n + 1)) <= Cardinality(Repeats(line, n))
              /\ Sorted(after, n + 1, b) /\ (Held(after, n + 1, b) => Held(line, n, b))
  <2>1. 1 \in Frames(line) /\ line[1].block = n + 1
    BY <1>3, <1>12 DEF x
  <2>2. ASSUME NEW i \in Frames(after)
        PROVE  after[i].block \in Nat /\ after[i].block >= n + 1
    <3>1. i + 1 \in Frames(line) /\ 1 < i + 1 /\ after[i] = line[i + 1] /\ i + 1 \in 1..(k + 1)
      BY <1>3
    <3>2. line[1].block <= line[i + 1].block
      BY <1>8, <2>1, <3>1 DEF Sorted
    <3>3. QED
      BY <1>2, <2>1, <3>1, <3>2
  <2>3. \A i \in Frames(after) : after[i].block <= n + 1 => i + 1 \in Repeats(line, n)
    <3>1. SUFFICES ASSUME NEW i \in Frames(after), after[i].block <= n + 1
                   PROVE  i + 1 \in Repeats(line, n)
      OBVIOUS
    <3>2. i + 1 \in Frames(line) /\ line[i + 1].block = line[1].block /\ 1 < i + 1
      BY <1>3, <2>1, <2>2, <3>1
    <3>3. QED
      BY <2>1, <3>2 DEF Repeats
  <2>4. n + 1 \in Nat
    OBVIOUS
  <2>5. /\ Cardinality(Repeats(after, n + 1)) \in Nat
        /\ Cardinality(Repeats(after, n + 1)) + (IF 1 \in Repeats(line, n) THEN 1 ELSE 0)
             <= Cardinality(Repeats(line, n))
    BY <1>4, <2>3, <2>4
  <2>6. n + 1 <= b
    BY <2>1 DEF Sorted
  <2>7. Sorted(after, n + 1, b)
    BY <1>8, <2>2, <2>6 DEF Sorted
  <2>8. Held(after, n + 1, b) => Held(line, n, b)
    <3>1. b <= n + 1 => b = line[1].block
      BY <2>1, <2>6
    <3>2. QED
      BY <1>3, <2>1, <3>1 DEF Held
  <2>9. QED
    BY <1>6, <2>5, <2>7, <2>8
<1>13. QED
  BY <1>6, <1>7, <1>8, <1>9, <1>10, <1>11, <1>12 DEF after, x

\* How many frames are not new is a number, and none of them is on an empty line.
LEMMA RepeatsCounted ==
  ASSUME NEW line \in Seq(Element), NEW n
  PROVE  /\ Cardinality(Repeats(line, n)) \in Nat
         /\ line = <<>> => Frames(line) = {} /\ Repeats(line, n) = {} /\ Cardinality(Repeats(line, n)) = 0
<1>1. Len(line) \in Nat /\ Repeats(line, n) \subseteq 1..Len(line)
  BY LenProperties DEF Repeats, Frames
<1>2. Cardinality(Repeats(line, n)) \in Nat
  BY <1>1, CountUpTo
<1>3. ASSUME line = <<>> PROVE Frames(line) = {} /\ Repeats(line, n) = {}
  BY <1>3 DEF Repeats, Frames
<1>4. QED
  BY <1>2, <1>3, FS_EmptySet

\* Plain elements before a line only move its frames.
LEMMA RepeatsBehind ==
  ASSUME NEW line \in Seq(Element), NEW y \in Seq(Plain), NEW n \in Nat
  PROVE  LET after == y \o line
         IN /\ Cardinality(Repeats(after, n)) \in Nat
            /\ Cardinality(Repeats(after, n)) <= Cardinality(Repeats(line, n))
            /\ \A b : Sorted(line, n, b) => Sorted(after, n, b)
            /\ \A b : Held(after, n, b) => Held(line, n, b)
            /\ \A m : (\A i \in Frames(line) : line[i].block > m) =>
                        \A i \in Frames(after) : after[i].block > m
<1> DEFINE after == y \o line
           k == Len(y)
<1>1. /\ after \in Seq(Element) /\ Len(after) = k + Len(line) /\ k \in Nat /\ Len(line) \in Nat
      /\ \A i \in 1..k : after[i].kind # "SOH"
      /\ \A i \in (k + 1)..(k + Len(line)) : after[i] = line[i - k]
  <2>1. y \in Seq(Element)
    BY DEF Plain
  <2>2. /\ after \in Seq(Element) /\ Len(after) = k + Len(line) /\ k \in Nat /\ Len(line) \in Nat
        /\ \A i \in 1..(k + Len(line)) : after[i] = IF i <= k THEN y[i] ELSE line[i - k]
    <3> HIDE DEF Element
    <3>1. QED
      BY <2>1, ConcatProperties
  <2>3. \A i \in 1..k : y[i].kind # "SOH"
    BY ElementOfSeq DEF Plain
  <2> HIDE DEF after, k
  <2>4. QED
    BY <2>2, <2>3
<1> HIDE DEF after, k
<1>2. /\ \A i \in Frames(after) : i - k \in Frames(line) /\ after[i] = line[i - k]
      /\ Frames(after) \subseteq 1..Len(after)
  <2>1. ASSUME NEW i \in 1..Len(after), after[i].kind = "SOH"
        PROVE  i - k \in 1..Len(line) /\ after[i] = line[i - k]
    <3>1. i > k
      BY <1>1, <2>1
    <3>2. i \in (k + 1)..(k + Len(line))
      BY <1>1, <3>1
    <3>3. QED
      BY <1>1, <3>2
  <2>2. QED
    BY <2>1 DEF Frames
<1> DEFINE A == Repeats(after, n)
           B == Repeats(line, n)
           f == [i \in A |-> i - k]
<1>3. \A i \in A : i - k \in B /\ i \in Int
  <2>1. \A i, j \in Frames(after) : i \in Int /\ j \in Int /\ (j < i => j - k < i - k)
    BY <1>1, <1>2
  <2>2. QED
    BY <1>2, <2>1 DEF Repeats
<1>4. IsFiniteSet(B) /\ Cardinality(A) \in Nat
  <2>1. B \subseteq 1..Len(line)
    BY DEF Repeats, Frames
  <2>2. QED
    BY <1>1, <2>1, CountUpTo, RepeatsCounted
<1>5. f \in Injection(A, B)
  <2>1. f \in [A -> B]
    BY <1>3
  <2>2. \A i, j \in A : f[i] = f[j] => i = j
    BY <1>1, <1>3
  <2>3. QED
    BY <2>1, <2>2 DEF Injection, IsInjective
<1>6. Cardinality(A) <= Cardinality(B)
  BY <1>4, <1>5, FS_Injection
<1>7. /\ \A b : Sorted(line, n, b) => Sorted(after, n, b)
      /\ \A b : Held(after, n, b) => Held(line, n, b)
  <2>1. \A i, j \in Frames(after) : i < j => i - k < j - k
    BY <1>1, <1>2
  <2>2. QED
    BY <1>2, <2>1 DEF Sorted, Held
<1>8. QED
  BY <1>2, <1>4, <1>6, <1>7 DEF after

\* How often the receiver may still ask for the first frame.
Asks(b) == IF b.try = "none" THEN 0
           ELSE (IF b.try = "C" THEN 2 * MaxTry ELSE MaxTry)
                  - b.retry - (IF b.pc \in {"wait", "can"} THEN 1 ELSE 0)

\* The frame that is about to be sent is not new.
Again(line, n, a) == IF a.pc = "send" /\ Held(line, n, a.block) THEN 1 ELSE 0

\* How far the sender is ahead of the n blocks of the file, and what can still bring it an answer:
\* the k answers on the line, the frames that are not new, and the tries for the first frame.
Weight(line, n, a, k, b) ==
  (a.block - n) + k + Cardinality(Repeats(line, n)) + Again(line, n, a) + Asks(b)

\* The frame the receiver needs is never sent again, and nothing is acknowledged.
Stalled(line, n, a, answers) ==
  /\ a.block - n \in 2..Most
  /\ answers \in Seq(Saying({"C", "NAK"}))
  /\ \A i \in Frames(line) : line[i].block > n + 1

\* What one side knows of the other by the place it is at: when the sender sends a block again
\* for want of an answer no frame is on the line, and when the receiver says NAK no answer is.
Places(line, answers, a, b) ==
  /\ a.pc \in {"off", "sync", "can"} => line = <<>> /\ b.pc \notin {"frame", "flush"}
  /\ a.pc = "ack" /\ a.wait = 0 => line = <<>>
  /\ b.pc \in {"frame", "flush"} => b.try = "none"
  /\ b.pc = "flush" /\ b.wait = 0 /\ a.pc # "done" => answers = <<>>
  /\ b.pc = "off" => a.pc \notin {"send", "ack"} /\ answers = <<>> /\ b.retry = 0

\* The invariant.
PaceInv ==
  r.pc # "done" =>
    /\ toS \in Seq(Saying({"C", "NAK", "ACK"}))
    /\ Sorted(toR, Len(file), s.block)
    /\ Places(toR, toS, s, r)
    /\ Stalled(toR, Len(file), s, toS) \/ Weight(toR, Len(file), s, Len(toS), r) <= Most

\* How often the receiver asks is a number, and at most twice its tries.
LEMMA AsksCounted ==
  ASSUME NEW b \in Receivers, ReceiverCounts(b)
  PROVE  Asks(b) \in 0..(2 * MaxTry)
<1>1. /\ b.retry \in Nat /\ b.retry <= MaxTry /\ MaxTry \in Nat /\ MaxTry > 0
      /\ b.pc \in {"wait", "can"} => b.retry <= MaxTry - 1
  BY Bounds DEF ReceiverCounts
<1>2. QED
  BY <1>1 DEF Asks

\* A frame that keeps its number keeps its block, if the blocks are near.
LEMMA NumbersApart ==
  ASSUME NEW m \in Nat, m > 1, NEW a \in Nat, NEW b \in Nat, a % m = b % m, a - b < m, b - a < m
  PROVE  a = b
<1> DEFINE q == a \div m
           p == b \div m
<1>1. q \in Int /\ p \in Int /\ a - m * q = b - m * p
  OBVIOUS
<1> HIDE DEF q, p
<1>2. a - b = m * (q - p)
  BY <1>1
<1> DEFINE d == q - p
<1>3. d \in Int /\ a - b = m * d
  BY <1>1, <1>2
<1> HIDE DEF d
<1>4. ~(d >= 1) /\ ~(d <= -1)
  <2>1. d >= 1 => m * d >= m
    BY <1>3
  <2>2. d <= -1 => m * d <= -m
    BY <1>3
  <2>3. QED
    BY <1>3, <2>1, <2>2
<1>5. d = 0
  BY <1>3, <1>4
<1>6. QED
  BY <1>3, <1>5

\* The numbers that are counted are numbers, and the sender is not far ahead.
LEMMA PaceCounted ==
  ASSUME CountInv, PaceInv, r.pc # "done"
  PROVE  LET n == Len(file)
         IN /\ n \in Nat /\ s.block \in Nat /\ s.block >= n /\ Len(toS) \in Nat
            /\ Cardinality(Repeats(toR, n)) \in Nat /\ Again(toR, n, s) \in {0, 1}
            /\ Asks(r) \in 0..(2 * MaxTry)
            /\ s.block - n <= Most /\ MaxTry \in Nat /\ MaxTry > 0 /\ Most = 2 * MaxTry + 1
<1> DEFINE n == Len(file)
<1>1. n \in Nat /\ s.block \in Nat /\ Len(toS) \in Nat
  BY LenProperties DEF CountInv, SenderInv, Senders, PaceInv
<1>2. Cardinality(Repeats(toR, n)) \in Nat /\ Asks(r) \in 0..(2 * MaxTry)
  BY RepeatsCounted, AsksCounted DEF CountInv, LineInv
<1>3. Again(toR, n, s) \in {0, 1} /\ MaxTry \in Nat /\ MaxTry > 0 /\ Most = 2 * MaxTry + 1
  BY Bounds DEF Again, Most
<1>4. s.block >= n
  BY <1>1 DEF PaceInv, Sorted
<1>5. Stalled(toR, n, s, toS) \/ Weight(toR, n, s, Len(toS), r) <= Most
  BY DEF PaceInv
<1>6. Stalled(toR, n, s, toS) => s.block - n <= Most
  BY <1>1, <1>3 DEF Stalled
<1> HIDE DEF n
<1>7. Weight(toR, n, s, Len(toS), r) <= Most => s.block - n <= Most
  BY <1>1, <1>2, <1>3 DEF Weight
<1>8. QED
  BY <1>1, <1>2, <1>3, <1>4, <1>5, <1>6, <1>7 DEF n

\* A sender that has ended does nothing more.
LEMMA SenderGoing == ASSUME SenderNext PROVE s.pc # "done"
BY DEF SenderNext, BeginSend, NoSync, SendBlock, GiveUp, SendEot, NoAnswer, Sync, SyncCan, AckOf,
       SendFlush, EotAnswer

\* The answers after a step of the sender: there are no more, and none of another kind.
LEMMA AnswersRead ==
  ASSUME s \in Senders, SenderNext, NEW K, toS \in Seq(Saying(K))
  PROVE  /\ toS' \in Seq(Saying(K)) /\ Len(toS) \in Nat /\ Len(toS') \in Nat
         /\ Len(toS') <= Len(toS) /\ (toS = <<>> => toS' = <<>>)
<1>1. Len(toS) \in Nat
  BY LenProperties
<1>2. toS' \in Seq(Saying(K)) /\ (toS' = toS \/ (toS = <<>> /\ toS' = <<>>) \/ Len(toS') = Len(toS) - 1)
  <2>1. CASE toS' = toS
    BY <2>1
  <2>2. ASSUME NEW c \in Bytes, Heard(c)
        PROVE  toS' \in Seq(Saying(K)) /\ ((toS = <<>> /\ toS' = <<>>) \/ Len(toS') = Len(toS) - 1)
    BY <2>2, HeardSays
  <2>3. QED
    BY <2>1, <2>2, SenderReads
<1>3. Len(toS') \in Nat
  BY <1>2, LenProperties
<1>4. toS = <<>> => toS' = <<>>
  <2>1. toS = <<>> => Len(toS) = 0
    OBVIOUS
  <2>2. QED
    BY <1>1, <1>2, <1>3, <2>1
<1>5. QED
  BY <1>1, <1>2, <1>3, <1>4

\* The line after a step of the sender that sends no frame.
LEMMA QuietLine ==
  ASSUME LineInv, r.pc # "done", Quiet, NEW n
  PROVE  /\ Frames(toR') = Frames(toR) /\ \A i \in Frames(toR) : toR'[i] = toR[i]
         /\ Repeats(toR', n) = Repeats(toR, n)
         /\ \A b : Held(toR', n, b) => Held(toR, n, b)
         /\ \A b : Sorted(toR, n, b) => Sorted(toR', n, b)
<1>1. toR \in Seq(Element)
  BY DEF LineInv
<1>2. PICK y \in Seq(Plain) : toR' = toR \o y
  BY <1>1, QuietAdds
<1>3. QED
  BY <1>1, <1>2, RepeatsPlain

\* A step of the sender leaves it no further ahead of what can still be answered.
LEMMA SenderPaces ==
  ASSUME CountInv, PaceInv, SenderNext
  PROVE  PaceInv'
<1> DEFINE n == Len(file)
<1>1. /\ s \in Senders /\ r' = r /\ file' = file /\ SenderInv /\ LineInv /\ toR \in Seq(Element)
      /\ s.pc # "done"
  BY SenderKeeps, SenderGoing DEF CountInv, SenderInv, LineInv
<1>2. SUFFICES ASSUME r.pc # "done" PROVE PaceInv'
  BY <1>1 DEF PaceInv
<1>3. /\ toS \in Seq(Saying({"C", "NAK", "ACK"}))
      /\ Sorted(toR, n, s.block)
      /\ Places(toR, toS, s, r)
      /\ Stalled(toR, n, s, toS) \/ Weight(toR, n, s, Len(toS), r) <= Most
  BY <1>2 DEF PaceInv
<1>4. /\ n \in Nat /\ s.block \in Nat /\ s.block >= n /\ Len(toS) \in Nat
      /\ Cardinality(Repeats(toR, n)) \in Nat /\ Again(toR, n, s) \in {0, 1}
      /\ Asks(r) \in 0..(2 * MaxTry)
      /\ s.block - n <= Most /\ MaxTry \in Nat /\ MaxTry > 0 /\ Most = 2 * MaxTry + 1
  BY <1>2, PaceCounted
<1>5. /\ toS' \in Seq(Saying({"C", "NAK", "ACK"})) /\ Len(toS') \in Nat
      /\ Len(toS') <= Len(toS) /\ (toS = <<>> => toS' = <<>>)
      /\ toS \in Seq(Saying({"C", "NAK"})) => toS' \in Seq(Saying({"C", "NAK"}))
  BY <1>1, <1>3, AnswersRead
<1> HIDE DEF n
\* What is left to show of each way.
<1>6. ASSUME Sorted(toR', n, s'.block), Places(toR', toS', s', r),
             Stalled(toR', n, s', toS') \/ Weight(toR', n, s', Len(toS'), r) <= Most
      PROVE  PaceInv'
  BY <1>1, <1>5, <1>6 DEF PaceInv, n
\* An answer that is read.
<1>7. ASSUME NEW c, Heard(c)
      PROVE  /\ Stalled(toR, n, s, toS) => c # "ACK"
             /\ c # "timeout" => Len(toS') = Len(toS) - 1
             /\ c = "timeout" => (toS = <<>> /\ s.wait = 0) \/ Len(toS') = Len(toS) - 1
             /\ r.pc = "off" => c = "timeout"
  <2>1. \/ toS = <<>> /\ c = "timeout" /\ s.wait = 0
        \/ toS # <<>> /\ Len(toS') = Len(toS) - 1
    BY <1>3, <1>7, HeardSays
  <2>2. Stalled(toR, n, s, toS) => c \in {"C", "NAK", "stray", "timeout"}
    BY <1>7, HeardSays DEF Stalled
  <2>3. r.pc = "off" => toS = <<>>
    BY <1>3 DEF Places
  <2>4. QED
    BY <2>1, <2>2, <2>3
\* No frame is sent.
<1>8. ASSUME Quiet, s'.block = s.block \/ (s'.block = s.block + 1 /\ Heard("ACK")),
             s'.pc \in {"off", "sync", "can"} => s.pc \in {"off", "sync", "can"} /\ toR' = toR,
             s'.pc # "ack", s'.pc = "send" => r.pc # "off",
             s'.block = s.block =>
               Weight(toR', n, s', Len(toS'), r) <= Weight(toR, n, s, Len(toS), r)
                 \/ Weight(toR', n, s', Len(toS'), r) <= Most
      PROVE  PaceInv'
  <2>1. /\ Frames(toR') = Frames(toR) /\ \A i \in Frames(toR) : toR'[i] = toR[i]
        /\ Repeats(toR', n) = Repeats(toR, n)
        /\ \A b : Held(toR', n, b) => Held(toR, n, b)
        /\ Sorted(toR', n, s.block)
    BY <1>1, <1>2, <1>3, <1>8, QuietLine
  <2>2. Sorted(toR', n, s'.block)
    <3>1. CASE s'.block = s.block
      BY <2>1, <3>1
    <3>2. CASE s'.block = s.block + 1
      BY <1>4, <2>1, <3>2 DEF Sorted
    <3>3. QED
      BY <1>8, <3>1, <3>2
  <2>3. Places(toR', toS', s', r)
    BY <1>1, <1>3, <1>5, <1>8, <2>1 DEF Places
  <2>4. CASE Stalled(toR, n, s, toS)
    <3>1. s'.block = s.block
      BY <1>7, <1>8, <2>4
    <3>2. Stalled(toR', n, s', toS')
      BY <1>5, <2>1, <2>4, <3>1 DEF Stalled
    <3>3. QED
      BY <1>6, <2>2, <2>3, <3>2
  <2>5. CASE Weight(toR, n, s, Len(toS), r) <= Most
    <3>1. CASE s'.block = s.block
      <4> DEFINE lead == s.block - n
                 c == Cardinality(Repeats(toR, n))
                 g == Again(toR, n, s)
                 h == Again(toR', n, s')
                 k == Len(toS)
                 k1 == Len(toS')
                 q == Asks(r)
      <4>1. Weight(toR', n, s', Len(toS'), r) \in Int /\ Weight(toR, n, s, Len(toS), r) \in Int
        <5>1. Weight(toR, n, s, Len(toS), r) = lead + k + c + g + q
          BY DEF Weight
        <5>2. Weight(toR', n, s', Len(toS'), r) = lead + k1 + c + h + q
          BY <2>1, <3>1 DEF Weight
        <5>3. h \in {0, 1}
          BY DEF Again
        <5>4. lead \in Int /\ k \in Int /\ k1 \in Int /\ c \in Int /\ g \in Int /\ q \in Int
          BY <1>4, <1>5
        <5> HIDE DEF lead, k, k1, c, g, h, q
        <5>5. QED
          BY <5>1, <5>2, <5>3, <5>4
      <4>2. QED
        BY <1>4, <1>6, <1>8, <2>2, <2>3, <2>5, <3>1, <4>1
    <3>2. CASE s'.block = s.block + 1 /\ Heard("ACK")
      <4>1. Len(toS') = Len(toS) - 1
        BY <1>7, <3>2
      <4>2. ~Held(toR', n, s'.block)
        BY <1>4, <2>1, <3>2 DEF Held, Sorted
      <4>3. Again(toR', n, s') = 0
        BY <4>2 DEF Again
      <4>4. Weight(toR', n, s', Len(toS'), r) <= Most
        <5> DEFINE c == Cardinality(Repeats(toR, n))
                   g == Again(toR, n, s)
                   a == Asks(r)
                   k == Len(toS)
                   b == s.block
        <5>1. Weight(toR', n, s', Len(toS'), r) = ((b + 1) - n) + (k - 1) + c + 0 + a
          BY <2>1, <3>2, <4>1, <4>3 DEF Weight
        <5>2. (b - n) + k + c + g + a <= Most
          BY <2>5 DEF Weight
        <5>3. /\ n \in Nat /\ b \in Nat /\ k \in Nat /\ c \in Nat /\ g \in {0, 1} /\ a \in Int
              /\ Most \in Int
          BY <1>4
        <5> HIDE DEF b, k, c, g, a
        <5>4. QED
          BY <5>1, <5>2, <5>3
      <4>5. QED
        BY <1>6, <2>2, <2>3, <4>4
    <3>3. QED
      BY <1>8, <3>1, <3>2
  <2>6. QED
    BY <1>3, <2>4, <2>5

\* To the first frame, or past the last one.
<1>9. CASE /\ s.pc \in {"off", "sync", "can"} /\ s'.pc \in {"sync", "can"}
           /\ toR' = toR /\ s'.block = s.block
  <2>1. Again(toR', n, s') = 0
    BY <1>9 DEF Again
  <2>2. Weight(toR', n, s', Len(toS'), r) <= Weight(toR, n, s, Len(toS), r)
    BY <1>4, <1>5, <1>9, <2>1 DEF Weight
  <2>3. QED
    BY <1>8, <1>9, <2>2 DEF Quiet
<1>10. CASE /\ s.pc = "sync" /\ s'.pc = "send" /\ toR' = toR /\ s'.block = s.block
            /\ \E c \in {"C", "NAK"} : Heard(c)
  <2>1. Len(toS') = Len(toS) - 1 /\ r.pc # "off"
    BY <1>7, <1>10
  <2>2. Again(toR', n, s') \in {0, 1} /\ Again(toR, n, s) = 0
    BY <1>10 DEF Again
  <2>3. Weight(toR', n, s', Len(toS'), r) <= Weight(toR, n, s, Len(toS), r)
    BY <1>4, <1>10, <2>1, <2>2 DEF Weight
  <2>4. QED
    BY <1>8, <1>10, <2>1, <2>3 DEF Quiet
<1>11. CASE /\ Over(s') /\ Quiet
            /\ s'.block = s.block \/ (s'.block = s.block + 1 /\ Heard("ACK"))
  <2>1. s'.pc \notin {"off", "sync", "can", "send", "ack"}
    BY <1>11 DEF Over
  <2>2. Again(toR', n, s') = 0
    BY <2>1 DEF Again
  <2>3. Repeats(toR', n) = Repeats(toR, n)
    BY <1>1, <1>2, <1>11, QuietLine
  <2>4. s'.block = s.block => Weight(toR', n, s', Len(toS'), r) <= Weight(toR, n, s, Len(toS), r)
    BY <1>4, <1>5, <2>2, <2>3 DEF Weight
  <2>5. QED
    BY <1>8, <1>11, <2>1, <2>4
\* The sender has read an answer, or has waited in vain, when nothing is on the line.
<1>12. CASE /\ s.pc = "ack" /\ s'.pc = "send" /\ toR' = toR
            /\ \/ s'.block = s.block /\ \E c \in Bytes : Heard(c)
               \/ s'.block = s.block + 1 /\ Heard("ACK")
  <2>1. r.pc # "off" /\ Quiet
    BY <1>3, <1>12 DEF Places, Quiet
  <2>2. ASSUME s'.block = s.block, Len(toS') = Len(toS) - 1
        PROVE  Weight(toR', n, s', Len(toS'), r) <= Weight(toR, n, s, Len(toS), r)
    <3>1. Again(toR', n, s') \in {0, 1} /\ Again(toR, n, s) = 0
      BY <1>12 DEF Again
    <3>2. QED
      BY <1>4, <1>12, <2>2, <3>1 DEF Weight
  <2>3. ASSUME s'.block = s.block, toS = <<>>, s.wait = 0
        PROVE  \/ Weight(toR', n, s', Len(toS'), r) <= Weight(toR, n, s, Len(toS), r)
               \/ Weight(toR', n, s', Len(toS'), r) <= Most
    <3>1. toR = <<>> /\ toS' = <<>> /\ Len(toS') = 0
      BY <1>3, <1>5, <1>12, <2>3 DEF Places
    <3>2. Frames(toR) = {} /\ Cardinality(Repeats(toR, n)) = 0 /\ toR' = toR
      BY <1>1, <1>12, <3>1, RepeatsCounted
    <3>3. CASE s.block <= n
      <4>1. s'.block - n = 0 /\ Again(toR', n, s') \in {0, 1}
        BY <1>4, <2>3, <3>3 DEF Again
      <4>2. Weight(toR', n, s', Len(toS'), r) <= Most
        BY <1>4, <3>1, <3>2, <4>1 DEF Weight
      <4>3. QED
        BY <4>2
    <3>4. CASE ~(s.block <= n)
      <4>1. Again(toR', n, s') = 0
        BY <2>3, <3>2, <3>4 DEF Again, Held
      <4>2. Weight(toR', n, s', Len(toS'), r) <= Weight(toR, n, s, Len(toS), r)
        BY <1>4, <1>5, <2>3, <3>2, <4>1 DEF Weight
      <4>3. QED
        BY <4>2
    <3>5. QED
      BY <3>3, <3>4
  <2>4. s'.block = s.block => (toS = <<>> /\ s.wait = 0) \/ Len(toS') = Len(toS) - 1
    <3>1. s.block # s.block + 1
      BY <1>4
    <3>2. QED
      BY <1>7, <1>12, <3>1
  <2>5. QED
    BY <1>8, <1>12, <2>1, <2>2, <2>3, <2>4
\* A frame is sent.
<1>13. CASE SendBlock /\ s'.pc = "ack" /\ s'.block = s.block
  <2>1. s.pc = "send" /\ s'.wait = AckWait /\ AckWait = 2
    BY <1>1, <1>13, Bounds DEF SendBlock, SenderStep, To, Senders
  <2>2. Places(toR', toS', s', r)
    BY <1>3, <1>5, <1>13, <2>1 DEF Places
  <2>3. Again(toR', n, s') = 0
    BY <1>13 DEF Again
  <2>4. ASSUME \A i \in Frames(toR') : (i \in Frames(toR) /\ toR'[i] = toR[i]) \/ toR'[i].block = s.block,
               Cardinality(Repeats(toR', n)) \in Nat,
               Cardinality(Repeats(toR', n)) <= Cardinality(Repeats(toR, n)) + Again(toR, n, s),
               Sorted(toR', n, s.block)
        PROVE  PaceInv'
    <3>1. CASE Stalled(toR, n, s, toS)
      <4>1. \A i \in Frames(toR') : toR'[i].block > n + 1
        <5>1. s.block > n + 1
          BY <1>4, <3>1 DEF Stalled
        <5>2. QED
          BY <2>4, <3>1, <5>1 DEF Stalled
      <4>2. Stalled(toR', n, s', toS')
        BY <1>5, <1>13, <3>1, <4>1 DEF Stalled
      <4>3. QED
        BY <1>6, <1>13, <2>2, <2>4, <4>2
    <3>2. CASE Weight(toR, n, s, Len(toS), r) <= Most
      <4> DEFINE lead == s.block - n
                 c == Cardinality(Repeats(toR, n))
                 d == Cardinality(Repeats(toR', n))
                 g == Again(toR, n, s)
                 k == Len(toS)
                 k1 == Len(toS')
                 q == Asks(r)
      <4>1. Weight(toR', n, s', Len(toS'), r) <= Most
        <5>1. lead + k + c + g + q <= Most
          BY <3>2 DEF Weight
        <5>2. Weight(toR', n, s', Len(toS'), r) = lead + k1 + d + 0 + q
          BY <1>13, <2>3 DEF Weight
        <5>3. /\ lead \in Int /\ k \in Nat /\ k1 \in Nat /\ k1 <= k /\ c \in Nat /\ d \in Nat
              /\ d <= c + g /\ g \in {0, 1} /\ q \in Int /\ Most \in Int
          BY <1>4, <1>5, <2>4
        <5> HIDE DEF lead, k, k1, c, d, g, q
        <5>4. QED
          BY <5>1, <5>2, <5>3
      <4>2. QED
        BY <1>6, <1>13, <2>2, <2>4, <4>1
    <3>3. QED
      BY <1>3, <3>1, <3>2
  <2>5. ASSUME NEW y \in Seq(Plain), toR' = toR \o y PROVE PaceInv'
    <3>1. /\ Frames(toR') = Frames(toR) /\ \A i \in Frames(toR) : toR'[i] = toR[i]
          /\ Repeats(toR', n) = Repeats(toR, n) /\ Sorted(toR', n, s.block)
      BY <1>1, <1>3, <2>5, RepeatsPlain
    <3>2. Cardinality(Repeats(toR', n)) <= Cardinality(Repeats(toR, n)) + Again(toR, n, s)
      BY <1>4, <3>1
    <3>3. QED
      BY <1>4, <2>4, <3>1, <3>2
  <2>6. ASSUME NEW f \in Element, f.kind = "SOH", f.block = s.block, toR' = toR \o <<f>>
        PROVE  PaceInv'
    <3> DEFINE more == IF Held(toR, n, f.block) THEN 1 ELSE 0
    <3>1. /\ \A i \in Frames(toR') : (i \in Frames(toR) /\ toR'[i] = toR[i]) \/ toR'[i] = f
          /\ Cardinality(Repeats(toR', n)) = Cardinality(Repeats(toR, n)) + more
          /\ Sorted(toR, n, f.block) => Sorted(toR', n, f.block)
      BY <1>1, <1>4, <2>6, RepeatsFrame
    <3>2. more = Again(toR, n, s)
      BY <2>1, <2>6 DEF Again
    <3> HIDE DEF more
    <3>3. /\ Cardinality(Repeats(toR', n)) \in Nat
          /\ Cardinality(Repeats(toR', n)) <= Cardinality(Repeats(toR, n)) + Again(toR, n, s)
      BY <1>4, <3>1, <3>2
    <3>4. QED
      BY <1>3, <2>4, <2>6, <3>1, <3>3
  <2>7. CASE toR' = toR
    <3>1. toR' = toR \o <<>> /\ <<>> \in Seq(Plain)
      BY <1>1, <2>7, ConcatEmptySeq, EmptySeq
    <3>2. QED
      BY <2>5, <3>1
  <2>8. QED
    BY <1>1, <1>2, <1>13, <2>5, <2>6, <2>7, FrameAdds
<1>14. QED
  BY <1>1, <1>9, <1>10, <1>11, <1>12, <1>13, SenderWays

\* What is left on the line when the receiver has taken something or nothing.
LEMMA LineLeft ==
  ASSUME LineInv, NEW n \in Nat, NEW b \in Nat, Sorted(toR, n, b),
         toR' = toR \/ RecvCanFrame \/ \E c \in Bytes : Takes(c)
  PROVE  /\ Cardinality(Repeats(toR, n)) \in Nat /\ Cardinality(Repeats(toR', n)) \in Nat
         /\ Cardinality(Repeats(toR', n)) <= Cardinality(Repeats(toR, n))
         /\ Sorted(toR', n, b) /\ (Held(toR', n, b) => Held(toR, n, b))
         /\ \A m : (\A i \in Frames(toR) : toR[i].block > m) => \A i \in Frames(toR') : toR'[i].block > m
         /\ toR = <<>> => toR' = <<>>
<1>1. toR \in Seq(Element)
  BY DEF LineInv
<1>2. Cardinality(Repeats(toR, n)) \in Nat
  BY <1>1, RepeatsCounted
<1>3. CASE toR' = toR
  BY <1>2, <1>3
<1>4. CASE toR # <<>> /\ toR' = Tail(toR)
  BY <1>1, <1>4, RepeatsTail
<1>5. CASE RecvCanFrame
  <2> DEFINE rest == Tail(toR)
             y == Strays(FrameBytes - 1)
  <2>1. toR # <<>> /\ toR' = y \o rest
    BY <1>5 DEF RecvCanFrame
  <2>2. rest \in Seq(Element) /\ y \in Seq(Plain)
    BY <1>1, <2>1, TailAt, StraysPlain, CountsAssumption
  <2>3. /\ Cardinality(Repeats(rest, n)) \in Nat
        /\ Cardinality(Repeats(rest, n)) <= Cardinality(Repeats(toR, n))
        /\ Sorted(rest, n, b) /\ (Held(rest, n, b) => Held(toR, n, b))
        /\ \A m : (\A i \in Frames(toR) : toR[i].block > m) => \A i \in Frames(rest) : rest[i].block > m
    BY <1>1, <2>1, RepeatsTail
  <2> HIDE DEF rest, y
  <2>4. /\ Cardinality(Repeats(toR', n)) \in Nat
        /\ Cardinality(Repeats(toR', n)) <= Cardinality(Repeats(rest, n))
        /\ Sorted(toR', n, b) /\ (Held(toR', n, b) => Held(rest, n, b))
        /\ \A m : (\A i \in Frames(rest) : rest[i].block > m) => \A i \in Frames(toR') : toR'[i].block > m
    BY <2>1, <2>2, <2>3, RepeatsBehind
  <2>5. Cardinality(Repeats(toR', n)) <= Cardinality(Repeats(toR, n))
    <3> DEFINE c == Cardinality(Repeats(toR, n))
               d == Cardinality(Repeats(rest, n))
               e == Cardinality(Repeats(toR', n))
    <3>1. c \in Nat /\ d \in Nat /\ e \in Nat /\ e <= d /\ d <= c
      BY <1>2, <2>3, <2>4
    <3> HIDE DEF c, d, e
    <3>2. e <= c
      BY <3>1
    <3>3. QED
      BY <3>2 DEF c, e
  <2>6. \A m : (\A i \in Frames(toR) : toR[i].block > m) => \A i \in Frames(toR') : toR'[i].block > m
    BY <2>3, <2>4
  <2>7. QED
    BY <1>2, <2>1, <2>3, <2>4, <2>5, <2>6
<1>6. QED
  BY <1>3, <1>4, <1>5 DEF Takes

\* The frame the receiver takes, by its number.
LEMMA HeadPaces ==
  ASSUME CountInv, PaceInv, Most < Modulus, r.pc = "wait", toR # <<>>, Head(toR).kind = "SOH"
  PROVE  LET x == Head(toR)
             n == Len(file)
         IN /\ x = toR[1] /\ x.block \in n..s.block /\ x.block \in Nat
            /\ IsNext(x) => x.block = n + 1
            /\ IsLast(x) => x.block = n
            /\ Stalled(toR, n, s, toS) => x.block > n + 1
<1> DEFINE x == Head(toR)
           n == Len(file)
<1>1. x = toR[1] /\ x \in Element /\ 1 \in Frames(toR) /\ x.block \in Nat
  <2>1. toR \in Seq(Element)
    BY DEF CountInv, LineInv
  <2>2. x = toR[1] /\ x \in Element /\ 1 \in Frames(toR)
    BY <2>1, TailAt DEF Frames
  <2>3. QED
    BY <2>2, CountsAssumption DEF Element
<1>2. /\ n \in Nat /\ s.block \in Nat /\ s.block - n <= Most
      /\ Most \in Nat /\ Most > 2 /\ Modulus \in Nat /\ Modulus > 1
  BY PaceCounted, CountsAssumption
<1>3. x.block \in n..s.block
  BY <1>1 DEF PaceInv, Sorted
<1>4. IsNext(x) <=> x.block % Modulus = (n + 1) % Modulus
  BY DEF IsNext, Number, Expected
<1>5. IsLast(x) <=> x.block % Modulus = ((n + 1) % Modulus) - 1
  BY DEF IsLast, Number, Expected
<1> HIDE DEF n
<1>6. ASSUME Stalled(toR, n, s, toS) PROVE x.block > n + 1
  BY <1>1, <1>6 DEF Stalled
<1> DEFINE b == x.block
<1>7. b \in Nat /\ b \in n..s.block
  BY <1>1, <1>3
<1> HIDE DEF b
<1>8. IsNext(x) => b = n + 1
  <2> DEFINE next == n + 1
  <2>1. next \in Nat /\ b - next < Modulus /\ next - b < Modulus
    BY <1>2, <1>7
  <2>2. IsNext(x) <=> b % Modulus = next % Modulus
    BY <1>4 DEF b
  <2>3. b \in Nat /\ Modulus \in Nat /\ Modulus > 1
    BY <1>2, <1>7
  <2> HIDE DEF next, x
  <2>4. b % Modulus = next % Modulus => b = next
    BY <2>1, <2>3, NumbersApart
  <2>5. QED
    BY <2>2, <2>4 DEF next
<1>9. IsLast(x) => b = n
  <2>1. b - n < Modulus /\ n - b < Modulus
    BY <1>2, <1>7
  <2>2. b % Modulus = n % Modulus => b = n
    BY <1>2, <1>7, <2>1, NumbersApart
  <2>3. /\ b % Modulus \in 0..(Modulus - 1) /\ n % Modulus \in 0..(Modulus - 1)
        /\ (n + 1) % Modulus = IF n % Modulus = Modulus - 1 THEN 0 ELSE (n % Modulus) + 1
    BY <1>2, <1>7, NumberOfNext
  <2>4. b % Modulus = ((n + 1) % Modulus) - 1 => b % Modulus = n % Modulus
    BY <2>3
  <2>5. QED
    BY <1>5, <2>2, <2>4 DEF b
<1>10. QED
  BY <1>1, <1>3, <1>6, <1>8, <1>9 DEF b, n

\* A step of the receiver that writes nothing and lets the sender come no nearer.
LEMMA ReceiverStays ==
  ASSUME CountInv, PaceInv, ReceiverNext, r.pc # "done",
         toR' = toR \/ RecvCanFrame \/ \E c \in Bytes : Takes(c),
         file' = file, s' = s, r'.pc # "off",
         toS' \in Seq(Saying({"C", "NAK", "ACK"})),
         toS \in Seq(Saying({"C", "NAK"})) => toS' \in Seq(Saying({"C", "NAK"})),
         Asks(r') + Len(toS') <= Asks(r) + Len(toS),
         r'.pc \in {"frame", "flush"} =>
           r'.try = "none" /\ r'.wait > 0 /\ s.pc \notin {"off", "sync", "can"}
  PROVE  PaceInv'
<1> DEFINE n == Len(file)
<1>1. /\ toS \in Seq(Saying({"C", "NAK", "ACK"}))
      /\ Sorted(toR, n, s.block)
      /\ Places(toR, toS, s, r)
      /\ Stalled(toR, n, s, toS) \/ Weight(toR, n, s, Len(toS), r) <= Most
  BY DEF PaceInv
<1>2. /\ n \in Nat /\ s.block \in Nat /\ Len(toS) \in Nat /\ Asks(r) \in Int /\ Most \in Int
      /\ Again(toR, n, s) \in {0, 1} /\ Again(toR', n, s) \in {0, 1}
  BY PaceCounted DEF Again
<1>3. /\ LineInv /\ r' \in Receivers /\ ReceiverCounts(r') /\ r'.wait \in Nat
  BY ReceiverCountsKept, Bounds DEF CountInv, ReceiverCounts
<1>4. Asks(r') \in Nat /\ Len(toS') \in Nat
  BY <1>3, AsksCounted, LenProperties, Bounds
<1>5. /\ Cardinality(Repeats(toR, n)) \in Nat /\ Cardinality(Repeats(toR', n)) \in Nat
      /\ Cardinality(Repeats(toR', n)) <= Cardinality(Repeats(toR, n))
      /\ Sorted(toR', n, s.block) /\ (Held(toR', n, s.block) => Held(toR, n, s.block))
      /\ \A m : (\A i \in Frames(toR) : toR[i].block > m) => \A i \in Frames(toR') : toR'[i].block > m
      /\ toR = <<>> => toR' = <<>>
  BY <1>1, <1>2, <1>3, LineLeft
<1> HIDE DEF n
<1>6. Places(toR', toS', s, r')
  BY <1>1, <1>3, <1>5 DEF Places
<1>7. Stalled(toR, n, s, toS) => Stalled(toR', n, s, toS')
  BY <1>5 DEF Stalled
<1>8. Weight(toR, n, s, Len(toS), r) <= Most => Weight(toR', n, s, Len(toS'), r') <= Most
  <2>1. Again(toR', n, s) <= Again(toR, n, s)
    BY <1>5 DEF Again
  <2> DEFINE lead == s.block - n
             c == Cardinality(Repeats(toR, n))
             d == Cardinality(Repeats(toR', n))
             g == Again(toR, n, s)
             h == Again(toR', n, s)
             answers == Len(toS) + Asks(r)
             more == Len(toS') + Asks(r')
  <2>2. Weight(toR, n, s, Len(toS), r) = lead + answers + c + g
    BY <1>2, <1>5 DEF Weight
  <2>3. Weight(toR', n, s, Len(toS'), r') = lead + more + d + h
    BY <1>2, <1>4, <1>5 DEF Weight
  <2>4. /\ more <= answers /\ d <= c /\ h <= g
        /\ {lead, answers, more, c, d, g, h} \subseteq Int
    BY <1>2, <1>4, <1>5, <2>1
  <2> HIDE DEF lead, answers, more, c, d, g, h
  <2>5. QED
    BY <1>2, <2>2, <2>3, <2>4
<1>9. QED
  BY <1>1, <1>5, <1>6, <1>7, <1>8 DEF PaceInv, n

\* A frame that is accepted brings one answer, and the next block is written or the frame was not new.
LEMMA AcceptPaces ==
  ASSUME CountInv, PaceInv, Most < Modulus, Accept, r'.pc # "done"
  PROVE  PaceInv'
<1> USE DEF ReceiverStep
<1> DEFINE x == Head(toR)
           n == Len(file)
           left == (IF IsNext(x) THEN MaxRetrans + 1 ELSE r.retrans) - 1
           a == [Started EXCEPT !.retrans = left]
<1>1. /\ r.pc = "wait" /\ Takes("SOH") /\ Acceptable(x) /\ s' = s
      /\ file' = IF IsNext(x) THEN Append(file, x.block) ELSE file
      /\ \/ r' = Ends(a, "too many retries")
         \/ r' = Outer(a) /\ Answers(Says("ACK"))
  BY DEF Accept
<1>2. toR # <<>> /\ x.kind = "SOH" /\ toR' = Tail(toR) /\ toR \in Seq(Element) /\ r \in Receivers
  <2>1. x.good
    BY <1>1 DEF Acceptable
  <2>2. QED
    BY <1>1, <2>1, TakesFrame DEF Takes, CountInv, LineInv
<1>3. left \in Int
  <2>1. r.retrans \in Int /\ MaxRetrans + 1 \in Int
    BY <1>2, Bounds DEF Receivers
  <2>2. QED
    BY <2>1
<1> HIDE DEF left
<1>4. a \in Receivers /\ a.try = "none"
  BY <1>2, <1>3, StartedCounts DEF Started, Receivers
<1> HIDE DEF a
<1>5. r' = Outer(a) /\ Answers(Says("ACK"))
  <2>1. Ends(a, "too many retries").pc = "done"
    BY <1>4, RecvFields DEF RecvResults
  <2>2. QED
    BY <1>1, <2>1
<1>6. r'.pc = "try" /\ r'.try = "none" /\ Asks(r') = 0
  BY <1>4, <1>5, RecvFields, RecvTries DEF Asks
<1>7. /\ x = toR[1] /\ x.block \in Nat
      /\ IsNext(x) => x.block = n + 1
      /\ IsLast(x) => x.block = n
      /\ ~Stalled(toR, n, s, toS)
  <2>1. /\ x = toR[1] /\ x.block \in Nat
        /\ IsNext(x) => x.block = n + 1
        /\ IsLast(x) => x.block = n
        /\ Stalled(toR, n, s, toS) => x.block > n + 1
    BY <1>1, <1>2, HeadPaces
  <2>2. n \in Nat /\ (IsNext(x) \/ IsLast(x))
    BY <1>1, PaceCounted DEF Acceptable
  <2> HIDE DEF x, n
  <2>3. ~(x.block > n + 1)
    BY <2>1, <2>2
  <2>4. QED
    BY <2>1, <2>3
<1>8. /\ toS \in Seq(Saying({"C", "NAK", "ACK"})) /\ Sorted(toR, n, s.block)
      /\ Places(toR, toS, s, r) /\ Weight(toR, n, s, Len(toS), r) <= Most
  BY <1>1, <1>7 DEF PaceInv
<1>9. /\ n \in Nat /\ s.block \in Nat /\ Len(toS) \in Nat
      /\ Again(toR, n, s) \in {0, 1} /\ Asks(r) \in Nat /\ Most \in Int
  <2>1. /\ n \in Nat /\ s.block \in Nat /\ Len(toS) \in Nat
        /\ Again(toR, n, s) \in {0, 1} /\ Asks(r) \in 0..(2 * MaxTry)
        /\ MaxTry \in Nat /\ Most = 2 * MaxTry + 1
    BY <1>1, PaceCounted
  <2> HIDE DEF n
  <2>2. QED
    BY <2>1
<1>10. /\ toS' \in Seq(Saying({"C", "NAK", "ACK"})) /\ Len(toS') \in Nat
       /\ Len(toS') <= Len(toS) + 1
  <2>1. toS' \in Seq(Saying({"C", "NAK", "ACK"})) /\ Len(toS') \in 0..(Len(toS) + 1)
    BY <1>5, <1>8, AnswersAdd
  <2>2. QED
    BY <1>9, <2>1
<1> DEFINE m == Len(file')
<1>11. m = IF IsNext(x) THEN n + 1 ELSE n
  <2>1. file \in Seq(1..N)
    BY DEF CountInv
  <2>2. CASE IsNext(x)
    <3>1. file' = Append(file, x.block)
      BY <1>1, <2>2
    <3>2. Len(file') = Len(file) + 1
      BY <2>1, <3>1
    <3>3. QED
      BY <2>2, <3>2
  <2>3. CASE ~IsNext(x)
    BY <1>1, <2>3
  <2>4. QED
    BY <2>2, <2>3
<1> HIDE DEF n, m, x
<1>13. Places(toR', toS', s, r')
  BY <1>2, <1>6, <1>8 DEF Places
<1> DEFINE lead == s.block - n
           k == Len(toS)
           c == Cardinality(Repeats(toR, n))
           g == Again(toR, n, s)
           q == Asks(r)
           lead1 == s.block - m
           k1 == Len(toS')
           d == Cardinality(Repeats(toR', m))
           h == Again(toR', m, s)
<1>14. lead + k + c + g + q <= Most /\ {lead, k, c, g, q} \subseteq Int /\ q \in Nat
  BY <1>2, <1>8, <1>9, RepeatsCounted DEF Weight
<1>15. Weight(toR', m, s, Len(toS'), r') = lead1 + k1 + d + h + 0
  BY <1>6 DEF Weight
<1>16. Sorted(toR', m, s.block) /\ d \in Nat /\ h \in {0, 1} /\ h <= g
       /\ lead1 \in Int /\ lead1 + d + 1 <= lead + c
  <2>1. lead \in Int /\ c \in Int
    BY <1>14
  <2>2. CASE IsNext(x)
    <3>1. m = n + 1 /\ x.block = n + 1
      BY <1>7, <1>11, <2>2
    <3>2. /\ Cardinality(Repeats(toR', n + 1)) \in Nat
          /\ Cardinality(Repeats(toR', n + 1)) <= c
          /\ Sorted(toR', n + 1, s.block) /\ (Held(toR', n + 1, s.block) => Held(toR, n, s.block))
      BY <1>2, <1>7, <1>8, <1>9, <3>1, RepeatsTail DEF x
    <3>3. h \in {0, 1} /\ h <= g
      BY <3>1, <3>2 DEF Again
    <3>4. d \in Nat /\ d <= c /\ Sorted(toR', m, s.block)
      BY <3>1, <3>2
    <3>5. lead1 \in Int /\ lead1 + 1 = lead
      BY <1>9, <3>1
    <3> HIDE DEF lead1, d, lead, c, h, g
    <3>6. QED
      BY <2>1, <3>3, <3>4, <3>5
  <2>3. CASE ~IsNext(x)
    <3>1. m = n /\ x.block = n
      BY <1>1, <1>7, <1>11, <2>3 DEF Acceptable
    <3>2. /\ Cardinality(Repeats(toR', n)) \in Nat
          /\ Cardinality(Repeats(toR', n)) + 1 <= c
          /\ Sorted(toR', n, s.block) /\ (Held(toR', n, s.block) => Held(toR, n, s.block))
      BY <1>2, <1>7, <1>8, <1>9, <3>1, RepeatsTail DEF x
    <3>3. h \in {0, 1} /\ h <= g
      BY <3>1, <3>2 DEF Again
    <3>4. d \in Nat /\ d + 1 <= c /\ Sorted(toR', m, s.block)
      BY <3>1, <3>2
    <3>5. lead1 \in Int /\ lead1 = lead
      BY <1>9, <3>1
    <3> HIDE DEF lead1, d, lead, c, h, g
    <3>6. QED
      BY <2>1, <3>3, <3>4, <3>5
  <2>4. QED
    BY <2>2, <2>3
<1>17. k1 \in Nat /\ k1 <= k + 1
  BY <1>9, <1>10
<1>18. Weight(toR', m, s, Len(toS'), r') <= Most
  <2> DEFINE weight == Weight(toR', m, s, Len(toS'), r')
  <2>1. lead \in Int /\ k \in Int /\ c \in Int /\ g \in Int /\ q \in Nat /\ Most \in Int
    BY <1>9, <1>14
  <2>2. weight = lead1 + k1 + d + h
    BY <1>15, <1>16, <1>17
  <2> HIDE DEF lead, k, c, g, q, lead1, k1, d, h, weight
  <2>3. weight <= Most
    BY <1>14, <1>16, <1>17, <2>1, <2>2
  <2>4. QED
    BY <2>3 DEF weight
<1>19. QED
  BY <1>1, <1>10, <1>13, <1>16, <1>18 DEF PaceInv, m

\* The line has been silent, and the receiver says NAK: no frame is on the line, no answer is, and
\* if the sender is past the next block it never comes again.
LEMMA SilencePaces ==
  ASSUME CountInv, PaceInv, ReceiverNext, RecvFlush("timeout")
  PROVE  PaceInv'
<1> USE DEF ReceiverStep
<1> DEFINE n == Len(file)
<1>1. r' = Outer(r) /\ Answers(Says("NAK")) /\ s' = s /\ file' = file
  BY DEF RecvFlush
<1>2. toR = <<>> /\ toR' = <<>> /\ r.wait = 0 /\ r.pc = "flush" /\ r \in Receivers
  <2>1. LineInv /\ r \in Receivers /\ r.pc = "flush" /\ Takes("timeout")
    BY DEF CountInv, RecvFlush
  <2>2. QED
    BY <2>1, TakesPlain
<1>3. /\ toS \in Seq(Saying({"C", "NAK", "ACK"})) /\ Sorted(toR, n, s.block)
      /\ Places(toR, toS, s, r)
      /\ Stalled(toR, n, s, toS) \/ Weight(toR, n, s, Len(toS), r) <= Most
  BY <1>2 DEF PaceInv
<1>4. /\ n \in Nat /\ s.block \in Nat /\ s.block >= n /\ Len(toS) \in Nat
      /\ s.block - n <= Most /\ MaxTry \in Nat /\ MaxTry > 0 /\ Most = 2 * MaxTry + 1
  BY <1>2, PaceCounted
<1>5. r'.pc = "try" /\ r'.try = "none" /\ r.try = "none" /\ Asks(r') = 0 /\ Asks(r) = 0
  BY <1>1, <1>2, <1>3, RecvFields, RecvTries DEF Places, Asks
<1>6. /\ toS' \in Seq(Saying({"C", "NAK", "ACK"})) /\ Len(toS') \in 0..(Len(toS) + 1)
      /\ toS \in Seq(Saying({"C", "NAK"})) => toS' \in Seq(Saying({"C", "NAK"}))
  BY <1>1, <1>3, AnswersAdd
<1>7. Frames(toR) = {} /\ Cardinality(Repeats(toR, n)) = 0
  BY <1>2, RepeatsCounted DEF CountInv, LineInv
<1>8. Places(toR', toS', s, r')
  BY <1>2, <1>3, <1>5, <1>7 DEF Places
<1> HIDE DEF n
<1>9. CASE s.pc = "done"
  <2>1. toS' = toS
    BY <1>1, <1>9 DEF Answers, Fault, Carried
  <2>2. Stalled(toR', n, s, toS') \/ Weight(toR', n, s, Len(toS'), r') <= Most
    BY <1>2, <1>3, <1>5, <2>1 DEF Weight
  <2>3. QED
    BY <1>1, <1>2, <1>3, <1>6, <1>8, <2>2 DEF PaceInv, n
<1>10. CASE s.pc # "done"
  <2>1. toS = <<>>
    BY <1>2, <1>3, <1>10 DEF Places
  <2>2. Len(toS') \in {0, 1} /\ toS' \in Seq(Saying({"C", "NAK"}))
    <3>1. toS \in Seq(Saying({"C", "NAK"})) /\ Len(toS) = 0
      BY <2>1, EmptySeq
    <3>2. QED
      BY <1>6, <3>1
  <2>3. CASE s.block - n >= 2
    <3>1. Stalled(toR', n, s, toS')
      BY <1>2, <1>4, <1>7, <2>2, <2>3 DEF Stalled
    <3>2. QED
      BY <1>1, <1>2, <1>3, <1>6, <1>8, <3>1 DEF PaceInv, n
  <2>4. CASE s.block - n < 2
    <3>1. Again(toR, n, s) \in {0, 1} /\ (s.block > n => Again(toR, n, s) = 0)
      BY <1>4, <1>7 DEF Again, Held
    <3>2. Weight(toR, n, s, Len(toS'), r') <= Most
      <4> DEFINE lead == s.block - n
                 k == Len(toS')
                 g == Again(toR, n, s)
      <4>1. Weight(toR, n, s, Len(toS'), r') = lead + k + 0 + g + 0
        BY <1>5, <1>7 DEF Weight
      <4>2. /\ lead \in {0, 1} /\ k \in {0, 1} /\ g \in {0, 1} /\ (lead = 1 => g = 0)
            /\ Most \in Nat /\ Most > 2
        BY <1>4, <2>2, <2>4, <3>1
      <4> HIDE DEF lead, k, g
      <4>3. lead + k + g <= 2
        BY <4>2
      <4>4. QED
        BY <4>1, <4>2, <4>3
    <3>3. QED
      BY <1>1, <1>2, <1>3, <1>6, <1>8, <3>2 DEF PaceInv, n
  <2>5. QED
    BY <1>4, <2>3, <2>4
<1>11. QED
  BY <1>9, <1>10

\* Every other step of the receiver uses up a try when it asks, and takes no answer from the line.
LEMMA ReceiverPaces ==
  ASSUME CountInv, PaceInv, Most < Modulus, ReceiverNext
  PROVE  PaceInv'
<1> USE DEF ReceiverStep
<1>1. /\ s' = s /\ LineInv /\ r \in Receivers /\ r.pc # "done" /\ toR \in Seq(Element)
      /\ r.try \in {"C", "NAK", "none"}
  BY ReceiverCountsKept, ReceiverGoing DEF CountInv, LineInv, Receivers
<1>2. SUFFICES ASSUME r'.pc # "done" PROVE PaceInv'
  BY DEF PaceInv
<1>3. /\ toS \in Seq(Saying({"C", "NAK", "ACK"})) /\ Places(toR, toS, s, r) /\ Len(toS) \in Nat
  BY <1>1, LenProperties DEF PaceInv
<1>4. /\ r.retry \in Nat /\ r.retry <= MaxTry /\ MaxTry \in Nat
  BY Bounds DEF CountInv, ReceiverCounts
<1>5. /\ \A pc \in {"wait", "can", "frame", "flush"}, w \in {PollWait, CanWait, FrameWait, FlushWait} :
           /\ To(r, pc, w).pc = pc /\ To(r, pc, w).wait = w /\ w > 0
           /\ To(r, pc, w).try = r.try /\ To(r, pc, w).retry = r.retry
      /\ \A result \in RecvResults : Ends(r, result).pc = "done"
      /\ {"sync error", "success", "cancelled"} \subseteq RecvResults
  <2>1. /\ {"wait", "can", "frame", "flush"} \subseteq ReceiverPcs
        /\ \A w \in {PollWait, CanWait, FrameWait, FlushWait} : w \in Int /\ w > 0
    BY Bounds DEF ReceiverPcs
  <2>2. {"sync error", "success", "cancelled"} \subseteq RecvResults
    BY DEF RecvResults
  <2>3. ASSUME NEW pc \in {"wait", "can", "frame", "flush"},
               NEW w \in {PollWait, CanWait, FrameWait, FlushWait}
        PROVE  /\ To(r, pc, w).pc = pc /\ To(r, pc, w).wait = w /\ w > 0
               /\ To(r, pc, w).try = r.try /\ To(r, pc, w).retry = r.retry
    <3>1. pc \in ReceiverPcs /\ w \in Int /\ w > 0
      BY <2>1
    <3>2. To(r, pc, w).pc = pc /\ To(r, pc, w).wait = w /\ To(r, pc, w).retry = r.retry
      BY <1>1, <3>1, RecvFields
    <3>3. To(r, pc, w).try = r.try
      BY <1>1, RecvTries
    <3>4. QED
      BY <3>1, <3>2, <3>3
  <2>4. \A result \in RecvResults : Ends(r, result).pc = "done"
    BY <1>1, RecvFields
  <2>5. QED
    BY <2>2, <2>3, <2>4
\* No answer is given.
<1>6. ASSUME toR' = toR \/ RecvCanFrame \/ \E c \in Bytes : Takes(c),
             file' = file, toS' = toS, r'.pc # "off",
             Asks(r') <= Asks(r),
             r'.pc \in {"frame", "flush"} =>
               r'.try = "none" /\ r'.wait > 0 /\ s.pc \notin {"off", "sync", "can"}
      PROVE  PaceInv'
  <2>1. Asks(r) \in Int /\ Asks(r') \in Int
    <3>1. r' \in Receivers /\ ReceiverCounts(r) /\ ReceiverCounts(r')
      BY ReceiverCountsKept DEF CountInv
    <3>2. QED
      BY <1>1, <1>4, <3>1, AsksCounted
  <2>2. Asks(r') + Len(toS') <= Asks(r) + Len(toS)
    BY <1>3, <1>6, <2>1
  <2>3. QED
    BY <1>1, <1>3, <1>6, <2>2, ReceiverStays
<1>7. CASE BeginRecv
  <2>1. r.pc = "off" /\ r' = Outer(r) /\ UNCHANGED <<toR, toS, file>> /\ r.retry = 0
    BY <1>3, <1>7 DEF BeginRecv, Places
  <2>2. r'.pc = "try" /\ r'.try = r.try /\ r'.retry = 0
    BY <1>1, <2>1, RecvFields, RecvTries
  <2>3. Asks(r') <= Asks(r)
    BY <1>4, <2>1, <2>2 DEF Asks
  <2>4. QED
    BY <1>6, <2>1, <2>2, <2>3
<1>8. CASE Try
  <2>1. /\ r.pc = "try" /\ r.retry < MaxTry /\ r' = To(r, "wait", PollWait) /\ toR' = toR
        /\ file' = file /\ IF r.try = "none" THEN toS' = toS ELSE Answers(Says(r.try))
    BY <1>8 DEF Try
  <2>2. r'.pc = "wait" /\ r'.try = r.try /\ r'.retry = r.retry
    BY <1>5, <2>1
  <2>3. CASE r.try = "none"
    <3>1. Asks(r') <= Asks(r)
      BY <2>2, <2>3 DEF Asks
    <3>2. QED
      BY <1>6, <2>1, <2>2, <2>3, <3>1
  <2>4. CASE r.try # "none"
    <3>1. r.try \in {"C", "NAK"} /\ Answers(Says(r.try))
      BY <1>1, <2>1, <2>4
    <3>2. /\ toS' \in Seq(Saying({"C", "NAK", "ACK"})) /\ Len(toS') \in 0..(Len(toS) + 1)
          /\ toS \in Seq(Saying({"C", "NAK"})) => toS' \in Seq(Saying({"C", "NAK"}))
      BY <1>3, <3>1, AnswersAdd
    <3>3. Asks(r') \in Int /\ Asks(r) = Asks(r') + 1
      BY <1>4, <2>1, <2>2, <2>4 DEF Asks
    <3>4. Asks(r') + Len(toS') <= Asks(r) + Len(toS)
      BY <1>3, <3>2, <3>3
    <3>5. QED
      BY <1>1, <2>1, <2>2, <3>2, <3>4, ReceiverStays
  <2>5. QED
    BY <2>3, <2>4
<1>9. CASE TryNak
  <2> DEFINE a == [r EXCEPT !.try = "NAK"]
  <2>1. /\ r.try = "C" /\ r.retry = MaxTry /\ r.pc = "try" /\ r' = Outer(a)
        /\ UNCHANGED <<toR, toS, file>>
    BY <1>9 DEF TryNak
  <2>2. a \in Receivers /\ a.try = "NAK"
    BY <1>1 DEF Receivers
  <2> HIDE DEF a
  <2>3. r'.pc = "try" /\ r'.try = "NAK" /\ r'.retry = 0
    BY <2>1, <2>2, RecvFields, RecvTries
  <2>4. Asks(r') <= Asks(r)
    BY <1>4, <2>1, <2>3 DEF Asks
  <2>5. QED
    BY <1>6, <2>1, <2>3, <2>4
<1>10. CASE SyncError \/ RecvEot
  <2>1. r' = Ends(r, "sync error") \/ r' = Ends(r, "success")
    BY <1>10 DEF SyncError, RecvEot
  <2>2. QED
    BY <1>2, <1>5, <2>1
<1>11. CASE Accept
  BY <1>2, <1>11, AcceptPaces
<1>12. ASSUME NEW pc \in {"frame", "flush"}, Refuse(pc) PROVE PaceInv'
  <2> DEFINE w == IF pc = "frame" THEN FrameWait ELSE FlushWait
  <2>1. /\ r.pc = "wait" /\ r' = To(Started, pc, w) /\ Takes("SOH") /\ "SOH" \in Bytes
        /\ UNCHANGED <<toS, file>>
    BY <1>12 DEF Refuse, Bytes
  <2>2. /\ Started \in Receivers /\ Started.try = "none" /\ pc \in ReceiverPcs
        /\ w \in Int /\ w > 0
    BY <1>1, StartedType, Bounds DEF ReceiverPcs, Started, Receivers
  <2> HIDE DEF w
  <2>3. r'.pc = pc /\ r'.wait > 0 /\ r'.try = "none"
    BY <2>1, <2>2, RecvFields, RecvTries
  <2>4. s.pc \notin {"off", "sync", "can"}
    BY <1>3, <2>1 DEF Takes, Places
  <2>5. Asks(r') <= Asks(r)
    <3>1. ReceiverCounts(r)
      BY DEF CountInv
    <3>2. Asks(r) \in 0..(2 * MaxTry) /\ Asks(r') = 0
      BY <1>1, <2>3, <3>1, AsksCounted DEF Asks
    <3>3. QED
      BY <1>4, <3>2
  <2>6. QED
    BY <1>6, <2>1, <2>3, <2>4, <2>5
<1>13. ASSUME NEW c \in Bytes, RecvFlush(c) PROVE PaceInv'
  <2>1. CASE c = "timeout"
    BY <1>13, <2>1, SilencePaces
  <2>2. CASE c # "timeout"
    <3>1. /\ r.pc = "flush" /\ Takes(c) /\ r' = To(r, "flush", FlushWait)
          /\ UNCHANGED <<toS, file>>
      BY <1>13, <2>2 DEF RecvFlush
    <3>2. r'.pc = "flush" /\ r'.wait > 0 /\ r'.try = r.try /\ r'.retry = r.retry
      BY <1>5, <3>1
    <3>3. r'.try = "none" /\ s.pc \notin {"off", "sync", "can"}
      BY <1>3, <3>1, <3>2 DEF Places
    <3>4. Asks(r') <= Asks(r)
      BY <3>2, <3>3 DEF Asks
    <3>5. QED
      BY <1>6, <3>1, <3>2, <3>3, <3>4
  <2>3. QED
    BY <2>1, <2>2
<1>14. /\ NextTry(r).pc = "try" /\ NextTry(r).retry = r.retry + 1 /\ NextTry(r).try = r.try
  BY <1>1, RecvFields, RecvTries
<1>15. ASSUME r.pc \in {"wait", "can"}, r' = NextTry(r) PROVE Asks(r') <= Asks(r)
  BY <1>4, <1>14, <1>15 DEF Asks
<1>16. ASSUME NEW c \in Bytes, Other(c) PROVE PaceInv'
  <2>1. r.pc = "wait" /\ Takes(c) /\ UNCHANGED <<toS, file>>
        /\ r' = IF c = "CAN" THEN To(r, "can", CanWait) ELSE NextTry(r)
    BY <1>16 DEF Other
  <2>2. CASE c = "CAN"
    <3>1. r'.pc = "can" /\ r'.try = r.try /\ r'.retry = r.retry
      BY <1>5, <2>1, <2>2
    <3>2. Asks(r') <= Asks(r)
      BY <1>4, <2>1, <3>1 DEF Asks
    <3>3. QED
      BY <1>6, <2>1, <3>1, <3>2
  <2>3. CASE c # "CAN"
    <3>1. r' = NextTry(r) /\ r'.pc = "try"
      BY <1>14, <2>1, <2>3
    <3>2. QED
      BY <1>6, <1>15, <2>1, <3>1
  <2>4. QED
    BY <2>2, <2>3
<1>17. ASSUME NEW c \in Bytes, RecvCan(c) PROVE PaceInv'
  <2>1. r.pc = "can" /\ Takes(c) /\ file' = file
        /\ (r' = Ends(r, "cancelled") \/ (r' = NextTry(r) /\ toS' = toS))
    BY <1>17 DEF RecvCan
  <2>2. r' = NextTry(r) /\ toS' = toS /\ r'.pc = "try"
    BY <1>2, <1>5, <1>14, <2>1
  <2>3. QED
    BY <1>6, <1>15, <2>1, <2>2
<1>18. ASSUME NEW c \in Bytes, RecvFrame(c) PROVE PaceInv'
  <2>1. /\ r.pc = "frame" /\ Takes(c) /\ UNCHANGED <<toS, file>>
        /\ \/ r' = To(r, "flush", FlushWait)
           \/ r' = To(r, "frame", FrameWait)
    BY <1>18 DEF RecvFrame
  <2>2. r'.pc \in {"frame", "flush"} /\ r'.wait > 0 /\ r'.try = r.try
    BY <1>5, <2>1
  <2>3. r.try = "none" /\ s.pc \notin {"off", "sync", "can"}
    BY <1>3, <2>1 DEF Places
  <2>4. Asks(r') <= Asks(r)
    BY <2>2, <2>3 DEF Asks
  <2>5. QED
    BY <1>6, <2>1, <2>2, <2>3, <2>4
<1>19. CASE RecvCanFrame
  <2>1. r.pc = "can" /\ r' = NextTry(r) /\ UNCHANGED <<toS, file>>
    BY <1>19 DEF RecvCanFrame
  <2>2. r'.pc = "try" /\ Asks(r') <= Asks(r)
    BY <1>14, <1>15, <2>1
  <2>3. QED
    BY <1>6, <1>19, <2>1, <2>2
<1>20. QED
  BY <1>7, <1>8, <1>9, <1>10, <1>11, <1>12, <1>13, <1>16, <1>17, <1>18, <1>19 DEF ReceiverNext

\* At the start the sender is one block ahead and the receiver has all its tries.
LEMMA PaceInit == Init => PaceInv
<1> SUFFICES ASSUME Init PROVE PaceInv
  OBVIOUS
<1>1. /\ toR = <<>> /\ toS = <<>> /\ file = <<>> /\ s.pc = "off" /\ s.block = 1
      /\ r.pc = "off" /\ r.try = "C" /\ r.retry = 0
  BY DEF Init
<1>2. <<>> \in Seq(Element) /\ toS \in Seq(Saying({"C", "NAK", "ACK"})) /\ Len(toS) = 0 /\ Len(file) = 0
  BY <1>1, EmptySeq
<1>3. Frames(toR) = {} /\ Cardinality(Repeats(toR, 0)) = 0
  BY <1>1, <1>2, RepeatsCounted
<1>4. Sorted(toR, 0, s.block) /\ Places(toR, toS, s, r)
  BY <1>1, <1>3 DEF Sorted, Places
<1>5. Asks(r) = 2 * MaxTry /\ Again(toR, 0, s) = 0 /\ MaxTry \in Nat
  BY <1>1, Bounds DEF Asks, Again
<1>6. Weight(toR, 0, s, 0, r) <= Most
  BY <1>1, <1>3, <1>5 DEF Weight, Most
<1>7. QED
  BY <1>2, <1>4, <1>6 DEF PaceInv

\* Time passes only while the lines are empty, but for a side that is off or has ended.
LEMMA WaitPaces ==
  ASSUME CountInv, PaceInv, Tick
  PROVE  PaceInv'
<1>1. s \in Senders /\ r \in Receivers /\ s.wait \in Nat /\ r.wait \in Nat
  BY WaitsCompared DEF CountInv, SenderInv
<1>2. PICK d \in Nat : /\ s' = IF s.wait > 0 THEN [s EXCEPT !.wait = s.wait - d] ELSE s
                       /\ r' = IF r.wait > 0 THEN [r EXCEPT !.wait = r.wait - d] ELSE r
  BY <1>1, TimePasses
<1>3. /\ s'.pc = s.pc /\ s'.block = s.block
      /\ r'.pc = r.pc /\ r'.try = r.try /\ r'.retry = r.retry
  BY <1>1, <1>2 DEF Senders, Receivers
<1>4. UNCHANGED <<toR, toS, file>> /\ Waits(s, toS) /\ Waits(r, toR)
  BY DEF Tick
<1>5. SUFFICES ASSUME r.pc # "done" PROVE PaceInv'
  BY <1>3 DEF PaceInv
<1>6. Asks(r') = Asks(r) /\ Again(toR, Len(file), s') = Again(toR, Len(file), s)
  BY <1>3 DEF Asks, Again
<1>7. Weight(toR, Len(file), s', Len(toS), r') = Weight(toR, Len(file), s, Len(toS), r)
  BY <1>3, <1>6 DEF Weight
<1>8. Stalled(toR, Len(file), s, toS) => Stalled(toR, Len(file), s', toS)
  BY <1>3 DEF Stalled
<1>9. Places(toR, toS, s', r')
  <2>1. Places(toR, toS, s, r)
    BY <1>5 DEF PaceInv
  <2>2. s.pc = "ack" => toR = <<>>
    BY <1>4, <1>5, <2>1 DEF Places, Waits
  <2>3. r.pc = "flush" /\ s.pc # "done" => toS = <<>>
    BY <1>4, <2>1 DEF Places, Waits
  <2>4. QED
    BY <1>3, <2>1, <2>2, <2>3 DEF Places
<1>10. QED
  BY <1>3, <1>4, <1>5, <1>7, <1>8, <1>9 DEF PaceInv

\* Every step keeps the invariant.
LEMMA PaceKept ==
  ASSUME CountInv, Most < Modulus, PaceInv, [Next]_vars
  PROVE  PaceInv'
<1>1. CASE SenderNext
  BY <1>1, SenderPaces
<1>2. CASE ReceiverNext
  BY <1>2, ReceiverPaces
<1>3. CASE Tick
  BY <1>3, WaitPaces
<1>4. CASE UNCHANGED vars
  BY <1>4 DEF vars, PaceInv
<1>5. QED
  BY <1>1, <1>2, <1>3, <1>4 DEF Next

\* A file of any length is written in order and each block once, although the packet numbers
\* come round again, if they do not come round within the number of blocks by which the sender can
\* be ahead: 33, with the 16 tries for the first frame that the code has, of 256.
THEOREM LongTransferHolds ==
  ASSUME 2 * MaxTry + 1 < Modulus
  PROVE  Spec => TransferSpec
<1>1. Most < Modulus
  BY DEF Most
<1>2. CountInv /\ PaceInv /\ [Next]_vars => PaceInv'
  BY <1>1, PaceKept
<1>3. CountInv /\ PaceInv => InOrder
  BY <1>1, HeadPaces DEF InOrder
<1>4. InOrder /\ Inv /\ [Next]_vars => Inv' /\ [Transfer!Next]_Transfer!vars
  BY StepMaps
<1>5. QED
  BY <1>2, <1>3, <1>4, CountInit, CountKept, PaceInit, InvInit, PTL
  DEF Spec, TransferSpec, Transfer!Spec
=============================================================================

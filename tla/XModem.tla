------------------------------ MODULE XModem ------------------------------
(***************************************************************************)
(* The XModem sender and receiver of src/winlib.cpp, each a thread that    *)
(* runs Process(), and the line between them, which loses and damages what *)
(* is sent.  A frame is one element of the line: its bytes are sent and    *)
(* taken together, but for a frame whose first byte is damaged or taken    *)
(* for something else, which comes as so many stray bytes.  The receiver   *)
(* may read anything in a stray byte, the start of a frame included; what  *)
(* stray bytes and damaged frames never have is a check that fits.  Time   *)
(* is in half seconds and passes while both sides wait.                    *)
(***************************************************************************)
EXTENDS Integers, Sequences

CONSTANTS N,            \* the blocks of the file
          Modulus,      \* of the packet number, 256
          MaxTry,       \* tries to synchronise, 16
          MaxRetrans,   \* MAXRETRANS, 25
          MaxEot,       \* tries to end, 10
          FrameBytes,   \* the bytes of a frame, 132
          MaxFaults,    \* bound: the faults of the line
          FaultsToR,    \* the kinds of faults it has towards the receiver
          FaultsToS     \* and towards the sender

ASSUME CountsAssumption ==
  /\ N \in Nat
  /\ {Modulus, MaxTry, MaxRetrans, MaxEot, FrameBytes} \subseteq Nat \ {0}
ASSUME FaultsAssumption == /\ MaxFaults \in Nat
                           /\ FaultsToR \subseteq {"lost", "garbled", "headless"}
                           /\ FaultsToS \subseteq {"lost", "garbled"}

VARIABLES s,         \* the sender
          r,         \* the receiver
          toR, toS,  \* the line: rxbuf and txbuf
          file,      \* the blocks the receiver wrote
          faults,    \* how many faults there were
          refused,   \* history: the receiver has refused a frame
          missed     \* history: a frame was lost

vars == <<s, r, toR, toS, file, faults, refused, missed>>

\* The timeouts, in half seconds.
AckWait == 2
PollWait == 4
CanWait == 2
FrameWait == 2
FlushWait == 3

\* good is said of whole frames only.
Byte(kind) == [kind |-> kind, block |-> 0, crc |-> FALSE, good |-> FALSE]
Frame == [kind |-> "SOH", block |-> s.block, crc |-> s.crc, good |-> TRUE]
Number(x) == x.block % Modulus

SendResults == {"success", "cancelled", "no sync", "xmit error", "no answer"}
RecvResults == {"success", "cancelled", "sync error", "too many retries"}

Init == /\ s = [pc |-> "off", block |-> 1, crc |-> FALSE, tries |-> 0, wait |-> 0, result |-> "none"]
        /\ r = [pc |-> "off", try |-> "C", crc |-> FALSE, retry |-> 0, retrans |-> MaxRetrans,
                wait |-> 0, result |-> "none"]
        /\ toR = <<>> /\ toS = <<>>
        /\ file = <<>>
        /\ faults = 0 /\ refused = FALSE /\ missed = FALSE

-----------------------------------------------------------------------------
(* The line.                                                                *)

Strays(n) == [i \in 1..n |-> Byte("stray")]

\* What may become of a frame or of some bytes.  A frame that is garbled may have
\* lost bytes at its end.
Damaged(kind, x) ==
  CASE kind = "lost" -> {Tail(x)}
    [] kind = "garbled" -> {<<IF Head(x) = Frame THEN [Frame EXCEPT !.good = FALSE]
                              ELSE Byte("stray")>> \o Tail(x)}
    [] kind = "headless" -> IF Head(x) = Frame THEN {Strays(FrameBytes)} ELSE {}

\* Nobody reads what is sent to a side that has ended.
Carried(line, x, to) == IF to.pc = "done" THEN line ELSE line \o x

Fault(kinds, x, line, to) == /\ faults < MaxFaults
                             /\ faults' = faults + 1
                             /\ \E kind \in kinds : \E y \in Damaged(kind, x) :
                                  line' = Carried(line, y, to)

Sends(x) == \/ toR' = Carried(toR, x, r) /\ UNCHANGED faults
            \/ Fault(FaultsToR, x, toR, r)
Answers(x) == \/ toS' = Carried(toS, x, s) /\ UNCHANGED faults
              \/ Fault(FaultsToS, x, toS, s)

\* Either side goes to a place in its code, or ends.
To(locals, pc, wait) == [locals EXCEPT !.pc = pc, !.wait = wait]
Ends(locals, result) == [To(locals, "done", 0) EXCEPT !.result = result]

Says(kind) == <<Byte(kind)>>
Cans == Says("CAN") \o Says("CAN") \o Says("CAN")

-----------------------------------------------------------------------------
(* The sender.                                                              *)

SenderStep(locals) == s' = locals /\ UNCHANGED <<r, file>>

\* Mutant: one block too many.
NextBlockBeyond(locals) ==
  [To(locals, IF locals.block <= N + 1 THEN "send" ELSE "end", 0) EXCEPT !.tries = 0]

\* start_trans: the next block, or the end of the file.
NextBlock(locals) ==
  [To(locals, IF locals.block <= N THEN "send" ELSE "end", 0) EXCEPT !.tries = 0]

\* One try is over; what comes next.
Retry(pc, wait) == [To(s, pc, wait) EXCEPT !.tries = @ + 1]
Resync == Retry("sync", IF s.tries + 1 < MaxTry THEN PollWait ELSE 0)

\* c is what rxbyte returns the sender: the next byte, or nothing in time.  A
\* damaged answer is none of the others.
Heard(c) == IF toS = <<>> THEN s.wait = 0 /\ c = "timeout" /\ toS' = toS
            ELSE c = Head(toS).kind /\ toS' = Tail(toS)
Bytes == {"C", "NAK", "ACK", "CAN", "EOT", "stray", "SOH", "timeout"}

BeginSend == /\ s.pc = "off"
             /\ SenderStep(To(s, "sync", PollWait))
             /\ UNCHANGED <<toR, toS, faults>>

\* Waiting for the receiver to say how it wants the blocks.
Sync(c) ==
  /\ s.pc = "sync" /\ s.tries < MaxTry
  /\ Heard(c)
  /\ SenderStep(IF c \in {"C", "NAK"} THEN NextBlock([s EXCEPT !.crc = (c = "C")])
                ELSE IF c = "CAN" THEN To(s, "can", CanWait)
                ELSE Resync)
  /\ UNCHANGED <<toR, faults>>

NoSync == /\ s.pc = "sync" /\ s.tries = MaxTry
          /\ Sends(Cans)
          /\ SenderStep(Ends(s, "no sync"))
          /\ UNCHANGED toS

\* A second CAN cancels.
SyncCan(c) ==
  /\ s.pc = "can"
  /\ Heard(c)
  /\ IF c = "CAN" THEN Sends(Says("ACK")) /\ SenderStep(Ends(s, "cancelled"))
     ELSE SenderStep(Resync) /\ UNCHANGED <<toR, faults>>

SendBlock == /\ s.pc = "send" /\ s.tries < MaxRetrans
             /\ Sends(<<Frame>>)
             /\ SenderStep(To(s, "ack", AckWait))
             /\ UNCHANGED toS

GiveUp == /\ s.pc = "send" /\ s.tries = MaxRetrans
          /\ Sends(Cans)
          /\ SenderStep(To(s, "flush", FlushWait))
          /\ UNCHANGED toS

\* The answer to a block, or what is taken for it.
AckOf(c) ==
  /\ s.pc = "ack"
  /\ Heard(c)
  /\ IF c = "CAN" THEN Sends(Says("ACK")) /\ SenderStep(Ends(s, "cancelled"))
     ELSE /\ SenderStep(IF c = "ACK" THEN NextBlock([s EXCEPT !.block = @ + 1])
                        ELSE Retry("send", 0))
          /\ UNCHANGED <<toR, faults>>

SendFlush(c) == /\ s.pc = "flush"
                /\ Heard(c)
                /\ SenderStep(IF c = "timeout" THEN Ends(s, "xmit error")
                              ELSE To(s, "flush", FlushWait))
                /\ UNCHANGED <<toR, faults>>

SendEot == /\ s.pc = "end" /\ s.tries < MaxEot
           /\ Sends(Says("EOT"))
           /\ SenderStep(To(s, "eot", PollWait))
           /\ UNCHANGED toS

\* Mutant: the tries are not counted.
EotAnswerUncounted(c) ==
  /\ s.pc = "eot"
  /\ Heard(c)
  /\ SenderStep(IF c = "ACK" THEN Ends(s, "success") ELSE To(s, "end", 0))
  /\ UNCHANGED <<toR, faults>>

EotAnswer(c) == /\ s.pc = "eot"
                /\ Heard(c)
                /\ SenderStep(IF c = "ACK" THEN Ends(s, "success") ELSE Retry("end", 0))
                /\ UNCHANGED <<toR, faults>>

NoAnswer == /\ s.pc = "end" /\ s.tries = MaxEot
            /\ SenderStep(Ends(s, "no answer"))
            /\ UNCHANGED <<toR, toS, faults>>

SenderNext == BeginSend \/ NoSync \/ SendBlock \/ GiveUp \/ SendEot \/ NoAnswer
              \/ \E c \in Bytes : Sync(c) \/ SyncCan(c) \/ AckOf(c) \/ SendFlush(c) \/ EotAnswer(c)

-----------------------------------------------------------------------------
(* The receiver.                                                            *)

ReceiverStep(locals) == r' = locals /\ UNCHANGED s

\* The outer loop starts again.
Outer(locals) == [To(locals, "try", 0) EXCEPT !.retry = 0]
NextTry(locals) == [To(locals, "try", 0) EXCEPT !.retry = @ + 1]

BeginRecv == /\ r.pc = "off"
             /\ ReceiverStep(Outer(r))
             /\ UNCHANGED <<toR, toS, file, faults>>

\* The sender is asked for the first block, or just waited for.
Try == /\ r.pc = "try" /\ r.retry < MaxTry
       /\ IF r.try = "none" THEN UNCHANGED <<toS, faults>> ELSE Answers(Says(r.try))
       /\ ReceiverStep(To(r, "wait", PollWait))
       /\ UNCHANGED <<toR, file>>

\* No CRC, then.
TryNak == /\ r.pc = "try" /\ r.retry = MaxTry /\ r.try = "C"
          /\ ReceiverStep(Outer([r EXCEPT !.try = "NAK"]))
          /\ UNCHANGED <<toR, toS, file, faults>>

SyncError == /\ r.pc = "try" /\ r.retry = MaxTry /\ r.try # "C"
             /\ Answers(Cans)
             /\ ReceiverStep(Ends(r, "sync error"))
             /\ UNCHANGED <<toR, file>>

\* What the receiver reads where a frame is expected to begin.
ReadAs(x) == IF x.kind = "stray" THEN {"stray", "SOH", "EOT", "CAN"} ELSE {x.kind}

\* rxbyte of the receiver.
Takes(c) == IF toR = <<>> THEN r.wait = 0 /\ c = "timeout" /\ toR' = toR
            ELSE c \in ReadAs(Head(toR)) /\ toR' = Tail(toR)

\* The first frame settles how blocks are checked.
Started == [r EXCEPT !.crc = @ \/ r.try = "C", !.try = "none"]

Expected == (Len(file) + 1) % Modulus

\* Mutant: a repeated frame is taken for the next one.
IsNextOrLast(x) == Number(x) \in {Expected, Expected - 1}
IsNext(x) == Number(x) = Expected

\* Mutant: a repeated frame is refused.
IsLastNever(x) == FALSE

\* (unsigned char)packetno - 1 is an int: -1 when packetno is 0.
IsLast(x) == Number(x) = Expected - 1

Acceptable(x) == x.good /\ x.crc = Started.crc /\ (IsNext(x) \/ IsLast(x))

\* A frame that is accepted is written if it is the next one, and answered.
Accept ==
  LET x == Head(toR)
      left == (IF IsNext(x) THEN MaxRetrans + 1 ELSE r.retrans) - 1
      locals == [Started EXCEPT !.retrans = left]
  IN /\ r.pc = "wait"
     /\ Takes("SOH")
     /\ Acceptable(x)
     /\ file' = IF IsNext(x) THEN Append(file, x.block) ELSE file
     /\ IF left <= 0 THEN Answers(Cans) /\ ReceiverStep(Ends(locals, "too many retries"))
        ELSE Answers(Says("ACK")) /\ ReceiverStep(Outer(locals))

\* Mutant: the NAK comes sooner.
RefuseBriefly(pc) == /\ r.pc = "wait"
                     /\ Takes("SOH")
                     /\ ~Acceptable(Head(toR))
                     /\ pc = "frame" => ~Head(toR).good \/ ~Head(toR).crc
                     /\ pc = "flush" => Head(toR).kind = "SOH"
                     /\ ReceiverStep(To(Started, pc, 1))
                     /\ UNCHANGED <<toS, file, faults>>

\* A frame that is not accepted, or, begun by a stray byte or shortened on the way, is
\* not yet complete when the line falls silent.
Refuse(pc) == /\ r.pc = "wait"
              /\ Takes("SOH")
              /\ ~Acceptable(Head(toR))
              /\ pc = "frame" => ~Head(toR).good \/ ~Head(toR).crc
              /\ pc = "flush" => Head(toR).kind = "SOH"
              /\ ReceiverStep(To(Started, pc, IF pc = "frame" THEN FrameWait ELSE FlushWait))
              /\ UNCHANGED <<toS, file, faults>>

\* What comes next is read as the rest of that frame, until it is complete or a byte
\* does not come in time.
RecvFrame(c) == /\ r.pc = "frame"
                /\ Takes(c)
                /\ \/ ReceiverStep(To(r, "flush", FlushWait))
                   \/ c # "timeout" /\ ReceiverStep(To(r, "frame", FrameWait))
                /\ UNCHANGED <<toS, file, faults>>

\* The line has to be silent for a while before the NAK.
RecvFlush(c) == /\ r.pc = "flush"
                /\ Takes(c)
                /\ IF c = "timeout" THEN Answers(Says("NAK")) /\ ReceiverStep(Outer(r))
                   ELSE ReceiverStep(To(r, "flush", FlushWait)) /\ UNCHANGED <<toS, faults>>
                /\ UNCHANGED file

RecvEot == /\ r.pc = "wait"
           /\ Takes("EOT")
           /\ Answers(Says("ACK"))
           /\ ReceiverStep(Ends(r, "success"))
           /\ UNCHANGED file

\* Anything else, or nothing, is one try.
Other(c) == /\ r.pc = "wait"
            /\ c \notin {"SOH", "EOT"}
            /\ Takes(c)
            /\ ReceiverStep(IF c = "CAN" THEN To(r, "can", CanWait) ELSE NextTry(r))
            /\ UNCHANGED <<toS, file, faults>>

\* A second CAN cancels; it may be looked for in the first byte of a frame.
RecvCan(c) == /\ r.pc = "can"
              /\ c # "SOH"
              /\ Takes(c)
              /\ IF c = "CAN" THEN Answers(Says("ACK")) /\ ReceiverStep(Ends(r, "cancelled"))
                 ELSE ReceiverStep(NextTry(r)) /\ UNCHANGED <<toS, faults>>
              /\ UNCHANGED file

RecvCanFrame == /\ r.pc = "can"
                /\ toR # <<>> /\ Head(toR).kind = "SOH"
                /\ toR' = Strays(FrameBytes - 1) \o Tail(toR)
                /\ ReceiverStep(NextTry(r))
                /\ UNCHANGED <<toS, file, faults>>

ReceiverNext == BeginRecv \/ Try \/ TryNak \/ SyncError \/ Accept \/ RecvEot
                \/ (\E pc \in {"flush", "frame"} : Refuse(pc)) \/ RecvCanFrame
                \/ \E c \in Bytes : RecvFrame(c) \/ RecvFlush(c) \/ Other(c) \/ RecvCan(c)

-----------------------------------------------------------------------------

\* A side that is not waiting for a byte or has one to take goes on at once.
Waits(side, line) == side.pc \in {"off", "done"} \/ (side.wait > 0 /\ line = <<>>)

\* Time passes up to the next timeout.  Either side may be begun first, and the other at any
\* time later: main begins the receiver a tenth of a second after the sender.
Tick == LET waits == {side \in {s, r} : side.wait > 0}
            d == (CHOOSE x \in waits : \A y \in waits : x.wait <= y.wait).wait
            after(side) == IF side.wait > 0 THEN [side EXCEPT !.wait = @ - d] ELSE side
        IN /\ Waits(s, toS) /\ Waits(r, toR)
           /\ waits # {}
           /\ s' = after(s) /\ r' = after(r)
           /\ UNCHANGED <<toR, toS, file, faults>>

Remember == /\ refused' = (refused \/ (r.pc = "wait" /\ r'.pc \in {"flush", "frame"}))
            /\ missed' = (missed \/ (s.pc = "send" /\ s'.pc = "ack" /\ toR' = toR))

Next == (SenderNext \/ ReceiverNext \/ Tick) /\ Remember

\* Both are begun, and the threads run.
Spec == /\ Init /\ [][Next]_vars
        /\ WF_vars(Next) /\ WF_vars(BeginSend /\ Remember) /\ WF_vars(BeginRecv /\ Remember)

-----------------------------------------------------------------------------
(* Properties.                                                              *)

\* The locals of both sides stay in their ranges.
TypeOK == /\ s.pc \in {"off", "sync", "can", "send", "ack", "flush", "end", "eot", "done"}
          /\ s.block \in 1..(N + 1)
          /\ s.tries \in 0..(MaxTry + MaxRetrans + MaxEot)
          /\ s.wait \in 0..PollWait
          /\ s.result \in SendResults \cup {"none"}
          /\ r.pc \in {"off", "try", "wait", "can", "frame", "flush", "done"}
          /\ r.try \in {"C", "NAK", "none"}
          /\ r.retry \in 0..MaxTry
          /\ r.retrans \in 0..MaxRetrans
          /\ r.wait \in 0..PollWait
          /\ r.result \in RecvResults \cup {"none"}
          /\ file \in Seq(1..N)
          /\ faults \in 0..MaxFaults

\* Whatever the line does, the receiver writes the blocks of the file in order
\* and each once, also when the packet number wraps and when frames come twice,
\* and neither side does anything more when it has ended.
Transfer == INSTANCE FileTransfer WITH sent <- s.result, received <- r.result
TransferSpec == Transfer!Spec

\* Both sides end: no loss or damage makes one wait for ever.
BothEnd == <>(s.pc = "done" /\ r.pc = "done")

\* While no frame was lost, a receiver that has refused one writes nothing more:
\* a damaged frame is never replaced.  The receiver answers only when the line has
\* been silent for longer (one and a half seconds) than the sender waits before it
\* sends the frame again (one second).
RefusalIsFatal == [][refused /\ ~missed => file' = file]_vars

\* A frame that comes undamaged is refused for two reasons only, as long as no frame was
\* lost or refused before: it repeats the block numbered Modulus - 1, whose answer the
\* sender has not got, or it was made for a "C" that was in the line when the receiver had
\* gone on to NAK. Nothing else that happens to the answers puts the sender ahead of the
\* receiver.
AnswersForgiven ==
  [][(r.pc = "wait" /\ r'.pc \in {"flush", "frame"} /\ Head(toR).good /\ ~missed /\ ~refused)
       => \/ Expected = 0 /\ Number(Head(toR)) = Modulus - 1
          \/ Head(toR).crc /\ ~Started.crc]_vars
=============================================================================

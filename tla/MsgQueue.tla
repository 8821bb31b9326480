------------------------------ MODULE MsgQueue ------------------------------
(***************************************************************************)
(* The message queue of one task of the scheduler (Tcb.Msg of              *)
(* src/src/pts.cpp): messages framed by a length byte in a ring buffer.    *)
(* The bytes are numbers because a byte is read back as a length.          *)
(***************************************************************************)
EXTENDS RingBuf

CONSTANT MaxLen   \* bound: the longest payload, and the largest byte

ASSUME LenAssumption == MaxLen \in Nat /\ Byte = 0..MaxLen

\* The bound on the blocks one call moves leaves room for a message.
ASSUME RoomAssumption == MaxLen < MaxChunk

VARIABLES receiving,  \* the task is in PTS_RUN and its mode has the receive bit
          rc          \* what the last call returned

mvars == <<vars, receiving, rc>>

\* The call leaves the ring alone.
NoRingStep == /\ got' = <<>> /\ call' = <<"none">>
              /\ UNCHANGED <<buf, ReadIndex, WriteIndex>>

\* What a sender passes: the length byte, then as many bytes as it says.
Messages ==
  UNION {{m \in [1..(n + 1) -> Byte] : m[1] = n} : n \in 0..MaxLen}

InUse == Used(ReadIndex, WriteIndex)

\* The values RingBufGetAt can return for an index it accepts: a cell outside
\* the buffer holds anything.
GetAt(index) ==
  LET cell == GetAtCell(ReadIndex, WriteIndex, index)
  IN IF cell \in Cells THEN {buf[cell]} ELSE Byte

\* Mutant: a message without payload is not counted.
CntMsgSkipsEmpty ==
  LET count[i \in 0..(Size + MaxLen + 1)] ==
        IF i >= InUse THEN {0}
        ELSE UNION {IF len > 0 /\ ~GetAtAccepts(ReadIndex, WriteIndex, i + len)
                    THEN {0}
                    ELSE {IF len = 0 THEN n ELSE n + 1 : n \in count[i + 1 + len]}
                    : len \in GetAt(i)}
  IN count[0]

\* PTS_CntMsg: step from length byte to length byte.  The results its loop can
\* return, from each index on.
CntMsg ==
  LET count[i \in 0..(Size + MaxLen + 1)] ==
        IF i >= InUse THEN {0}
        ELSE UNION {IF len > 0 /\ ~GetAtAccepts(ReadIndex, WriteIndex, i + len)
                    THEN {0}
                    ELSE {n + 1 : n \in count[i + 1 + len]} : len \in GetAt(i)}
  IN count[0]

-----------------------------------------------------------------------------

MInit == Init /\ receiving = FALSE /\ rc = FALSE

\* Mutant: a task that does not receive is sent to all the same.
PutMsgAlways(m) ==
  /\ rc' = (Free(ReadIndex, WriteIndex) >= Len(m))
  /\ IF rc' THEN Write(m) ELSE NoRingStep
  /\ UNCHANGED receiving

\* PTS_PutMsg to this task: all of the message or nothing.
PutMsg(m) ==
  /\ rc' = (receiving /\ Free(ReadIndex, WriteIndex) >= Len(m))
  /\ IF rc' THEN Write(m) ELSE NoRingStep
  /\ UNCHANGED receiving

\* PTS_GetMsg: the count decides, the length byte says how much to read.
GetMsg ==
  /\ \E n \in CntMsg : rc' = (n # 0)
  /\ LET len == IF InUse > 0 THEN buf[PeekCell(ReadIndex, WriteIndex)] ELSE 0
     IN IF rc' /\ InUse >= len + 1 THEN Read(len + 1) ELSE NoRingStep
  /\ UNCHANGED receiving

\* The task enters or leaves PTS_RUN.
Switch == /\ receiving' = ~receiving
          /\ rc' = FALSE
          /\ NoRingStep

MNext == (\E m \in Messages : PutMsg(m)) \/ GetMsg \/ Switch

MSpec == MInit /\ [][MNext]_mvars

-----------------------------------------------------------------------------

\* The messages in the bytes c, parsed from the first: suffix[i] are those from
\* the i-th byte on.
Parsed(c) ==
  LET suffix[i \in 1..(Len(c) + MaxLen + 2)] ==
        IF i > Len(c) THEN <<>>
        ELSE <<SubSeq(c, i, i + c[i])>> \o suffix[i + 1 + c[i]]
  IN suffix[1]

\* The messages in the ring, parsed from the read index.
Pending == Parsed(Contents)

\* The bytes c hold no part of a message.
Whole(c) ==
  LET ends[i \in 1..(Len(c) + MaxLen + 2)] ==
        IF i > Len(c) THEN i = Len(c) + 1 ELSE ends[i + 1 + c[i]]
  IN ends[1]

\* The ring never holds part of a message.
WholeMessages == Whole(Contents)

\* Senders and the task see a FIFO of whole messages: PTS_PutMsg queues all of a
\* message or reports failure, PTS_GetMsg returns the oldest one, over any wrap.
Queue == INSTANCE MsgFifo WITH pending <- Pending, Capacity <- Size - 1
MsgFifoSpec == Queue!Spec

\* PTS_WaitMsg and PTS_GetMsg ask PTS_CntMsg only whether there is a message:
\* that answer is right in every state, whatever the count itself is.
CountTellsEmpty ==
  /\ WholeMessages
  /\ \A n \in CntMsg : (n # 0) <=> (Pending # <<>>)

=============================================================================

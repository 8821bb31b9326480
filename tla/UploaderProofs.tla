---------------------------- MODULE UploaderProofs --------------------------
(***************************************************************************)
(* Proofs about Uploader, for images of any length, all command lines and  *)
(* any number of faults of the line: what main releases, how its requests  *)
(* cut the image, which answer a request is given, and what an upload      *)
(* without a fault comes to.                                               *)
(***************************************************************************)
EXTENDS Uploader, SequenceTheorems, TLAPS

-----------------------------------------------------------------------------
(* Where main is and what it has open.                                      *)

Kinds == {"list", "upload", "reset"}
Asking == {"list1", "upload", "list2", "reset"}
Booting == {"boot1", "boot2"}

\* main does not have the port there.
Portless == {"begin", "open", "post", "download", "crash", "err", "end"}
Stages == Portless \cup Asking \cup Booting \cup {"hci", "load", "term"}

\* main waits within a request or for the boot loader to start, and nowhere else.
StageInv == /\ opt \in [port : BOOLEAN, n : BOOLEAN, i : BOOLEAN, r : BOOLEAN, t : BOOLEAN, o : BOOLEAN]
            /\ stage \in Stages /\ pc \in {"send", "start", "body"}
            /\ pc # "send" => stage \in Asking \cup Booting
            /\ pc = "body" => stage \in Asking
            /\ stage \in Booting => pc = "start"

\* Before main opens the port it has none of its handles, and once it is past it not the read
\* event. In between the port is up, but where it failed to open and where main closes it. A
\* device without its events has made no request.
OpenInv == /\ opened \subseteq Port \cup {"file", "timer", "log"}
           /\ stage \in {"begin", "open"} => opened \cap Port = {} /\ sent = <<>>
           /\ stage \in Portless => "osRead" \notin opened
           /\ stage \notin Portless \cup {"term"} => "osRead" \in opened
           /\ "osRead" \notin opened /\ "device" \in opened => sent = <<>> /\ "osWrite" \notin opened
           /\ stage = "end" => opened \cap {"file", "timer", "log"} = {}

\* How a request ends, and where main goes then.
Ways(result) ==
  \/ /\ stage' = "err" /\ opened' = Stopped /\ pc' = "send" /\ offset' = offset
     /\ stage \in {"list1", "list2", "reset", "boot1", "boot2"}
  \/ /\ stage = "list1" /\ result = 0 /\ stage' \in {"load", "reset", "term"} /\ pc' = "send"
     /\ opened' = opened /\ offset' = offset
  \/ /\ stage = "list2" /\ result = 0 /\ stage' \in {"reset", "term"} /\ pc' = "send"
     /\ opened' = opened /\ offset' = offset
  \/ /\ stage = "reset" /\ result = 0 /\ stage' = "boot1" /\ pc' = "start"
     /\ opened' = opened /\ offset' = offset
  \/ /\ stage = "upload" /\ offset' = offset + size /\ pc' = "send" /\ opened' = opened
     /\ stage' = IF offset + size < total THEN "upload" ELSE "list2"

\* These are the ways.
LEMMA ConcludesWays ==
  ASSUME StageInv, NEW result, Concludes(result), pc # "send", stage \in Asking
  PROVE  Ways(result)
<1>1. CASE stage # "upload" /\ result = 0 /\ Succeeds
  <2>1. AfterList1 \in {"load", "reset", "term"} /\ AfterList2 \in {"reset", "term"}
    BY DEF StageInv, AfterList1, AfterList2
  <2>2. QED
    BY <1>1, <2>1 DEF Succeeds, Goes, Ways
<1>2. CASE stage # "upload" /\ result < 0 /\ GivesUp(result)
  BY <1>2 DEF GivesUp, Fails, Ways, Asking
<1>3. CASE stage = "upload" /\ Uploaded(result)
  BY <1>3 DEF Uploaded, Advances, Ways
<1>4. QED
  BY <1>1, <1>2, <1>3 DEF Concludes

\* So are those of a request that times out.
LEMMA TimeoutWays ==
  ASSUME StageInv, Timeout
  PROVE  Ways(ERR.COM_TIMEOUT) /\ pc # "send"
<1>1. pc # "send" /\ stage \in Asking \cup Booting
  BY DEF Timeout, Silent, StageInv
<1>2. CASE stage = "upload"
  BY <1>1, <1>2 DEF Timeout, Uploaded, Advances, Ways
<1>3. CASE stage # "upload"
  BY <1>1, <1>3 DEF Timeout, GivesUp, Fails, Ways, Asking, Booting
<1>4. QED
  BY <1>1, <1>2, <1>3

\* What a step does to main's place: it moves between calls, begins a request, waits on,
\* hears the boot loader start, or a request ends.
Between ==
  /\ pc = "send" /\ pc' = "send"
  /\ \/ stage = "begin" /\ stage' \in {"err", "open", "post"} /\ opened' \subseteq {"log", "timer", "file"}
     \/ stage = "open" /\ stage' \in {"hci", "list1"} /\ opened' = opened \cup Port
     \/ stage = "open" /\ stage' = "term" /\ opened' \in {opened, opened \cup {"device"}}
     \/ stage = "hci" /\ stage' = "list1" /\ opened' = opened
     \/ stage = "load" /\ stage' = "upload" /\ opened' = opened
     \/ stage \in {"hci", "load"} /\ stage' = "err" /\ opened' = Stopped
     \/ stage = "term" /\ stage' = "post" /\ opened' = Stopped
     \/ stage = "post" /\ stage' \in {"download", "err"} /\ opened' = opened
     \/ stage = "download" /\ stage' \in {"download", "crash", "err"} /\ opened' = opened
     \/ stage = "err" /\ stage' = "end" /\ opened' = opened \ {"file", "timer", "log"}
  /\ UNCHANGED <<total, reqVars, upVars, seq, lineVars, sent, matched>>

\* The steps between requests.
LEMMA BetweenWays ==
  ASSUME StageInv,
         Begin \/ Open \/ LoadFile \/ Term \/ HciCommands \/ End
         \/ (\E result \in TestResults : Test(result)) \/ \E status : Downloaded(status)
  PROVE  Between /\ opt' = opt
<1> USE DEF KeepReq, mainVars, StageInv, Asking, Booting
<1>1. stage \notin Asking \cup Booting => pc = "send"
  OBVIOUS
<1>2. CASE Begin
  BY <1>1, <1>2 DEF Begin, Between
<1>3. CASE Open
  BY <1>1, <1>3 DEF Open, Between, Port
<1>4. CASE LoadFile
  BY <1>1, <1>4 DEF LoadFile, Between
<1>5. CASE Term
  BY <1>1, <1>5 DEF Term, Between
<1>6. CASE HciCommands
  BY <1>1, <1>6 DEF HciCommands, Between
<1>7. CASE End
  BY <1>1, <1>7 DEF End, Between
<1>8. ASSUME NEW result \in TestResults, Test(result) PROVE Between /\ opt' = opt
  BY <1>1, <1>8 DEF Test, Between
<1>9. ASSUME NEW status, Downloaded(status) PROVE Between /\ opt' = opt
  BY <1>1, <1>9 DEF Downloaded, Between
<1>10. QED
  BY <1>2, <1>3, <1>4, <1>5, <1>6, <1>7, <1>8, <1>9

\* A step within a request: what main has open and the command line stay as they are, but
\* where a request ends.
LEMMA RequestWays ==
  ASSUME StageInv, Request
  PROVE  /\ opt' = opt /\ total' = total
         /\ \/ Send /\ stage' = stage /\ pc' = "start" /\ opened' = opened
            \/ Match /\ stage' = stage /\ pc' \in {"start", "body"} /\ opened' = opened
               /\ (pc' = "body" => stage \in Asking)
            \/ Match /\ stage = "boot1" /\ stage' = "boot2" /\ pc' = "start" /\ opened' = opened
            \/ Match /\ stage = "boot2" /\ stage' = "term" /\ pc' = "send" /\ opened' = opened
            \/ Read /\ UNCHANGED <<stage, pc, opened>>
            \/ Receive /\ Ways(Result)
            \/ Timeout /\ Ways(ERR.COM_TIMEOUT)
<1>1. CASE Send
  BY <1>1 DEF Send, mainVars
<1>2. CASE Match
  <2>1. stage \in Asking \cup Booting /\ pc = "start" /\ opt' = opt /\ total' = total
    BY <1>2 DEF Match, StageInv, KeepLine, mainVars
  <2>2. CASE UNCHANGED <<stage, rc, pc, opened, offset>>
    BY <1>2, <2>1, <2>2
  <2>3. CASE CASE stage = "boot1" -> Goes("boot2", "start")
               [] stage = "boot2" -> Goes("term", "send")
               [] OTHER -> pc' = "body" /\ UNCHANGED <<stage, rc, opened, offset>>
    BY <1>2, <2>1, <2>3 DEF Goes, Asking, Booting
  <2>4. QED
    BY <1>2, <2>2, <2>3 DEF Match
<1>3. CASE Read
  BY <1>3 DEF Read, KeepLine, mainVars
<1>4. CASE Receive
  <2>1. pc = "body" /\ stage \in Asking /\ Concludes(Result)
    BY <1>4 DEF Receive, StageInv
  <2>2. Ways(Result)
    BY <2>1, ConcludesWays
  <2>3. QED
    BY <1>4, <2>2 DEF Receive, KeepLine, mainVars
<1>5. CASE Timeout
  BY <1>5, TimeoutWays DEF Timeout, KeepLine, mainVars
<1>6. QED
  BY <1>1, <1>2, <1>3, <1>4, <1>5 DEF Request

\* The invariants hold at the start.
LEMMA OpenInit == UploaderInit => StageInv /\ OpenInv
BY UploaderAssumption DEF UploaderInit, StageInv, OpenInv, Stages, Portless, Asking, Booting

\* And every step keeps them.
LEMMA OpenKept == StageInv /\ OpenInv /\ [UploaderNext]_uploaderVars => StageInv' /\ OpenInv'
<1> SUFFICES ASSUME StageInv, OpenInv, [UploaderNext]_uploaderVars PROVE StageInv' /\ OpenInv'
  OBVIOUS
<1> USE DEF Asking, Booting, Portless, Stages
<1>1. ASSUME Between, opt' = opt PROVE StageInv' /\ OpenInv'
  <2>1. sent' = sent /\ StageInv'
    BY <1>1 DEF Between, StageInv
  <2>2. QED
    BY <1>1, <2>1 DEF Between, OpenInv, Stopped, Port
<1>2. ASSUME NEW result, Ways(result), opt' = opt, sent' = sent, pc # "send" PROVE StageInv' /\ OpenInv'
  <2>1. StageInv'
    BY <1>2 DEF Ways, StageInv
  <2>2. QED
    BY <1>2, <2>1 DEF Ways, OpenInv, Stopped, Port
<1>3. CASE Request
  <2>1. ASSUME stage' = stage, opened' = opened, opt' = opt, stage \in Asking \cup Booting,
               pc' \in {"start", "body"}, pc' = "body" => stage \in Asking
        PROVE  StageInv' /\ OpenInv'
    BY <2>1 DEF StageInv, OpenInv, Port
  <2>2. ASSUME stage \in Booting, stage' \in {"boot2", "term"}, opened' = opened, opt' = opt,
               pc' = IF stage' = "boot2" THEN "start" ELSE "send"
        PROVE  StageInv' /\ OpenInv'
    BY <2>2 DEF StageInv, OpenInv, Port
  <2>3. Send => stage \in Asking
    BY DEF Send, Requesting
  <2>4. Match \/ Read => stage \in Asking \cup Booting /\ pc \in {"start", "body"} /\ (pc = "body" => stage \in Asking)
    BY DEF Match, Read, StageInv
  <2>5. Match \/ Read \/ Receive \/ Timeout => sent' = sent /\ pc # "send"
    BY DEF Match, Read, Receive, Timeout, Silent, KeepLine
  <2>6. QED
    BY <1>2, <1>3, <2>1, <2>2, <2>3, <2>4, <2>5, RequestWays
<1>4. CASE Deliver \/ Babble
  BY <1>4 DEF Deliver, Babble, mainVars, StageInv, OpenInv
<1>5. CASE UNCHANGED uploaderVars
  BY <1>5 DEF uploaderVars, mainVars, StageInv, OpenInv
<1>6. QED
  BY <1>1, <1>3, <1>4, <1>5, BetweenWays DEF UploaderNext, MainNext, PortNext

\* Whatever fails on the way, and whatever the line does, main ends with its files, its timer and its
\* port closed: but for the write event of a port that was connected, and for the device of one whose
\* event mask could not be set.
THEOREM ExitReleases == UploaderSpec => []ClosedAtExit
<1>1. StageInv /\ OpenInv => ClosedAtExit
  <2>1. SUFFICES ASSUME OpenInv, stage = "end"
                 PROVE  opened \subseteq {"osWrite"} \/ (opened = {"device"} /\ sent = <<>>)
    BY DEF ClosedAtExit
  <2>2. opened \subseteq {"device", "osWrite"}
    BY <2>1 DEF OpenInv, Portless, Port
  <2>3. "device" \in opened => sent = <<>> /\ "osWrite" \notin opened
    BY <2>1 DEF OpenInv, Portless
  <2>4. QED
    BY <2>2, <2>3
<1>2. QED
  BY <1>1, OpenInit, OpenKept, PTL DEF UploaderSpec

-----------------------------------------------------------------------------
(* The requests of an upload.                                               *)

Before == {"begin", "open", "hci", "list1", "load"}

\* How far the requests reach into the image.
Reach == IF sent = <<>> THEN 0 ELSE sent[Len(sent)].off + sent[Len(sent)].n

Pieces == [kind : Kinds, seq : 0..255, off : Nat, n : Nat]

\* While a request is on its way it is the last one and starts where offset is; otherwise the
\* next one starts where the last one ends.
TileInv ==
  /\ total \in Nat /\ offset \in Nat /\ size \in Nat /\ seq \in 0..255
  /\ sent \in Seq(Pieces)
  /\ \A i \in 1..Len(sent) : /\ sent[i].off = IF i = 1 THEN 0 ELSE sent[i - 1].off + sent[i - 1].n
                             /\ sent[i].n > 0 \/ total = 0
  /\ stage \in Before => sent = <<>> /\ offset = 0 /\ size = 0
  /\ stage = "upload" /\ pc = "send" => offset = Reach /\ (offset < total \/ sent = <<>>)
  /\ stage = "upload" /\ pc # "send" => sent # <<>> /\ offset + size = Reach /\ Reach <= total
  /\ stage = "list2" => sent # <<>>
  /\ stage \notin Before \cup {"upload"} /\ sent # <<>> => Reach = total

\* The part of the image that comes next.
LEMMA PieceFits ==
  ASSUME TileInv, stage = "upload", pc = "send"
  PROVE  Piece \in Nat /\ offset + Piece <= total /\ (Piece > 0 \/ total = 0)
<1>1. Wanted \in {FirstSize, NextSize} /\ FirstSize = 297 /\ NextSize = 340
  BY DEF Wanted, FirstSize, NextSize
<1>2. offset \in Nat /\ total \in Nat /\ offset <= total
  BY DEF TileInv, Reach
<1>3. offset < total \/ offset = 0
  BY DEF TileInv, Reach
<1>4. QED
  BY <1>1, <1>2, <1>3 DEF Piece

\* A request of the upload is one piece more.
LEMMA SendTiles ==
  ASSUME StageInv, TileInv, Send
  PROVE  TileInv'
<1> USE DEF Send, Requesting, mainVars
<1>1. seq' \in 0..255 /\ total' = total /\ offset' = offset /\ stage' = stage /\ pc' = "start"
  <2>1. seq' = (seq + 1) % 256 /\ seq \in 0..255
    BY DEF TileInv
  <2>2. seq' \in 0..255
    BY <2>1
  <2>3. QED
    BY <2>2
<1>2. CASE stage = "upload"
  <2> DEFINE x == [kind |-> Kind, seq |-> seq, off |-> offset, n |-> Piece]
  <2>1. Piece \in Nat /\ offset + Piece <= total /\ (Piece > 0 \/ total = 0)
    BY <1>2, PieceFits
  <2>2. Kind = "upload"
    BY <1>2 DEF Kind
  <2>3. x \in Pieces /\ sent' = Append(sent, x) /\ size' = Piece
    BY <1>2, <2>1, <2>2 DEF TileInv, Pieces, Kinds
  <2>4. /\ sent \in Seq(Pieces) /\ Len(sent) \in Nat /\ sent' \in Seq(Pieces) /\ Len(sent') = Len(sent) + 1
        /\ \A i \in 1..Len(sent) : sent'[i] = sent[i]
        /\ sent'[Len(sent) + 1] = x
    BY <2>3, AppendProperties DEF TileInv
  <2>5. offset = Reach
    BY <1>2 DEF TileInv
  <2>6. sent' # <<>> /\ Reach' = offset + Piece
    BY <2>3, <2>4 DEF Reach
  <2>7. \A i \in 1..Len(sent') : /\ sent'[i].off = IF i = 1 THEN 0 ELSE sent'[i - 1].off + sent'[i - 1].n
                                 /\ sent'[i].n > 0 \/ total = 0
    <3>1. SUFFICES ASSUME NEW i \in 1..Len(sent')
                   PROVE  /\ sent'[i].off = IF i = 1 THEN 0 ELSE sent'[i - 1].off + sent'[i - 1].n
                          /\ sent'[i].n > 0 \/ total = 0
      OBVIOUS
    <3>2. CASE i \in 1..Len(sent)
      <4>1. i # 1 => i - 1 \in 1..Len(sent)
        BY <2>4, <3>2
      <4>2. QED
        BY <2>4, <3>2, <4>1 DEF TileInv
    <3>3. CASE i = Len(sent) + 1
      <4>1. i = 1 => sent = <<>>
        BY <2>4, <3>3, EmptySeq
      <4>2. i # 1 => Reach = sent'[i - 1].off + sent'[i - 1].n
        BY <2>4, <3>3 DEF Reach
      <4>3. QED
        BY <2>1, <2>4, <2>5, <3>3, <4>1, <4>2 DEF Reach
    <3>4. QED
      BY <2>4, <3>2, <3>3
  <2>8. /\ total' \in Nat /\ offset' \in Nat /\ size' \in Nat
        /\ offset' + size' = Reach' /\ Reach' <= total'
    BY <1>1, <2>1, <2>3, <2>6 DEF TileInv
  <2>9. \A i \in 1..Len(sent') : /\ sent'[i].off = IF i = 1 THEN 0 ELSE sent'[i - 1].off + sent'[i - 1].n
                                 /\ sent'[i].n > 0 \/ total' = 0
    BY <1>1, <2>7
  <2> HIDE DEF x
  <2>10. QED
    BY <1>1, <1>2, <2>4, <2>6, <2>8, <2>9 DEF TileInv, Before
<1>3. CASE stage # "upload"
  <2>1. UNCHANGED <<sent, size>>
    BY <1>3
  <2>2. Reach' = Reach
    BY <2>1 DEF Reach
  <2>3. QED
    BY <1>1, <1>3, <2>1, <2>2 DEF TileInv
<1>4. QED
  BY <1>2, <1>3

\* The invariant holds at the start.
LEMMA TileInit == UploaderInit => TileInv
BY UploaderAssumption DEF UploaderInit, TileInv, Reach, Before

\* And every step keeps it.
LEMMA TileKept == StageInv /\ TileInv /\ [UploaderNext]_uploaderVars => TileInv'
<1> SUFFICES ASSUME StageInv, TileInv, [UploaderNext]_uploaderVars PROVE TileInv'
  OBVIOUS
<1> USE DEF Before
<1>1. ASSUME Between PROVE TileInv'
  <2>1. Reach' = Reach /\ UNCHANGED <<total, offset, size, seq, sent>>
    BY <1>1 DEF Between, upVars, Reach
  <2>2. stage' \in Before => stage \in Before
    BY <1>1 DEF Between
  <2>3. QED
    BY <1>1, <2>1, <2>2 DEF Between, TileInv, Reach
<1>2. ASSUME NEW result, Ways(result), UNCHANGED <<total, size, seq, sent>>, pc # "send"
      PROVE  TileInv'
  <2>1. Reach' = Reach
    BY <1>2 DEF Reach
  <2>2. CASE stage = "upload"
    BY <1>2, <2>1, <2>2 DEF Ways, TileInv
  <2>3. CASE stage # "upload"
    BY <1>2, <2>1, <2>3 DEF Ways, TileInv, Reach
  <2>4. QED
    BY <2>2, <2>3
<1>3. CASE Request
  <2>1. ASSUME UNCHANGED <<total, offset, size, seq, sent, stage>>, pc # "send", pc' # "send"
        PROVE  TileInv'
    <3>1. Reach' = Reach
      BY <2>1 DEF Reach
    <3>2. QED
      BY <2>1, <3>1 DEF TileInv
  <2>2. ASSUME UNCHANGED <<total, size, seq, sent, offset>>, stage \in Booting, stage' \in {"boot2", "term"}
        PROVE  TileInv'
    <3>1. Reach' = Reach
      BY <2>2 DEF Reach
    <3>2. QED
      BY <2>2, <3>1 DEF TileInv, Booting
  <2>3. Match => pc = "start" /\ UNCHANGED <<size, seq, sent, offset>>
    BY DEF Match, KeepLine, Goes
  <2>4. Read => pc = "body" /\ UNCHANGED <<size, seq, sent, offset>>
    BY DEF Read, KeepLine
  <2>5. Receive => pc # "send" /\ UNCHANGED <<size, seq, sent>>
    BY DEF Receive, KeepLine
  <2>6. Timeout => pc # "send" /\ UNCHANGED <<size, seq, sent>>
    BY DEF Timeout, Silent, KeepLine
  <2>7. Send => TileInv'
    BY SendTiles
  <2>8. QED
    BY <1>2, <1>3, <2>1, <2>2, <2>3, <2>4, <2>5, <2>6, <2>7, RequestWays DEF Booting
<1>4. CASE Deliver \/ Babble
  <2>1. UNCHANGED <<total, offset, size, seq, sent, stage, pc>>
    BY <1>4 DEF Deliver, Babble, mainVars, upVars
  <2>2. Reach' = Reach
    BY <2>1 DEF Reach
  <2>3. QED
    BY <2>1, <2>2 DEF TileInv
<1>5. CASE UNCHANGED uploaderVars
  <2>1. Reach' = Reach
    BY <1>5 DEF uploaderVars, Reach
  <2>2. QED
    BY <1>5, <2>1 DEF uploaderVars, mainVars, upVars, TileInv
<1>6. QED
  BY <1>1, <1>3, <1>4, <1>5, BetweenWays DEF UploaderNext, MainNext, PortNext

\* The requests cut an image of any length into consecutive pieces, none of them empty, and cover
\* it when main is past them, whatever is lost and whatever is answered.
THEOREM RequestsTile == UploaderSpec => []RequestsTileImage
<1>1. TileInv => RequestsTileImage
  <2>1. SUFFICES ASSUME TileInv PROVE RequestsTileImage
    OBVIOUS
  <2>2. DOMAIN sent = 1..Len(sent)
    BY <2>1, LenProperties DEF TileInv
  <2>3. QED
    BY <2>1, <2>2 DEF TileInv, RequestsTileImage, Reach, Before
<1>2. QED
  BY <1>1, OpenInit, OpenKept, TileInit, TileKept, PTL DEF UploaderSpec

-----------------------------------------------------------------------------
(* What is on the line.                                                     *)

Texts == [sym : {"text"}, kind : Kinds, seq : 0..255, good : BOOLEAN]
Symbol == [sym : Character] \cup Texts
Boots == [kind : {"detect", "valid"}]
Asked == [kind : Kinds, seq : 0..255, off : Int, n : Int]

LineInv == /\ rx \in Seq(Symbol) /\ enc \in Seq(Symbol) /\ pend \in Seq(Asked \cup Boots)
           /\ matched \in Seq((0..255) \X (0..255)) /\ seq \in 0..255 /\ faults \in Nat

\* The number of the request sent last.
Current == (seq + 255) % 256

\* Characters, none of them the end of an answer.
Plain(line) == \A i \in 1..Len(line) : line[i].sym \notin {"CR", "text"}

\* The answers there are to request n, and nothing of one comes behind the end of one.
Own(line, n) == \A i \in 1..Len(line) : line[i].sym = "text" => line[i].seq = n
OneEnd(line) == \A i, j \in 1..Len(line) : i < j /\ line[i].sym = "CR" => line[j].sym \notin {"CR", "text"}

\* No noise is taken for the end of an answer.
NoiseEndsNothing == \A x \in Noise : \A i \in 1..Len(x) : x[i] # "CR"

\* The answers on the way while a request waits.
Pending(k) == IF pend[k].kind \in {"detect", "valid"} THEN stage = "reset"
              ELSE k = 1 /\ pend[k].seq = Current /\ Plain(rx)

\* Before a request nothing of an earlier answer is left. Within it there is one answer, its own:
\* on its way, or some of it on the line.
StepInv ==
  ~slow =>
    /\ \A i \in 1..Len(matched) : matched[i][1] = matched[i][2]
    /\ stage \in Before \cup {"upload", "list2", "reset"} /\ pc = "send" => pend = <<>> /\ Plain(rx)
    /\ stage \in Asking /\ pc # "send" =>
         /\ Own(rx, Current) /\ Own(enc, Current) /\ OneEnd(rx)
         /\ \A k \in 1..Len(pend) : Pending(k)

-----------------------------------------------------------------------------
(* Sequences of symbols.                                                    *)

\* What is in a sequence that another one is put behind.
LEMMA ConcatAt ==
  ASSUME NEW S, NEW a \in Seq(S), NEW b \in Seq(S)
  PROVE  /\ a \o b \in Seq(S) /\ Len(a) \in Nat /\ Len(b) \in Nat /\ Len(a \o b) = Len(a) + Len(b)
         /\ \A i \in 1..Len(a) : (a \o b)[i] = a[i]
         /\ \A i \in (Len(a) + 1)..(Len(a) + Len(b)) : i - Len(a) \in 1..Len(b) /\ (a \o b)[i] = b[i - Len(a)]
BY ConcatProperties, LenProperties

\* What is left of a sequence when its first element is taken.
LEMMA TailAt ==
  ASSUME NEW S, NEW a \in Seq(S), a # <<>>
  PROVE  /\ Head(a) = a[1] /\ Head(a) \in S /\ 1 \in 1..Len(a)
         /\ Tail(a) \in Seq(S) /\ Len(Tail(a)) = Len(a) - 1 /\ Len(a) \in Nat
         /\ \A i \in 1..Len(Tail(a)) : i + 1 \in 1..Len(a) /\ Tail(a)[i] = a[i + 1]
BY HeadTailProperties, LenProperties, EmptySeq

\* Short sequences.
LEMMA ShortSeqs ==
  ASSUME NEW S, NEW a \in S, NEW b \in S, NEW c \in S
  PROVE  <<a>> \in Seq(S) /\ <<a, b>> \in Seq(S) /\ <<a, b, c>> \in Seq(S)
OBVIOUS

\* Characters are symbols.
LEMMA CharsAre ==
  ASSUME NEW x \in Seq(Character)
  PROVE  /\ Chars(x) \in Seq(Symbol) /\ Len(Chars(x)) = Len(x)
         /\ \A i \in 1..Len(x) : Chars(x)[i] = Char(x[i]) /\ Chars(x)[i].sym = x[i]
<1>1. Len(x) \in Nat /\ DOMAIN x = 1..Len(x) /\ \A i \in 1..Len(x) : x[i] \in Character
  BY LenProperties, ElementOfSeq
<1>2. \A i \in 1..Len(x) : Char(x[i]) \in Symbol /\ Char(x[i]).sym = x[i]
  BY <1>1 DEF Char, Symbol
<1>3. Chars(x) = [i \in 1..Len(x) |-> Char(x[i])]
  BY <1>1 DEF Chars
<1>4. Chars(x) \in Seq(Symbol) /\ Len(Chars(x)) = Len(x)
  BY <1>1, <1>2, <1>3
<1>5. QED
  BY <1>2, <1>3, <1>4

\* What may be left of an answer's frame.
Cut(r) == <<Char("06"), Char("09"), Text(r, TRUE)>>
Bare == <<Char("06"), Char("09"), Char("CR"), Char("LF")>>

\* The symbols of an answer.
LEMMA SymbolsAre ==
  /\ \A r \in Asked : /\ Symbols(r) = Frame(r, TRUE)
                      /\ Damaged(r) = {<<>>, Frame(r, FALSE), Bare, Cut(r)}
  /\ \A r \in Boots : /\ Damaged(r) = {<<>>}
                      /\ \E x \in Seq(Character) : Symbols(r) = Chars(x) /\ Plain(Chars(x))
<1>1. ASSUME NEW r \in Asked
      PROVE  Symbols(r) = Frame(r, TRUE) /\ Damaged(r) = {<<>>, Frame(r, FALSE), Bare, Cut(r)}
  <2>1. r.kind \notin {"detect", "valid"}
    BY DEF Asked, Kinds
  <2>2. QED
    BY <2>1 DEF Symbols, Damaged, Bare, Cut
<1>2. ASSUME NEW r \in Boots
      PROVE  /\ Damaged(r) = {<<>>}
             /\ \E x \in Seq(Character) : Symbols(r) = Chars(x) /\ Plain(Chars(x))
  <2>1. PICK x \in {BootDetect, BootValid} : Symbols(r) = Chars(x)
    BY DEF Boots, Symbols
  <2>2. x \in Seq(Character) /\ Len(x) = 2 /\ x[1] = "B" /\ x[2] \notin {"CR", "text"}
    <3>1. "B" \in Character /\ "oot detect" \in Character /\ "oot valid" \in Character
      BY DEF Character
    <3>2. CASE x = BootDetect
      BY <3>1, <3>2, ShortSeqs DEF BootDetect
    <3>3. CASE x = BootValid
      BY <3>1, <3>3, ShortSeqs DEF BootValid
    <3>4. QED
      BY <3>2, <3>3
  <2>3. Plain(Chars(x))
    BY <2>2, CharsAre DEF Plain
  <2>4. Damaged(r) = {<<>>}
    BY DEF Damaged, Boots
  <2>5. QED
    BY <2>1, <2>2, <2>3, <2>4
<1>3. QED
  BY <1>1, <1>2

\* What can come of an answer.
LEMMA FramesAre ==
  ASSUME NEW r \in Asked, NEW t \in {<<>>, Frame(r, TRUE), Frame(r, FALSE), Cut(r), Bare}
  PROVE  /\ t \in Seq(Symbol) /\ Own(t, r.seq) /\ OneEnd(t)
<1>1. /\ Char("06") \in Symbol /\ Char("06").sym = "06" /\ Char("09") \in Symbol /\ Char("09").sym = "09"
      /\ Char("CR") \in Symbol /\ Char("CR").sym = "CR" /\ Char("LF") \in Symbol /\ Char("LF").sym = "LF"
      /\ Text(r, TRUE) \in Symbol /\ Text(r, TRUE).sym = "text" /\ Text(r, TRUE).seq = r.seq
      /\ Text(r, FALSE) \in Symbol /\ Text(r, FALSE).sym = "text" /\ Text(r, FALSE).seq = r.seq
  <2>1. \A c \in {"06", "09", "CR", "LF"} : Char(c) \in Symbol /\ Char(c).sym = c
    BY DEF Char, Symbol, Character
  <2>2. ASSUME NEW good \in BOOLEAN
        PROVE  Text(r, good) \in Symbol /\ Text(r, good).sym = "text" /\ Text(r, good).seq = r.seq
    <3>1. Text(r, good) \in Texts
      BY DEF Text, Texts, Asked
    <3>2. QED
      BY <3>1 DEF Text, Symbol
  <2>3. QED
    BY <2>1, <2>2
<1>2. CASE t = <<>>
  BY <1>2, EmptySeq DEF Own, OneEnd
<1>3. ASSUME NEW good \in BOOLEAN, t = Frame(r, good) PROVE t \in Seq(Symbol) /\ Own(t, r.seq) /\ OneEnd(t)
  <2>1. /\ t \in Seq(Symbol) /\ Len(t) = 5 /\ t[1].sym = "06" /\ t[2].sym = "09" /\ t[3].sym = "text"
        /\ t[3].seq = r.seq /\ t[4].sym = "CR" /\ t[5].sym = "LF"
    <3>1. Text(r, good) \in Symbol /\ Text(r, good).sym = "text" /\ Text(r, good).seq = r.seq
      BY <1>1
    <3> DEFINE x == Text(r, good)
    <3>2. t = <<Char("06"), Char("09"), x, Char("CR"), Char("LF")>>
      BY <1>3 DEF Frame
    <3> HIDE DEF x
    <3>3. QED
      BY <1>1, <3>1, <3>2 DEF x
  <2>2. Own(t, r.seq)
    BY <2>1 DEF Own
  <2>3. OneEnd(t)
    BY <2>1 DEF OneEnd
  <2>4. QED
    BY <2>1, <2>2, <2>3
<1>4. CASE t = Cut(r)
  <2>1. /\ t \in Seq(Symbol) /\ Len(t) = 3 /\ t[1].sym = "06" /\ t[2].sym = "09" /\ t[3].sym = "text"
        /\ t[3].seq = r.seq
    <3> DEFINE x == Text(r, TRUE)
    <3>1. x \in Symbol /\ x.sym = "text" /\ x.seq = r.seq /\ t = <<Char("06"), Char("09"), x>>
      BY <1>1, <1>4 DEF Cut
    <3> HIDE DEF x
    <3>2. QED
      BY <1>1, <3>1
  <2>2. QED
    BY <2>1 DEF Own, OneEnd
<1>5. CASE t = Bare
  <2>1. /\ t \in Seq(Symbol) /\ Len(t) = 4 /\ t[1].sym = "06" /\ t[2].sym = "09" /\ t[3].sym = "CR"
        /\ t[4].sym = "LF"
    BY <1>1, <1>5 DEF Bare
  <2>2. QED
    BY <2>1 DEF Own, OneEnd
<1>6. QED
  BY <1>2, <1>3, <1>4, <1>5

\* What the line brings.
LEMMA Arrives ==
  ASSUME LineInv, Deliver
  PROVE  /\ pend # <<>> /\ pend' = Tail(pend)
         /\ \E t \in Seq(Symbol) :
              /\ rx' = rx \o t
              /\ Head(pend) \in Boots /\ NoiseEndsNothing => Plain(t)
              /\ Head(pend) \in Asked => Own(t, Head(pend).seq) /\ (NoiseEndsNothing => OneEnd(t))
              /\ Head(pend) \in Asked /\ faults' = 0 => t = Frame(Head(pend), TRUE)
<1> DEFINE r == Head(pend)
           s == Symbols(r)
           damaged == Damaged(r)
<1>1. pend # <<>> /\ pend' = Tail(pend) /\ r \in Asked \cup Boots
  BY HeadTailProperties DEF Deliver, LineInv
<1>2. r \in Asked => r \notin Boots
  BY DEF Asked, Boots, Kinds
<1>3. \/ rx' = rx \o s
      \/ faults' = faults + 1 /\ \E t \in damaged \cup {Chars(x) \o s : x \in Noise} : rx' = rx \o t
  BY DEF Deliver
<1>4. faults' = faults + 1 => faults' # 0
  BY DEF LineInv
<1>5. ASSUME r \in Asked
      PROVE  s = Frame(r, TRUE) /\ damaged = {<<>>, Frame(r, FALSE), Bare, Cut(r)}
  BY <1>5, SymbolsAre
<1>6. ASSUME r \in Boots
      PROVE  damaged = {<<>>} /\ s \in Seq(Symbol) /\ Plain(s)
  <2>1. damaged = {<<>>} /\ \E x \in Seq(Character) : s = Chars(x) /\ Plain(Chars(x))
    BY <1>6, SymbolsAre
  <2>2. QED
    BY <2>1, CharsAre
<1> HIDE DEF damaged, s
<1>7. \A x \in Noise : x \in Seq(Character)
  BY UploaderAssumption DEF Character
<1>8. CASE r \in Boots
  <2>1. ASSUME NEW x \in Noise
        PROVE  Chars(x) \o s \in Seq(Symbol) /\ (NoiseEndsNothing => Plain(Chars(x) \o s))
    <3>1. /\ Chars(x) \in Seq(Symbol) /\ Len(Chars(x)) = Len(x) /\ x \in Seq(Character)
          /\ \A i \in 1..Len(x) : Chars(x)[i].sym = x[i] /\ x[i] # "text"
      <4>1. x \in Seq(Character)
        BY <1>7
      <4>2. \A i \in 1..Len(x) : x[i] \in Character
        BY <4>1, ElementOfSeq
      <4>3. "text" \notin Character
        BY DEF Character
      <4>4. QED
        BY <4>1, <4>2, <4>3, CharsAre
    <3>2. /\ Chars(x) \o s \in Seq(Symbol)
          /\ \A i \in 1..Len(Chars(x) \o s) : (i \in 1..Len(x) /\ (Chars(x) \o s)[i] = Chars(x)[i])
                                              \/ \E j \in 1..Len(s) : (Chars(x) \o s)[i] = s[j]
      <4> DEFINE y == Chars(x)
      <4>1. y \in Seq(Symbol) /\ Len(y) = Len(x) /\ s \in Seq(Symbol)
        BY <1>6, <1>8, <3>1
      <4> HIDE DEF y
      <4>2. QED
        BY <4>1, ConcatAt DEF y
    <3>3. QED
      BY <1>6, <1>8, <3>1, <3>2 DEF Plain, NoiseEndsNothing
  <2>2. <<>> \in Seq(Symbol) /\ Plain(<<>>)
    BY EmptySeq DEF Plain
  <2>3. \E t \in Seq(Symbol) : rx' = rx \o t /\ (NoiseEndsNothing => Plain(t))
    BY <1>3, <1>6, <1>8, <2>1, <2>2
  <2>4. QED
    BY <1>1, <1>2, <1>8, <2>3
<1>9. CASE r \in Asked
  <2>1. ASSUME NEW x \in Noise
        PROVE  /\ Chars(x) \o s \in Seq(Symbol) /\ Own(Chars(x) \o s, r.seq)
               /\ NoiseEndsNothing => OneEnd(Chars(x) \o s)
    <3>1. /\ Chars(x) \in Seq(Symbol) /\ Len(Chars(x)) = Len(x) /\ x \in Seq(Character)
          /\ \A i \in 1..Len(x) : Chars(x)[i].sym = x[i] /\ x[i] # "text"
      <4>1. x \in Seq(Character)
        BY <1>7
      <4>2. \A i \in 1..Len(x) : x[i] \in Character
        BY <4>1, ElementOfSeq
      <4>3. "text" \notin Character
        BY DEF Character
      <4>4. QED
        BY <4>1, <4>2, <4>3, CharsAre
    <3>2. s \in Seq(Symbol) /\ Own(s, r.seq) /\ OneEnd(s)
      BY <1>5, <1>9, FramesAre
    <3> DEFINE t == Chars(x) \o s
    <3>3. /\ t \in Seq(Symbol) /\ Len(x) \in Nat /\ Len(s) \in Nat /\ Len(t) = Len(x) + Len(s)
          /\ \A i \in 1..Len(x) : t[i] = Chars(x)[i]
          /\ \A i \in (Len(x) + 1)..(Len(x) + Len(s)) : i - Len(x) \in 1..Len(s) /\ t[i] = s[i - Len(x)]
      <4> DEFINE y == Chars(x)
                 w == y \o s
      <4>1. y \in Seq(Symbol) /\ Len(y) = Len(x) /\ s \in Seq(Symbol)
        BY <3>1, <3>2
      <4> HIDE DEF y
      <4>2. /\ w \in Seq(Symbol) /\ Len(y) \in Nat /\ Len(s) \in Nat /\ Len(w) = Len(y) + Len(s)
            /\ \A i \in 1..Len(y) : w[i] = y[i]
            /\ \A i \in (Len(y) + 1)..(Len(y) + Len(s)) : i - Len(y) \in 1..Len(s) /\ w[i] = s[i - Len(y)]
        BY <4>1, ConcatAt
      <4>3. t = w
        BY DEF y
      <4> HIDE DEF t, w
      <4>4. \A i \in 1..Len(x) : t[i] = Chars(x)[i]
        BY <4>1, <4>2, <4>3 DEF y
      <4>5. QED
        BY <4>1, <4>2, <4>3, <4>4
    <3> HIDE DEF t
    <3>4. Own(t, r.seq)
      <4>1. SUFFICES ASSUME NEW i \in 1..Len(t), t[i].sym = "text" PROVE t[i].seq = r.seq
        BY DEF Own
      <4>2. i \notin 1..Len(x)
        BY <3>1, <3>3, <4>1
      <4>3. i - Len(x) \in 1..Len(s) /\ t[i] = s[i - Len(x)]
        BY <3>3, <4>1, <4>2
      <4>4. QED
        BY <3>2, <4>1, <4>3 DEF Own
    <3>5. ASSUME NoiseEndsNothing PROVE OneEnd(t)
      <4>1. SUFFICES ASSUME NEW i \in 1..Len(t), NEW j \in 1..Len(t), i < j, t[i].sym = "CR"
                     PROVE  t[j].sym \notin {"CR", "text"}
        BY DEF OneEnd
      <4>2. i \notin 1..Len(x)
        BY <3>1, <3>3, <3>5, <4>1 DEF NoiseEndsNothing
      <4>3. i - Len(x) \in 1..Len(s) /\ j - Len(x) \in 1..Len(s) /\ t[i] = s[i - Len(x)] /\ t[j] = s[j - Len(x)]
        BY <3>3, <4>1, <4>2
      <4>4. QED
        BY <3>2, <3>3, <4>1, <4>3 DEF OneEnd
    <3>6. QED
      BY <3>3, <3>4, <3>5 DEF t
  <2>2. ASSUME NEW t \in {<<>>, Frame(r, TRUE), Frame(r, FALSE), Cut(r), Bare}
        PROVE  t \in Seq(Symbol) /\ Own(t, r.seq) /\ OneEnd(t)
    BY <1>9, <2>2, FramesAre
  <2>3. \E t \in Seq(Symbol) : /\ rx' = rx \o t
                               /\ Own(t, r.seq) /\ (NoiseEndsNothing => OneEnd(t))
                               /\ faults' = 0 => t = Frame(r, TRUE)
    BY <1>3, <1>4, <1>5, <1>9, <2>1, <2>2
  <2>4. QED
    BY <1>1, <1>2, <1>9, <2>3
<1>10. QED
  BY <1>1, <1>8, <1>9

\* The symbols, the answers and the numbers are what they say.
LEMMA LineInit == UploaderInit => LineInv
<1>1. <<>> \in Seq(Symbol) /\ <<>> \in Seq(Asked \cup Boots) /\ <<>> \in Seq((0..255) \X (0..255))
  BY EmptySeq
<1>2. SUFFICES ASSUME UploaderInit PROVE LineInv
  OBVIOUS
<1>3. rx = <<>> /\ enc = <<>> /\ pend = <<>> /\ matched = <<>> /\ seq = 1 /\ faults = 0
  BY <1>2 DEF UploaderInit
<1>4. seq \in 0..255 /\ faults \in Nat
  BY <1>3
<1>5. QED
  BY <1>1, <1>3, <1>4 DEF LineInv

\* A request that is answered, its number and its answer's.
LEMMA ReceiveMatches ==
  ASSUME LineInv, Receive
  PROVE  \/ matched' = matched
         \/ /\ enc # <<>> /\ enc[1] \in Symbol /\ enc[1].sym = "text" /\ enc[1].seq \in 0..255
            /\ matched' = Append(matched, <<Current, enc[1].seq>>) /\ Result = 0
<1>1. CASE Result = 0
  <2>1. enc # <<>> /\ enc[1].sym = "text"
    BY <1>1 DEF Result, ERR
  <2>2. enc[1] \in Symbol
    BY <2>1, TailAt DEF LineInv
  <2>3. enc[1].seq \in 0..255
    BY <2>1, <2>2 DEF Symbol, Character, Texts
  <2>4. QED
    BY <1>1, <2>1, <2>2, <2>3 DEF Receive, Current
<1>2. CASE Result # 0
  BY <1>2 DEF Receive
<1>3. QED
  BY <1>1, <1>2

\* A character of a line that babbles: it is of no answer, and ends none.
LEMMA Murmur ==
  ASSUME Babble
  PROVE  rx' \in Seq(Symbol) /\ Plain(rx') /\ OneEnd(rx') /\ \A n : Own(rx', n)
<1> DEFINE x == Char("other")
<1>1. x \in Symbol /\ x.sym = "other"
  BY DEF Char, Symbol, Character
<1>2. rx' = <<x>>
  BY DEF Babble
<1> HIDE DEF x
<1>3. rx' \in Seq(Symbol) /\ Len(rx') = 1 /\ rx'[1] = x
  BY <1>1, <1>2
<1>4. QED
  BY <1>1, <1>3 DEF Plain, OneEnd, Own

\* And they stay so.
LEMMA LineKept == StageInv /\ TileInv /\ LineInv /\ [UploaderNext]_uploaderVars => LineInv'
<1> SUFFICES ASSUME StageInv, TileInv, LineInv, [UploaderNext]_uploaderVars PROVE LineInv'
  OBVIOUS
<1>1. ASSUME Between PROVE LineInv'
  BY <1>1 DEF Between, LineInv, lineVars, reqVars
<1>2. CASE Send
  <2> DEFINE x == [kind |-> Kind, seq |-> seq, off |-> offset, n |-> Piece]
  <2>1. Kind \in Kinds
    BY <1>2 DEF Send, Requesting, Kind, Kinds
  <2>2. Piece \in Int
    BY DEF Piece, Wanted, FirstSize, NextSize, TileInv
  <2>3. x \in Asked
    BY <2>1, <2>2 DEF Asked, LineInv, TileInv
  <2>4. Answers(x) \in Seq(Asked \cup Boots)
    <3> DEFINE detect == [kind |-> "detect"]
               valid == [kind |-> "valid"]
    <3>1. x \in Asked \cup Boots /\ detect \in Asked \cup Boots /\ valid \in Asked \cup Boots
      BY <2>3 DEF Boots
    <3>2. Answers(x) = <<x, detect, valid>> \/ Answers(x) = <<x>>
      BY DEF Answers
    <3> HIDE DEF x, detect, valid
    <3>3. QED
      BY <3>1, <3>2, ShortSeqs
  <2>5. pend' \in {pend, pend \o Answers(x)} /\ faults' \in {faults, faults + 1}
    BY <1>2 DEF Send
  <2>6. pend \o Answers(x) \in Seq(Asked \cup Boots)
    BY <2>4, ConcatProperties DEF LineInv
  <2>7. seq' \in 0..255
    <3>1. seq' = (seq + 1) % 256 /\ seq \in 0..255
      BY <1>2 DEF Send, LineInv
    <3>2. QED
      BY <3>1
  <2>8. UNCHANGED <<rx, matched, slow>> /\ enc' = <<>>
    BY <1>2 DEF Send
  <2>9. enc' \in Seq(Symbol)
    BY <2>8, EmptySeq
  <2>10. faults' \in Nat
    BY <2>5 DEF LineInv
  <2> HIDE DEF x
  <2>11. QED
    BY <2>5, <2>6, <2>7, <2>8, <2>9, <2>10 DEF LineInv
<1>3. CASE Match
  <2>1. rx' \in Seq(Symbol)
    BY <1>3, TailAt DEF Match, LineInv
  <2>2. UNCHANGED <<enc, pend, matched, seq, faults, slow>>
    BY <1>3 DEF Match, KeepLine
  <2>3. QED
    BY <2>1, <2>2 DEF LineInv
<1>4. CASE Read
  <2>1. rx' \in Seq(Symbol) /\ Head(rx) \in Symbol /\ enc' = Append(enc, Head(rx))
    BY <1>4, TailAt DEF Read, LineInv
  <2>2. enc' \in Seq(Symbol)
    BY <2>1, AppendProperties DEF LineInv
  <2>3. UNCHANGED <<pend, matched, seq, faults, slow>>
    BY <1>4 DEF Read, KeepLine
  <2>4. QED
    BY <2>1, <2>2, <2>3 DEF LineInv
<1>5. CASE Receive
  <2>1. rx' \in Seq(Symbol)
    BY <1>5, TailAt DEF Receive, LineInv
  <2>2. Current \in 0..255
    BY DEF Current, LineInv
  <2>3. matched' \in Seq((0..255) \X (0..255))
    <3>1. CASE matched' = matched
      BY <3>1 DEF LineInv
    <3>2. CASE enc[1].seq \in 0..255 /\ matched' = Append(matched, <<Current, enc[1].seq>>)
      <4>1. <<Current, enc[1].seq>> \in (0..255) \X (0..255)
        BY <2>2, <3>2
      <4>2. QED
        BY <3>2, <4>1, AppendProperties DEF LineInv
    <3>3. QED
      BY <1>5, <3>1, <3>2, ReceiveMatches
  <2>4. UNCHANGED <<enc, pend, seq, faults, slow>>
    BY <1>5 DEF Receive, KeepLine
  <2>5. QED
    BY <2>1, <2>3, <2>4 DEF LineInv
<1>6. CASE Timeout
  <2>1. UNCHANGED <<rx, enc, pend, matched, seq>> /\ faults' \in {faults, faults + 1} 
    BY <1>6 DEF Timeout, KeepLine
  <2>2. faults' \in Nat
    BY <2>1 DEF LineInv
  <2>3. QED
    BY <2>1, <2>2 DEF LineInv
<1>7. CASE Deliver
  <2>1. pend' \in Seq(Asked \cup Boots)
    BY <1>7, Arrives, TailAt DEF LineInv
  <2>2. rx' \in Seq(Symbol)
    <3>1. PICK t \in Seq(Symbol) : rx' = rx \o t
      BY <1>7, Arrives
    <3>2. QED
      BY <3>1, ConcatProperties DEF LineInv
  <2>3. UNCHANGED <<enc, matched, seq, slow>> /\ faults' \in {faults, faults + 1}
    BY <1>7 DEF Deliver, reqVars
  <2>4. QED
    BY <2>1, <2>2, <2>3 DEF LineInv
<1>8. CASE UNCHANGED uploaderVars
  BY <1>8 DEF uploaderVars, lineVars, reqVars, LineInv
<1>9. CASE Babble
  <2>1. UNCHANGED <<enc, pend, matched, seq, slow>> /\ faults' \in {1, faults}
    BY <1>9 DEF Babble, reqVars
  <2>2. rx' \in Seq(Symbol)
    BY <1>9, Murmur
  <2>3. QED
    BY <2>1, <2>2 DEF LineInv
<1>10. QED
  BY <1>1, <1>2, <1>3, <1>4, <1>5, <1>6, <1>7, <1>8, <1>9, BetweenWays DEF UploaderNext, MainNext, PortNext, Request

-----------------------------------------------------------------------------
(* Which answer a request is given.                                         *)

\* What holds of a line holds of what is left of it, and behind an end there is nothing of an answer.
LEMMA TailKeeps ==
  ASSUME NEW a \in Seq(Symbol), a # <<>>, NEW n
  PROVE  /\ Own(a, n) => Own(Tail(a), n)
         /\ OneEnd(a) => OneEnd(Tail(a))
         /\ Plain(a) => Plain(Tail(a)) /\ Head(a).sym # "CR"
         /\ OneEnd(a) /\ Head(a).sym = "CR" => Plain(Tail(a))
<1> DEFINE b == Tail(a)
<1>1. /\ Head(a) = a[1] /\ 1 \in 1..Len(a) /\ Len(a) \in Nat /\ Len(b) = Len(a) - 1
      /\ \A i \in 1..Len(b) : i + 1 \in 1..Len(a) /\ 1 < i + 1 /\ b[i] = a[i + 1]
  BY TailAt
<1> HIDE DEF b
<1>2. Own(a, n) => Own(b, n)
  BY <1>1 DEF Own
<1>3. ASSUME OneEnd(a) PROVE OneEnd(b)
  <2>1. SUFFICES ASSUME NEW i \in 1..Len(b), NEW j \in 1..Len(b), i < j, b[i].sym = "CR"
                 PROVE  b[j].sym \notin {"CR", "text"}
    BY DEF OneEnd
  <2>2. i + 1 \in 1..Len(a) /\ j + 1 \in 1..Len(a) /\ i + 1 < j + 1 /\ b[i] = a[i + 1] /\ b[j] = a[j + 1]
    BY <1>1, <2>1
  <2>3. QED
    BY <1>3, <2>1, <2>2 DEF OneEnd
<1>4. Plain(a) => Plain(b) /\ Head(a).sym # "CR"
  BY <1>1 DEF Plain
<1>5. OneEnd(a) /\ Head(a).sym = "CR" => Plain(b)
  BY <1>1 DEF Plain, OneEnd
<1>6. QED
  BY <1>2, <1>3, <1>4, <1>5 DEF b

\* What holds of both parts of a line.
LEMMA ConcatKeeps ==
  ASSUME NEW a \in Seq(Symbol), NEW t \in Seq(Symbol), NEW n
  PROVE  /\ Own(a, n) /\ Own(t, n) => Own(a \o t, n)
         /\ Plain(a) /\ OneEnd(t) => OneEnd(a \o t)
         /\ OneEnd(a) /\ Plain(t) => OneEnd(a \o t)
<1> DEFINE b == a \o t
<1>1. /\ Len(a) \in Nat /\ Len(t) \in Nat /\ Len(b) = Len(a) + Len(t)
      /\ \A i \in 1..Len(a) : b[i] = a[i]
      /\ \A i \in (Len(a) + 1)..(Len(a) + Len(t)) : i - Len(a) \in 1..Len(t) /\ b[i] = t[i - Len(a)]
  BY ConcatAt
<1> HIDE DEF b
<1>2. \A i \in 1..Len(b) : i \in 1..Len(a) \/ i \in (Len(a) + 1)..(Len(a) + Len(t))
  BY <1>1
<1>3. Own(a, n) /\ Own(t, n) => Own(b, n)
  BY <1>1, <1>2 DEF Own
<1>4. ASSUME Plain(a), OneEnd(t) PROVE OneEnd(b)
  <2>1. SUFFICES ASSUME NEW i \in 1..Len(b), NEW j \in 1..Len(b), i < j, b[i].sym = "CR"
                 PROVE  b[j].sym \notin {"CR", "text"}
    BY DEF OneEnd
  <2>2. i \notin 1..Len(a)
    BY <1>1, <1>4, <2>1 DEF Plain
  <2>3. /\ i - Len(a) \in 1..Len(t) /\ j - Len(a) \in 1..Len(t) /\ i - Len(a) < j - Len(a)
        /\ b[i] = t[i - Len(a)] /\ b[j] = t[j - Len(a)]
    BY <1>1, <1>2, <2>1, <2>2
  <2>4. QED
    BY <1>4, <2>1, <2>3 DEF OneEnd
<1>5. ASSUME OneEnd(a), Plain(t) PROVE OneEnd(b)
  <2>1. SUFFICES ASSUME NEW i \in 1..Len(b), NEW j \in 1..Len(b), i < j, b[i].sym = "CR"
                 PROVE  b[j].sym \notin {"CR", "text"}
    BY DEF OneEnd
  <2>2. CASE j \in 1..Len(a)
    <3>1. i \in 1..Len(a)
      BY <1>1, <1>2, <2>1, <2>2
    <3>2. QED
      BY <1>1, <1>5, <2>1, <2>2, <3>1 DEF OneEnd
  <2>3. CASE j \in (Len(a) + 1)..(Len(a) + Len(t))
    BY <1>1, <1>5, <2>3 DEF Plain
  <2>4. QED
    BY <1>2, <2>2, <2>3
<1>6. QED
  BY <1>3, <1>4, <1>5 DEF b

\* A line without anything of an answer has nothing of a wrong one.
LEMMA PlainLine ==
  ASSUME NEW a, Plain(a), NEW n
  PROVE  Own(a, n) /\ OneEnd(a)
BY DEF Plain, Own, OneEnd

\* So does an empty one.
LEMMA EmptyLine == Plain(<<>>) /\ Len(<<>>) = 0
BY DEF Plain

\* The number of a request that is sent.
LEMMA SendCounts ==
  ASSUME LineInv, Send
  PROVE  Current' = seq
<1>1. seq \in 0..255 /\ seq' = (seq + 1) % 256
  BY DEF LineInv, Send
<1>2. CASE seq = 255
  BY <1>1, <1>2 DEF Current
<1>3. CASE seq # 255
  <2>1. seq' = seq + 1
    BY <1>1, <1>3
  <2>2. (seq + 1 + 255) % 256 = seq
    BY <1>1
  <2>3. QED
    BY <2>1, <2>2 DEF Current
<1>4. QED
  BY <1>2, <1>3

\* Sending a request into a silent line.
LEMMA SendSteps ==
  ASSUME StageInv, LineInv, StepInv, ~slow, Send
  PROVE  /\ Own(rx', Current') /\ Own(enc', Current') /\ OneEnd(rx')
         /\ \A k \in 1..Len(pend') : Pending(k)'
<1>1. stage \in Asking /\ pc = "send" /\ stage' = stage /\ rx' = rx /\ enc' = <<>>
  BY DEF Send, Requesting, Asking
<1>2. pend = <<>> /\ Plain(rx)
  BY <1>1 DEF StepInv, Before, Asking
<1>3. Own(rx', Current') /\ Own(enc', Current') /\ OneEnd(rx')
  BY <1>1, <1>2, PlainLine, EmptyLine
<1> DEFINE x == [kind |-> Kind, seq |-> seq, off |-> offset, n |-> Piece]
           detect == [kind |-> "detect"]
           valid == [kind |-> "valid"]
<1>4. pend' = pend \/ pend' = pend \o Answers(x)
  BY DEF Send
<1>5. x.kind = Kind /\ x.seq = Current' /\ detect.kind = "detect" /\ valid.kind = "valid"
  BY SendCounts
<1>6. Kind = "reset" => stage = "reset"
  BY <1>1 DEF Kind, Asking
<1>7. Kind \notin {"detect", "valid"}
  BY <1>1 DEF Kind, Asking
<1>8. Answers(x) = <<x>> \/ (Answers(x) = <<x, detect, valid>> /\ Kind = "reset")
  BY <1>5 DEF Answers
<1> HIDE DEF x, detect, valid
<1>9. pend' = <<>> \/ pend' = <<x>> \/ (pend' = <<x, detect, valid>> /\ Kind = "reset")
  <2>1. \A y : <<>> \o <<y>> = <<y>>
    OBVIOUS
  <2>2. <<>> \o <<x, detect, valid>> = <<x, detect, valid>>
    OBVIOUS
  <2>3. QED
    BY <1>2, <1>4, <1>8, <2>1, <2>2
<1>10. CASE pend' = <<>>
  BY <1>3, <1>10
<1>11. CASE pend' = <<x>>
  <2>1. Len(pend') = 1 /\ pend'[1] = x
    BY <1>11
  <2>2. QED
    BY <1>1, <1>2, <1>3, <1>5, <1>7, <2>1 DEF Pending
<1>12. CASE pend' = <<x, detect, valid>> /\ Kind = "reset"
  <2>1. Len(pend') = 3 /\ pend'[1] = x /\ pend'[2] = detect /\ pend'[3] = valid
    BY <1>12
  <2>2. QED
    BY <1>1, <1>2, <1>3, <1>5, <1>6, <1>7, <1>12, <2>1 DEF Pending
<1>13. QED
  BY <1>9, <1>10, <1>11, <1>12

\* A symbol that is taken off the line, and the answer it may end.
LEMMA TakeSteps ==
  ASSUME LineInv, StepInv, ~slow, stage \in Asking, pc # "send", rx # <<>>, rx' = Tail(rx),
         UNCHANGED <<pend, seq>>
  PROVE  /\ Own(rx', Current') /\ OneEnd(rx')
         /\ stage' = stage => \A k \in 1..Len(pend') : Pending(k)'
         /\ Head(rx).sym = "CR" => Plain(rx') /\ (stage # "reset" => pend' = <<>>)
<1>1. Own(rx, Current) /\ OneEnd(rx) /\ \A k \in 1..Len(pend) : Pending(k)
  BY DEF StepInv
<1>2. Current' = Current
  BY DEF Current
<1>3. /\ Own(rx', Current') /\ OneEnd(rx') /\ (Plain(rx) => Plain(rx') /\ Head(rx).sym # "CR")
      /\ Head(rx).sym = "CR" => Plain(rx')
  BY <1>1, <1>2, TailKeeps DEF LineInv
<1>4. stage' = stage => \A k \in 1..Len(pend') : Pending(k)'
  BY <1>1, <1>2, <1>3 DEF Pending
<1>5. ASSUME Head(rx).sym = "CR", stage # "reset" PROVE pend' = <<>>
  <2>1. \A k \in 1..Len(pend) : FALSE
    BY <1>1, <1>3, <1>5 DEF Pending
  <2>2. Len(pend) \in Nat
    BY LenProperties DEF LineInv
  <2>3. Len(pend) = 0
    BY <2>1, <2>2
  <2>4. QED
    BY <2>3, EmptySeq DEF LineInv
<1>6. QED
  BY <1>3, <1>4, <1>5

\* What a request leaves when it ends.
LEMMA EndSteps ==
  ASSUME NEW result, Ways(result), Plain(rx'), stage # "reset" => pend' = <<>>,
         \A i \in 1..Len(matched') : matched'[i][1] = matched'[i][2]
  PROVE  StepInv'
<1>1. \/ stage' = "err"
      \/ stage = "reset" /\ stage' = "boot1"
      \/ stage # "reset" /\ pc' = "send"
  BY DEF Ways
<1>2. QED
  BY <1>1 DEF StepInv, Before, Asking

\* The line brings an answer, or some of it.
LEMMA DeliverSteps ==
  ASSUME NoiseEndsNothing, StageInv, LineInv, StepInv, ~slow, Deliver
  PROVE  StepInv'
<1>1. UNCHANGED <<stage, pc, enc, seq, slow, matched>>
  BY DEF Deliver, reqVars
<1>2. pend # <<>> /\ pend' = Tail(pend)
  BY Arrives
<1>3. Current' = Current
  BY <1>1 DEF Current
<1>4. CASE stage \in Asking /\ pc # "send"
  <2>1. Own(rx, Current) /\ OneEnd(rx) /\ Own(enc, Current) /\ \A k \in 1..Len(pend) : Pending(k)
    BY <1>4 DEF StepInv
  <2>2. /\ Head(pend) = pend[1] /\ Head(pend) \in Asked \cup Boots /\ 1 \in 1..Len(pend) /\ Len(pend) \in Nat
        /\ \A k \in 1..Len(pend') : k + 1 \in 1..Len(pend) /\ pend'[k] = pend[k + 1] /\ k + 1 # 1
    BY <1>2, TailAt DEF LineInv
  <2>3. \A k \in 1..Len(pend') : Pending(k)'
    BY <1>1, <2>1, <2>2 DEF Pending
  <2>4. PICK t \in Seq(Symbol) :
          /\ rx' = rx \o t
          /\ Head(pend) \in Boots => Plain(t)
          /\ Head(pend) \in Asked => Own(t, Head(pend).seq) /\ OneEnd(t)
    BY Arrives
  <2>5. Own(rx', Current) /\ OneEnd(rx')
    <3>1. CASE Head(pend) \in Boots
      <4>1. Plain(t) /\ Own(t, Current)
        BY <2>4, <3>1, PlainLine
      <4>2. QED
        BY <2>1, <2>4, <4>1, ConcatKeeps DEF LineInv
    <3>2. CASE Head(pend) \in Asked
      <4>1. pend[1].kind \notin {"detect", "valid"}
        BY <2>2, <3>2 DEF Asked, Kinds
      <4>2. pend[1].seq = Current /\ Plain(rx)
        BY <2>1, <2>2, <4>1 DEF Pending
      <4>3. Own(t, Current) /\ OneEnd(t)
        BY <2>2, <2>4, <3>2, <4>2
      <4>4. QED
        BY <2>1, <2>4, <4>2, <4>3, ConcatKeeps DEF LineInv
    <3>3. QED
      BY <2>2, <3>1, <3>2
  <2>6. QED
    BY <1>1, <1>3, <1>4, <2>1, <2>3, <2>5 DEF StepInv
<1>5. CASE ~(stage \in Asking /\ pc # "send")
  <2>1. ~(stage \in Before \cup {"upload", "list2", "reset"} /\ pc = "send")
    BY <1>2 DEF StepInv
  <2>2. QED
    BY <1>1, <1>5, <2>1 DEF StepInv
<1>6. QED
  BY <1>4, <1>5

\* The invariant holds at the start.
LEMMA StepInit == UploaderInit => StepInv
BY EmptyLine DEF UploaderInit, StepInv, Asking

\* And every step keeps it.
LEMMA StepKept ==
  ASSUME NoiseEndsNothing
  PROVE  StageInv /\ LineInv /\ StepInv /\ [UploaderNext]_uploaderVars => StepInv'
<1> SUFFICES ASSUME StageInv, LineInv, StepInv, [UploaderNext]_uploaderVars, ~slow' PROVE StepInv'
  BY DEF StepInv
<1>1. ASSUME Between PROVE StepInv'
  <2>1. UNCHANGED <<slow, matched, pend, rx>> /\ pc = "send" /\ pc' = "send"
    BY <1>1 DEF Between, lineVars
  <2>2. stage' \in Before \cup {"upload", "list2", "reset"} => stage \in Before
    BY <1>1 DEF Between, Before
  <2>3. QED
    BY <2>1, <2>2 DEF StepInv
<1>2. CASE Send
  <2>1. UNCHANGED <<slow, matched>> /\ pc' = "start"
    BY <1>2 DEF Send
  <2>2. QED
    BY <1>2, <2>1, SendSteps DEF StepInv
<1>3. CASE Match
  <2>1. UNCHANGED <<enc, matched, slow, pend, seq>> /\ rx # <<>> /\ rx' = Tail(rx) /\ pc = "start"
    BY <1>3 DEF Match, KeepLine
  <2>2. \/ stage \in Asking /\ stage' = stage /\ pc' \in {"start", "body"}
        \/ stage' \in {"boot1", "boot2", "term"}
    <3>1. stage \in Asking \cup Booting /\ ~Send /\ ~Read /\ ~Receive
      BY <1>3, <2>1 DEF StageInv, Send, Read, Receive
    <3>2. CASE UNCHANGED <<stage, rc, pc, opened, offset>>
      BY <2>1, <3>1, <3>2 DEF Booting
    <3>3. CASE CASE stage = "boot1" -> Goes("boot2", "start")
                 [] stage = "boot2" -> Goes("term", "send")
                 [] OTHER -> pc' = "body" /\ UNCHANGED <<stage, rc, opened, offset>>
      BY <3>1, <3>3 DEF Goes, Asking, Booting
    <3>4. QED
      BY <1>3, <3>2, <3>3 DEF Match
  <2>3. CASE stage \in Asking /\ stage' = stage /\ pc' \in {"start", "body"}
    <3>1. Own(rx', Current') /\ OneEnd(rx') /\ \A k \in 1..Len(pend') : Pending(k)'
      BY <2>1, <2>3, TakeSteps
    <3>2. Own(enc', Current')
      BY <2>1, <2>3 DEF StepInv, Current
    <3>3. QED
      BY <2>1, <2>3, <3>1, <3>2 DEF StepInv
  <2>4. CASE stage' \in {"boot1", "boot2", "term"}
    BY <2>1, <2>4 DEF StepInv, Before, Asking
  <2>5. QED
    BY <2>2, <2>3, <2>4
<1>4. CASE Read
  <2>1. /\ UNCHANGED <<stage, pc, matched, slow, pend, seq>> /\ rx # <<>> /\ rx' = Tail(rx) /\ pc = "body"
        /\ enc' = Append(enc, Head(rx)) /\ stage \in Asking
    BY <1>4 DEF Read, KeepLine, StageInv
  <2>2. Own(rx', Current') /\ OneEnd(rx') /\ \A k \in 1..Len(pend') : Pending(k)'
    BY <2>1, TakeSteps
  <2>3. Own(enc', Current')
    <3>1. /\ Len(enc) \in Nat /\ Len(enc') = Len(enc) + 1 /\ \A i \in 1..Len(enc) : enc'[i] = enc[i]
          /\ enc'[Len(enc) + 1] = rx[1] /\ 1 \in 1..Len(rx)
      BY <2>1, TailAt, AppendProperties DEF LineInv
    <3>2. Own(enc, Current) /\ Own(rx, Current)
      BY <2>1 DEF StepInv
    <3>3. Current' = Current
      BY <2>1 DEF Current
    <3>4. QED
      BY <3>1, <3>2, <3>3 DEF Own
  <2>4. QED
    BY <2>1, <2>2, <2>3 DEF StepInv
<1>5. CASE Receive
  <2>1. /\ UNCHANGED <<slow, pend, seq>> /\ rx # <<>> /\ rx' = Tail(rx) /\ pc = "body" /\ stage \in Asking
        /\ Head(rx).sym = "CR" /\ Concludes(Result)
    BY <1>5 DEF Receive, KeepLine, StageInv
  <2>2. Plain(rx') /\ (stage # "reset" => pend' = <<>>)
    BY <2>1, TakeSteps
  <2>3. \A i \in 1..Len(matched) : matched[i][1] = matched[i][2]
    BY <2>1 DEF StepInv
  <2>4. Own(enc, Current)
    BY <2>1 DEF StepInv
  <2>5. CASE matched' = matched
    BY <2>1, <2>2, <2>3, <2>5, ConcludesWays, EndSteps
  <2>6. CASE enc # <<>> /\ enc[1].sym = "text" /\ enc[1].seq \in 0..255
             /\ matched' = Append(matched, <<Current, enc[1].seq>>)
    <3>1. 1 \in 1..Len(enc)
      BY <2>6, TailAt DEF LineInv
    <3>2. enc[1].seq = Current
      BY <2>4, <2>6, <3>1 DEF Own
    <3> DEFINE x == <<Current, enc[1].seq>>
    <3>3. x \in (0..255) \X (0..255) /\ x[1] = x[2]
      BY <2>6, <3>2
    <3> HIDE DEF x
    <3>4. /\ Len(matched) \in Nat /\ Len(matched') = Len(matched) + 1
          /\ \A i \in 1..Len(matched) : matched'[i] = matched[i]
          /\ matched'[Len(matched) + 1] = x
      BY <2>6, <3>3, AppendProperties DEF LineInv, x
    <3>5. \A i \in 1..Len(matched') : matched'[i][1] = matched'[i][2]
      BY <2>3, <3>3, <3>4
    <3>6. QED
      BY <2>1, <2>2, <3>5, ConcludesWays, EndSteps
  <2>7. QED
    BY <1>5, <2>5, <2>6, ReceiveMatches
<1>6. CASE Timeout
  <2>1. pend = <<>> /\ UNCHANGED <<slow, matched, pend, rx>> /\ rx = <<>>
    BY <1>6 DEF Timeout, KeepLine, Silent
  <2>2. QED
    BY <1>6, <2>1, EmptyLine, EndSteps, TimeoutWays DEF StepInv
<1>7. CASE Deliver
  BY <1>7, DeliverSteps DEF Deliver
<1>8. CASE UNCHANGED uploaderVars
  <2>1. UNCHANGED <<stage, pc, enc, seq, slow, matched, rx, pend>>
    BY <1>8 DEF uploaderVars, lineVars, reqVars
  <2>2. Current' = Current /\ \A k : Pending(k)' <=> Pending(k)
    BY <2>1 DEF Current, Pending
  <2>3. QED
    BY <2>1, <2>2 DEF StepInv
<1>9. CASE Babble
  <2>1. UNCHANGED <<stage, pc, enc, seq, slow, matched, pend>> /\ pc = "start"
    BY <1>9 DEF Babble, reqVars
  <2>2. Current' = Current
    BY <2>1 DEF Current
  <2>3. Plain(rx') /\ OneEnd(rx') /\ Own(rx', Current)
    BY <1>9, Murmur
  <2>4. stage \in Asking => \A k \in 1..Len(pend) : Pending(k)'
    BY <2>1, <2>2, <2>3 DEF StepInv, Pending
  <2>5. QED
    BY <2>1, <2>2, <2>3, <2>4 DEF StepInv
<1>10. QED
  BY <1>1, <1>2, <1>3, <1>4, <1>5, <1>6, <1>7, <1>8, <1>9, BetweenWays
  DEF UploaderNext, MainNext, PortNext, Request

\* However often the line loses, damages or hides answers behind noise, a request is given its own
\* or none, until an answer comes late: as long as nothing else is taken for the end of one.
THEOREM AnswersAreInStep ==
  ASSUME NoiseEndsNothing
  PROVE  UploaderSpec => []AnswersInStep
<1>1. LineInv /\ StepInv => AnswersInStep
  <2>1. LineInv => DOMAIN matched = 1..Len(matched)
    BY LenProperties DEF LineInv
  <2>2. QED
    BY <2>1 DEF StepInv, AnswersInStep
<1>2. StageInv /\ LineInv /\ StepInv /\ [UploaderNext]_uploaderVars => StepInv'
  BY StepKept
<1>3. QED
  BY <1>1, <1>2, OpenInit, OpenKept, TileInit, TileKept, LineInit, LineKept, StepInit, PTL DEF UploaderSpec

-----------------------------------------------------------------------------
(* An upload without a fault of the line.                                   *)

\* The answer that a request waits for, as it comes in.
OwnText == Text([kind |-> Kind, seq |-> Current], TRUE)
OwnFrame == Frame([kind |-> Kind, seq |-> Current], TRUE)
Ending == <<Char("CR"), Char("LF")>>

\* What an answer leaves behind on the line.
Rest == {<<>>, <<Char("LF")>>}

\* The answer is on its way, on the line, or read up to some place.
Waiting ==
  /\ pc = "start" =>
       /\ enc = <<>>
       /\ \/ /\ Len(pend) = 1 /\ pend[1].kind = Kind /\ pend[1].seq = Current
             /\ rx \in Rest /\ len = 0
          \/ pend = <<>> /\ len = 0 /\ (rx = OwnFrame \/ rx = <<Char("LF")>> \o OwnFrame)
          \/ pend = <<>> /\ len = 1 /\ rx = <<Char("09"), OwnText, Char("CR"), Char("LF")>>
  /\ pc = "body" =>
       /\ pend = <<>>
       /\ \/ enc = <<>> /\ rx = <<OwnText, Char("CR"), Char("LF")>>
          \/ enc = <<OwnText>> /\ rx = Ending

\* Request i has been answered.
Done(i) == \E j \in 1..Len(matched) : matched[j][1] = sent[i].seq

\* What the loader has and has answered.
LoaderInv ==
  /\ stage = "upload" /\ pc # "send" => sent[Len(sent)].seq = Current
  /\ \A i \in 1..Len(sent) : i < Len(sent) \/ stage # "upload" \/ pc = "send" => Done(i)
  /\ stage \in Before => loader = 0
  /\ stage = "upload" => loader = Reach
  /\ stage \notin Before \cup {"upload"} /\ sent # <<>> => loader = total

\* Without a fault every request is answered, and the next one finds the line as silent.
FaultlessInv ==
  faults = 0 =>
    /\ stage \in Before \cup {"upload", "list2"} /\ pc = "send" => pend = <<>> /\ rx \in Rest
    /\ stage \in {"list1", "upload", "list2"} /\ pc # "send" => Waiting
    /\ LoaderInv

\* The symbols of an own answer.
LEMMA OwnSymbols ==
  /\ Char("06").sym = "06" /\ Char("09").sym = "09" /\ Char("CR").sym = "CR" /\ Char("LF").sym = "LF"
  /\ Char("LF") \in Symbol
  /\ OwnText.sym = "text" /\ OwnText.kind = Kind /\ OwnText.seq = Current /\ OwnText.good = TRUE
  /\ OwnFrame = <<Char("06"), Char("09"), OwnText, Char("CR"), Char("LF")>>
  /\ \A r : r.kind = Kind /\ r.seq = Current => Frame(r, TRUE) = OwnFrame
<1>1. /\ Char("06").sym = "06" /\ Char("09").sym = "09" /\ Char("CR").sym = "CR" /\ Char("LF").sym = "LF"
  BY DEF Char
<1>2. Char("LF") \in Symbol
  BY DEF Char, Symbol, Character
<1>3. OwnText = [sym |-> "text", kind |-> Kind, seq |-> Current, good |-> TRUE]
  BY DEF OwnText, Text
<1>4. OwnText.sym = "text" /\ OwnText.kind = Kind /\ OwnText.seq = Current /\ OwnText.good = TRUE
  BY <1>3
<1>5. OwnFrame = <<Char("06"), Char("09"), OwnText, Char("CR"), Char("LF")>>
  BY DEF OwnFrame, Frame, OwnText
<1>6. ASSUME NEW r, r.kind = Kind, r.seq = Current PROVE Frame(r, TRUE) = OwnFrame
  <2>1. Text(r, TRUE) = OwnText
    BY <1>3, <1>6 DEF Text
  <2>2. QED
    BY <1>5, <2>1 DEF Frame
<1>7. QED
  BY <1>1, <1>2, <1>4, <1>5, <1>6

\* What is behind one symbol.
LEMMA BehindOne ==
  ASSUME NEW S, NEW a \in S, NEW b \in Seq(S)
  PROVE  /\ <<a>> \o b # <<>> /\ Head(<<a>> \o b) = a /\ Tail(<<a>> \o b) = b
         /\ <<>> \o b = b
<1> DEFINE x == <<a>>
           y == x \o b
<1>1. x \in Seq(S) /\ Len(x) = 1 /\ x[1] = a
  OBVIOUS
<1> HIDE DEF x
<1>2. /\ y \in Seq(S) /\ Len(b) \in Nat /\ Len(y) = 1 + Len(b) /\ y[1] = a
      /\ \A i \in 2..(Len(b) + 1) : i - 1 \in 1..Len(b) /\ y[i] = b[i - 1]
  <2>1. /\ y \in Seq(S) /\ Len(x) \in Nat /\ Len(b) \in Nat /\ Len(y) = Len(x) + Len(b)
        /\ \A i \in 1..Len(x) : y[i] = x[i]
        /\ \A i \in (Len(x) + 1)..(Len(x) + Len(b)) : i - Len(x) \in 1..Len(b) /\ y[i] = b[i - Len(x)]
    BY <1>1, ConcatAt
  <2> HIDE DEF y
  <2>2. y[1] = a
    BY <1>1, <2>1
  <2>3. \A i \in 2..(Len(b) + 1) : i - 1 \in 1..Len(b) /\ y[i] = b[i - 1]
    BY <1>1, <2>1
  <2>4. QED
    BY <1>1, <2>1, <2>2, <2>3
<1> HIDE DEF y
<1>3. y # <<>>
  BY <1>2
<1>4. /\ Head(y) = a /\ Tail(y) \in Seq(S) /\ Len(Tail(y)) = Len(b)
      /\ \A i \in 1..Len(b) : Tail(y)[i] = b[i]
  <2>1. /\ Head(y) = y[1] /\ Tail(y) \in Seq(S) /\ Len(Tail(y)) = Len(y) - 1
        /\ \A i \in 1..Len(Tail(y)) : Tail(y)[i] = y[i + 1]
    BY <1>2, <1>3, TailAt
  <2>2. ASSUME NEW i \in 1..Len(b) PROVE Tail(y)[i] = b[i]
    <3>1. i + 1 \in 2..(Len(b) + 1) /\ i \in 1..Len(Tail(y)) /\ (i + 1) - 1 = i
      BY <1>2, <2>1
    <3>2. QED
      BY <1>2, <2>1, <3>1
  <2>3. QED
    BY <1>2, <2>1, <2>2
<1>5. Tail(y) = b
  BY <1>4, SeqEqual
<1>6. <<>> \o b = b
  BY ConcatEmptySeq
<1>7. QED
  BY <1>3, <1>4, <1>5, <1>6 DEF x, y

\* The own frame is symbols.
LEMMA OwnFrameType ==
  ASSUME StageInv, LineInv, stage \in Asking
  PROVE  Kind \in Kinds /\ OwnText \in Symbol /\ OwnFrame \in Seq(Symbol)
<1>1. Kind \in Kinds
  BY DEF Kind, Kinds, Asking
<1>2. Current \in 0..255
  BY DEF LineInv, Current
<1> DEFINE r == [kind |-> Kind, seq |-> Current, off |-> 0, n |-> 0]
<1>3. r \in Asked /\ r.kind = Kind /\ r.seq = Current
  BY <1>1, <1>2 DEF Asked
<1> HIDE DEF r
<1>4. Frame(r, TRUE) \in Seq(Symbol)
  BY <1>3, FramesAre
<1>5. OwnFrame \in Seq(Symbol)
  BY <1>3, <1>4, OwnSymbols
<1>6. OwnText \in Texts
  BY <1>1, <1>2 DEF OwnText, Text, Texts
<1>7. QED
  BY <1>1, <1>5, <1>6 DEF Symbol

\* An answered request stays answered.
LEMMA DoneStays ==
  ASSUME LineInv, LineInv', sent' = sent, NEW x, matched' = matched \/ matched' = Append(matched, x), NEW i
  PROVE  /\ Done(i) => Done(i)'
         /\ matched' = Append(matched, x) /\ sent[i].seq = x[1] => Done(i)'
<1>1. Len(matched) \in Nat
  BY LenProperties DEF LineInv
<1>2. CASE matched' = matched
  BY <1>2 DEF Done
<1>3. CASE matched' = Append(matched, x)
  <2>1. /\ Len(matched') = Len(matched) + 1 /\ \A j \in 1..Len(matched) : matched'[j] = matched[j]
        /\ matched'[Len(matched) + 1] = x
    BY <1>1, <1>3 DEF LineInv
  <2>2. QED
    BY <1>1, <2>1 DEF Done
<1>4. QED
  BY <1>2, <1>3

\* Nothing the loader has is lost within a request,
LEMMA LoaderWithin ==
  ASSUME LoaderInv, UNCHANGED <<stage, total, sent, loader, seq, matched>>, pc = "send" <=> pc' = "send"
  PROVE  LoaderInv'
<1>1. Reach' = Reach /\ Current' = Current /\ \A i : Done(i)' <=> Done(i)
  BY DEF Reach, Current, Done
<1>2. QED
  BY <1>1 DEF LoaderInv

\* between requests,
LEMMA LoaderBetween ==
  ASSUME TileInv, LoaderInv, Between
  PROVE  LoaderInv'
<1>1. UNCHANGED <<total, sent, loader, seq, matched>> /\ pc = "send" /\ pc' = "send"
  BY DEF Between, lineVars
<1>2. Reach' = Reach /\ \A i : Done(i)' <=> Done(i)
  BY <1>1 DEF Reach, Done
<1>3. /\ stage' \in Before => stage \in Before
      /\ stage' = "upload" => stage = "load"
      /\ stage # "upload"
  BY DEF Between, Before
<1>4. stage \in Before => sent = <<>> /\ Reach = 0
  BY DEF TileInv, Reach
<1>5. stage = "load" => stage \in Before
  BY DEF Before
<1>6. QED
  BY <1>1, <1>2, <1>3, <1>4, <1>5 DEF LoaderInv

\* when the boot loader starts,
LEMMA LoaderBoots ==
  ASSUME LoaderInv, UNCHANGED <<total, sent, loader, matched>>,
         stage \in Booting, stage' \in {"boot1", "boot2", "term"}
  PROVE  LoaderInv'
<1>1. \A i : Done(i)' <=> Done(i)
  BY DEF Done
<1>2. QED
  BY <1>1 DEF LoaderInv, Before, Booting

\* or when a request ends, if each of the upload is answered.
LEMMA LoaderEnds ==
  ASSUME TileInv, TileInv', LineInv, LineInv', LoaderInv, NEW result, Ways(result), pc # "send",
         UNCHANGED <<total, sent, loader, seq>>,
         NEW x, matched' = matched \/ matched' = Append(matched, x),
         stage = "upload" => matched' = Append(matched, x) /\ x[1] = Current
  PROVE  LoaderInv'
<1>1. Reach' = Reach
  BY DEF Reach
<1>2. Len(sent) \in Nat
  BY LenProperties DEF TileInv
<1>3. \A i : Done(i) => Done(i)'
  BY DoneStays
<1>4. CASE stage = "upload"
  <2>1. sent # <<>> /\ sent[Len(sent)].seq = Current /\ \A i \in 1..Len(sent) : i < Len(sent) => Done(i)
    BY <1>4 DEF TileInv, LoaderInv
  <2>2. Done(Len(sent))'
    BY <1>4, <2>1, DoneStays
  <2>3. \A i \in 1..Len(sent) : i < Len(sent) \/ i = Len(sent)
    BY <1>2
  <2>4. \A i \in 1..Len(sent) : Done(i)'
    BY <1>3, <2>1, <2>2, <2>3
  <2>5. pc' = "send" /\ stage' \in {"upload", "list2"}
    BY <1>4 DEF Ways
  <2>6. loader = Reach
    BY <1>4 DEF LoaderInv
  <2>7. stage' = "list2" => Reach' = total'
    BY <2>1 DEF TileInv, Before
  <2>8. QED
    BY <1>1, <2>1, <2>4, <2>5, <2>6, <2>7 DEF LoaderInv, Before
<1>5. CASE stage # "upload"
  <2>1. stage' # "upload" /\ (stage' \in Before => stage \in Before)
    BY <1>5 DEF Ways, Before
  <2>2. stage \in Before => sent = <<>>
    BY DEF TileInv
  <2>3. QED
    BY <1>1, <1>3, <1>5, <2>1, <2>2 DEF LoaderInv
<1>6. QED
  BY <1>4, <1>5


\* The loader takes what a request brings.
LEMMA SendLoads ==
  ASSUME StageInv, TileInv, TileInv', LineInv, LoaderInv, Send, faults' = 0
  PROVE  LoaderInv'
<1> DEFINE x == [kind |-> Kind, seq |-> seq, off |-> offset, n |-> Piece]
<1>1. UNCHANGED <<stage, total, matched>> /\ stage \in Asking /\ pc = "send" /\ pc' = "start"
  BY DEF Send, Requesting, Asking, mainVars
<1>2. loader' = Taken(x)
  BY DEF Send, LineInv
<1>3. CASE stage = "upload"
  <2>1. Kind = "upload"
    BY <1>3 DEF Kind
  <2>2. Piece \in Nat /\ offset = Reach /\ offset \in Nat /\ loader = offset
    BY <1>1, <1>3, PieceFits DEF TileInv, LoaderInv
  <2>3. x \in Pieces /\ sent' = Append(sent, x)
    BY <1>3, <2>1, <2>2 DEF TileInv, Pieces, Kinds, Send
  <2>4. x.off = offset /\ x.n = Piece /\ x.seq = seq /\ x.kind = "upload"
    BY <2>1
  <2>5. loader' = offset + Piece
    BY <1>2, <2>2, <2>4 DEF Taken
  <2> HIDE DEF x
  <2>6. /\ Len(sent) \in Nat /\ sent' \in Seq(Pieces) /\ Len(sent') = Len(sent) + 1
        /\ \A i \in 1..Len(sent) : sent'[i] = sent[i]
        /\ sent'[Len(sent) + 1] = x
    BY <2>3, AppendProperties DEF TileInv
  <2>7. sent' # <<>> /\ Reach' = offset + Piece
    BY <2>4, <2>6 DEF Reach
  <2>8. sent'[Len(sent')].seq = Current'
    BY <2>4, <2>6, SendCounts
  <2>9. \A i \in 1..Len(sent') : i < Len(sent') => Done(i)'
    <3>1. SUFFICES ASSUME NEW i \in 1..Len(sent'), i < Len(sent') PROVE Done(i)'
      OBVIOUS
    <3>2. i \in 1..Len(sent) /\ sent'[i] = sent[i]
      BY <2>6, <3>1
    <3>3. Done(i)
      BY <1>1, <3>2 DEF LoaderInv
    <3>4. QED
      BY <1>1, <3>2, <3>3 DEF Done
  <2>10. QED
    BY <1>1, <1>3, <2>5, <2>7, <2>8, <2>9 DEF LoaderInv, Before
<1>4. CASE stage # "upload"
  <2>1. sent' = sent /\ Kind # "upload" /\ x.kind = Kind
    BY <1>1, <1>4 DEF Send, Kind, Asking
  <2>2. loader' = loader
    BY <1>2, <2>1 DEF Taken
  <2>3. \A i : Done(i)' <=> Done(i)
    BY <1>1, <2>1 DEF Done
  <2> HIDE DEF x
  <2>4. QED
    BY <1>1, <1>4, <2>1, <2>2, <2>3 DEF LoaderInv
<1>5. QED
  BY <1>3, <1>4

\* A request that is sent waits for its answer.
LEMMA SendWaits ==
  ASSUME StageInv, LineInv, Send, faults' = 0, pend = <<>>, rx \in Rest, stage # "reset"
  PROVE  Waiting'
<1> DEFINE x == [kind |-> Kind, seq |-> seq, off |-> offset, n |-> Piece]
<1>1. stage' = stage /\ rx' = rx /\ enc' = <<>> /\ len' = 0 /\ pc' = "start" /\ stage \in Asking
  BY DEF Send, Requesting, Asking
<1>2. pend' = pend \o Answers(x)
  BY DEF Send, LineInv
<1>3. Kind' = Kind /\ Kind # "reset"
  BY <1>1 DEF Kind, Asking
<1>4. x.kind = Kind /\ x.seq = Current'
  BY SendCounts
<1>5. Answers(x) = <<x>>
  BY <1>3, <1>4 DEF Answers
<1> HIDE DEF x
<1>6. pend' = <<x>>
  BY <1>2, <1>5
<1>7. Len(pend') = 1 /\ pend'[1] = x
  BY <1>6
<1>8. QED
  BY <1>1, <1>3, <1>4, <1>7 DEF Waiting

\* What Match, Read, Receive and Deliver find while a request waits.
LEMMA MatchWaits ==
  ASSUME StageInv, LineInv, stage \in {"list1", "upload", "list2"}, Waiting, Match
  PROVE  UNCHANGED stage /\ Waiting' /\ pc' # "send"
<1>1. pc = "start" /\ rx # <<>> /\ rx' = Tail(rx) /\ UNCHANGED <<enc, pend, seq>> /\ enc = <<>>
  BY DEF Match, KeepLine, Waiting
<1>2. Pattern[1] = "06" /\ Pattern[2] = "09" /\ Len(Pattern) = 2
  BY DEF Pattern, FrameStart
<1>3. stage \in Asking
  BY DEF Asking
<1>4. OwnFrame \in Seq(Symbol) /\ OwnText \in Symbol
  BY <1>3, OwnFrameType
<1>5. ASSUME stage' = stage PROVE Kind' = Kind /\ Current' = Current /\ OwnText' = OwnText /\ OwnFrame' = OwnFrame
  BY <1>1, <1>5 DEF Kind, Current, OwnText, OwnFrame
<1>6. CASE len = 0 /\ rx \in Rest
  <2>1. rx = <<Char("LF")>>
    BY <1>1, <1>6 DEF Rest
  <2>2. Head(rx).sym = "LF" /\ rx' = <<>>
    BY <1>1, <2>1, OwnSymbols
  <2>3. Head(rx).sym # Pattern[len + 1]
    BY <1>2, <1>6, <2>2
  <2>4. len' = 0 /\ UNCHANGED <<stage, pc>>
    BY <1>2, <2>3 DEF Match
  <2>5. Len(pend) = 1 /\ pend[1].kind = Kind /\ pend[1].seq = Current
    <3>1. ~(rx = OwnFrame \/ rx = <<Char("LF")>> \o OwnFrame)
      <4>1. Len(rx) = 1
        BY <2>1
      <4>2. OwnFrame = <<Char("06"), Char("09"), OwnText, Char("CR"), Char("LF")>>
        BY OwnSymbols
      <4>3. Len(OwnFrame) = 5
        BY <4>2
      <4>4. Tail(<<Char("LF")>> \o OwnFrame) = OwnFrame
        BY <1>4, OwnSymbols, BehindOne
      <4>5. OwnFrame # <<>>
        BY <4>2
      <4>6. QED
        BY <1>1, <2>2, <4>1, <4>3, <4>4, <4>5
    <3>2. QED
      BY <1>1, <1>6, <3>1 DEF Waiting
  <2>6. rx' \in Rest
    BY <2>2 DEF Rest
  <2>7. QED
    BY <1>1, <1>5, <2>4, <2>5, <2>6 DEF Waiting
<1>7. CASE pend = <<>> /\ len = 0 /\ rx = OwnFrame
  <2>1. rx = <<Char("06"), Char("09"), OwnText, Char("CR"), Char("LF")>>
    BY <1>7, OwnSymbols
  <2>2. Head(rx).sym = "06" /\ rx' = <<Char("09"), OwnText, Char("CR"), Char("LF")>>
    BY <1>1, <2>1, OwnSymbols
  <2>3. len' = 1 /\ UNCHANGED <<stage, pc>>
    BY <1>2, <1>7, <2>2 DEF Match
  <2>4. QED
    BY <1>1, <1>5, <1>7, <2>2, <2>3 DEF Waiting
<1>8. CASE pend = <<>> /\ len = 0 /\ rx = <<Char("LF")>> \o OwnFrame
  <2>1. Head(rx) = Char("LF") /\ rx' = OwnFrame
    BY <1>1, <1>4, <1>8, OwnSymbols, BehindOne
  <2>2. Head(rx).sym # Pattern[len + 1]
    BY <1>2, <1>8, <2>1, OwnSymbols
  <2>3. len' = 0 /\ UNCHANGED <<stage, pc>>
    BY <1>2, <2>2 DEF Match
  <2>4. QED
    BY <1>1, <1>5, <1>8, <2>1, <2>3 DEF Waiting
<1>9. CASE pend = <<>> /\ len = 1 /\ rx = <<Char("09"), OwnText, Char("CR"), Char("LF")>>
  <2>1. Head(rx).sym = "09" /\ rx' = <<OwnText, Char("CR"), Char("LF")>>
    BY <1>1, <1>9, OwnSymbols
  <2>2. len' = 0 /\ stage' = stage /\ pc' = "body"
    BY <1>2, <1>9, <2>1 DEF Match
  <2>3. QED
    BY <1>1, <1>5, <1>9, <2>1, <2>2 DEF Waiting
<1>10. QED
  BY <1>1, <1>6, <1>7, <1>8, <1>9 DEF Waiting

\* The text of the answer is read,
LEMMA ReadWaits ==
  ASSUME stage \in {"list1", "upload", "list2"}, Waiting, Read
  PROVE  Waiting'
<1>1. /\ pc = "body" /\ rx # <<>> /\ rx' = Tail(rx) /\ UNCHANGED <<stage, pc, pend, seq>>
      /\ enc' = Append(enc, Head(rx)) /\ Head(rx).sym # "CR"
  BY DEF Read, KeepLine
<1>2. Kind' = Kind /\ Current' = Current /\ OwnText' = OwnText
  BY <1>1 DEF Kind, Current, OwnText
<1>3. pend = <<>> /\ enc = <<>> /\ rx = <<OwnText, Char("CR"), Char("LF")>>
  <2>1. rx = Ending => Head(rx).sym = "CR"
    BY OwnSymbols DEF Ending
  <2>2. QED
    BY <1>1, <2>1 DEF Waiting
<1>4. enc' = <<OwnText>> /\ rx' = Ending
  BY <1>1, <1>3 DEF Ending
<1>5. QED
  BY <1>1, <1>2, <1>3, <1>4 DEF Waiting

\* and its end makes it the answer of the request.
LEMMA ReceiveWaits ==
  ASSUME stage \in {"list1", "upload", "list2"}, Waiting, Receive
  PROVE  /\ Result = 0 /\ pend' = <<>> /\ rx' \in Rest
         /\ matched' = Append(matched, <<Current, Current>>)
<1>1. pc = "body" /\ rx # <<>> /\ rx' = Tail(rx) /\ pend' = pend /\ Head(rx).sym = "CR"
  BY DEF Receive, KeepLine
<1>2. pend = <<>> /\ enc = <<OwnText>> /\ rx = Ending
  <2>1. rx = <<OwnText, Char("CR"), Char("LF")>> => Head(rx).sym = "text"
    BY OwnSymbols
  <2>2. QED
    BY <1>1, <2>1 DEF Waiting
<1>3. rx' \in Rest
  BY <1>1, <1>2 DEF Ending, Rest
<1>4. enc # <<>> /\ enc[1] = OwnText
  BY <1>2
<1>5. Result = 0 /\ enc[1].seq = Current
  BY <1>4, OwnSymbols DEF Result
<1>6. matched' = Append(matched, <<Current, Current>>)
  BY <1>5 DEF Receive, Current
<1>7. QED
  BY <1>1, <1>2, <1>3, <1>5, <1>6

\* Nobody gives it up,
LEMMA NoTimeout ==
  ASSUME StageInv, LineInv, stage \in {"list1", "upload", "list2"}, Waiting, Timeout, faults' = 0
  PROVE  FALSE
<1>1. pc \in {"start", "body"} /\ rx = <<>> /\ pend = <<>>
  BY DEF Timeout, Silent, LineInv
<1>2. stage \in Asking
  BY DEF Asking
<1>3. OwnFrame # <<>> /\ <<Char("LF")>> \o OwnFrame # <<>>
  <2>1. OwnFrame \in Seq(Symbol) /\ OwnFrame = <<Char("06"), Char("09"), OwnText, Char("CR"), Char("LF")>>
    BY <1>2, OwnFrameType, OwnSymbols
  <2>2. QED
    BY <2>1, OwnSymbols, BehindOne
<1>4. Len(pend) = 0
  BY <1>1
<1>5. Ending # <<>>
  BY DEF Ending
<1>6. QED
  BY <1>1, <1>3, <1>4, <1>5 DEF Waiting

\* and the line brings it whole.
LEMMA DeliverWaits ==
  ASSUME StageInv, LineInv, stage \in {"list1", "upload", "list2"}, Waiting, pc # "send", Deliver, faults' = 0
  PROVE  Waiting'
<1>1. UNCHANGED <<stage, pc, enc, len, seq>> /\ pend # <<>> /\ pend' = Tail(pend)
  BY Arrives DEF Deliver, reqVars
<1>2. Kind' = Kind /\ Current' = Current /\ OwnFrame' = OwnFrame
  BY <1>1 DEF Kind, Current, OwnFrame
<1>3. stage \in Asking
  BY DEF Asking
<1>4. /\ pc = "start" /\ enc = <<>> /\ len = 0 /\ rx \in Rest
      /\ Len(pend) = 1 /\ pend[1].kind = Kind /\ pend[1].seq = Current
  BY <1>1 DEF Waiting, StageInv
<1>5. pend' = <<>>
  BY <1>1, <1>4, TailAt, EmptySeq DEF LineInv
<1>6. Head(pend) = pend[1] /\ Head(pend) \in Asked
  <2>1. Head(pend) = pend[1] /\ Head(pend) \in Asked \cup Boots
    BY <1>1, TailAt DEF LineInv
  <2>2. Kind \in Kinds
    BY <1>3, OwnFrameType
  <2>3. QED
    BY <1>4, <2>1, <2>2 DEF Boots, Kinds
<1>7. rx' = rx \o OwnFrame
  <2>1. Frame(Head(pend), TRUE) = OwnFrame
    BY <1>4, <1>6, OwnSymbols
  <2>2. QED
    BY <1>6, <2>1, Arrives
<1>8. OwnFrame \in Seq(Symbol)
  BY <1>3, OwnFrameType
<1>9. rx' = OwnFrame \/ rx' = <<Char("LF")>> \o OwnFrame
  BY <1>4, <1>7, <1>8, BehindOne, OwnSymbols DEF Rest
<1>10. QED
  BY <1>1, <1>2, <1>4, <1>5, <1>9 DEF Waiting


\* The invariant holds at the start.
LEMMA FaultlessInit == UploaderInit => FaultlessInv
<1>1. SUFFICES ASSUME UploaderInit PROVE FaultlessInv
  OBVIOUS
<1>2. stage = "begin" /\ pc = "send" /\ pend = <<>> /\ rx = <<>> /\ loader = 0 /\ sent = <<>>
  BY <1>1 DEF UploaderInit
<1>3. rx \in Rest /\ Len(sent) = 0
  BY <1>2 DEF Rest
<1>4. LoaderInv
  BY <1>2, <1>3 DEF LoaderInv, Before
<1>5. QED
  BY <1>2, <1>3, <1>4 DEF FaultlessInv

\* Faults are never forgotten.
LEMMA FaultsGrow ==
  ASSUME LineInv, StageInv, [UploaderNext]_uploaderVars, faults' = 0
  PROVE  faults = 0
<1>1. faults' \in {faults, faults + 1} \/ faults' = 1
  <2>1. Between => faults' = faults
    BY DEF Between, lineVars
  <2>2. Send => faults' \in {faults, faults + 1}
    BY DEF Send
  <2>3. Match \/ Read \/ Receive => faults' = faults
    BY DEF Match, Read, Receive
  <2>4. Timeout => faults' \in {faults, faults + 1}
    BY DEF Timeout
  <2>5. Deliver => faults' \in {faults, faults + 1}
    BY DEF Deliver
  <2>6. UNCHANGED uploaderVars => faults' = faults
    BY DEF uploaderVars, lineVars
  <2>7. Babble => faults' \in {1, faults}
    BY DEF Babble
  <2>8. QED
    BY <2>1, <2>2, <2>3, <2>4, <2>5, <2>6, <2>7, BetweenWays DEF UploaderNext, MainNext, PortNext, Request
<1>2. QED
  BY <1>1 DEF LineInv

\* And every step keeps it.
LEMMA FaultlessKept ==
  StageInv /\ TileInv /\ LineInv /\ FaultlessInv /\ [UploaderNext]_uploaderVars => FaultlessInv'
<1> SUFFICES ASSUME StageInv, TileInv, LineInv, FaultlessInv, [UploaderNext]_uploaderVars, faults' = 0
             PROVE  FaultlessInv'
  BY DEF FaultlessInv
<1> DEFINE Quiet == stage \in Before \cup {"upload", "list2"} /\ pc = "send"
           Within == stage \in {"list1", "upload", "list2"} /\ pc # "send"
<1>1. /\ Quiet => pend = <<>> /\ rx \in Rest
      /\ Within => Waiting
      /\ LoaderInv
  BY FaultsGrow DEF FaultlessInv
<1>2. TileInv' /\ LineInv'
  BY TileKept, LineKept
<1>3. ASSUME Quiet' => pend' = <<>> /\ rx' \in Rest, Within' => Waiting', LoaderInv'
      PROVE  FaultlessInv'
  BY <1>3 DEF FaultlessInv, Before
<1>4. CASE Between
  <2>1. UNCHANGED <<pend, rx>> /\ pc = "send" /\ pc' = "send" /\ LoaderInv'
    BY <1>1, <1>4, LoaderBetween DEF Between, lineVars
  <2>2. Quiet' => Quiet
    BY <1>4, <2>1 DEF Between, Before
  <2>3. QED
    BY <1>1, <1>3, <2>1, <2>2
<1>5. CASE Send
  <2>1. LoaderInv'
    BY <1>1, <1>2, <1>5, SendLoads
  <2>2. stage \in Asking /\ pc = "send" /\ stage' = stage /\ pc' = "start"
    BY <1>5 DEF Send, Requesting, Asking
  <2>3. stage # "reset" => Quiet
    BY <2>2 DEF Asking, Before
  <2>4. stage # "reset" => Waiting'
    BY <1>1, <1>5, <2>3, SendWaits
  <2>5. QED
    BY <1>3, <2>1, <2>2, <2>4
<1>6. CASE Match
  <2>1. UNCHANGED <<total, sent, loader, seq, matched>> /\ pc = "start" /\ stage \in Asking \cup Booting
    BY <1>6 DEF Match, KeepLine, StageInv, mainVars
  <2>2. CASE Within
    <3>1. stage' = stage /\ Waiting' /\ pc' # "send"
      BY <1>1, <1>6, <2>2, MatchWaits
    <3>2. QED
      BY <1>1, <1>3, <2>1, <3>1, LoaderWithin
  <2>3. CASE stage = "reset"
    <3>1. stage' = stage /\ pc' # "send"
      BY <1>6, <2>1, <2>3 DEF Match
    <3>2. QED
      BY <1>1, <1>3, <2>1, <2>3, <3>1, LoaderWithin DEF Before
  <2>4. CASE stage \in Booting
    <3>1. stage' \in {"boot1", "boot2", "term"}
      BY <1>6, <2>4 DEF Match, Goes, Booting
    <3>2. QED
      BY <1>1, <1>3, <2>1, <2>4, <3>1, LoaderBoots DEF Before
  <2>5. QED
    BY <2>1, <2>2, <2>3, <2>4 DEF Asking
<1>7. CASE Read
  <2>1. UNCHANGED <<stage, pc, total, sent, loader, seq, matched>> /\ pc = "body"
    BY <1>7 DEF Read, KeepLine, mainVars
  <2>2. LoaderInv'
    BY <1>1, <2>1, LoaderWithin
  <2>3. Within => Waiting'
    BY <1>1, <1>7, ReadWaits
  <2>4. QED
    BY <1>3, <2>1, <2>2, <2>3
<1>8. CASE Receive
  <2>1. UNCHANGED <<total, sent, loader, seq>> /\ pc = "body" /\ stage \in Asking
    BY <1>8 DEF Receive, KeepLine, mainVars, StageInv
  <2>2. Ways(Result)
    BY <1>8, <2>1, ConcludesWays DEF Receive
  <2>3. CASE Within
    <3>1. pend' = <<>> /\ rx' \in Rest /\ matched' = Append(matched, <<Current, Current>>)
      BY <1>1, <1>8, <2>3, ReceiveWaits
    <3> DEFINE x == <<Current, Current>>
    <3>2. x[1] = Current
      OBVIOUS
    <3> HIDE DEF x
    <3>3. LoaderInv'
      BY <1>1, <1>2, <2>1, <2>2, <3>1, <3>2, LoaderEnds DEF x
    <3>4. pc' = "send"
      BY <2>2, <2>3 DEF Ways
    <3>5. QED
      BY <1>3, <3>1, <3>3, <3>4
  <2>4. CASE stage = "reset"
    <3>1. \E x : matched' = matched \/ matched' = Append(matched, x)
      BY <1>8, ReceiveMatches
    <3>2. LoaderInv'
      BY <1>1, <1>2, <2>1, <2>2, <2>4, <3>1, LoaderEnds
    <3>3. stage' \in {"err", "boot1"}
      BY <2>2, <2>4 DEF Ways
    <3>4. QED
      BY <1>3, <3>2, <3>3 DEF Before
  <2>5. QED
    BY <2>1, <2>3, <2>4 DEF Asking
<1>9. CASE Timeout
  <2>1. UNCHANGED <<total, sent, loader, seq, matched>>
    BY <1>9 DEF Timeout, KeepLine, mainVars
  <2>2. Ways(ERR.COM_TIMEOUT) /\ pc # "send"
    BY <1>9, TimeoutWays
  <2>3. ~Within
    BY <1>1, <1>9, NoTimeout
  <2>4. stage # "upload" /\ stage' \in {"err", "boot1"}
    BY <2>2, <2>3 DEF Ways
  <2>5. LoaderInv'
    BY <1>1, <1>2, <2>1, <2>2, <2>4, LoaderEnds
  <2>6. QED
    BY <1>3, <2>4, <2>5 DEF Before
<1>10. CASE Deliver
  <2>1. UNCHANGED <<stage, pc, total, sent, loader, seq, matched>> /\ pend # <<>>
    BY <1>10 DEF Deliver, mainVars
  <2>2. LoaderInv'
    BY <1>1, <2>1, LoaderWithin
  <2>3. Within => Waiting'
    BY <1>1, <1>10, DeliverWaits
  <2>4. ~Quiet'
    BY <1>1, <2>1
  <2>5. QED
    BY <1>3, <2>1, <2>2, <2>3, <2>4
<1>11. CASE UNCHANGED uploaderVars
  <2>1. /\ UNCHANGED <<stage, pc, total, sent, loader, seq, matched, pend, rx, enc, len>>
    BY <1>11 DEF uploaderVars, mainVars, lineVars, reqVars
  <2>2. Kind' = Kind /\ Current' = Current
    BY <2>1 DEF Kind, Current
  <2>3. OwnText' = OwnText /\ OwnFrame' = OwnFrame
    BY <2>2 DEF OwnText, OwnFrame
  <2>4. Waiting' <=> Waiting
    BY <2>1, <2>2, <2>3 DEF Waiting
  <2>5. QED
    BY <1>1, <1>3, <2>1, <2>4, LoaderWithin
<1>12. ~Babble
  BY FaultsGrow DEF Babble
<1>13. QED
  BY <1>4, <1>5, <1>6, <1>7, <1>8, <1>9, <1>10, <1>11, <1>12, BetweenWays
  DEF UploaderNext, MainNext, PortNext, Request

\* Without a fault of the line the loader comes to have the whole image, of any length, and each
\* request of the upload is answered: no request is given up that the loader would have answered.
THEOREM FaultlessIsWhole == UploaderSpec => []FaultlessUploadWhole
<1>1. TileInv /\ LineInv /\ FaultlessInv => FaultlessUploadWhole
  <2>1. SUFFICES ASSUME TileInv, LineInv, FaultlessInv, stage = "end", sent # <<>>, faults = 0
                 PROVE  /\ loader = total
                        /\ \A i \in DOMAIN sent : \E j \in DOMAIN matched : matched[j][1] = sent[i].seq
    BY DEF FaultlessUploadWhole
  <2>2. LoaderInv
    BY <2>1 DEF FaultlessInv
  <2>3. DOMAIN sent = 1..Len(sent) /\ DOMAIN matched = 1..Len(matched)
    BY <2>1, LenProperties DEF TileInv, LineInv
  <2>4. loader = total
    BY <2>1, <2>2 DEF LoaderInv, Before
  <2>5. \A i \in 1..Len(sent) : Done(i)
    BY <2>1, <2>2 DEF LoaderInv
  <2>6. QED
    BY <2>3, <2>4, <2>5 DEF Done
<1>2. QED
  BY <1>1, OpenInit, OpenKept, TileInit, TileKept, LineInit, LineKept, FaultlessInit, FaultlessKept, PTL
  DEF UploaderSpec

=============================================================================

------------------------------- MODULE Uploader -----------------------------
(***************************************************************************)
(* main of winlib.cpp (COM_TESTING), its requests and the line: it opens   *)
(* the port, may send HCI commands, lists the images of a boot loader,     *)
(* uploads an image one request at a time, lists them again, may reset the *)
(* loader, and may put a captured upload together again. The loader and    *)
(* the line, which may lose, damage or delay what they carry, are external.*)
(* What is in the image and in the capture file is the subject of Upload.  *)
(***************************************************************************)
EXTENDS Integers, Sequences, NmpHdr

CONSTANTS Totals,      \* lengths the image file may have
          Options,     \* the command lines: records of port, n, i, r, t and o
          MaxFaults,   \* bound: faults of the line
          Noise        \* what may come before an answer: sequences of symbols

\* The characters, as far as a pattern or the end of an answer tells them apart.
Character == {"06", "09", "B", "oot detect", "oot valid", "CR", "LF", "other"}

ASSUME UploaderAssumption ==
  /\ Totals \subseteq Nat /\ MaxFaults \in Nat
  /\ Options \subseteq [port : BOOLEAN, n : BOOLEAN, i : BOOLEAN, r : BOOLEAN, t : BOOLEAN, o : BOOLEAN]
  /\ Noise \subseteq Seq(Character)

VARIABLES opt, total,  \* the command line, and the length of the image file
          stage,       \* where main is
          pc,          \* within a request: send, start, body
          len,         \* bytes of the start pattern matched so far
          enc,         \* symbols recv_buf has read
          rc,          \* main's result
          offset, size, seq,   \* upload's, and the next sequence number
          answer,      \* what the parser holds: the last answer, or nothing
          opened,      \* the handles of the port, the file, the log and the timer that are open
          capture,     \* the requests written to the capture file
          rx,          \* symbols received and not yet read
          pend,        \* answers on their way
          loader,      \* bytes of the image the boot loader has
          faults, slow,  \* faults so far; whether an answer missed its turn
          sent,        \* history: the upload requests
          matched      \* history: the sequence numbers of a request and its answer

mainVars == <<opt, total>>
reqVars == <<len, enc, answer>>
upVars == <<offset, size>>
lineVars == <<rx, pend, loader, faults, slow>>
uploaderVars == <<mainVars, stage, pc, reqVars, rc, upVars, seq, opened, capture, lineVars, sent, matched>>

ERR == [COM_TIMEOUT |-> -1, HCI_TIMEOUT |-> -2, NMP_DECODE |-> -3, NMP_HDR_BAD |-> -4,
        NMP_CRC_BAD |-> -5, FILE_NOT_FOUND |-> -6, LOAD_FAILURE |-> -7, NLIP_HDR_BAD |-> -8]

FirstSize == 297   \* 0x0129
NextSize == 340    \* 0x0154

NoAnswer == [kind |-> "none"]
FrameStart == <<"06", "09">>
BootDetect == <<"B", "oot detect">>
BootValid == <<"B", "oot valid">>

UploaderInit ==
  /\ opt \in Options /\ total \in Totals
  /\ stage = "begin" /\ pc = "send" /\ len = 0 /\ enc = <<>>
  /\ rc = 0 /\ offset = 0 /\ size = 0 /\ seq = 1 /\ answer = NoAnswer
  /\ opened = {} /\ capture = <<>>
  /\ rx = <<>> /\ pend = <<>> /\ loader = 0 /\ faults = 0 /\ slow = FALSE
  /\ sent = <<>> /\ matched = <<>>

-----------------------------------------------------------------------------
(* main between its calls.                                                  *)

KeepReq == UNCHANGED <<pc, reqVars, upVars, seq, capture, lineVars, sent, matched>>

\* The stages after the port is open and after the image is up.
AfterList1 == CASE opt.i -> "load" [] ~opt.i /\ opt.r -> "reset" [] OTHER -> "term"
AfterList2 == IF opt.r THEN "reset" ELSE "term"

\* LOG_Init, TMR_Init and, with -o, the capture file, to write or in test mode to read.
Begin ==
  /\ stage = "begin"
  /\ \E found \in (IF opt.o THEN BOOLEAN ELSE {TRUE}) :
       /\ opened' = {"log", "timer"} \cup (IF opt.o /\ found THEN {"file"} ELSE {})
       /\ stage' = CASE ~found -> "err" [] found /\ opt.port -> "open" [] OTHER -> "post"
  /\ UNCHANGED <<mainVars, rc>> /\ KeepReq

\* COM_Init, whose result is not looked at. ComPort::Start opens the device and two events, or
\* the device alone where its event mask cannot be set, or leaves nothing open.
Port == {"device", "osRead", "osWrite"}
Open ==
  /\ stage = "open"
  /\ \E handles \in {Port, {"device"}, {}} :
       /\ opened' = opened \cup handles
       /\ stage' = CASE handles # Port -> "term" [] handles = Port /\ opt.n -> "hci" [] OTHER -> "list1"
  /\ UNCHANGED <<mainVars, rc>> /\ KeepReq

\* COM_Term: ComPort::Stop closes the device of a port that is connected, and its read event.
Stopped == IF "osRead" \in opened THEN opened \ {"device", "osRead"} ELSE opened

\* load_file.
LoadFile ==
  /\ stage = "load"
  /\ \E found \in BOOLEAN :
       /\ stage' = IF found THEN "upload" ELSE "err"
       /\ rc' = IF found THEN rc ELSE ERR.LOAD_FAILURE
       /\ opened' = IF found THEN opened ELSE Stopped
  /\ UNCHANGED mainVars /\ KeepReq

\* COM_Term at the end of the port's use.
Term ==
  /\ stage = "term"
  /\ opened' = Stopped /\ stage' = "post"
  /\ UNCHANGED <<mainVars, rc>> /\ KeepReq

\* In test mode download opens its output file and loads the captured one, if it can.
TestResults == {0, ERR.FILE_NOT_FOUND, ERR.LOAD_FAILURE}
Test(result) ==
  /\ stage = "post" /\ (result < 0 => opt.t /\ opt.o)
  /\ stage' = IF opt.t /\ opt.o /\ result = 0 THEN "download" ELSE "err"
  /\ rc' = IF result = 0 THEN rc ELSE result
  /\ UNCHANGED <<mainVars, opened>> /\ KeepReq

\* A round of download ends, and says how far it is.
Downloaded(status) ==
  /\ stage = "download"
  /\ stage' = CASE status = "reading" -> "download" [] status = "crash" -> "crash" [] OTHER -> "err"
  /\ rc' = CASE status = "whole" -> 0 [] status = "bad header" -> ERR.NLIP_HDR_BAD [] OTHER -> rc
  /\ UNCHANGED <<mainVars, opened>> /\ KeepReq

\* The label err: CloseFile, TMR_Term and LOG_Term.
End ==
  /\ stage = "err"
  /\ stage' = "end"
  /\ opened' = opened \ {"file", "timer", "log"}
  /\ UNCHANGED <<mainVars, rc>> /\ KeepReq

-----------------------------------------------------------------------------
(* The HCI commands: what comes back is counted, not looked at.             *)

\* Two commands; when nothing answers one of them, a carriage return is sent and main
\* gives up. What the loader sends is gone by then.
HciCommands ==
  /\ stage = "hci"
  /\ \E n1, n2 \in 0..1 :
       /\ stage' = IF n1 = 0 \/ n2 = 0 THEN "err" ELSE "list1"
       /\ rc' = IF n1 = 0 \/ n2 = 0 THEN ERR.HCI_TIMEOUT ELSE rc
       /\ opened' = IF n1 = 0 \/ n2 = 0 THEN Stopped ELSE opened
  /\ UNCHANGED mainVars /\ KeepReq

-----------------------------------------------------------------------------
(* A request.                                                               *)

Kind == CASE stage \in {"list1", "list2"} -> "list" [] stage = "upload" -> "upload" [] stage = "reset" -> "reset"
Requesting == stage \in {"list1", "list2", "upload", "reset"}

\* The boot loader takes the bytes that come next, restarts at offset 0 and says what it
\* expects next.
Taken(r) == CASE r.kind = "upload" /\ r.off = 0 -> r.n
              [] r.kind = "upload" /\ r.off = loader /\ r.off > 0 -> loader + r.n
              [] OTHER -> loader

\* What comes in is a sequence of symbols: characters, and the text of an answer.
Char(c) == [sym |-> c]
Chars(cs) == [i \in DOMAIN cs |-> Char(cs[i])]
Text(r, good) == [sym |-> "text", kind |-> r.kind, seq |-> r.seq, good |-> good]
Frame(r, good) == <<Char("06"), Char("09"), Text(r, good), Char("CR"), Char("LF")>>
Symbols(r) ==
  CASE r.kind = "detect" -> Chars(BootDetect)
    [] r.kind = "valid" -> Chars(BootValid)
    [] OTHER -> Frame(r, TRUE)
Answers(r) ==
  IF r.kind = "reset" THEN <<r, [kind |-> "detect"], [kind |-> "valid"]>> ELSE <<r>>

\* How much of the image send_upload_next sends.
Wanted == IF size = 0 THEN FirstSize ELSE NextSize

Piece == IF offset + Wanted > total THEN total - offset ELSE Wanted

\* send_imagelist, send_upload and send_reset up to their receiving: the item buffer is
\* set up anew, which forgets the last answer. With a fault the line loses the request.
Send ==
  /\ Requesting /\ pc = "send"
  /\ LET r == [kind |-> Kind, seq |-> seq, off |-> offset, n |-> Piece]
     IN /\ size' = IF stage = "upload" THEN Piece ELSE size
        /\ sent' = IF stage = "upload" THEN Append(sent, r) ELSE sent
        /\ capture' = IF opt.o /\ ~opt.t THEN Append(capture, r) ELSE capture
        /\ \/ /\ pend' = pend \o Answers(r) /\ loader' = Taken(r) /\ UNCHANGED faults
           \/ /\ faults < MaxFaults /\ faults' = faults + 1
              /\ UNCHANGED <<pend, loader>>
  /\ seq' = (seq + 1) % 256
  /\ answer' = NoAnswer /\ len' = 0 /\ enc' = <<>> /\ pc' = "start"
  /\ UNCHANGED <<mainVars, stage, rc, offset, opened, rx, slow, matched>>

\* What a damaged answer comes to: nothing, a frame with a wrong check code, one without its
\* text, or one without its end.
Damaged(r) ==
  IF r.kind \in {"detect", "valid"} THEN {<<>>}
  ELSE {<<>>, Frame(r, FALSE), <<Char("06"), Char("09"), Char("CR"), Char("LF")>>,
        <<Char("06"), Char("09"), Text(r, TRUE)>>}

\* The line brings what is on its way: as it is, or lost, damaged, cut, or behind noise.
Deliver ==
  /\ pend # <<>> /\ pend' = Tail(pend)
  /\ LET r == Head(pend)
     IN \/ /\ rx' = rx \o Symbols(r) /\ UNCHANGED faults
        \/ /\ faults < MaxFaults /\ faults' = faults + 1
           /\ \E t \in Damaged(r) \cup {Chars(x) \o Symbols(r) : x \in Noise} : rx' = rx \o t
  /\ UNCHANGED <<mainVars, stage, pc, reqVars, rc, upVars, seq, opened, capture, loader, slow,
                 sent, matched>>

\* A line may send characters without end, none of them of a pattern: all of them are one fault.
\* They can keep main where recv_buf_start looks for a pattern; recv_buf ends when its buffer is full.
Babble ==
  /\ pc = "start" /\ rx = <<>> /\ MaxFaults > 0
  /\ rx' = <<Char("other")>> /\ faults' = IF faults = 0 THEN 1 ELSE faults
  /\ UNCHANGED <<mainVars, stage, pc, reqVars, rc, upVars, seq, opened, capture, pend, loader, slow,
                 sent, matched>>

KeepLine == UNCHANGED <<mainVars, size, seq, capture, pend, loader, sent>>

\* What main makes of a request's result, a boot text's, or a failure it passes on.

\* Mutant: the port stays open.
FailsOpen(code) ==
  /\ stage' = "err" /\ rc' = code /\ pc' = "send" /\ UNCHANGED <<offset, opened>>

Fails(code) ==
  /\ stage' = "err" /\ rc' = code /\ opened' = Stopped
  /\ pc' = "send" /\ UNCHANGED offset
Goes(to, at) ==
  /\ stage' = to /\ rc' = 0 /\ pc' = at /\ UNCHANGED <<opened, offset>>

\* upload looks at no result: it goes on behind what it sent.
Advances(next) ==
  /\ offset' = next
  /\ stage' = IF next < total THEN "upload" ELSE "list2"
  /\ rc' = IF next < total THEN rc ELSE 0
  /\ pc' = "send" /\ UNCHANGED opened

\* Mutant: what was not answered is sent again.
UploadedRetry(result) == Advances(IF result < 0 THEN offset ELSE offset + size)

\* Mutant: every piece counts as a long one.
UploadedStep(result) == Advances(offset + NextSize)

Uploaded(result) == Advances(offset + size)

Succeeds ==
  \/ stage = "list1" /\ Goes(AfterList1, "send")
  \/ stage = "list2" /\ Goes(AfterList2, "send")
  \/ stage = "reset" /\ Goes("boot1", "start")
GivesUp(result) == Fails(IF stage \in {"boot1", "boot2"} THEN result ELSE -1)
Concludes(result) ==
  \/ stage # "upload" /\ result = 0 /\ Succeeds
  \/ stage # "upload" /\ result < 0 /\ GivesUp(result)
  \/ stage = "upload" /\ Uploaded(result)

\* recv_buf_start: a character that breaks the pattern is dropped with what matched.
Pattern == CASE stage = "boot1" -> BootDetect [] stage = "boot2" -> BootValid [] OTHER -> FrameStart
Match ==
  /\ pc = "start" /\ rx # <<>> /\ rx' = Tail(rx)
  /\ LET n == IF Head(rx).sym = Pattern[len + 1] THEN len + 1 ELSE 0
     IN IF n < Len(Pattern) THEN len' = n /\ UNCHANGED <<stage, rc, pc, opened, offset>>
        ELSE /\ len' = 0
             /\ CASE stage = "boot1" -> Goes("boot2", "start")
                  [] stage = "boot2" -> Goes("term", "send")
                  [] OTHER -> pc' = "body" /\ UNCHANGED <<stage, rc, opened, offset>>
  /\ UNCHANGED <<enc, answer, faults, slow, matched>> /\ KeepLine

\* recv_buf up to the carriage return: the line feed behind it stays.
Read ==
  /\ pc = "body" /\ rx # <<>> /\ Head(rx).sym # "CR"
  /\ rx' = Tail(rx) /\ enc' = Append(enc, Head(rx))
  /\ UNCHANGED <<stage, rc, pc, opened, offset, len, answer, faults, slow, matched>> /\ KeepLine

\* The result of recv_nmp_rsp for the symbols read: the text comes first or none is
\* decoded; the header tells the kind, but nobody compares the sequence number.
Result ==
  CASE enc = <<>> \/ enc[1].sym # "text" -> ERR.NMP_DECODE
    [] OTHER -> IF Answered(enc[1].kind) # Answered(Kind) THEN ERR.NMP_HDR_BAD
                ELSE IF ~enc[1].good THEN ERR.NMP_CRC_BAD ELSE 0

Receive ==
  /\ pc = "body" /\ rx # <<>> /\ Head(rx).sym = "CR"
  /\ rx' = Tail(rx)
  /\ answer' = IF Result = 0 THEN enc[1] ELSE NoAnswer
  /\ matched' = IF Result = 0 THEN Append(matched, <<(seq + 255) % 256, enc[1].seq>>) ELSE matched
  /\ Concludes(Result)
  /\ UNCHANGED <<len, enc, faults, slow>> /\ KeepLine

\* Mutant: the counter runs while characters are there.
SilentNot == pc \in {"start", "body"}

\* Mutant: inside a frame nobody counts.
SilentOutside == pc = "start" /\ rx = <<>>

Silent == pc \in {"start", "body"} /\ rx = <<>>

\* Nothing comes for as long as the counter allows. What is still on its way is late:
\* a fault of the line.
Timeout ==
  /\ Silent
  /\ IF pend = <<>> THEN UNCHANGED <<faults, slow>>
     ELSE faults < MaxFaults /\ faults' = faults + 1 /\ slow' = TRUE
  /\ IF stage = "upload" THEN Uploaded(ERR.COM_TIMEOUT) ELSE GivesUp(ERR.COM_TIMEOUT)
  /\ len' = 0
  /\ UNCHANGED <<enc, answer, rx, matched>> /\ KeepLine

Request == Send \/ Match \/ Read \/ Receive \/ Timeout
PortNext == Open \/ LoadFile \/ Term \/ HciCommands \/ Request \/ Deliver
MainNext == Begin \/ PortNext \/ End
UploaderNext ==
  \/ MainNext \/ Babble
  \/ \E result \in TestResults : Test(result)
  \/ \E status \in {"reading", "whole", "bad header", "crash"} : Downloaded(status)

UploaderSpec == UploaderInit /\ [][UploaderNext]_uploaderVars

-----------------------------------------------------------------------------
\* The upload requests cut the image into consecutive pieces, none of them empty unless
\* the image is, and when main is past them they cover it: whatever was answered.
RequestsTileImage ==
  /\ \A i \in DOMAIN sent : /\ sent[i].off = IF i = 1 THEN 0 ELSE sent[i - 1].off + sent[i - 1].n
                            /\ sent[i].n > 0 \/ total = 0
  /\ stage = "list2" => sent[Len(sent)].off + sent[Len(sent)].n = total

\* The answer a request is given is its own, unless an earlier one came too late: the
\* sequence number that would tell is not looked at.
AnswersInStep == ~slow => \A i \in DOMAIN matched : matched[i][1] = matched[i][2]

\* Where the line made no fault, the loader has the whole image at the end and has
\* answered every request.
FaultlessUploadWhole ==
  (stage = "end" /\ sent # <<>> /\ faults = 0) =>
    /\ loader = total
    /\ \A i \in DOMAIN sent : \E j \in DOMAIN matched : matched[j][1] = sent[i].seq

\* Whatever fails on the way, main closes the file, the timer, the log and the port. What it
\* leaves open is the write event of a port that was connected, which nobody closes, or the
\* device of a port that never came up, which made no request.
ClosedAtExit ==
  stage = "end" => opened \subseteq {"osWrite"} \/ (opened = {"device"} /\ sent = <<>>)

\* Once it opens the port, main comes to give it back, whatever is lost, damaged or late: unless
\* characters keep coming while it looks for a pattern, which set its counter anew each time.
PortGivenBack ==
  (stage = "open" ~> stage \in {"post", "err"}) \/ []<>(pc = "start" /\ rx # <<>>)
=============================================================================

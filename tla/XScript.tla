------------------------------- MODULE XScript -------------------------------
(***************************************************************************)
(* The script thread of winlib.cpp (RUN_TESTING): xScript::Run executes the*)
(* records of Script, one step per record, per byte and per turn of a      *)
(* waiting loop, while its timer runs, bytes come in at the serial port, a *)
(* client waits for the result and may kill the thread.                    *)
(***************************************************************************)
EXTENDS Script

CONSTANTS In,          \* the bytes the device may send
          MaxIn,       \* bound: bytes received and not yet read
          MaxTimeout   \* TMR_TIMEOUT_MAX, and bound of what `waited` counts

VARIABLES pc,       \* where Run is: idle, next, exec, txfile, delay, wait, read, end, done,
                    \* or wild, where the code has used memory that is not its own
          rec, cnt, Result, bSuccess, Timeout,  \* its locals
          tmr,      \* its timer: the ticks to go, 0 when stopped, and Flag
          dying,    \* _isDying
          e,        \* the event of WaitResult
          client,   \* RunScript's caller: idle, waiting, back
          got,      \* what RunScript returned to it
          com,      \* COM_Init has opened the port
          inq,      \* bytes received and not yet read
          taken,    \* history: the last bytes the running rx has read, as many as its text has
          waited    \* history: ticks since it began

runVars == <<pc, rec, cnt, Result, bSuccess, Timeout, tmr>>
clientVars == <<dying, e, client, got>>
comVars == <<com, inq>>
histVars == <<taken, waited>>
vars == <<scriptVars, runVars, clientVars, comVars, histVars>>

XSCRIPT == [PROCESSING |-> 1, SUCCESS |-> 0, EXIT |-> -1, FILE_NOT_FOUND |-> -2, ERROR |-> -3,
            COMPORT_NA |-> -4, TIMEOUT |-> -5, LABEL_NOT_FOUND |-> -6, VAR_NOT_FOUND |-> -7,
            BUF_NOT_FOUND |-> -8, RET_UNDEFINED |-> -10, CALL_OVERFLOW |-> -11, ABORTED |-> -12]

Init ==
  /\ ScriptInit
  /\ pc = "idle" /\ rec = [iType |-> "none"] /\ cnt = 0
  /\ Result = XSCRIPT.PROCESSING /\ bSuccess = TRUE /\ Timeout = MaxTimeout
  /\ tmr = [left |-> 0, Flag |-> 0]
  /\ dying = FALSE /\ e = FALSE /\ client = "idle" /\ got = XSCRIPT.PROCESSING
  /\ com = FALSE /\ inq = <<>>
  /\ taken = <<>> /\ waited = 0

-----------------------------------------------------------------------------
(* The records that take one step.                                          *)

\* The rest of the SCRIPT object, which a run leaves alone.
KeepFile == UNCHANGED <<mode, file, linenum, Rec, RecCount, reach, rc, bin, loads>>

Now == [Result |-> Result, bSuccess |-> bSuccess, RecIndex |-> RecIndex,
        RecReturn |-> RecReturn, Data |-> Data]

Failed(code) == [Now EXCEPT !.Result = code, !.bSuccess = FALSE]
Jump(i) == [Now EXCEPT !.RecIndex = i]

\* The record is over: the loop of Run goes on or, with bSuccess false, ends.
Becomes(o) ==
  /\ Result' = o.Result /\ bSuccess' = o.bSuccess
  /\ RecIndex' = o.RecIndex /\ RecReturn' = o.RecReturn /\ Data' = o.Data
  /\ pc' = IF o.bSuccess THEN "next" ELSE "end"
  /\ KeepFile

Exec(type) == pc = "exec" /\ rec.iType = type

KeepTimer == UNCHANGED <<rec, Timeout, tmr>>
KeepRest == UNCHANGED <<clientVars, comVars, histVars, cnt>> /\ KeepTimer

Stay == UNCHANGED <<Result, bSuccess, RecIndex, RecReturn, Data>> /\ KeepFile

\* The port is used through a pointer that is NULL until COM_Init and after COM_Term.
NoPort == ~com /\ pc' = "wild" /\ Stay

\* Records that only write to the log or the screen, or stand there.
Plain(type) == Exec(type) /\ Becomes(Now) /\ KeepRest
LogRecord == Plain("log")
TxRecord == Exec("tx") /\ (NoPort \/ (com /\ Becomes(Now))) /\ KeepRest
EchoRecord == Plain("echo")
VarRecord == Plain("var")
LabelRecord == Plain("label")

\* A missing label sets the result, but the script goes on.
CallRecord ==
  /\ Exec("call")
  /\ LET i == FindTypeRecord("label", rec.iNext)
     IN Becomes(IF i < 0 THEN [Now EXCEPT !.Result = XSCRIPT.LABEL_NOT_FOUND]
                ELSE IF ~CanPush THEN Failed(XSCRIPT.CALL_OVERFLOW)
                ELSE [Jump(i) EXCEPT !.RecReturn = Pushed])
  /\ KeepRest

RetRecord ==
  /\ Exec("ret")
  /\ Becomes(IF CanPop THEN [Jump(Last(RecReturn)) EXCEPT !.RecReturn = Popped]
             ELSE Failed(XSCRIPT.RET_UNDEFINED))
  /\ KeepRest

\* Each pair of txbuf names a variable whose elements are sent.
TxBufRecord ==
  /\ Exec("txbuf")
  /\ LET found(k) == FindTypeRecord("var", IntAt(rec, 2 * k - 1).var) >= 0
     IN IF rec.iNext > 0 /\ found(1) /\ ~com THEN NoPort
        ELSE Becomes(IF \A k \in 1..rec.iNext : found(k) THEN Now ELSE Failed(XSCRIPT.BUF_NOT_FOUND))
  /\ KeepRest

\* The variable, value and increment of goto and test.
Operand(k, default) == IF rec.iLen >= IntSize * (k + 1) THEN IntAt(rec, k) ELSE default
CondVar == FindTypeRecord("var", IntAt(rec, 0).var)
CondHolds == EvalExpr(rec.bFmt, GetVar(CondVar, IntAt(rec, 0).idx), Stored(CondVar, Operand(1, 0)))

\* goto jumps, and increments its variable, unless the condition holds.
GotoRecord ==
  /\ Exec("goto")
  /\ LET i == FindTypeRecord("label", rec.iNext)
     IN Becomes(IF i < 0 THEN Failed(XSCRIPT.LABEL_NOT_FOUND)
                ELSE IF rec.iLen < IntSize THEN Jump(i)
                ELSE IF CondVar < 0 THEN Failed(XSCRIPT.VAR_NOT_FOUND)
                ELSE IF CondHolds THEN Now
                ELSE LET idx == IntAt(rec, 0).idx
                     IN [Jump(i) EXCEPT !.Data = SetVar(CondVar, GetVar(CondVar, idx)
                                                                 + Operand(2, 0), idx)])
  /\ KeepRest

\* test skips records, and sets its variable, unless the condition holds.
TestRecord ==
  /\ Exec("test")
  /\ Becomes(IF rec.iLen < IntSize THEN Now
             ELSE IF CondVar < 0 THEN Failed(XSCRIPT.VAR_NOT_FOUND)
             ELSE IF CondHolds THEN Now
             ELSE [Jump(RecIndex + rec.iNext) EXCEPT !.Data =
                     IF rec.iLen >= 3 * IntSize
                     THEN SetVar(CondVar, IntAt(rec, 2), IntAt(rec, 0).idx) ELSE Data])
  /\ KeepRest

\* exit leaves its code in Result and goes behind the last record.
ExitRecord ==
  /\ Exec("exit")
  /\ Becomes([Jump(RecCount) EXCEPT !.Result = IF rec.iLen = 0 THEN XSCRIPT.EXIT ELSE IntAt(rec, 0)])
  /\ KeepRest

\* serial 1 opens the port, which fails when it is open; serial 0 closes it.
SerialRecord ==
  /\ Exec("serial")
  /\ \E works \in {FALSE, ~com} :
       LET opens == rec.iNext = 1 /\ rec.iLen >= IntSize
       IN /\ Becomes(IF opens /\ ~works THEN Failed(XSCRIPT.COMPORT_NA) ELSE Now)
          /\ com' = IF opens THEN com \/ works ELSE (com /\ rec.iNext # 0)
          /\ inq' = IF rec.iNext = 0 THEN <<>> ELSE inq
  /\ UNCHANGED <<clientVars, histVars, cnt>> /\ KeepTimer

\* A type that no case names, such as that of a txfile line without tokens.
UnknownRecord == Exec("data") /\ Becomes(Failed(XSCRIPT.ERROR)) /\ KeepRest

\* Mutant: the timer is started, but its flag is not cleared.
RestartedFlagged(ticks) == IF ticks > 0 THEN [tmr EXCEPT !.left = ticks] ELSE [tmr EXCEPT !.left = 0]

\* Mutant: the timer is stopped and not started.
RestartedNever(ticks) == [left |-> 0, Flag |-> 0]

\* TMR_Stop, and TMR_Start when there is a timeout: only TMR_Start clears Flag.
Restarted(ticks) == IF ticks > 0 THEN [left |-> ticks, Flag |-> 0] ELSE [tmr EXCEPT !.left = 0]

TimeoutRecord ==
  /\ Exec("timeout") /\ Becomes(Now)
  /\ Timeout' = IntAt(rec, 0) /\ tmr' = Restarted(IntAt(rec, 0))
  /\ UNCHANGED <<clientVars, comVars, histVars, cnt, rec>>

-----------------------------------------------------------------------------
(* The records that loop.                                                   *)

\* The name is read where the parser has put the type of the file, so whether
\* such a file exists is open; cnt is the number of blocks it has.
TxFileRecord ==
  /\ Exec("txfile")
  /\ \/ Becomes(Failed(XSCRIPT.FILE_NOT_FOUND)) /\ UNCHANGED cnt
     \/ \E blocks \in 0..2 : cnt' = blocks /\ pc' = "txfile" /\ Stay
  /\ UNCHANGED <<clientVars, comVars, histVars>> /\ KeepTimer

TxFileBlock ==
  /\ pc = "txfile"
  /\ IF cnt > 0 /\ ~com THEN NoPort /\ UNCHANGED cnt
     ELSE IF cnt <= 1 THEN Becomes(Now) /\ UNCHANGED cnt
     ELSE IF dying THEN Becomes(Failed(XSCRIPT.ABORTED)) /\ UNCHANGED cnt
     ELSE cnt' = cnt - 1 /\ UNCHANGED pc /\ Stay
  /\ UNCHANGED <<clientVars, comVars, histVars>> /\ KeepTimer

DelayRecord ==
  /\ Exec("delay") /\ cnt' = IntAt(rec, 0) /\ pc' = "delay" /\ Stay
  /\ UNCHANGED <<clientVars, comVars, histVars>> /\ KeepTimer

\* A dying thread leaves the delay with Result set, but goes on.
DelayTurn ==
  /\ pc = "delay"
  /\ IF cnt <= 0 THEN Becomes(Now) /\ UNCHANGED cnt
     ELSE IF dying THEN Becomes([Now EXCEPT !.Result = XSCRIPT.ABORTED])
                        /\ UNCHANGED cnt
     ELSE cnt' = cnt - 1 /\ UNCHANGED pc /\ Stay
  /\ UNCHANGED <<clientVars, comVars, histVars>> /\ KeepTimer

\* rx and skip restart the timer; skip first looks for its variable.
SkipVar == Operand(1, [var |-> -1, idx |-> 0])
WaitRecord ==
  /\ Exec("rx") \/ Exec("skip")
  /\ tmr' = Restarted(Timeout) /\ cnt' = 0 /\ taken' = <<>> /\ waited' = 0
  /\ IF rec.iType = "skip" /\ SkipVar.var # -1 /\ FindTypeRecord("var", SkipVar.var) < 0
     THEN Becomes(Failed(XSCRIPT.VAR_NOT_FOUND))
     ELSE pc' = "wait" /\ Stay
  /\ UNCHANGED <<clientVars, comVars, rec, Timeout>>

\* The head of the waiting loop: dying, then the timeout, which fails or jumps.
WaitTurn ==
  /\ pc = "wait"
  /\ LET i == FindTypeRecord("label", rec.iNext)
     IN IF dying THEN Becomes(Failed(XSCRIPT.ABORTED))
        ELSE IF tmr.Flag > 0
        THEN Becomes(IF rec.iNext = -1 THEN Failed(XSCRIPT.TIMEOUT)
                     ELSE IF i >= 0 THEN Jump(i) ELSE Failed(XSCRIPT.LABEL_NOT_FOUND))
        ELSE pc' = "read" /\ Stay
  /\ UNCHANGED <<clientVars, comVars, histVars, cnt>> /\ KeepTimer

\* No byte is there: Sleep(5) and back to the head of the loop.
ReadNone ==
  /\ pc = "read" /\ inq = <<>>
  /\ NoPort \/ (com /\ pc' = "wait" /\ Stay)
  /\ KeepRest

\* While bytes come, neither _isDying nor the timer is looked at.
Take == inq # <<>> /\ inq' = Tail(inq)
Recent(s, n) == IF Len(s) > n THEN SubSeq(s, Len(s) - n + 1, Len(s)) ELSE s

\* Mutant: a byte that does not match is skipped and the match goes on.
RxByteSkips ==
  /\ pc = "read" /\ rec.iType = "rx" /\ Take
  /\ cnt' = IF cnt < rec.iLen /\ Head(inq) = BytesOf(rec)[cnt + 1] THEN cnt + 1 ELSE cnt
  /\ IF cnt' >= rec.iLen THEN Becomes(Now) ELSE UNCHANGED pc /\ Stay
  /\ taken' = Recent(Append(taken, Head(inq)), rec.iLen)
  /\ UNCHANGED <<clientVars, com, waited>> /\ KeepTimer

\* rx: the byte goes on with the text, or the match starts again after it.
RxByte ==
  /\ pc = "read" /\ rec.iType = "rx" /\ Take
  /\ cnt' = IF cnt < rec.iLen /\ Head(inq) = BytesOf(rec)[cnt + 1] THEN cnt + 1 ELSE 0
  /\ IF cnt' >= rec.iLen THEN Becomes(Now) ELSE UNCHANGED pc /\ Stay
  /\ taken' = Recent(Append(taken, Head(inq)), rec.iLen)
  /\ UNCHANGED <<clientVars, com, waited>> /\ KeepTimer

\* skip: the byte is stored in the variable, when there is one.
SkipByte ==
  /\ pc = "read" /\ rec.iType = "skip" /\ Take
  /\ cnt' = cnt + 1
  /\ pc' = IF cnt' >= IntAt(rec, 0) THEN "next" ELSE pc
  /\ Data' = IF SkipVar.var = -1 THEN Data
             ELSE SetVar(FindTypeRecord("var", SkipVar.var), Head(inq), SkipVar.idx + cnt)
  /\ UNCHANGED <<Result, bSuccess, RecIndex, RecReturn>> /\ KeepFile
  /\ UNCHANGED <<clientVars, com, histVars>> /\ KeepTimer

-----------------------------------------------------------------------------
(* The loop of Run, and those around it.                                    *)

\* GetNextRec; a dying thread leaves the loop with bSuccess still true.
NextRecord ==
  /\ pc = "next" /\ RecIndex < RecCount /\ (RecIndex >= 0 \/ dying)
  /\ RecIndex' = RecIndex + 1
  /\ IF dying THEN pc' = "end" /\ Result' = XSCRIPT.ABORTED /\ UNCHANGED rec
     ELSE pc' = "exec" /\ rec' = Rec[RecIndex + 1] /\ UNCHANGED Result
  /\ UNCHANGED <<cnt, bSuccess, Timeout, tmr, RecReturn, Data, clientVars, comVars, histVars>>
  /\ KeepFile

\* A test has gone back over the first record: GetNextRec, which looks for the end of the table
\* only, takes what lies before it.
WildRecord ==
  /\ pc = "next" /\ RecIndex < 0 /\ RecCount > 0 /\ ~dying
  /\ pc' = "wild" /\ Stay /\ KeepRest

NoMoreRecords ==
  /\ pc = "next" /\ RecIndex >= RecCount /\ pc' = "end" /\ Stay
  /\ KeepRest

\* The timer is stopped and deleted before the event is released.
Finish ==
  /\ pc = "end" /\ pc' = "done"
  /\ Result' = IF bSuccess THEN XSCRIPT.SUCCESS ELSE Result
  /\ tmr' = [left |-> 0, Flag |-> 0] /\ e' = TRUE
  /\ UNCHANGED <<rec, cnt, bSuccess, Timeout, dying, client, got, comVars, histVars,
                 RecIndex, RecReturn, Data>>
  /\ KeepFile

\* Records behind a blank line may point beside their data; and what was written past the space
\* may have been somebody's.
Shifted == \E k \in 1..RecCount : Rec[k].iType = "data" /\ Rec[k].iLen # 0
Overrun == reach > Data.size

\* main runs what Load or Loadbin returned 0 for; Run starts the timer. The compiled file and the
\* number of loads are of no use from here on.
RunScript ==
  /\ pc = "idle" /\ mode \in {"loaded", "failed"} /\ rc = 0
  /\ pc' \in (IF Shifted THEN {"wild"} ELSE IF Overrun THEN {"next", "wild"} ELSE {"next"})
  /\ RecIndex' = 0 /\ client' = "waiting"
  /\ Timeout' = MaxTimeout /\ tmr' = [left |-> MaxTimeout, Flag |-> 0]
  /\ UNCHANGED <<rec, cnt, Result, bSuccess, dying, e, got, comVars, histVars, RecReturn, Data>>
  /\ bin' = NoBin /\ loads' = 0
  /\ UNCHANGED <<mode, file, linenum, Rec, RecCount, reach, rc>>

\* The event is reset by the wait that it ends.
WaitResult ==
  /\ client = "waiting" /\ e
  /\ client' = "back" /\ e' = FALSE /\ got' = Result
  /\ UNCHANGED <<dying, scriptVars, runVars, comVars, histVars>>

\* Kill's _isDying++ and FlushThread; its wait for the thread's end gives up.
Kill ==
  /\ pc # "idle" /\ ~dying
  /\ dying' = TRUE /\ e' = TRUE
  /\ UNCHANGED <<client, got, scriptVars, runVars, comVars, histVars>>

\* A tick of the timer thread.
Tick ==
  /\ pc \notin {"idle", "done", "wild"} /\ tmr.left > 0
  /\ tmr' = [left |-> tmr.left - 1, Flag |-> IF tmr.left = 1 THEN tmr.Flag + 1 ELSE tmr.Flag]
  /\ waited' = IF waited < MaxTimeout THEN waited + 1 ELSE waited
  /\ UNCHANGED <<scriptVars, pc, rec, cnt, Result, bSuccess, Timeout, clientVars, comVars,
                 taken>>

\* A byte arrives at the open port.
Arrive ==
  /\ com /\ Len(inq) < MaxIn /\ pc \notin {"idle", "done", "wild"}
  /\ \E b \in In : inq' = Append(inq, b)
  /\ UNCHANGED <<scriptVars, runVars, clientVars, com, histVars>>

RunStep == \/ NextRecord \/ WildRecord \/ NoMoreRecords \/ Finish
           \/ LogRecord \/ TxRecord \/ EchoRecord \/ VarRecord \/ LabelRecord \/ CallRecord \/ RetRecord \/ TxBufRecord \/ GotoRecord \/ TestRecord
           \/ ExitRecord \/ SerialRecord \/ UnknownRecord \/ TimeoutRecord
           \/ TxFileRecord \/ TxFileBlock \/ DelayRecord \/ DelayTurn
           \/ WaitRecord \/ WaitTurn \/ ReadNone \/ RxByte \/ SkipByte

LoadStep == pc = "idle" /\ ScriptNext /\ UNCHANGED <<runVars, clientVars, comVars, histVars>>

Next == LoadStep \/ RunScript \/ RunStep \/ WaitResult \/ Kill \/ Tick \/ Arrive

Spec == Init /\ [][Next]_vars

\* The thread runs and its timer ticks.
FairSpec == Spec /\ WF_vars(RunStep) /\ WF_vars(Tick)

-----------------------------------------------------------------------------
(* Properties.                                                              *)

\* The record that comes next is one of the table or the one behind it, but for a test whose
\* offset leads outside.
InTable ==
  \/ RecIndex \in 0..RecCount
  \/ \E k \in 1..RecCount : Rec[k].iType = "test" /\ RecIndex - (k + Rec[k].iNext) \in 0..1

\* No line writes past the data space, but for the 0 behind a text and for a "[n]" text of a buf
\* line that is not its first: by no more than the line had taken before.
WritesInSpace ==
  reach > Data.size =>
    \E i \in 1..linenum :
      \/ file[i].key \in {"tx", "rx", "echo"} /\ reach = Data.size + 1
      \/ file[i].key = "buf" /\ Len(file[i].args) > 2 /\ reach <= 2 * Data.size

TypeOK ==
  /\ mode \in {"idle", "reading", "loaded", "failed", "crashed"}
  /\ RecCount \in 0..(MaxRec - 1) /\ Len(Rec) <= MaxRec
  /\ IF pc = "idle" THEN RecIndex \in 0..MaxRec ELSE InTable
  /\ Len(RecReturn) <= MaxCalls
  /\ Len(Data.cells) <= Data.size /\ WritesInSpace
  /\ pc \in {"idle", "next", "exec", "txfile", "delay", "wait", "read", "end", "done", "wild"}
  /\ tmr.left \in 0..MaxTimeout /\ tmr.Flag \in 0..1
  /\ bSuccess \in BOOLEAN /\ dying \in BOOLEAN /\ e \in BOOLEAN

\* The lines of f that make records, and how many of them stand before the first blank one.
RecordLines(f) == SelectSeq(f, LAMBDA l : l.key \notin {"//", "data"})
Certain(f) ==
  LET blanks == {k \in 1..Len(RecordLines(f)) : RecordLines(f)[k].key = "blank"}
  IN IF blanks = {} THEN Len(RecordLines(f)) ELSE (CHOOSE k \in blanks : \A j \in blanks : k <= j) - 1

\* A source is loaded whole or not at all (one that runs out of room in a tx
\* line is not loaded although Load returns 0), a blank line as a record that says nothing.
\* Each record before a blank line points at the bytes or numbers of its own line, no two at the
\* same ones; saving and loading them again elsewhere changes nothing of that.
RecordsOfFile ==
  pc = "idle" /\ mode \notin {"reading", "crashed"} =>
    /\ RecCount \in {0, Len(RecordLines(file))}
    /\ \A k \in 1..RecCount : k <= Certain(file) =>
         LET l == RecordLines(file)[k]
         IN /\ Rec[k].pData >= Data.base
            /\ Rec[k].pData + Rec[k].iLen <= Data.base + Len(Data.cells)
            /\ l.key \in {"tx", "rx", "echo"} => BytesOf(Rec[k]) = l.args[1]
            /\ l.key = "var" => \A i \in 2..Len(l.args) : IntAt(Rec[k], i - 2) = l.args[i]
            /\ l.key \in {"goto", "test"} =>
                 l.args[1] = Rec[k].iNext /\ (Len(l.args) > 1 => IntAt(Rec[k], 0) = l.args[2])
    /\ \A j, k \in 1..RecCount :
         j < k /\ k <= Certain(file) => Rec[j].pData + Rec[j].iLen <= Rec[k].pData

\* Wherever jumps and skips have led, a ret goes behind a call.
ReturnsFollowCalls ==
  \A i \in 1..Len(RecReturn) : RecReturn[i] > 0 /\ Rec[RecReturn[i]].iType = "call"

\* rx goes on only after a timeout or when the last bytes it has read are its text.
RxEndsWithText ==
  [][pc = "read" /\ rec.iType = "rx" /\ pc' = "next" =>
       IsSuffix(BytesOf(rec), taken')]_vars

\* While there is a timeout, a wait gives up only after that many ticks, and
\* not for a tick that an earlier record has waited.
TimeoutEarned ==
  [][pc = "wait" /\ pc' \notin {"wait", "read"} /\ ~dying /\ Timeout > 0
       => waited >= Timeout]_vars

\* The device keeps sending while Run reads: the loops that take bytes look at nothing else.
Talks == []<>(pc = "read" /\ inq # <<>>)

\* A killed thread ends, whatever record it is in.
KilledEnds == dying ~> pc \in {"done", "wild"}

\* A wait with a timeout ends.
WaitEnds == (pc = "wait" /\ Timeout > 0) ~> pc \notin {"wait", "read"}

\* The caller of RunScript, which waits for the thread, does not wait for ever when it
\* kills the thread, nor when there is a timeout: as long as the device falls silent.
WaitsAreBounded == (KilledEnds /\ WaitEnds) \/ Talks
=============================================================================

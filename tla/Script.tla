------------------------------- MODULE Script -------------------------------
(***************************************************************************)
(* The script records of src/src/SCRIPT.CPP: reading a source line by line,*)
(* saving and loading the compiled records, and what the interpreter asks  *)
(* of them.  A line is a key word and its tokens: ints, [var, idx] for     *)
(* "n@idx", conditions, and texts as sequences of bytes.  In a text a byte *)
(* below 32 is written as an escape; WrongEsc and WrongHex are the two     *)
(* escapes that cannot be read.                                            *)
(***************************************************************************)
EXTENDS Integers, SequencesExt

CONSTANTS Files,      \* the sources that may be loaded: sequences of lines
          MaxRec,     \* SCRIPT_MAX_REC
          MaxCalls,   \* SCRIPT_MAX_CALLS
          MaxLoads,   \* bound: how often a client calls Load
          Leftovers,  \* what a count may hold that the code has not set
          WrongEsc, WrongHex, Pad

ASSUME MaxRecAssumption == MaxRec \in Nat \ {0}
ASSUME MaxCallsAssumption == MaxCalls \in Nat
ASSUME LeftoversAssumption == Leftovers \subseteq Int

VARIABLES mode,       \* what the object is doing: idle, reading, loaded, failed, crashed
          file,       \* the source being read or last read
          linenum,    \* lines read of it
          Rec,        \* the records, Rec[RecIndex] of the code at RecIndex + 1
          RecCount, RecIndex,
          RecReturn,  \* the return records; its length is RecCalls
          Data,       \* the data space: its address and size, the cells written, and Ptr
          reach,      \* history: the cells from the space's first to the last one this Load wrote
          rc,         \* lasterr, and what the last Load or Loadbin returned
          bin,        \* the compiled file, and as a history the source it is of
          loads

scriptVars == <<mode, file, linenum, Rec, RecCount, RecIndex, RecReturn, Data,
                reach, rc, bin, loads>>

NoData == [base |-> 0, size |-> 0, cells |-> <<>>, Ptr |-> 0]
NoBin == [count |-> 0, size |-> 0, recs |-> <<>>, cells |-> <<>>, of |-> <<>>]

\* DataSpace(): each new one lies elsewhere.
DataSpaceAt(n, base) == [base |-> base, size |-> n, cells |-> <<>>, Ptr |-> 0]

IntSize == 4
IntCells(v) == <<v>> \o [i \in 1..(IntSize - 1) |-> Pad]

-----------------------------------------------------------------------------
(* Scanning the tokens of one line.  p is the record in the making: its     *)
(* cells, and how many more are written for which no room was asked.        *)

NewRecord == [iType |-> "data", bFmt |-> "INT", iNext |-> 0, cells |-> <<>>, past |-> 0,
              stop |-> FALSE, err |-> 0]

Stop(p, err) == [p EXCEPT !.stop = TRUE, !.err = err]


IsDataSpace(cnt) == cnt <= Data.size - Data.Ptr

\* AllocData and the store that follows it.
Put(p, cells) ==
  IF p.stop THEN p
  ELSE IF IsDataSpace(Len(p.cells) + Len(cells)) THEN [p EXCEPT !.cells = @ \o cells]
  ELSE Stop(p, -9)

ScanInt(p, v) == Put(p, IntCells(v))
ScanInts(p, vs) == FoldLeft(ScanInt, p, vs)
ScanVar(p, v) == Put(p, IntCells(v))

\* ScanStr copies what it cannot read as an escape and ends the text with a 0.
ScanStr(p, text) == Put(FoldLeft(LAMBDA q, c : Put(q, <<c>>), p, text), <<0>>)

\* The text of tx, rx and echo.  `plain` is lasterr when there is no room for a
\* byte that is not an escape: tx and echo leave it as it was.  The 0 behind the text is not
\* part of the record, and no room is asked for it.
ScanText(p, text, plain, esc, hex) ==
  LET put(q, c) == IF q.stop THEN q
                   ELSE IF c = WrongEsc THEN Stop(q, esc)
                   ELSE IF c = WrongHex THEN Stop(q, hex)
                   ELSE IF c < 32 \/ IsDataSpace(Len(q.cells) + 1) THEN Put(q, <<c>>)
                   ELSE Stop(q, plain)
      q == FoldLeft(put, p, text)
  IN IF q.stop \/ text = <<>> THEN q ELSE [q EXCEPT !.past = 1]

-----------------------------------------------------------------------------
(* One operator per key word: the record that its line makes.               *)

As(p, type, next) == [p EXCEPT !.iType = type, !.iNext = next]

Nth(s, k, default) == IF k <= Len(s) THEN s[k] ELSE default
After(s, k) == IF k <= Len(s) THEN SubSeq(s, k, Len(s)) ELSE <<>>

SerialLine(a) == As(ScanInts(NewRecord, After(a, 2)), "serial", Nth(a, 1, 0))
CallLine(a)   == As(NewRecord, "call", Nth(a, 1, -1))
RetLine       == As(NewRecord, "ret", 0)
TxLine(a)     == As(ScanText(NewRecord, Nth(a, 1, <<>>), 0, -2, -3), "tx", -1)
EchoLine(a)   == As(ScanText(NewRecord, Nth(a, 1, <<>>), 0, -2, -3), "echo", -1)
RxLine(a)     == As(ScanText(NewRecord, Nth(a, 1, <<>>), -9, -4, -5), "rx", Nth(a, 2, -1))

\* txfile and log: an int, a name, a label and more ints.  Without tokens the
\* record keeps the type it had, 0 of the cleared table.
NamedLine(a, type) ==
  LET first == ScanInt(NewRecord, a[1])
      named == IF Len(a) >= 2 THEN ScanStr(first, a[2]) ELSE first
  IN IF a = <<>> THEN NewRecord ELSE As(ScanInts(named, After(a, 4)), type, Nth(a, 3, -1))

\* Pairs of a count and a variable.
TxBufLine(a) == As(ScanInts(NewRecord, a), "txbuf", (Len(a) + 1) \div 2)

SkipLine(a) ==
  As(ScanInts(NewRecord, SubSeq(a, 1, IF Len(a) < 2 THEN Len(a) ELSE 2)), "skip", Nth(a, 3, 0))

OneIntLine(a, type) == As(ScanInts(NewRecord, SubSeq(a, 1, IF a = <<>> THEN 0 ELSE 1)), type, 0)

VarLine(a) == As(ScanInts(NewRecord, After(a, 2)), "var", Nth(a, 1, 0))

\* buf makes a var record of bytes.  A text that follows "[n]" is written as if it were the
\* line's first, whatever the line has taken before; then its room is asked for, filled up
\* with 0 to n bytes.
BufLine(a) ==
  LET chunk(p, t) ==
        LET k == Len(t.text) + 1
            q == Put(p, t.text \o <<0>> \o [i \in 1..(IF t.n > k THEN t.n - k ELSE 0) |-> 0])
        IN CASE p.stop -> p
             [] ~p.stop /\ t.n = 0 -> ScanStr(p, t.text)
             [] ~p.stop /\ t.n > 0 /\ ~IsDataSpace(k) -> [Stop(p, -9) EXCEPT !.past = Data.size - Data.Ptr]
             [] OTHER -> IF q.stop THEN [q EXCEPT !.past = k] ELSE q
  IN [As(FoldLeft(chunk, NewRecord, After(a, 2)), "var", Nth(a, 1, 0)) EXCEPT !.bFmt = "BYTE"]

\* goto and test: a label or offset, a variable, a condition and ints.  "none" is
\* a token that is no condition but the first of the ints: the condition is "!=".
CondLine(a, type) ==
  LET named == IF Len(a) >= 2 THEN ScanVar(NewRecord, a[2]) ELSE NewRecord
      fmt == IF Len(a) < 3 THEN "undefined" ELSE IF a[3] = "none" THEN "!=" ELSE a[3]
  IN [As(ScanInts(named, After(a, 4)), type, Nth(a, 1, 0)) EXCEPT !.bFmt = fmt]

LabelLine(a) == As(NewRecord, "label", a[1])

Compiled(l) ==
  CASE l.key = "serial" -> SerialLine(l.args)
    [] l.key = "call" -> CallLine(l.args)
    [] l.key = "ret" -> RetLine
    [] l.key = "tx" -> TxLine(l.args)
    [] l.key = "echo" -> EchoLine(l.args)
    [] l.key = "rx" -> RxLine(l.args)
    [] l.key \in {"txfile", "log"} -> NamedLine(l.args, l.key)
    [] l.key = "txbuf" -> TxBufLine(l.args)
    [] l.key = "skip" -> SkipLine(l.args)
    [] l.key \in {"delay", "timeout", "exit"} -> OneIntLine(l.args, l.key)
    [] l.key = "var" -> VarLine(l.args)
    [] l.key = "buf" -> BufLine(l.args)
    [] l.key \in {"goto", "test"} -> CondLine(l.args, l.key)
    [] l.key = "label" -> LabelLine(l.args)
    [] OTHER -> Stop(NewRecord, -8)

-----------------------------------------------------------------------------
(* Load: ReadRecFile, a line at a time.                                     *)

ScriptInit ==
  /\ mode = "idle" /\ file = <<>> /\ linenum = 0 /\ Rec = <<>>
  /\ RecCount = 0 /\ RecIndex = 0 /\ RecReturn = <<>>
  /\ Data = NoData /\ reach = 0 /\ rc = 0 /\ bin = NoBin /\ loads = 0

Quiet == mode \in {"idle", "loaded", "failed"}

Load(f) ==
  /\ Quiet /\ loads < MaxLoads
  /\ loads' = loads + 1
  /\ mode' = "reading" /\ file' = f /\ linenum' = 0 /\ rc' = 0
  /\ RecCount' = 0 /\ RecIndex' = 0 /\ RecReturn' = <<>> /\ reach' = 0
  /\ UNCHANGED <<Rec, Data, bin>>

LoadNotFound ==
  /\ Quiet /\ loads < MaxLoads
  /\ loads' = loads + 1 /\ mode' = "failed" /\ linenum' = 0 /\ rc' = -1
  /\ reach' = 0
  /\ UNCHANGED <<file, Rec, RecCount, RecIndex, RecReturn, Data, bin>>

\* err: and errmem: of ReadRecFile.
Refuse(err) == /\ mode' = "failed" /\ rc' = err
               /\ UNCHANGED <<file, Rec, RecCount, RecIndex, RecReturn, Data, bin, loads>>

Reading == mode = "reading" /\ linenum < Len(file) /\ linenum' = linenum + 1

Line == file[linenum + 1]

Comment == Reading /\ Line.key = "//"
           /\ UNCHANGED <<mode, file, Rec, RecCount, RecIndex, RecReturn, Data, reach, rc, bin, loads>>

\* pDest: NULL until this Load has seen its data line.
Directed == \E i \in 1..linenum : file[i].key = "data"

\* The data line must be the first of the first Load.
DataLine ==
  /\ Reading /\ Line.key \notin {"//", "blank"} /\ ~Directed /\ reach' = reach
  /\ IF Line.key # "data" THEN Refuse(-8)
     ELSE IF RecIndex # 0 \/ Data # NoData THEN Refuse(-6)
     ELSE /\ Data' = DataSpaceAt(Line.args[1], 1000)
          /\ UNCHANGED <<mode, file, Rec, RecCount, RecIndex, RecReturn, rc, bin, loads>>

\* The record takes the place of one of an earlier Load.
Place(s, i, r) == IF i < Len(s) THEN [s EXCEPT ![i + 1] = r] ELSE Append(s, r)

\* What stands in a record that nothing has been written to: the global object starts cleared.
Stale(i) == IF i < Len(Rec) THEN Rec[i + 1] ELSE [iType |-> "data", bFmt |-> "INT", iNext |-> 0]

\* The line's record and its length; Ptr moves behind it, and the table may be full.
Entered(r, cells, cnt) ==
  /\ Rec' = Place(Rec, RecIndex,
                  [iType |-> r.iType, bFmt |-> r.bFmt, iNum |-> linenum + 1, iLen |-> cnt,
                   iNext |-> r.iNext, pData |-> Data.base + Data.Ptr])
  /\ Data' = [Data EXCEPT !.cells = @ \o cells, !.Ptr = @ + cnt]
  /\ RecIndex' = RecIndex + 1
  /\ IF RecIndex + 1 >= MaxRec THEN mode' = "failed" /\ rc' = -7 ELSE UNCHANGED <<mode, rc>>
  /\ UNCHANGED <<file, RecCount, RecReturn, bin, loads>>

\* Every other line: the record, its data, and the next place in the table.
RecordLine ==
  /\ Reading /\ Line.key \notin {"//", "blank"} /\ Directed
  /\ LET p == Compiled(Line)
         written == Len(Data.cells) + Len(p.cells) + p.past
     IN /\ reach' = IF written > reach THEN written ELSE reach
        /\ IF p.stop THEN Refuse(p.err) ELSE Entered(p, p.cells, Len(p.cells))

\* A line of blanks only has no token: it makes a record of what the table holds, of a length that
\* nobody has set. Before there is a data space it has none to point to.
BlankLine ==
  /\ Reading /\ Line.key = "blank" /\ reach' = reach
  /\ IF Data = NoData
     THEN mode' = "crashed"
          /\ UNCHANGED <<file, Rec, RecCount, RecIndex, RecReturn, Data, rc, bin, loads>>
     ELSE \E cnt \in Leftovers : Entered(Stale(RecIndex), <<>>, cnt)

EndOfFile ==
  /\ mode = "reading" /\ linenum = Len(file)
  /\ mode' = "loaded" /\ RecCount' = RecIndex /\ rc' = 0
  /\ UNCHANGED <<file, linenum, Rec, RecIndex, RecReturn, Data, reach, bin, loads>>

-----------------------------------------------------------------------------
(* The compiled file: records with offsets for addresses, and the data.     *)

\* Mutant: the addresses are saved as they are.
SavebinRaw ==
  /\ mode \in {"loaded", "failed"} /\ rc = 0 /\ Data # NoData /\ bin = NoBin
  /\ bin' = [count |-> RecCount, size |-> Data.size, recs |-> SubSeq(Rec, 1, RecCount),
             cells |-> Data.cells, of |-> file]
  /\ RecIndex' = 0 /\ RecReturn' = <<>>
  /\ UNCHANGED <<mode, file, linenum, Rec, RecCount, Data, reach, rc, loads>>

\* The space is saved in its full size, the part not yet in use included.
Savebin ==
  /\ mode \in {"loaded", "failed"} /\ rc = 0 /\ Data # NoData /\ bin = NoBin
  /\ bin' = [count |-> RecCount, size |-> Data.size,
             recs |-> [i \in 1..RecCount |-> [Rec[i] EXCEPT !.pData = @ - Data.base]],
             cells |-> Data.cells, of |-> file]
  /\ RecIndex' = 0 /\ RecReturn' = <<>>
  /\ UNCHANGED <<mode, file, linenum, Rec, RecCount, Data, reach, rc, loads>>

\* Into an object that has loaded nothing, as main does.
Loadbin ==
  /\ Quiet /\ bin # NoBin /\ Data.base = 1000
  /\ Data' = [DataSpaceAt(bin.size, 2000) EXCEPT !.cells = bin.cells]
  /\ RecCount' = bin.count
  /\ Rec' = [i \in 1..bin.count |-> [bin.recs[i] EXCEPT !.pData = @ + 2000]]
  /\ RecIndex' = 0 /\ RecReturn' = <<>> /\ mode' = "loaded" /\ rc' = 0 /\ file' = bin.of
  /\ reach' = 0
  /\ UNCHANGED <<linenum, bin, loads>>

ScriptNext == \/ \E f \in Files : Load(f)
              \/ LoadNotFound \/ Comment \/ DataLine \/ RecordLine \/ BlankLine \/ EndOfFile
              \/ Savebin \/ Loadbin

-----------------------------------------------------------------------------
(* What the interpreter asks.                                               *)

\* FindTypeRecord: the first record of the type and number, -1 without one.
FindTypeRecord(type, next) ==
  LET at == {i \in 0..(RecCount - 1) : Rec[i + 1].iType = type /\ Rec[i + 1].iNext = next}
  IN IF at = {} THEN -1 ELSE CHOOSE i \in at : \A j \in at : i <= j

\* Mutant: the call itself is where ret goes.
PushedCall == Append(RecReturn, RecIndex - 1)

CanPush == Len(RecReturn) < MaxCalls
Pushed == Append(RecReturn, RecIndex)
CanPop == RecReturn # <<>>
Popped == Front(RecReturn)

Cell(addr) == Data.cells[addr - Data.base + 1]
IntAt(r, k) == Cell(r.pData + IntSize * k)
BytesOf(r) == [i \in 1..r.iLen |-> Cell(r.pData + i - 1)]

\* The address of element idx of the variable in record j.
VarAddr(j, idx) == Rec[j + 1].pData + (IF Rec[j + 1].bFmt = "INT" THEN IntSize ELSE 1) * idx
GetVar(j, idx) == Cell(VarAddr(j, idx))
\* A byte variable keeps the low byte.
Stored(j, v) == IF Rec[j + 1].bFmt = "INT" THEN v ELSE v % 256
SetVar(j, v, idx) ==
  [Data EXCEPT !.cells[VarAddr(j, idx) - Data.base + 1] = Stored(j, v)]

EvalExpr(expr, var, val) ==
  CASE expr = "==" -> var = val
    [] expr = "!=" -> var # val
    [] expr = ">=" -> var >= val
    [] expr = "<=" -> var <= val
    [] expr = ">" -> var > val
    [] expr = "<" -> var < val
    [] OTHER -> FALSE
=============================================================================

--------------------------------- MODULE Ted ---------------------------------
(***************************************************************************)
(* The text editor of src/src/ted.cpp: a list of lines, the buffer cmd in  *)
(* which the current line is edited, and the files. A key is a step; so is *)
(* the giving of a file name. While a session lasts its task is in the     *)
(* scheduler and the command line's is suspended, which Pts is about.      *)
(* Characters are numbers, each typed once, so that none can be lost or    *)
(* come twice unnoticed; 1 is what files hold at first, 0 a line's end.    *)
(***************************************************************************)
EXTENDS Integers, SequencesExt

CONSTANTS Name,      \* file names
          cmdlen,    \* EDIT_MAX_LINE - 1, 80: cmd holds a character more
          LoadMax,   \* the characters fgets takes at once, 79
          First,     \* the file that may exist at first
          FirstLen,  \* the lengths its only line may have then, 0 for no line
          MaxTyped,  \* bound: the characters typed
          MaxSaves,  \* bound: the times a file is written
          MaxLines   \* bound: the lines

ASSUME FirstAssumption == First \in Name /\ FirstLen \subseteq Nat
ASSUME LengthsAssumption == cmdlen \in Nat /\ LoadMax \in 1..cmdlen

VARIABLES stage,     \* idle, edit, asking, saving, renaming, overrun
          lines, nlines,
          n_cur,     \* the current line
          cmd, pos,  \* its text as edited, and the cursor
          sflag,     \* the buffer has to be saved
          filename, disk,
          next,      \* the next character typed
          saves,     \* how often a file was written
          renamed    \* history: the name was changed since the file was written or read

lineVars == <<cmd, pos>>
listVars == <<lines, nlines, n_cur>>
vars == <<stage, listVars, lineVars, sflag, filename, disk, next, saves, renamed>>

NL == 0

\* savelines: what it writes.
Written(l) == FlattenSeq([k \in 1..Len(l) |-> Append(l[k], NL)])

\* How much of a file fgets takes.
Taken(content) ==
  LET ends == {k \in 1..Len(content) : content[k] = NL \/ k = LoadMax \/ k = Len(content)}
  IN CHOOSE k \in ends : \A j \in ends : k <= j

\* loadlines: the lines it makes of a file.
RECURSIVE Load(_)
Load(content) ==
  IF content = <<>> THEN <<>>
  ELSE LET k == Taken(content)
           line == SubSeq(content, 1, IF content[k] = NL THEN k - 1 ELSE k)
       IN <<line>> \o Load(SubSeq(content, k + 1, Len(content)))

Init ==
  /\ stage = "idle" /\ lines = <<>> /\ nlines = 0 /\ n_cur = 1
  /\ cmd = <<>> /\ pos = 0 /\ sflag = FALSE
  /\ filename = First
  /\ \E n \in FirstLen :
       disk = [f \in Name |-> IF f = First /\ n > 0 THEN Written(<<[j \in 1..n |-> 1]>>) ELSE <<>>]
  /\ next = 2 /\ saves = 0 /\ renamed = FALSE

\* findline: the line of that number, or the last one; 0 where there is none.
findline(l, n) == IF n <= Len(l) THEN n ELSE Len(l)

\* loadline: the text of the current line.
loadline(l, n) == IF findline(l, n) = 0 THEN <<>> ELSE l[findline(l, n)]

\* showlines: the lines are counted, and the cursor comes into the current one.
showlines(l, n, p) ==
  LET k == Len(loadline(l, n))
  IN [nlines |-> Len(l), pos |-> IF p > k THEN k ELSE p]

\* edit shows the lines and loads the current one. One that cmd cannot hold overruns it.
Shows(l, n, p) ==
  LET fits == Len(loadline(l, n)) <= cmdlen + 1
  IN /\ lines' = l /\ nlines' = showlines(l, n, p).nlines /\ n_cur' = n
     /\ cmd' = (IF fits THEN loadline(l, n) ELSE <<>>)
     /\ pos' = (IF fits THEN showlines(l, n, p).pos ELSE 0)
     /\ stage' = IF fits THEN "edit" ELSE "overrun"

\* Cmd_ted up to the first key.
Open(f) ==
  /\ stage = "idle" /\ Len(Load(disk[f])) <= MaxLines
  /\ filename' = f /\ sflag' = FALSE /\ renamed' = FALSE
  /\ Shows(Load(disk[f]), 1, 0)
  /\ UNCHANGED <<disk, next, saves>>

-----------------------------------------------------------------------------
(* Keys that edit the current line.                                         *)

\* The task waits for a key.
AtKey == stage = "edit"

KeepSession == UNCHANGED <<stage, listVars, filename, disk, saves, renamed>>

Room == Len(cmd) < cmdlen

\* A character goes in at the cursor, if it can be printed and there is room; the buffer
\* counts as changed anyhow.
Type ==
  /\ AtKey /\ next <= MaxTyped + 1
  /\ \/ /\ Room
        /\ cmd' = InsertAt(cmd, pos + 1, next) /\ pos' = pos + 1 /\ next' = next + 1
     \/ UNCHANGED <<lineVars, next>>
  /\ sflag' = TRUE
  /\ KeepSession

Backspace ==
  /\ AtKey /\ pos > 0
  /\ cmd' = RemoveAt(cmd, pos) /\ pos' = pos - 1
  /\ UNCHANGED <<sflag, next>> /\ KeepSession

Delete ==
  /\ AtKey /\ pos < Len(cmd)
  /\ cmd' = RemoveAt(cmd, pos + 1)
  /\ UNCHANGED <<pos, sflag, next>> /\ KeepSession

\* KC_CTL_U and KC_CTL_K: the whole line goes, or what is behind the cursor.
Clear ==
  /\ AtKey
  /\ \E k \in {0, pos} : cmd' = SubSeq(cmd, 1, k) /\ pos' = k
  /\ UNCHANGED <<sflag, next>> /\ KeepSession

\* Left, right, home, end.
Move ==
  /\ AtKey
  /\ pos' \in {pos - 1, pos + 1, 0, Len(cmd)} \cap (0..Len(cmd))
  /\ UNCHANGED <<cmd, sflag, next>> /\ KeepSession

-----------------------------------------------------------------------------
(* Keys that end the editing of a line.                                     *)

\* Mutant: a changed line does not count as a change of the buffer.
savelineQuiet(n, buf) ==
  LET at == findline(lines, n)
  IN IF at = 0 \/ lines[at] = buf THEN [lines |-> lines, sflag |-> sflag]
     ELSE [lines |-> [lines EXCEPT ![at] = buf], sflag |-> sflag]

saveline(n, buf) ==
  LET at == findline(lines, n)
  IN IF at = 0 \/ lines[at] = buf THEN [lines |-> lines, sflag |-> sflag]
     ELSE [lines |-> [lines EXCEPT ![at] = buf], sflag |-> TRUE]

\* Mutant: the character under the cursor is left out.
splitlineLess(n, buf, p) ==
  LET at == findline(lines, n)
  IN IF at = 0 THEN <<buf>>
     ELSE InsertAt([lines EXCEPT ![at] = SubSeq(buf, 1, p)], at + 1, SubSeq(buf, p + 2, Len(buf)))

\* The first line of an empty list is not split.
splitline(n, buf, p) ==
  LET at == findline(lines, n)
  IN IF at = 0 THEN <<buf>>
     ELSE InsertAt([lines EXCEPT ![at] = SubSeq(buf, 1, p)], at + 1, SubSeq(buf, p + 1, Len(buf)))

\* On the first line nothing is joined, nor saved.
joinline(n, buf) ==
  LET at == findline(lines, n)
  IN IF n > 1 /\ at > 1 THEN RemoveAt([lines EXCEPT ![at - 1] = @ \o buf], at) ELSE lines

\* Mutant: the line above the first one.
UpBeyond(n) == n - 1

Up(n) == IF n - 1 <= 0 THEN 1 ELSE n - 1
Down(n, count) == IF n < count THEN n + 1 ELSE n

KeepFiles == UNCHANGED <<filename, disk, next, saves, renamed>>

\* KC_UP, KC_DOWN, and KC_CTL_Z that stays.
Leave ==
  /\ AtKey
  /\ LET s == saveline(n_cur, cmd)
     IN /\ \E n \in {Up(n_cur), Down(n_cur, nlines), n_cur} : Shows(s.lines, n, pos)
        /\ sflag' = s.sflag
  /\ KeepFiles

\* A line that was added to an empty list is not counted yet when the cursor goes down.
Enter ==
  /\ AtKey /\ Len(lines) < MaxLines
  /\ LET l == splitline(n_cur, cmd, pos)
     IN Shows(l, Down(n_cur, IF lines = <<>> THEN nlines ELSE Len(l)), pos)
  /\ sflag' = TRUE
  /\ KeepFiles

\* Backspace at the start of a line, or delete in an empty one.
Join ==
  /\ AtKey /\ pos = 0
  /\ Shows(joinline(n_cur, cmd), Up(n_cur), pos)
  /\ sflag' = TRUE
  /\ KeepFiles

\* KC_CTL_C: the line as it was.
Revert ==
  /\ AtKey
  /\ Shows(lines, n_cur, pos)
  /\ UNCHANGED sflag
  /\ KeepFiles

\* KC_CTL_X and KC_CTL_E: out of edit, to the question and to the file name.
Stop ==
  /\ AtKey
  /\ LET s == saveline(n_cur, cmd)
     IN lines' = s.lines /\ sflag' = s.sflag
  /\ stage' \in {"asking", "renaming"}
  /\ UNCHANGED <<nlines, n_cur, lineVars>> /\ KeepFiles

-----------------------------------------------------------------------------
(* Between two rounds of edit, which begins at the first line.              *)

\* The answer Y: the session is over, and what was not saved is gone.
Quit ==
  /\ stage = "asking"
  /\ stage' = "idle"
  /\ lines' = <<>> /\ nlines' = 0 /\ n_cur' = 1 /\ cmd' = <<>> /\ pos' = 0
  /\ sflag' = FALSE /\ renamed' = FALSE
  /\ UNCHANGED <<filename, disk, next, saves>>

\* W, where there is something to save.
AskName ==
  /\ stage = "asking" /\ sflag
  /\ stage' = "saving"
  /\ UNCHANGED <<listVars, lineVars, sflag, filename, disk, next, saves, renamed>>

\* editbuf, in which a name is edited, leaves its cursor behind.
editbuf == IF stage = "asking" THEN {pos} ELSE 0..cmdlen

\* Any other answer; or no name was given.
GoOn ==
  /\ stage \in {"asking", "saving", "renaming"}
  /\ \E p \in editbuf : Shows(lines, 1, p)
  /\ UNCHANGED sflag /\ KeepFiles

\* The name is only remembered.
Rename(f) ==
  /\ stage = "renaming"
  /\ filename' = f /\ renamed' = (renamed \/ f # filename)
  /\ \E p \in editbuf : Shows(lines, 1, p)
  /\ UNCHANGED <<sflag, disk, next, saves>>

\* savelines, which may not be able to open the file.
Save(f) ==
  /\ stage = "saving" /\ saves < MaxSaves
  /\ filename' = f /\ saves' = saves + 1
  /\ \/ disk' = [disk EXCEPT ![f] = Written(lines)] /\ sflag' = FALSE /\ renamed' = FALSE
     \/ UNCHANGED <<disk, sflag, renamed>>
  /\ \E p \in editbuf : Shows(lines, 1, p)
  /\ UNCHANGED next

Next == \/ \E f \in Name : Open(f) \/ Rename(f) \/ Save(f)
        \/ Type \/ Backspace \/ Delete \/ Clear \/ Move
        \/ Leave \/ Enter \/ Join \/ Revert \/ Stop
        \/ Quit \/ AskName \/ GoOn

Spec == Init /\ [][Next]_vars

-----------------------------------------------------------------------------
(* Properties.                                                              *)

\* The current line is one of the lines, the cursor is in it or behind it, and the count
\* that moves the cursor down is right whenever a key is waited for.
TedTypeOK ==
  stage = "edit" => /\ n_cur \in 1..Len(lines) \/ (lines = <<>> /\ n_cur = 1)
                    /\ pos \in 0..Len(cmd) /\ Len(cmd) <= cmdlen + 1
                    /\ nlines = Len(lines)

\* The text the user sees: the lines, the current one as edited.
Shown == IF lines = <<>> THEN <<cmd>> ELSE [lines EXCEPT ![n_cur] = cmd]

\* Whichever key the user ends a line with, what was typed into it and into the others
\* stays: to move on or to stop leaves the text as it is, to split or to join lines moves
\* a line's end. The exceptions: Ctrl-C gives the edits up; and so does, unasked, backspace
\* at the start of the first line; and a text without lines holds what is typed only after
\* Enter. Only joining two lines makes one that overruns cmd: none that is read, typed or
\* split does.
TextKept ==
  [][/\ (Leave \/ Stop) /\ lines # <<>> => lines' = Shown
     /\ Enter => FlattenSeq(lines') = FlattenSeq(Shown) /\ Len(lines') = Len(lines) + 1
     /\ Join /\ n_cur > 1 => FlattenSeq(lines') = FlattenSeq(Shown) /\ Len(lines') = Len(lines) - 1
     /\ stage' = "overrun" => Join]_vars

Short == \A k \in 1..Len(lines) : Len(lines[k]) < LoadMax

\* When the editor lets the user go without the question whether to save, the file has what
\* the user sees: as long as no line is one of those that a file does not give back, and
\* the file is still the one that was written or read.
SavedMeansSame ==
  stage \in {"edit", "asking"} /\ ~sflag /\ ~renamed /\ Short => lines = Load(disk[filename])

\* What is saved is loaded again, line by line. A line as long as LoadMax, which the editor
\* takes, comes back with an empty line after it, and a longer one in two.
SavedIsReloaded ==
  LET extra == {k \in 1..Len(lines) : Len(lines[k]) \in LoadMax..(2 * LoadMax - 1)}
      again == Load(Written(lines))
  IN /\ Short => again = lines
     /\ (\A k \in 1..Len(lines) : Len(lines[k]) < 2 * LoadMax) =>
          Len(again) = Len(lines) + Cardinality(extra) /\ FlattenSeq(again) = FlattenSeq(lines)

\* A file and the text it was made of: the one saved is the one shown, and is read again.
FilesFaithful == SavedMeansSame /\ SavedIsReloaded
=============================================================================

-------------------------------- MODULE Pts ---------------------------------
(***************************************************************************)
(* The protothread scheduler of src/src/pts.cpp and pts.hpp.  One thread   *)
(* runs everything: the main loop calls PTS_Process, which visits the      *)
(* tasks in slot order and calls their Run; a Run may itself call the      *)
(* scheduler's functions, PTS_Process included (the "pts" command,         *)
(* PTS_WaitMsg, the editor's wait loop).  The C stack is therefore part of *)
(* the state: stack holds one frame per active PTS_Process.                *)
(***************************************************************************)
EXTENDS Integers, Sequences, FiniteSets

CONSTANTS N,         \* MAX_TCBS, the number of task slots
          MaxDepth,  \* bound: how deep PTS_Process calls nest
          MaxBare,   \* bound: how many tasks without messages there are at a time
          Careful    \* the commands name only slots that hold a task

ASSUME NAssumption == N \in Nat \ {0}
ASSUME BoundsAssumption == MaxDepth \in Nat /\ MaxBare \in Nat
ASSUME CarefulAssumption == Careful \in BOOLEAN

VARIABLES Tcbs,     \* the task control blocks
          TaskCnt,  \* the number of tasks
          CurTask,  \* the slot last visited, or NoTask
          stack,    \* the active PTS_Process calls, the innermost last
          fault     \* "null": a null pointer was used; "free": freed twice

vars == <<Tcbs, TaskCnt, CurTask, stack, fault>>

Slots == 0..(N - 1)
NoTask == N

\* The task states; a slot is taken while its id is not 0xFF.
States == {"IDLE", "INIT", "RUN", "DEAD"}

\* The thread object a slot points to: none, or one that is enabled or
\* suspended, and that has ended or not.
NoThread == [here |-> FALSE, enabled |-> FALSE, ended |-> FALSE]
NewThread == [here |-> TRUE, enabled |-> TRUE, ended |-> FALSE]
Threads == {t \in [here : BOOLEAN, enabled : BOOLEAN, ended : BOOLEAN] :
              t.here \/ t = NoThread}

\* What a slot's message buffer pointer is.
Pointers == {"null", "live", "dangling"}

\* messages is the bit of mode that says the task was added with a message queue.
Tcb == [state : States, taken : BOOLEAN, messages : BOOLEAN, pt : Threads, buffer : Pointers]

EmptyTcb == [state |-> "IDLE", taken |-> FALSE, messages |-> FALSE,
             pt |-> NoThread, buffer |-> "null"]

\* A frame: the loop's i and j, whether the body of task i is running (its Init
\* or its Run), and whether a task has been removed since the loop began.
Frame == {f \in [i : 0..N, j : Nat, body : {"none", "Init", "Run"}, removed : BOOLEAN] :
            f.body # "none" => f.i < N}

NewFrame == [i |-> 0, j |-> 0, body |-> "none", removed |-> FALSE]

Depth == Len(stack)
Top == stack[Depth]
SetTop(f) == [stack EXCEPT ![Depth] = f]
Looping == Depth > 0 /\ Top.body = "none"
Running == Depth > 0 /\ Top.body = "Run"

Taken == {s \in Slots : Tcbs[s].taken}

\* PTS_Init has run; nothing is allocated in the static array.
Init == /\ Tcbs = [s \in Slots |-> EmptyTcb]
        /\ TaskCnt = 0
        /\ CurTask = NoTask
        /\ stack = <<>>
        /\ fault = "none"

-----------------------------------------------------------------------------
(* PTS_Process.                                                             *)

\* The main loop starts a pass while there are tasks.
MainPass == /\ fault = "none"
            /\ Depth = 0 /\ TaskCnt > 0
            /\ stack' = <<NewFrame>>
            /\ UNCHANGED <<Tcbs, TaskCnt, CurTask, fault>>

\* The loop goes on while tasks remain to be counted and slots remain.
Ahead == {s \in Taken : s >= Top.i}
LoopGoesOn == Top.j < TaskCnt /\ Ahead # {}

\* Whether the visit of s enters the task's code, and which: a suspended or
\* ended protothread returns at once.
Enters(s) == IF ~Tcbs[s].pt.here THEN "none"
             ELSE IF Tcbs[s].state = "INIT" THEN "Init"
             ELSE IF Tcbs[s].state = "RUN" /\ Tcbs[s].pt.enabled /\ ~Tcbs[s].pt.ended
                  THEN "Run" ELSE "none"

\* Mutant: empty slots are counted as tasks.
VisitCountsEmpty(s) ==
  /\ fault = "none"
  /\ Looping /\ LoopGoesOn
  /\ s \in Ahead /\ \A t \in Ahead : s <= t
  /\ CurTask' = s
  /\ stack' = SetTop([Top EXCEPT !.i = IF Enters(s) = "none" THEN s + 1 ELSE s,
                                 !.j = s + 1,
                                 !.body = Enters(s)])
  /\ UNCHANGED <<Tcbs, TaskCnt, fault>>

\* The next taken slot is visited (PTS_ProcessTaskId).
Visit(s) ==
  /\ fault = "none"
  /\ Looping /\ LoopGoesOn
  /\ s \in Ahead /\ \A t \in Ahead : s <= t
  /\ CurTask' = s
  /\ stack' = SetTop([Top EXCEPT !.i = IF Enters(s) = "none" THEN s + 1 ELSE s,
                                 !.j = @ + 1,
                                 !.body = Enters(s)])
  /\ Tcbs' = [Tcbs EXCEPT ![s].state =
                IF @ = "INIT" /\ ~Tcbs[s].pt.here THEN "IDLE" ELSE @]
  /\ UNCHANGED <<TaskCnt, fault>>

\* The loop is over and PTS_Process returns.
PassEnd == /\ fault = "none"
           /\ Looping /\ ~LoopGoesOn
           /\ stack' = SubSeq(stack, 1, Depth - 1)
           /\ UNCHANGED <<Tcbs, TaskCnt, CurTask, fault>>

\* Mutant: the index is stepped twice.
ReturnSkipsOne(ended) ==
  /\ fault = "none"
  /\ Depth > 0 /\ Top.body # "none"
  /\ stack' = SetTop([Top EXCEPT !.i = @ + 2, !.body = "none"])
  /\ Tcbs' = IF Top.body = "Init" THEN [Tcbs EXCEPT ![Top.i].state = "RUN"] ELSE Tcbs
  /\ UNCHANGED <<TaskCnt, CurTask, fault>>

\* The task's Init or Run returns; after Init the task is in PTS_RUN, whatever
\* happened to it meanwhile.
Return(ended) ==
  /\ fault = "none"
  /\ Depth > 0 /\ Top.body # "none"
  /\ stack' = SetTop([Top EXCEPT !.i = @ + 1, !.body = "none"])
  /\ Tcbs' = IF Top.body = "Init" THEN [Tcbs EXCEPT ![Top.i].state = "RUN"]
             ELSE [Tcbs EXCEPT ![Top.i].pt.ended =
                     IF Tcbs[Top.i].pt.here /\ ended THEN TRUE ELSE @]
  /\ ended => Top.body = "Run"
  /\ UNCHANGED <<TaskCnt, CurTask, fault>>

-----------------------------------------------------------------------------
(* The functions a task's code calls; main adds the first task itself.      *)

Calling == fault = "none" /\ (Running \/ (Depth = 0 /\ Taken = {} /\ CurTask = NoTask))

\* Mutant: a buffer pointer left in the slot is taken for a buffer.
NewTcbKeepsBuffer(messages, buffer) ==
  [state |-> "INIT", taken |-> TRUE, messages |-> messages, pt |-> NewThread,
   buffer |-> IF messages /\ buffer = "null" THEN "live" ELSE buffer]

\* What PTS_AddTask makes of a slot with this buffer pointer: a task without
\* messages keeps the pointer the slot's last user left.
NewTcb(messages, buffer) ==
  [state |-> "INIT", taken |-> TRUE, messages |-> messages, pt |-> NewThread,
   buffer |-> IF messages THEN "live" ELSE buffer]

\* PTS_AddTask of a new thread object, with a message queue or (msglen = 0) without.
AddTask(messages) ==
  /\ Calling
  /\ ~messages => Cardinality({s \in Taken : ~Tcbs[s].messages}) < MaxBare
  /\ \E s \in Slots \ Taken :
       /\ \A t \in Slots \ Taken : s <= t
       /\ Tcbs' = [Tcbs EXCEPT ![s] = NewTcb(messages, Tcbs[s].buffer)]
  /\ TaskCnt' = TaskCnt + 1
  /\ UNCHANGED <<CurTask, stack, fault>>

\* Every pass under way has lost a task.
MarkRemoved == stack' = [d \in 1..Depth |-> [stack[d] EXCEPT !.removed = TRUE]]

\* PTS_DeleteTask: a slot that holds no task is counted down all the same, and
\* the buffer is freed but not forgotten.
DeleteTask(s) ==
  /\ Running /\ fault = "none"
  /\ TaskCnt # 0
  /\ Careful => s \in Taken
  /\ fault' = IF Tcbs[s].buffer = "dangling" THEN "free" ELSE "none"
  /\ Tcbs' = [Tcbs EXCEPT ![s] = [EmptyTcb EXCEPT !.buffer =
                IF Tcbs[s].buffer = "null" THEN "null" ELSE "dangling"]]
  /\ TaskCnt' = TaskCnt - 1
  /\ MarkRemoved
  /\ UNCHANGED CurTask

\* PTS_SuspendTask, PTS_ResumeTask and PTS_RestartTask go through the slot's
\* thread pointer without looking at it.
OnThread(s, tcb) ==
  /\ Running /\ fault = "none"
  /\ Careful => s \in Taken
  /\ IF Tcbs[s].pt.here THEN Tcbs' = [Tcbs EXCEPT ![s] = tcb] /\ UNCHANGED fault
                        ELSE fault' = "null" /\ UNCHANGED Tcbs
  /\ UNCHANGED <<TaskCnt, CurTask, stack>>

SuspendTask(s) == OnThread(s, [Tcbs[s] EXCEPT !.pt.enabled = FALSE])
ResumeTask(s) == OnThread(s, [Tcbs[s] EXCEPT !.pt.enabled = TRUE])
RestartTask(s) == OnThread(s, [Tcbs[s] EXCEPT !.pt.ended = FALSE, !.state = "INIT"])

KillTask(s) ==
  /\ Running /\ fault = "none"
  /\ Careful => s \in Taken
  /\ Tcbs' = [Tcbs EXCEPT ![s].state = "DEAD"]
  /\ UNCHANGED <<TaskCnt, CurTask, stack, fault>>

\* PTS_Process called from a task's Run.
NestedPass ==
  /\ Running /\ fault = "none"
  /\ Depth < MaxDepth
  /\ stack' = Append(stack, NewFrame)
  /\ UNCHANGED <<Tcbs, TaskCnt, CurTask, fault>>

\* Mutant: the count of tasks is not reset.
PtsInitKeepsCount ==
  /\ Running /\ fault = "none"
  /\ Tcbs' = [s \in Slots |-> [EmptyTcb EXCEPT !.buffer = Tcbs[s].buffer]]
  /\ CurTask' = NoTask
  /\ MarkRemoved
  /\ UNCHANGED <<TaskCnt, fault>>

\* The "pts init" command: PTS_Init drops the tasks and keeps their buffers.
PtsInit ==
  /\ Running /\ fault = "none"
  /\ Tcbs' = [s \in Slots |-> [EmptyTcb EXCEPT !.buffer = Tcbs[s].buffer]]
  /\ TaskCnt' = 0
  /\ CurTask' = NoTask
  /\ MarkRemoved
  /\ UNCHANGED fault

\* The "pts term" command: PTS_Term frees what the tasks hold.
PtsTerm ==
  /\ Running /\ fault = "none"
  /\ fault' = IF \E s \in Taken : Tcbs[s].buffer = "dangling" THEN "free" ELSE "none"
  /\ Tcbs' = [s \in Slots |-> IF s \in Taken THEN EmptyTcb ELSE Tcbs[s]]
  /\ TaskCnt' = 0
  /\ MarkRemoved
  /\ UNCHANGED CurTask

Process == MainPass \/ (\E s \in Slots : Visit(s)) \/ PassEnd
           \/ (\E ended \in BOOLEAN : Return(ended))

Call == \/ (\E messages \in BOOLEAN : AddTask(messages)) \/ NestedPass \/ PtsInit \/ PtsTerm
        \/ \E s \in Slots : \/ DeleteTask(s) \/ SuspendTask(s) \/ ResumeTask(s)
                            \/ RestartTask(s) \/ KillTask(s)

Next == Process \/ Call

Spec == Init /\ [][Next]_vars

\* The one thread never stops inside the scheduler, and each Run returns in the
\* end: that is what makes the tasks cooperative.
Fairness == /\ WF_vars(MainPass)
            /\ \A s \in Slots : WF_vars(Visit(s))
            /\ WF_vars(PassEnd)
            /\ WF_vars(\E ended \in BOOLEAN : Return(ended))

FairSpec == Spec /\ Fairness

-----------------------------------------------------------------------------
(* Properties.                                                              *)

TypeOK == /\ Tcbs \in [Slots -> Tcb]
          /\ TaskCnt \in Nat
          /\ CurTask \in Slots \cup {NoTask}
          /\ stack \in Seq(Frame)
          /\ fault \in {"none", "null", "free"}

\* PTS_GetTaskCnt, which keeps the main loop going and bounds the walk of
\* PTS_Process, is the number of slots taken: pts.cpp:601 prints what
\* PTS_DeleteTask returns as "Number of tasks".
TaskCountRight == TaskCnt = Cardinality(Taken)

\* PTS_Process stops early once it has counted TaskCnt tasks.  It never stops
\* short of a task that is there, whatever is added while it walks and however
\* deep the passes nest, unless a task was removed during the walk.
PassReachesAll ==
  \A d \in 1..Depth :
    LET f == stack[d]
    IN f.body = "none" /\ ~f.removed /\ f.j >= TaskCnt =>
         \A s \in Taken : s < f.i

\* The memory of a task's messages is the task's own: it is allocated as long as
\* the task is there, whatever was deleted and reset before, and the only pointer
\* ever misused is that of a task added without messages (pts.cpp:143), which
\* keeps the one PTS_DeleteTask freed and frees it again when it goes.
MessagesOwned ==
  /\ [](\A s \in Taken : Tcbs[s].messages => Tcbs[s].buffer = "live")
  /\ [][/\ fault' = "free"
        /\ \E s \in Taken : /\ ~Tcbs[s].messages
                            /\ Tcbs[s].buffer = "dangling"
                            /\ ~Tcbs'[s].taken]_fault

\* A task that stays runnable is run again and again: neither the other tasks'
\* adding, suspending and restarting of tasks nor their nested passes can starve
\* it.  Deletions can: one that falls in a pass ends it a task too early, so they
\* must stop at some time.
Runnable(s) == Tcbs[s].taken /\ Tcbs[s].state = "RUN" /\ Enters(s) = "Run"
InBody(s) == Running /\ Top.i = s
Removing == TaskCnt' < TaskCnt
NoStarvation ==
  \A s \in Slots :
    <>[](Runnable(s) /\ fault = "none") =>
      []<>InBody(s) \/ []<><<Removing>>_TaskCnt
=============================================================================

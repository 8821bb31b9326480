----------------------------- MODULE PtsProofs ------------------------------
(***************************************************************************)
(* Proofs about Pts for any number of slots and any depth of nesting.      *)
(***************************************************************************)
EXTENDS Pts, FiniteSetTheorems, SequenceTheorems, TLAPS

\* Replacing an element of a sequence.
LEMMA SeqExcept ==
  ASSUME NEW S, NEW q \in Seq(S), NEW k \in 1..Len(q), NEW x \in S
  PROVE  /\ [q EXCEPT ![k] = x] \in Seq(S)
         /\ Len([q EXCEPT ![k] = x]) = Len(q)
         /\ \A d \in 1..Len(q) : [q EXCEPT ![k] = x][d] = IF d = k THEN x ELSE q[d]
OBVIOUS

\* The innermost frame, when there is one.
LEMMA TopType ==
  ASSUME TypeOK, Depth > 0
  PROVE  /\ Depth \in 1..Len(stack) /\ Top \in Frame
         /\ Top.i \in 0..N /\ Top.j \in Nat /\ Top.removed \in BOOLEAN
         /\ Top.body \in {"none", "Init", "Run"}
         /\ Top.body # "none" => Top.i \in Slots
BY NAssumption DEF TypeOK, Depth, Top, Frame, Slots

\* A frame moved on is a frame.
LEMMA FrameExcept ==
  ASSUME NEW f \in Frame, NEW i \in 0..N, NEW j \in Nat,
         NEW body \in {"none", "Init", "Run"}, body # "none" => i < N
  PROVE  [f EXCEPT !.i = i, !.j = j, !.body = body] \in Frame
BY DEF Frame

\* What a visit enters is nothing, Init or Run.
LEMMA EntersType ==
  ASSUME NEW s
  PROVE  Enters(s) \in {"none", "Init", "Run"}
BY DEF Enters

\* A slot that PTS_AddTask fills is a task's.
LEMMA NewTcbType ==
  ASSUME NEW messages \in BOOLEAN, NEW buffer \in Pointers
  PROVE  /\ NewTcb(messages, buffer) \in Tcb
         /\ NewTcb(messages, buffer).taken
         /\ NewTcb(messages, buffer).pt.here
         /\ NewTcb(messages, buffer).messages => NewTcb(messages, buffer).buffer = "live"
BY DEF NewTcb, Tcb, States, Threads, NewThread, Pointers

\* Every step keeps the type invariant.
LEMMA TypeStep == TypeOK /\ [Next]_vars => TypeOK'
<1> SUFFICES ASSUME TypeOK, [Next]_vars
             PROVE  TypeOK'
  OBVIOUS
<1> USE DEF TypeOK
<1>1. CASE MainPass
  <2>1. NewFrame \in Frame
    BY NAssumption DEF NewFrame, Frame
  <2>2. QED
    BY <1>1, <2>1 DEF MainPass
<1>2. ASSUME NEW s \in Slots, Visit(s)
      PROVE  TypeOK'
  <2> DEFINE f == [Top EXCEPT !.i = IF Enters(s) = "none" THEN s + 1 ELSE s,
                              !.j = @ + 1,
                              !.body = Enters(s)]
  <2>1. Depth > 0 /\ s \in 0..(N - 1)
    BY <1>2 DEF Visit, Looping, Slots
  <2>2. f \in Frame
    <3> DEFINE e == Enters(s)
               i == IF e = "none" THEN s + 1 ELSE s
    <3>1. e \in {"none", "Init", "Run"}
      BY EntersType
    <3> HIDE DEF e
    <3>2. i \in 0..N /\ (e # "none" => i < N)
      BY <2>1, NAssumption
    <3>3. Top \in Frame /\ Top.j + 1 \in Nat
      BY <2>1, TopType
    <3> HIDE DEF i
    <3>4. [Top EXCEPT !.i = i, !.j = Top.j + 1, !.body = e] \in Frame
      BY <3>1, <3>2, <3>3, FrameExcept
    <3>5. QED
      BY <3>4 DEF i, e
  <2>3. stack' \in Seq(Frame)
    BY <1>2, <2>1, <2>2, TopType, SeqExcept DEF Visit, SetTop
  <2>4. Tcbs' \in [Slots -> Tcb]
    <3> DEFINE st == IF Tcbs[s].state = "INIT" /\ ~Tcbs[s].pt.here
                     THEN "IDLE" ELSE Tcbs[s].state
    <3>1. Tcbs[s] \in Tcb
      OBVIOUS
    <3>2. st \in States
      BY <3>1 DEF Tcb, States
    <3>3. Tcbs' = [Tcbs EXCEPT ![s] = [Tcbs[s] EXCEPT !.state = st]]
      BY <1>2 DEF Visit
    <3> HIDE DEF st
    <3>4. [Tcbs[s] EXCEPT !.state = st] \in Tcb
      BY <3>1, <3>2 DEF Tcb
    <3>5. QED
      BY <3>3, <3>4
  <2>5. QED
    BY <1>2, <2>3, <2>4 DEF Visit
<1>3. CASE PassEnd
  <2>1. Len(stack) \in Nat /\ Len(stack) > 0
    BY <1>3 DEF PassEnd, Looping, Depth
  <2>2. SubSeq(stack, 1, Depth - 1) \in Seq(Frame)
    BY <2>1 DEF Depth
  <2>3. QED
    BY <1>3, <2>2 DEF PassEnd
<1>4. ASSUME NEW ended \in BOOLEAN, Return(ended)
      PROVE  TypeOK'
  <2> DEFINE f == [Top EXCEPT !.i = @ + 1, !.body = "none"]
  <2>1. Depth > 0 /\ Top.i \in Slots
    BY <1>4, TopType DEF Return
  <2>2. f \in Frame
    <3>1. Top \in Frame /\ Top.j \in Nat /\ Top.i + 1 \in 0..N
      BY <1>4, <2>1, TopType, NAssumption DEF Return, Slots
    <3>2. [Top EXCEPT !.i = Top.i + 1, !.j = Top.j, !.body = "none"] \in Frame
      BY <3>1, FrameExcept
    <3>3. f = [Top EXCEPT !.i = Top.i + 1, !.j = Top.j, !.body = "none"]
      BY <3>1 DEF Frame
    <3>4. QED
      BY <3>2, <3>3
  <2>3. stack' \in Seq(Frame)
    BY <1>4, <2>1, <2>2, TopType, SeqExcept DEF Return, SetTop
  <2>4. Tcbs' \in [Slots -> Tcb]
    <3>1. CASE Top.body = "Init"
      <4>1. [Tcbs[Top.i] EXCEPT !.state = "RUN"] \in Tcb
        BY <2>1 DEF Tcb, States
      <4>2. Tcbs' = [Tcbs EXCEPT ![Top.i] = [Tcbs[Top.i] EXCEPT !.state = "RUN"]]
        BY <1>4, <3>1 DEF Return
      <4>3. QED
        BY <4>1, <4>2
    <3>2. CASE Top.body # "Init"
      <4> DEFINE e == IF Tcbs[Top.i].pt.here /\ ended THEN TRUE ELSE Tcbs[Top.i].pt.ended
      <4>1. Tcbs[Top.i] \in Tcb /\ Tcbs[Top.i].pt \in Threads
        BY <2>1 DEF Tcb
      <4>2. [Tcbs[Top.i].pt EXCEPT !.ended = e] \in Threads
        BY <4>1 DEF Threads, NoThread
      <4>3. Tcbs' = [Tcbs EXCEPT ![Top.i] =
                       [Tcbs[Top.i] EXCEPT !.pt = [Tcbs[Top.i].pt EXCEPT !.ended = e]]]
        BY <1>4, <3>2 DEF Return
      <4> HIDE DEF e
      <4>4. QED
        BY <2>1, <4>1, <4>2, <4>3 DEF Tcb
    <3>3. QED
      BY <3>1, <3>2
  <2>5. QED
    BY <1>4, <2>3, <2>4 DEF Return
<1>5. ASSUME NEW messages \in BOOLEAN, AddTask(messages)
      PROVE  TypeOK'
  <2>1. PICK s \in Slots : Tcbs' = [Tcbs EXCEPT ![s] = NewTcb(messages, Tcbs[s].buffer)]
    BY <1>5 DEF AddTask
  <2>2. NewTcb(messages, Tcbs[s].buffer) \in Tcb
    BY NewTcbType DEF Tcb
  <2>3. QED
    BY <1>5, <2>1, <2>2 DEF AddTask
<1>6. MarkRemoved => stack' \in Seq(Frame)
  <2> SUFFICES ASSUME MarkRemoved PROVE stack' \in Seq(Frame)
    OBVIOUS
  <2>1. ASSUME NEW d \in 1..Len(stack)
        PROVE  [stack[d] EXCEPT !.removed = TRUE] \in Frame
    <3>1. stack[d] \in Frame
      OBVIOUS
    <3>2. QED
      BY <3>1 DEF Frame
  <2>2. QED
    BY <2>1 DEF MarkRemoved, Depth
<1>7. ASSUME NEW s \in Slots, DeleteTask(s)
      PROVE  TypeOK'
  <2>1. stack' \in Seq(Frame)
    BY <1>6, <1>7 DEF DeleteTask
  <2>2. ASSUME NEW b \in Pointers
        PROVE  [EmptyTcb EXCEPT !.buffer = b] \in Tcb
    BY <2>2 DEF EmptyTcb, Tcb, States, Threads, NoThread
  <2>3. Tcbs' \in [Slots -> Tcb]
    BY <1>7, <2>2 DEF DeleteTask, Pointers
  <2>4. TaskCnt' \in Nat
    BY <1>7 DEF DeleteTask
  <2>5. QED
    BY <1>7, <2>1, <2>3, <2>4 DEF DeleteTask
<1>8. ASSUME NEW s \in Slots, NEW tcb \in Tcb, OnThread(s, tcb)
      PROVE  TypeOK'
  BY <1>8 DEF OnThread
<1>9. ASSUME NEW s \in Slots, SuspendTask(s) \/ ResumeTask(s) \/ RestartTask(s)
      PROVE  TypeOK'
  <2>1. Tcbs[s] \in Tcb
    OBVIOUS
  <2>2. CASE SuspendTask(s)
    <3>1. CASE Tcbs[s].pt.here
      <4>1. [Tcbs[s] EXCEPT !.pt.enabled = FALSE] \in Tcb
        BY <2>1, <3>1 DEF Tcb, Threads
      <4>2. QED
        BY <1>8, <2>2, <4>1 DEF SuspendTask
    <3>2. CASE ~Tcbs[s].pt.here
      BY <2>2, <3>2 DEF SuspendTask, OnThread
    <3>3. QED
      BY <3>1, <3>2
  <2>3. CASE ResumeTask(s)
    <3>1. CASE Tcbs[s].pt.here
      <4>1. [Tcbs[s] EXCEPT !.pt.enabled = TRUE] \in Tcb
        BY <2>1, <3>1 DEF Tcb, Threads
      <4>2. QED
        BY <1>8, <2>3, <4>1 DEF ResumeTask
    <3>2. CASE ~Tcbs[s].pt.here
      BY <2>3, <3>2 DEF ResumeTask, OnThread
    <3>3. QED
      BY <3>1, <3>2
  <2>4. CASE RestartTask(s)
    <3>1. CASE Tcbs[s].pt.here
      <4>1. [Tcbs[s] EXCEPT !.pt.ended = FALSE, !.state = "INIT"] \in Tcb
        BY <2>1, <3>1 DEF Tcb, Threads, States
      <4>2. QED
        BY <1>8, <2>4, <4>1 DEF RestartTask
    <3>2. CASE ~Tcbs[s].pt.here
      BY <2>4, <3>2 DEF RestartTask, OnThread
    <3>3. QED
      BY <3>1, <3>2
  <2>5. QED
    BY <1>9, <2>2, <2>3, <2>4
<1>10. ASSUME NEW s \in Slots, KillTask(s)
       PROVE  TypeOK'
  BY <1>10 DEF KillTask, Tcb, States
<1>11. CASE NestedPass
  <2>1. NewFrame \in Frame
    BY NAssumption DEF NewFrame, Frame
  <2>2. QED
    BY <1>11, <2>1 DEF NestedPass
<1>12. CASE PtsInit
  BY <1>6, <1>12 DEF PtsInit, EmptyTcb, Tcb, States, Threads, NoThread, Pointers, NoTask
<1>13. CASE PtsTerm
  BY <1>6, <1>13 DEF PtsTerm, EmptyTcb, Tcb, States, Threads, NoThread, Pointers
<1>14. CASE UNCHANGED vars
  BY <1>14 DEF vars
<1>15. QED
  BY <1>1, <1>2, <1>3, <1>4, <1>5, <1>7, <1>9, <1>10, <1>11, <1>12, <1>13, <1>14
     DEF Next, Process, Call

\* Whatever the tasks call, careful or not, the control blocks, the count and
\* the frames of the nested passes stay well-formed; in particular no pass
\* steps past the last slot.
THEOREM TypeCorrect == Spec => []TypeOK
<1>1. Init => TypeOK
  BY NAssumption DEF Init, TypeOK, EmptyTcb, Tcb, States, Threads, NoThread, Pointers, NoTask, Slots
<1>2. QED
  BY <1>1, TypeStep, PTL DEF Spec

-----------------------------------------------------------------------------
(* The count of tasks.                                                      *)

\* The taken slots can be counted.
LEMMA TakenFinite == IsFiniteSet(Taken) /\ Cardinality(Taken) \in Nat
<1>1. IsFiniteSet(Slots)
  BY NAssumption, FS_Interval DEF Slots
<1>2. Taken \subseteq Slots
  BY DEF Taken
<1>3. QED
  BY <1>1, <1>2, FS_Subset, FS_CardinalityType

\* The steps that leave the set of tasks alone.
LEMMA TakenKept ==
  ASSUME TypeOK,
         \/ MainPass \/ PassEnd \/ NestedPass \/ UNCHANGED vars
         \/ \E s \in Slots : \/ Visit(s) \/ KillTask(s) \/ SuspendTask(s)
                             \/ ResumeTask(s) \/ RestartTask(s)
         \/ \E ended \in BOOLEAN : Return(ended)
  PROVE  Taken' = Taken /\ TaskCnt' = TaskCnt
<1>1. CASE MainPass \/ PassEnd \/ NestedPass \/ UNCHANGED vars
  BY <1>1 DEF MainPass, PassEnd, NestedPass, vars, Taken
<1>2. ASSUME NEW s \in Slots, Visit(s)
      PROVE  Taken' = Taken /\ TaskCnt' = TaskCnt
  BY <1>2 DEF TypeOK, Visit, Tcb, Taken
<1>3. ASSUME NEW s \in Slots, KillTask(s)
      PROVE  Taken' = Taken /\ TaskCnt' = TaskCnt
  BY <1>3 DEF TypeOK, KillTask, Tcb, Taken
<1>4. ASSUME NEW s \in Slots, SuspendTask(s)
      PROVE  Taken' = Taken /\ TaskCnt' = TaskCnt
  BY <1>4 DEF TypeOK, SuspendTask, OnThread, Tcb, Taken
<1>5. ASSUME NEW s \in Slots, ResumeTask(s)
      PROVE  Taken' = Taken /\ TaskCnt' = TaskCnt
  BY <1>5 DEF TypeOK, ResumeTask, OnThread, Tcb, Taken
<1>6. ASSUME NEW s \in Slots, RestartTask(s)
      PROVE  Taken' = Taken /\ TaskCnt' = TaskCnt
  BY <1>6 DEF TypeOK, RestartTask, OnThread, Tcb, Taken
<1>7. ASSUME NEW ended \in BOOLEAN, Return(ended)
      PROVE  Taken' = Taken /\ TaskCnt' = TaskCnt
  <2>1. CASE Top.body = "Init"
    BY <1>7, <2>1 DEF TypeOK, Return, Tcb, Taken
  <2>2. CASE Top.body # "Init"
    BY <1>7, <2>2 DEF TypeOK, Return, Tcb, Taken
  <2>3. QED
    BY <2>1, <2>2
<1>8. QED
  BY <1>1, <1>2, <1>3, <1>4, <1>5, <1>6, <1>7

\* PTS_AddTask takes one free slot.
LEMMA AddTakes ==
  ASSUME TypeOK, NEW messages \in BOOLEAN, AddTask(messages)
  PROVE  \E s \in Slots \ Taken : Taken' = Taken \cup {s}
<1>1. PICK s \in Slots \ Taken : Tcbs' = [Tcbs EXCEPT ![s] = NewTcb(messages, Tcbs[s].buffer)]
  BY DEF AddTask
<1>2. Taken' = Taken \cup {s}
  BY <1>1 DEF TypeOK, Taken, NewTcb
<1>3. QED
  BY <1>2

\* PTS_DeleteTask gives its slot back and no other.
LEMMA DeleteFrees ==
  ASSUME TypeOK, NEW s \in Slots, DeleteTask(s)
  PROVE  Taken' = Taken \ {s}
BY DEF TypeOK, DeleteTask, EmptyTcb, Taken

\* PTS_Init and PTS_Term give all slots back.
LEMMA ResetFrees ==
  ASSUME TypeOK, PtsInit \/ PtsTerm
  PROVE  Taken' = {} /\ TaskCnt' = 0 /\ MarkRemoved
<1>1. CASE PtsInit
  BY <1>1 DEF PtsInit, EmptyTcb, Taken
<1>2. CASE PtsTerm
  BY <1>2 DEF PtsTerm, EmptyTcb, Taken
<1>3. QED
  BY <1>1, <1>2

\* Every step keeps the count of tasks right.
LEMMA CountStep ==
  ASSUME Careful, TypeOK, TaskCountRight, [Next]_vars
  PROVE  TaskCountRight'
<1> USE DEF TaskCountRight
<1>1. CASE \/ MainPass \/ PassEnd \/ NestedPass \/ UNCHANGED vars
           \/ \E s \in Slots : \/ Visit(s) \/ KillTask(s) \/ SuspendTask(s)
                               \/ ResumeTask(s) \/ RestartTask(s)
           \/ \E ended \in BOOLEAN : Return(ended)
  BY <1>1, TakenKept
<1>2. CASE \E messages \in BOOLEAN : AddTask(messages)
  BY <1>2, AddTakes, TakenFinite, FS_AddElement DEF AddTask
<1>3. ASSUME NEW s \in Slots, DeleteTask(s)
      PROVE  TaskCountRight'
  <2>1. s \in Taken /\ TaskCnt' = TaskCnt - 1
    BY <1>3 DEF DeleteTask
  <2>2. QED
    BY <1>3, <2>1, DeleteFrees, TakenFinite, FS_RemoveElement
<1>4. CASE PtsInit \/ PtsTerm
  BY <1>4, ResetFrees, FS_EmptySet
<1>5. QED
  BY <1>1, <1>2, <1>3, <1>4 DEF Next, Process, Call

\* As long as the commands name slots that hold a task, PTS_GetTaskCnt is the
\* number of slots taken, for any number of slots and any nesting of passes.
THEOREM CountCorrect == ASSUME Careful PROVE Spec => []TaskCountRight
<1>1. Init => TaskCountRight
  <2> SUFFICES ASSUME Init PROVE TaskCountRight
    OBVIOUS
  <2>1. Taken = {}
    BY DEF Init, Taken, EmptyTcb
  <2>2. QED
    BY <2>1, FS_EmptySet DEF Init, TaskCountRight
<1>2. TypeOK /\ TaskCountRight /\ [Next]_vars => TaskCountRight'
  BY CountStep
<1>3. QED
  BY <1>1, <1>2, TypeCorrect, PTL DEF Spec

-----------------------------------------------------------------------------
(* A pass reaches every task.                                               *)

\* The tasks a pass has got past, the one it is running included.
Passed(f, T) == {s \in T : s < f.i \/ (f.body # "none" /\ s = f.i)}

\* A pass has never counted more tasks than it has got past: tasks may be added
\* behind it, which it has not counted, but none it has counted is gone.
CountsWhatItPassed ==
  \A d \in 1..Depth :
    ~stack[d].removed => stack[d].j <= Cardinality(Passed(stack[d], Taken))

\* A frame that has passed more has counted no less, and one more if a slot is new.
LEMMA PassedGrows ==
  ASSUME NEW f, NEW g, NEW T \in SUBSET Slots, NEW U \in SUBSET Slots,
         Passed(f, T) \subseteq Passed(g, U)
  PROVE  /\ Cardinality(Passed(f, T)) \in Nat
         /\ Cardinality(Passed(g, U)) \in Nat
         /\ Cardinality(Passed(f, T)) <= Cardinality(Passed(g, U))
         /\ (\E s \in Passed(g, U) : s \notin Passed(f, T)) =>
              Cardinality(Passed(f, T)) + 1 <= Cardinality(Passed(g, U))
<1> DEFINE A == Passed(f, T)
           B == Passed(g, U)
<1>1. IsFiniteSet(Slots)
  BY NAssumption, FS_Interval DEF Slots
<1>2. B \subseteq Slots /\ A \subseteq Slots
  BY DEF Passed
<1>3. IsFiniteSet(A) /\ IsFiniteSet(B)
  BY <1>1, <1>2, FS_Subset
<1>4. A \subseteq B
  OBVIOUS
<1> HIDE DEF A, B
<1>5. Cardinality(A) \in Nat /\ Cardinality(B) \in Nat /\ Cardinality(A) <= Cardinality(B)
  BY <1>3, <1>4, FS_CardinalityType, FS_Subset
<1>6. ASSUME NEW s \in B, s \notin A
      PROVE  Cardinality(A) + 1 <= Cardinality(B)
  <2>1. A \cup {s} \subseteq B
    BY <1>4, <1>6
  <2>2. Cardinality(A \cup {s}) = Cardinality(A) + 1
    BY <1>3, <1>6, FS_AddElement
  <2>3. Cardinality(A \cup {s}) <= Cardinality(B)
    BY <1>3, <2>1, FS_Subset
  <2>4. QED
    BY <2>2, <2>3
<1>7. QED
  BY <1>5, <1>6 DEF A, B

\* Every step keeps each frame's counter at the number of tasks it has passed.
LEMMA PassStep ==
  ASSUME TypeOK, TypeOK', CountsWhatItPassed, [Next]_vars
  PROVE  CountsWhatItPassed'
<1>1. Depth \in Nat /\ Taken \in SUBSET Slots /\ Taken' \in SUBSET Slots
      /\ \A d \in 1..Depth : stack[d] \in Frame
  BY DEF TypeOK, Depth, Taken
<1>2. ASSUME stack' = stack, Taken \subseteq Taken'
      PROVE  CountsWhatItPassed'
  <2>1. Depth' = Depth
    BY <1>2 DEF Depth
  <2>2. ASSUME NEW d \in 1..Depth, ~stack[d].removed
        PROVE  stack[d].j <= Cardinality(Passed(stack[d], Taken'))
    <3>1. Passed(stack[d], Taken) \subseteq Passed(stack[d], Taken')
      BY <1>2 DEF Passed
    <3>2. Cardinality(Passed(stack[d], Taken)) <= Cardinality(Passed(stack[d], Taken'))
          /\ Cardinality(Passed(stack[d], Taken)) \in Nat
          /\ Cardinality(Passed(stack[d], Taken')) \in Nat
      BY <1>1, <3>1, PassedGrows
    <3>3. stack[d].j \in Nat /\ stack[d].j <= Cardinality(Passed(stack[d], Taken))
      BY <1>1, <2>2 DEF CountsWhatItPassed, Frame
    <3>4. QED
      BY <3>2, <3>3
  <2>3. QED
    BY <1>2, <2>1, <2>2 DEF CountsWhatItPassed
<1>3. ASSUME MarkRemoved
      PROVE  CountsWhatItPassed'
  <2>1. Depth' = Depth
    BY <1>1, <1>3 DEF MarkRemoved, Depth
  <2>2. \A d \in 1..Depth : stack'[d].removed
    BY <1>1, <1>3 DEF MarkRemoved, Frame
  <2>3. QED
    BY <2>1, <2>2 DEF CountsWhatItPassed
<1>4. ASSUME Taken' = Taken, Depth > 0, NEW f \in Frame, stack' = SetTop(f),
             f.removed = Top.removed,
             Passed(Top, Taken) \subseteq Passed(f, Taken),
             f.j = Top.j \/ (f.j = Top.j + 1 /\
                             \E s \in Passed(f, Taken) : s \notin Passed(Top, Taken))
      PROVE  CountsWhatItPassed'
  <2>1. /\ Depth' = Depth /\ Depth \in 1..Len(stack) /\ stack[Depth] = Top
        /\ \A d \in 1..Depth : stack'[d] = IF d = Depth THEN f ELSE stack[d]
    BY <1>1, <1>4, SeqExcept DEF TypeOK, SetTop, Depth, Top
  <2>2. ASSUME ~f.removed
        PROVE  f.j <= Cardinality(Passed(f, Taken))
    <3>1. Top.j \in Nat /\ Top.j <= Cardinality(Passed(Top, Taken))
      BY <1>1, <1>4, <2>1, <2>2 DEF CountsWhatItPassed, Frame
    <3>2. /\ Cardinality(Passed(Top, Taken)) \in Nat
          /\ Cardinality(Passed(f, Taken)) \in Nat
          /\ Cardinality(Passed(Top, Taken)) <= Cardinality(Passed(f, Taken))
          /\ (\E s \in Passed(f, Taken) : s \notin Passed(Top, Taken)) =>
               Cardinality(Passed(Top, Taken)) + 1 <= Cardinality(Passed(f, Taken))
      BY <1>1, <1>4, PassedGrows
    <3>3. QED
      BY <1>4, <3>1, <3>2
  <2>3. QED
    BY <1>4, <2>1, <2>2 DEF CountsWhatItPassed
<1>5. ASSUME Taken' = Taken, stack' = Append(stack, NewFrame)
      PROVE  CountsWhatItPassed'
  <2>1. /\ Depth' = Depth + 1
        /\ \A d \in 1..(Depth + 1) : stack'[d] = IF d = Depth + 1 THEN NewFrame ELSE stack[d]
    BY <1>1, <1>5 DEF TypeOK, Depth
  <2>2. NewFrame.j = 0 /\ Cardinality(Passed(NewFrame, Taken)) \in Nat
    BY <1>1, PassedGrows DEF NewFrame
  <2>3. ASSUME NEW d \in 1..(Depth + 1), ~stack'[d].removed
        PROVE  stack'[d].j <= Cardinality(Passed(stack'[d], Taken))
    <3>1. CASE d = Depth + 1
      BY <2>1, <2>2, <3>1
    <3>2. CASE d # Depth + 1
      <4>1. d \in 1..Depth /\ stack'[d] = stack[d]
        BY <1>1, <2>1, <3>2
      <4>2. QED
        BY <2>3, <4>1 DEF CountsWhatItPassed
    <3>3. QED
      BY <3>1, <3>2
  <2>4. QED
    BY <1>5, <2>1, <2>3 DEF CountsWhatItPassed
<1>6. CASE MainPass \/ NestedPass
  <2>1. stack' = Append(stack, NewFrame)
    <3>1. CASE MainPass
      <4>1. stack = <<>>
        BY <3>1 DEF MainPass, TypeOK, Depth
      <4>2. QED
        BY <3>1, <4>1 DEF MainPass
    <3>2. CASE NestedPass
      BY <3>2 DEF NestedPass
    <3>3. QED
      BY <1>6, <3>1, <3>2
  <2>2. QED
    BY <1>5, <1>6, <2>1, TakenKept
<1>7. ASSUME NEW s \in Slots, Visit(s)
      PROVE  CountsWhatItPassed'
  <2> DEFINE f == [Top EXCEPT !.i = IF Enters(s) = "none" THEN s + 1 ELSE s,
                              !.j = @ + 1,
                              !.body = Enters(s)]
  <2>1. /\ Depth > 0 /\ Top.body = "none" /\ Taken' = Taken /\ stack' = SetTop(f)
        /\ s \in Taken /\ s >= Top.i
    BY <1>7, TakenKept DEF Visit, Looping, Ahead
  <2>2. Depth' = Depth /\ Depth \in 1..Len(stack)
    BY <2>1, TopType, SeqExcept DEF TypeOK, SetTop, Depth
  <2>3. /\ f.i = IF Enters(s) = "none" THEN s + 1 ELSE s
        /\ f.j = Top.j + 1 /\ f.body = Enters(s) /\ f.removed = Top.removed
    BY <2>1, TopType DEF Frame
  <2>4. f \in Frame
    <3>1. stack'[Depth] \in Frame
      BY <2>2 DEF TypeOK, Depth
    <3>2. stack'[Depth] = f
      BY <2>1, <2>2 DEF SetTop
    <3>3. QED
      BY <3>1, <3>2
  <2>5. Top.i \in 0..N /\ s \in 0..(N - 1) /\ Taken \subseteq 0..(N - 1)
    BY <1>1, <2>1, TopType DEF Slots
  <2> HIDE DEF f
  <2>6. s \in Passed(f, Taken) /\ s \notin Passed(Top, Taken)
    BY <2>1, <2>3, <2>5, NAssumption DEF Passed
  <2>7. Passed(Top, Taken) \subseteq Passed(f, Taken)
    <3>1. ASSUME NEW t \in Taken, t < Top.i
          PROVE  t < f.i
      BY <2>1, <2>3, <2>5, <3>1, NAssumption
    <3>2. QED
      BY <2>1, <3>1 DEF Passed
  <2>8. f.j = Top.j + 1 /\ \E t \in Passed(f, Taken) : t \notin Passed(Top, Taken)
    BY <2>3, <2>6
  <2>9. QED
    BY <1>4, <2>1, <2>3, <2>4, <2>7, <2>8, Zenon
<1>8. ASSUME NEW ended \in BOOLEAN, Return(ended)
      PROVE  CountsWhatItPassed'
  <2> DEFINE f == [Top EXCEPT !.i = @ + 1, !.body = "none"]
  <2>1. Depth > 0 /\ Top.body # "none" /\ Taken' = Taken /\ stack' = SetTop(f)
    BY <1>8, TakenKept DEF Return
  <2>2. Depth' = Depth /\ Depth \in 1..Len(stack)
    BY <2>1, TopType, SeqExcept DEF TypeOK, SetTop, Depth
  <2>3. f.i = Top.i + 1 /\ f.j = Top.j /\ f.body = "none" /\ f.removed = Top.removed
    BY <2>1, TopType DEF Frame
  <2>4. f \in Frame
    <3>1. stack'[Depth] \in Frame
      BY <2>2 DEF TypeOK, Depth
    <3>2. stack'[Depth] = f
      BY <2>1, <2>2 DEF SetTop
    <3>3. QED
      BY <3>1, <3>2
  <2>5. Top.i \in 0..(N - 1) /\ Taken \subseteq 0..(N - 1)
    BY <1>1, <2>1, TopType DEF Slots
  <2> HIDE DEF f
  <2>6. Passed(Top, Taken) \subseteq Passed(f, Taken)
    <3>1. ASSUME NEW t \in Taken, t < Top.i \/ t = Top.i
          PROVE  t < f.i
      BY <2>3, <2>5, <3>1, NAssumption
    <3>2. QED
      BY <2>1, <3>1 DEF Passed
  <2>7. QED
    BY <1>4, <2>1, <2>3, <2>4, <2>6, Zenon
<1>9. CASE PassEnd
  <2>1. Taken' = Taken /\ Depth \in Nat /\ Depth > 0 /\ stack' = SubSeq(stack, 1, Depth - 1)
    BY <1>1, <1>9, TakenKept DEF PassEnd, Looping
  <2>2. Depth' = Depth - 1 /\ \A d \in 1..(Depth - 1) : stack'[d] = stack[d]
    <3>1. stack \in Seq(Frame) /\ Len(stack) \in Nat /\ Len(stack) > 0
          /\ stack' = SubSeq(stack, 1, Len(stack) - 1)
      BY <2>1 DEF TypeOK, Depth
    <3>2. Len(stack') = Len(stack) - 1 /\ \A d \in 1..(Len(stack) - 1) : stack'[d] = stack[d]
      <4>1. \A d \in 1..(Len(stack) - 1) : stack[d] \in Frame
        BY <3>1
      <4>2. 1 \in Int /\ Len(stack) - 1 \in Int
        BY <3>1
      <4>3. /\ Len(stack') = IF 1 <= Len(stack) - 1 THEN (Len(stack) - 1) - 1 + 1 ELSE 0
            /\ \A d \in 1..((Len(stack) - 1) - 1 + 1) : stack'[d] = stack[1 + d - 1]
        BY ONLY <3>1, <4>1, <4>2, SubSeqProperties
      <4>4. Len(stack') = Len(stack) - 1
        <5> DEFINE L == Len(stack)
        <5>1. L \in Nat /\ L > 0
              /\ Len(stack') = IF 1 <= L - 1 THEN (L - 1) - 1 + 1 ELSE 0
          BY <3>1, <4>3
        <5> HIDE DEF L
        <5>2. Len(stack') = L - 1
          BY ONLY <5>1
        <5>3. QED
          BY <5>2 DEF L
      <4>5. ASSUME NEW d \in 1..(Len(stack) - 1)
            PROVE  stack'[d] = stack[d]
        <5>1. d \in 1..((Len(stack) - 1) - 1 + 1) /\ 1 + d - 1 = d
          BY <3>1
        <5>2. QED
          BY <4>3, <5>1
      <4>6. QED
        BY <4>4, <4>5
    <3>3. QED
      BY <3>2 DEF Depth
  <2>3. \A d \in 1..Depth' : d \in 1..Depth /\ stack'[d] = stack[d]
    BY <2>1, <2>2
  <2>4. QED
    BY <2>1, <2>3 DEF CountsWhatItPassed
<1>10. CASE \E messages \in BOOLEAN : AddTask(messages)
  BY <1>2, <1>10, AddTakes DEF AddTask
<1>11. CASE (\E s \in Slots : DeleteTask(s)) \/ PtsInit \/ PtsTerm
  BY <1>3, <1>11, ResetFrees DEF DeleteTask
<1>12. CASE UNCHANGED vars \/ \E s \in Slots : \/ KillTask(s) \/ SuspendTask(s)
                                               \/ ResumeTask(s) \/ RestartTask(s)
  BY <1>2, <1>12, TakenKept DEF vars, KillTask, SuspendTask, ResumeTask, RestartTask, OnThread
<1>13. QED
  BY <1>6, <1>7, <1>8, <1>9, <1>10, <1>11, <1>12 DEF Next, Process, Call

\* A counter equal to the count of tasks leaves none ahead.
LEMMA CountedAllReached ==
  ASSUME TypeOK, TaskCountRight, CountsWhatItPassed
  PROVE  PassReachesAll
<1> SUFFICES ASSUME NEW d \in 1..Depth, stack[d].body = "none", ~stack[d].removed,
                    stack[d].j >= TaskCnt, NEW s \in Taken
             PROVE  s < stack[d].i
  BY DEF PassReachesAll
<1> DEFINE f == stack[d]
           P == Passed(f, Taken)
<1>1. f.j \in Nat /\ f.j <= Cardinality(P)
  BY DEF TypeOK, Depth, Frame, CountsWhatItPassed
<1>2. P \subseteq Taken
  BY DEF Passed
<1>3. IsFiniteSet(Taken) /\ Cardinality(Taken) \in Nat
  BY TakenFinite
<1> HIDE DEF P
<1>4. Cardinality(P) <= Cardinality(Taken) /\ Cardinality(P) \in Nat
      /\ (Cardinality(P) = Cardinality(Taken) => P = Taken)
  BY <1>2, <1>3, FS_Subset, FS_CardinalityType
<1>5. P = Taken
  BY <1>1, <1>3, <1>4 DEF TaskCountRight
<1>6. QED
  BY <1>5 DEF P, Passed

\* No pass of PTS_Process, at any depth of nesting, stops short of a task that
\* is there unless one was deleted during the walk, for any number of slots.
THEOREM PassComplete == ASSUME Careful PROVE Spec => []PassReachesAll
<1>1. Init => CountsWhatItPassed
  BY DEF Init, CountsWhatItPassed, Depth
<1>2. TypeOK /\ TypeOK' /\ CountsWhatItPassed /\ [Next]_vars => CountsWhatItPassed'
  BY PassStep
<1>3. TypeOK /\ TaskCountRight /\ CountsWhatItPassed => PassReachesAll
  BY CountedAllReached
<1>4. QED
  BY <1>1, <1>2, <1>3, TypeCorrect, CountCorrect, PTL DEF Spec

-----------------------------------------------------------------------------
(* Pointers.                                                                *)

\* A slot that is taken holds a thread and, if its task has messages, a buffer.
SlotsSound ==
  \A s \in Slots : Tcbs[s].taken =>
    Tcbs[s].pt.here /\ (Tcbs[s].messages => Tcbs[s].buffer = "live")

\* The one way to a fault: a task without messages goes, and frees a buffer that
\* was freed before.
FreesTwice ==
  fault' = "free" /\ \E s \in Taken :
    ~Tcbs[s].messages /\ Tcbs[s].buffer = "dangling" /\ ~Tcbs'[s].taken

\* Every step keeps taken slots sound, and fails in no other way.
LEMMA SlotsSoundStep ==
  ASSUME Careful, TypeOK, SlotsSound, [Next]_vars
  PROVE  SlotsSound' /\ (fault' = fault \/ FreesTwice)
<1> USE DEF SlotsSound
<1>1. CASE MainPass \/ PassEnd \/ NestedPass \/ UNCHANGED vars
  BY <1>1 DEF MainPass, PassEnd, NestedPass, vars
<1>2. ASSUME NEW s \in Slots, Visit(s)
      PROVE  SlotsSound' /\ fault' = fault
  BY <1>2 DEF TypeOK, Visit, Tcb
<1>3. ASSUME NEW s \in Slots, KillTask(s)
      PROVE  SlotsSound' /\ fault' = fault
  BY <1>3 DEF TypeOK, KillTask, Tcb
<1>4. ASSUME NEW s \in Slots, SuspendTask(s) \/ ResumeTask(s) \/ RestartTask(s)
      PROVE  SlotsSound' /\ fault' = fault
  <2>1. s \in Taken /\ Tcbs[s].pt.here
    BY <1>4 DEF SuspendTask, ResumeTask, RestartTask, OnThread, Taken
  <2>2. Tcbs[s] \in Tcb /\ (Tcbs[s].messages => Tcbs[s].buffer = "live")
    BY <2>1 DEF TypeOK, Taken
  <2>3. ASSUME NEW tcb, tcb.pt.here, tcb.buffer = Tcbs[s].buffer,
               tcb.messages = Tcbs[s].messages, OnThread(s, tcb)
        PROVE  SlotsSound' /\ fault' = fault
    BY <2>1, <2>2, <2>3 DEF TypeOK, OnThread
  <2>4. CASE SuspendTask(s)
    <3>1. /\ [Tcbs[s] EXCEPT !.pt.enabled = FALSE].pt.here
          /\ [Tcbs[s] EXCEPT !.pt.enabled = FALSE].buffer = Tcbs[s].buffer
          /\ [Tcbs[s] EXCEPT !.pt.enabled = FALSE].messages = Tcbs[s].messages
      BY <2>1, <2>2 DEF Tcb, Threads
    <3>2. QED
      BY <2>3, <2>4, <3>1 DEF SuspendTask
  <2>5. CASE ResumeTask(s)
    <3>1. /\ [Tcbs[s] EXCEPT !.pt.enabled = TRUE].pt.here
          /\ [Tcbs[s] EXCEPT !.pt.enabled = TRUE].buffer = Tcbs[s].buffer
          /\ [Tcbs[s] EXCEPT !.pt.enabled = TRUE].messages = Tcbs[s].messages
      BY <2>1, <2>2 DEF Tcb, Threads
    <3>2. QED
      BY <2>3, <2>5, <3>1 DEF ResumeTask
  <2>6. CASE RestartTask(s)
    <3> DEFINE tcb == [Tcbs[s] EXCEPT !.pt.ended = FALSE, !.state = "INIT"]
    <3>1. tcb.pt.here /\ tcb.buffer = Tcbs[s].buffer /\ tcb.messages = Tcbs[s].messages
      BY <2>1, <2>2 DEF Tcb, Threads
    <3>2. QED
      BY <2>3, <2>6, <3>1 DEF RestartTask
  <2>7. QED
    BY <1>4, <2>4, <2>5, <2>6
<1>5. ASSUME NEW ended \in BOOLEAN, Return(ended)
      PROVE  SlotsSound' /\ fault' = fault
  <2>1. CASE Top.body = "Init"
    BY <1>5, <2>1 DEF TypeOK, Return, Tcb
  <2>2. CASE Top.body # "Init"
    BY <1>5, <2>2 DEF TypeOK, Return, Tcb, Threads
  <2>3. QED
    BY <2>1, <2>2
<1>6. ASSUME NEW messages \in BOOLEAN, AddTask(messages)
      PROVE  SlotsSound' /\ fault' = fault
  <2>1. PICK s \in Slots : Tcbs' = [Tcbs EXCEPT ![s] = NewTcb(messages, Tcbs[s].buffer)]
    BY <1>6 DEF AddTask
  <2>2. Tcbs[s].buffer \in Pointers
    BY DEF TypeOK, Tcb
  <2>3. QED
    BY <1>6, <2>1, <2>2, NewTcbType DEF TypeOK, AddTask
<1>7. ASSUME NEW s \in Slots, DeleteTask(s)
      PROVE  SlotsSound' /\ (fault' = fault \/ FreesTwice)
  <2>1. fault = "none" /\ s \in Taken /\ ~Tcbs'[s].taken /\ SlotsSound'
    BY <1>7 DEF TypeOK, DeleteTask, EmptyTcb, Taken
  <2>2. CASE Tcbs[s].buffer = "dangling"
    <3>1. ~Tcbs[s].messages
      BY <2>1, <2>2 DEF Taken
    <3>2. QED
      BY <1>7, <2>1, <2>2, <3>1 DEF DeleteTask, FreesTwice
  <2>3. CASE Tcbs[s].buffer # "dangling"
    BY <1>7, <2>1, <2>3 DEF DeleteTask
  <2>4. QED
    BY <2>1, <2>2, <2>3
<1>8. CASE PtsInit
  BY <1>8 DEF TypeOK, PtsInit, EmptyTcb
<1>9. CASE PtsTerm
  <2>1. fault = "none" /\ SlotsSound' /\ \A s \in Slots : ~Tcbs'[s].taken
    BY <1>9 DEF TypeOK, PtsTerm, EmptyTcb, Taken
  <2>2. CASE \E s \in Taken : Tcbs[s].buffer = "dangling"
    <3>1. PICK s \in Taken : Tcbs[s].buffer = "dangling"
      BY <2>2
    <3>2. ~Tcbs[s].messages /\ s \in Slots
      BY <3>1 DEF Taken
    <3>3. QED
      BY <1>9, <2>1, <2>2, <3>1, <3>2 DEF PtsTerm, FreesTwice
  <2>3. CASE ~\E s \in Taken : Tcbs[s].buffer = "dangling"
    BY <1>9, <2>1, <2>3 DEF PtsTerm
  <2>4. QED
    BY <2>1, <2>2, <2>3
<1>10. QED
  BY <1>1, <1>2, <1>3, <1>4, <1>5, <1>6, <1>7, <1>8, <1>9 DEF Next, Process, Call

\* As long as the commands name slots that hold a task, a task with messages has
\* its buffer whatever was added, deleted and reset before it, and the scheduler
\* misuses one pointer only: the one a task added without messages finds in its
\* slot, freed by its predecessor's deletion and freed again by its own.
THEOREM BuffersOwned == ASSUME Careful PROVE Spec => MessagesOwned
<1>1. Init => SlotsSound
  BY DEF Init, SlotsSound, EmptyTcb
<1>2. TypeOK /\ SlotsSound /\ [Next]_vars => SlotsSound' /\ [FreesTwice]_fault
  BY SlotsSoundStep
<1>3. SlotsSound => \A s \in Taken : Tcbs[s].messages => Tcbs[s].buffer = "live"
  BY DEF SlotsSound, Taken
<1>4. FreesTwice <=> /\ fault' = "free"
                     /\ \E s \in Taken : /\ ~Tcbs[s].messages
                                         /\ Tcbs[s].buffer = "dangling"
                                         /\ ~Tcbs'[s].taken
  BY DEF FreesTwice
<1>5. QED
  BY <1>1, <1>2, <1>3, <1>4, TypeCorrect, PTL DEF Spec, MessagesOwned
=============================================================================

--------------------------- MODULE CTimerThreads ---------------------------
(***************************************************************************)
(* The timer list of src/src/TIMER.CPP pointer by pointer, worked on by    *)
(* two threads: the timer thread (the tick interrupt on a device), which   *)
(* calls ProcessTimers, and a caller.  Callers exclude each other with     *)
(* TMR_Mutex, so one stands for all of them.  On a device each call runs   *)
(* with interrupts disabled; the WIN32 build compiles that out and puts    *)
(* nothing in its place on the timer thread's side.  A step is one C       *)
(* statement.                                                              *)
(***************************************************************************)
EXTENDS Integers, Sequences

CONSTANTS Event,      \* the CTimerEvent objects
          NoEvent,    \* the null pThis of a free link
          MaxEvents,  \* MAX_EVENTS
          MaxTicks,   \* bound: the longest delay asked for
          Periodic,   \* the events callers schedule as PERIODIC
          Win32       \* the WIN32 build

ASSUME MaxEventsAssumption == MaxEvents \in Nat \ {0}
ASSUME MaxTicksAssumption == MaxTicks \in Nat \ {0}
ASSUME NoEventAssumption == NoEvent \notin Event
ASSUME PeriodicAssumption == Periodic \subseteq Event
ASSUME Win32Assumption == Win32 \in BOOLEAN

VARIABLES node,   \* the links, and Last at 0
          fired,  \* how often the ProcessTimers under way called each Event()
          th,     \* what each thread is doing, and its locals
          done    \* history: the list, what fired and which call, when the
                  \* last call returned

vars == <<node, fired, th, done>>

Links == 1..MaxEvents
Last == 0
Null == MaxEvents + 1

Thread == {"timer", "caller"}
ModeOf(e) == IF e \in Periodic THEN "PERIODIC" ELSE "SINGLE"
Ticks == 1..MaxTicks

Pcs == {"idle", "alloc", "fill", "walk", "link1", "link2",
        "seek", "merge", "unlink", "free", "event", "cancel", "again", "leave"}

Unused == [Next |-> Null, wDelta |-> 0, wPeriod |-> 0, pThis |-> NoEvent, Flags |-> "SINGLE"]

\* back: where a Schedule or Cancel of the thread returns to.
Idle == [pc |-> "idle", back |-> "idle", e |-> NoEvent, ticks |-> 0, mode |-> "SINGLE",
         t |-> Null, tp |-> Last, head |-> Null, call |-> <<"none">>]

NoneFired == [e \in Event |-> 0]

\* The k-th node from Last on, where the nodes are N.
Nth(N) == LET nth[k \in 0..(MaxEvents + 1)] ==
                IF k = 0 THEN Last
                ELSE IF nth[k - 1] = Null THEN Null ELSE N[nth[k - 1]].Next
          IN nth

\* What a node's link holds.
View(N, l) == [pThis |-> N[l].pThis, wDelta |-> N[l].wDelta,
               wPeriod |-> N[l].wPeriod, Flags |-> N[l].Flags]

\* The list as CTimer has it.
Chain(N) == [k \in {k \in Links : Nth(N)[k] # Null} |-> View(N, Nth(N)[k])]

-----------------------------------------------------------------------------

\* InitData.
Init == /\ node = [l \in 0..MaxEvents |-> Unused]
        /\ fired = NoneFired
        /\ th = [p \in Thread |-> Idle]
        /\ done = [list |-> <<>>, fired |-> NoneFired, call |-> <<"none">>]

Other(p) == CHOOSE q \in Thread : q # p

\* int_disable: on a device a call starts only when no other is under way.
MayStart(p) == th[p].pc = "idle" /\ (Win32 \/ th[Other(p)].pc = "idle")

At(p, pc) == th[p].pc = pc

\* The thread's next statement, with changes to its locals.
Goto(p, locals) == th' = [th EXCEPT ![p] = locals]
Go(p, pc) == Goto(p, [th[p] EXCEPT !.pc = pc])

\* The function entered last returns.
Return(p) == Goto(p, IF th[p].back = "idle" THEN Idle
                     ELSE [th[p] EXCEPT !.pc = th[p].back, !.back = "idle", !.e = NoEvent,
                                        !.ticks = 0, !.t = Null, !.tp = Last])

\* When the outermost call of p returns, it is recorded.
Record(p) ==
  done' = IF th'[p].pc # "idle" THEN done
          ELSE [list |-> Chain(node'), fired |-> IF p = "timer" THEN fired ELSE NoneFired,
                call |-> th[p].call]

StartSchedule(e, ticks) ==
  /\ MayStart("caller")
  /\ Goto("caller", [Idle EXCEPT !.pc = "alloc", !.e = e, !.ticks = ticks, !.mode = ModeOf(e),
                                 !.call = <<"Schedule", e, ticks, ModeOf(e)>>])
  /\ UNCHANGED <<node, fired, done>>

StartCancel(e) ==
  /\ MayStart("caller")
  /\ Goto("caller", [Idle EXCEPT !.pc = "seek", !.e = e, !.call = <<"Cancel", e>>])
  /\ UNCHANGED <<node, fired, done>>

-----------------------------------------------------------------------------
(* Schedule.                                                                *)

\* AllocTimer finds the first free link; without one Schedule returns.
Alloc(p) ==
  LET free == {l \in Links : node[l].pThis = NoEvent}
  IN /\ At(p, "alloc")
     /\ IF free = {} THEN Return(p)
        ELSE Goto(p, [th[p] EXCEPT !.pc = "fill",
                                   !.t = CHOOSE l \in free : \A k \in free : l <= k])
     /\ UNCHANGED <<node, fired>>

\* AllocTimer takes the link it found.
Fill(p) ==
  /\ At(p, "fill")
  /\ node' = [node EXCEPT ![th[p].t] =
                [Next |-> Null, wDelta |-> th[p].ticks, wPeriod |-> th[p].ticks,
                 pThis |-> th[p].e, Flags |-> th[p].mode]]
  /\ Goto(p, [th[p] EXCEPT !.pc = "walk", !.tp = Last])
  /\ UNCHANGED fired

\* Mutant: a link that expires at the same time is not passed.
WalkShort(p) ==
  LET next == node[th[p].tp].Next
      delta == node[th[p].t].wDelta
  IN /\ At(p, "walk")
     /\ IF next = Null THEN UNCHANGED node /\ Go(p, "link1")
        ELSE IF node[next].wDelta >= delta
        THEN node' = [node EXCEPT ![next].wDelta = @ - delta] /\ Go(p, "link1")
        ELSE /\ node' = [node EXCEPT ![th[p].t].wDelta = delta - node[next].wDelta]
             /\ Goto(p, [th[p] EXCEPT !.tp = next])
     /\ UNCHANGED fired

\* One round of the search for the new link's place.
Walk(p) ==
  LET next == node[th[p].tp].Next
      delta == node[th[p].t].wDelta
  IN /\ At(p, "walk")
     /\ IF next = Null THEN UNCHANGED node /\ Go(p, "link1")
        ELSE IF node[next].wDelta > delta
        THEN node' = [node EXCEPT ![next].wDelta = @ - delta] /\ Go(p, "link1")
        ELSE /\ node' = [node EXCEPT ![th[p].t].wDelta = delta - node[next].wDelta]
             /\ Goto(p, [th[p] EXCEPT !.tp = next])
     /\ UNCHANGED fired

\* t->Next = tp->Next.
Link1(p) == /\ At(p, "link1")
            /\ node' = [node EXCEPT ![th[p].t].Next = node[th[p].tp].Next]
            /\ Go(p, "link2")
            /\ UNCHANGED fired

\* tp->Next = t.
Link2(p) == /\ At(p, "link2")
            /\ node' = [node EXCEPT ![th[p].tp].Next = th[p].t]
            /\ Return(p)
            /\ UNCHANGED fired

-----------------------------------------------------------------------------
(* Cancel.                                                                  *)

\* One round of the search for a link of the event.
Seek(p) ==
  LET next == node[th[p].tp].Next
  IN /\ At(p, "seek")
     /\ IF next = Null THEN Return(p)
        ELSE IF node[next].pThis = th[p].e
        THEN Goto(p, [th[p] EXCEPT !.pc = "merge", !.t = next])
        ELSE Goto(p, [th[p] EXCEPT !.tp = next])
     /\ UNCHANGED <<node, fired>>

\* The link after it, if there is one, takes over the ticks of tp->Next.
Merge(p) ==
  LET after == node[th[p].t].Next
      found == node[th[p].tp].Next
  IN /\ At(p, "merge")
     /\ found # Null
     /\ node' = IF after = Null THEN node
                ELSE [node EXCEPT ![after].wDelta = @ + node[found].wDelta]
     /\ Go(p, "unlink")
     /\ UNCHANGED fired

Unlink(p) == /\ At(p, "unlink")
             /\ node' = [node EXCEPT ![th[p].tp].Next = node[th[p].t].Next]
             /\ Go(p, "free")
             /\ UNCHANGED fired

\* Mutant: the link is not given back.
FreeNot(p) == /\ At(p, "free")
              /\ Return(p)
              /\ UNCHANGED <<node, fired>>

\* FreeTimer.
Free(p) == /\ At(p, "free")
           /\ node' = [node EXCEPT ![th[p].t].pThis = NoEvent]
           /\ Return(p)
           /\ UNCHANGED fired

-----------------------------------------------------------------------------
(* ProcessTimers.                                                           *)

\* Up to the loop.
StartTick ==
  LET head == node[Last].Next
      expired == head # Null /\ node[head].wDelta <= 1
  IN /\ MayStart("timer")
     /\ fired' = NoneFired
     /\ node' = IF head = Null THEN node
                ELSE [node EXCEPT ![head].wDelta = IF expired THEN 0 ELSE @ - 1]
     /\ Goto("timer", [Idle EXCEPT !.pc = IF expired THEN "event" ELSE "leave",
                                   !.head = head, !.call = <<"Tick">>])
     /\ UNCHANGED done

\* The head's Event() is called; a periodic link is scheduled again.
FireEvent ==
  LET t == node[th["timer"].head]
  IN /\ At("timer", "event")
     /\ fired' = IF t.pThis = NoEvent THEN fired ELSE [fired EXCEPT ![t.pThis] = @ + 1]
     /\ Goto("timer", IF t.Flags = "PERIODIC"
                      THEN [th["timer"] EXCEPT !.pc = "alloc", !.back = "cancel", !.e = t.pThis,
                                               !.ticks = t.wPeriod, !.mode = t.Flags]
                      ELSE [th["timer"] EXCEPT !.pc = "cancel"])
     /\ UNCHANGED node

\* Cancel(t->pThis).
CancelHead == /\ At("timer", "cancel")
              /\ Goto("timer", [th["timer"] EXCEPT !.pc = "seek", !.back = "again", !.tp = Last,
                                                   !.e = node[th["timer"].head].pThis])
              /\ UNCHANGED <<node, fired>>

\* The loop goes on while the head has no ticks left.
Again ==
  LET head == node[Last].Next
  IN /\ At("timer", "again")
     /\ Goto("timer", [th["timer"] EXCEPT
                         !.pc = IF head # Null /\ node[head].wDelta = 0 THEN "event" ELSE "leave",
                         !.head = head])
     /\ UNCHANGED <<node, fired>>

Leave(p) == /\ At(p, "leave")
            /\ Return(p)
            /\ UNCHANGED <<node, fired>>

Statement(p) == Alloc(p) \/ Fill(p) \/ Walk(p) \/ Link1(p) \/ Link2(p)
                \/ Seek(p) \/ Merge(p) \/ Unlink(p) \/ Free(p) \/ Leave(p)

Next == \/ \E e \in Event, ticks \in Ticks : StartSchedule(e, ticks)
        \/ \E e \in Event : StartCancel(e)
        \/ StartTick
        \/ \E p \in Thread : Statement(p) /\ Record(p)
        \/ (FireEvent \/ CancelHead \/ Again) /\ Record("timer")

Spec == Init /\ [][Next]_vars

\* What can still matter on a device: a free link is written before it is read,
\* so what it held is not told apart.  (With Win32 it can be read.)
LiveState == <<[l \in Links |-> IF node[l].pThis = NoEvent THEN Unused ELSE node[l]],
               node[Last], fired, th, done>>

-----------------------------------------------------------------------------
(* Properties.                                                              *)

\* While no call is under way, the links that are taken are the ones in the
\* list: none is lost to the pool and none is in the list twice, or free and in
\* it.  This is what "disable interupts while in here" (TIMER.CPP:274) is for.
LinksAccounted ==
  (\A p \in Thread : th[p].pc = "idle") =>
    /\ Nth(node)[MaxEvents + 1] = Null
    /\ {l \in Links : node[l].pThis # NoEvent} = {Nth(node)[k] : k \in Links} \ {Null}

\* The pointer code does to the list what CTimer says each call does: between
\* calls the chain from Last is CTimer's list, and what fired in a tick is what
\* CTimer fires.
Timer == INSTANCE CTimer WITH list <- done.list, fired <- done.fired, call <- done.call
TimerSpec == Timer!Spec
=============================================================================

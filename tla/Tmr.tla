--------------------------------- MODULE Tmr ---------------------------------
(***************************************************************************)
(* The timer API of src/src/TMR.CPP over the list of CTimer: timers with a *)
(* flag, events that are called, a delay that waits on the stack, and the  *)
(* thread that ticks. The calls exclude each other by TMR_Mutex and the    *)
(* tick takes no lock; here a tick is one step, CTimerThreads is about     *)
(* what happens inside it.                                                 *)
(***************************************************************************)
EXTENDS CTimer

CONSTANTS Timer,   \* the CTimerFlag objects TMR_New may give
          Func,    \* the events that TMR_Event is called with
          Delay    \* the CTimerFlag on TMR_Delay's stack

ASSUME EventAssumption == Event = Timer \cup Func \cup {Delay}

\* TMR_New hands its timers out as opaque handles, and no caller sees TMR_Delay's stack.
ASSUME DistinctAssumption == Timer \cap Func = {} /\ Delay \notin Timer \cup Func

VARIABLES alive,      \* the timers made and not deleted
          Flag,       \* of each timer and of the delay: how often it has expired
          delaying,   \* whether a caller is in TMR_Delay, which holds TMR_Mutex
          asked, age, \* history: ticks asked for by the last start, and since then
          again,      \* history: the timers started while they were scheduled
          owed        \* history: the timers, and the delay, that found a link when they
                      \* were last started and were not stopped since

apiVars == <<alive, Flag, delaying, asked, age, again, owed>>
tmrVars == <<vars, apiVars>>

Flagged == Timer \cup {Delay}
IsScheduled(e) == \E k \in 1..Len(list) : list[k].pThis = e
Room == Len(list) < MaxEvents

TmrInit ==
  /\ Init
  /\ alive = {} /\ Flag = [e \in Flagged |-> 0] /\ delaying = FALSE
  /\ asked = [e \in Flagged |-> 0] /\ age = [e \in Flagged |-> 0] /\ again = {} /\ owed = {}

\* TMR_Mutex is free: a delay keeps it until it ends.
Unlocked == ~delaying

TMR_New(t) ==
  /\ t \notin alive
  /\ alive' = alive \cup {t} /\ Flag' = [Flag EXCEPT ![t] = 0]
  /\ UNCHANGED <<vars, delaying, asked, age, again, owed>>

Cleared(t) == [Flag EXCEPT ![t] = 0]

\* A timer that is scheduled is scheduled once more.
TMR_Start(t, ticks) ==
  /\ Unlocked /\ t \in alive
  /\ Flag' = Cleared(t)
  /\ Schedule(t, ticks, "SINGLE")
  /\ asked' = [asked EXCEPT ![t] = ticks] /\ age' = [age EXCEPT ![t] = 0]
  /\ again' = IF IsScheduled(t) THEN again \cup {t} ELSE again
  /\ owed' = IF Room THEN owed \cup {t} ELSE owed \ {t}
  /\ UNCHANGED <<alive, delaying>>

TMR_Stop(t) ==
  /\ Unlocked /\ t \in alive
  /\ Cancel(t) /\ owed' = owed \ {t}
  /\ UNCHANGED <<alive, Flag, delaying, asked, age, again>>

\* Mutant: a timer is deleted and stays scheduled.
DeletedOnly(t) == UNCHANGED vars

Deleted(t) == Cancel(t)

TMR_Delete(t) ==
  /\ Unlocked /\ t \in alive
  /\ Deleted(t) /\ alive' = alive \ {t} /\ owed' = owed \ {t}
  /\ UNCHANGED <<Flag, delaying, asked, age, again>>

TMR_Event(e, ticks, mode) ==
  /\ Unlocked
  /\ IF ticks > 0 THEN Schedule(e, ticks, mode) ELSE Cancel(e)
  /\ UNCHANGED apiVars

\* TMR_Delay of some ticks. Where no link is free nobody will set its flag.
TMR_Delay(ticks) ==
  /\ Unlocked
  /\ delaying' = TRUE /\ Flag' = [Flag EXCEPT ![Delay] = 0]
  /\ Schedule(Delay, ticks, "SINGLE")
  /\ asked' = [asked EXCEPT ![Delay] = ticks] /\ age' = [age EXCEPT ![Delay] = 0]
  /\ owed' = IF Room THEN owed \cup {Delay} ELSE owed \ {Delay}
  /\ UNCHANGED <<alive, again>>

DelayOver ==
  /\ delaying /\ Flag[Delay] > 0
  /\ delaying' = FALSE /\ Flag' = [Flag EXCEPT ![Delay] = 0] /\ owed' = owed \ {Delay}
  /\ UNCHANGED <<vars, alive, asked, age, again>>

\* Mutant: the thread passes over its turn while the mutex is taken.
TurnTries == IF Unlocked THEN ProcessTimers ELSE UNCHANGED vars

\* The thread takes no lock.
Turn == ProcessTimers

\* A turn of the thread: an expired timer's Event() counts its flag.
Run ==
  /\ Turn
  /\ Flag' = [e \in Flagged |-> Flag[e] + fired'[e]]
  /\ age' = [e \in Flagged |-> IF age[e] < MaxTicks THEN age[e] + 1 ELSE MaxTicks]
  /\ UNCHANGED <<alive, delaying, asked, again, owed>>

TmrNext ==
  \/ \E t \in Timer : TMR_New(t) \/ TMR_Stop(t) \/ TMR_Delete(t)
  \/ \E t \in Timer, ticks \in Ticks : TMR_Start(t, ticks)
  \/ \E e \in Func, ticks \in {0} \cup Ticks, mode \in Mode : TMR_Event(e, ticks, mode)
  \/ \E ticks \in Ticks : TMR_Delay(ticks)
  \/ DelayOver
  \/ Run

TmrSpec == TmrInit /\ [][TmrNext]_tmrVars

-----------------------------------------------------------------------------
(* Properties.                                                              *)

\* A timer that found a link has its flag up from the tick it asked for, neither earlier
\* nor later, and once only, as long as it is not stopped; a timer that was refused a link
\* or stopped is never flagged before that tick either. So it is with the flag TMR_Delay
\* waits for, although the delay keeps the mutex all the time and the thread that is to set
\* the flag runs beside it. The exception is a timer started again while it is scheduled:
\* the first start's end counts for it.
FlagsOnTime ==
  \A e \in Flagged \ again :
    /\ e \in owed => Flag[e] = IF age[e] < asked[e] THEN 0 ELSE 1
    /\ Flag[e] > 0 => age[e] >= asked[e] /\ Flag[e] = 1

\* Nothing is scheduled that has gone: neither a deleted timer, once it was stopped before
\* each start, nor the delay after its end.
NoDeadEvent ==
  \A k \in 1..Len(list) : /\ list[k].pThis \in Timer \ again => list[k].pThis \in alive
                          /\ list[k].pThis = Delay => delaying
==============================================================================

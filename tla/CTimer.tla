------------------------------- MODULE CTimer -------------------------------
(***************************************************************************)
(* The timer list of src/src/TIMER.CPP: links in the order in which they   *)
(* expire, each with the ticks between it and the link before.  A call is  *)
(* one step here; CTimerThreads is about calls that overlap.  The links    *)
(* come from a pool of MAX_EVENTS, and a link is in the list or free, so   *)
(* the pool is the length of the list.                                     *)
(***************************************************************************)
EXTENDS Integers, FiniteSets, SequencesExt

CONSTANTS Event,      \* the CTimerEvent objects
          MaxEvents,  \* MAX_EVENTS
          MaxTicks    \* bound: the longest delay asked for

ASSUME MaxEventsAssumption == MaxEvents \in Nat \ {0}
ASSUME MaxTicksAssumption == MaxTicks \in Nat \ {0}

VARIABLES list,   \* the links from Last->Next on
          fired,  \* how often the last ProcessTimers called each Event()
          call    \* history: the last call and its arguments

vars == <<list, fired, call>>

Mode == {"SINGLE", "PERIODIC"}

\* Callers never ask for 0 ticks: TMR_Event takes that for a cancel.
Ticks == 1..MaxTicks

Link == [pThis : Event, wDelta : 0..MaxTicks, wPeriod : Ticks, Flags : Mode]

\* The ticks until the k-th link expires.
Due(l, k) == LET sum[i \in 0..Len(l)] == IF i = 0 THEN 0 ELSE sum[i - 1] + l[i].wDelta
             IN sum[k]

-----------------------------------------------------------------------------

\* Mutant: the pool is taken for one link larger.
ScheduledBeyond(l, e, ticks, mode) ==
  IF Len(l) > MaxEvents THEN l
  ELSE LET place == Cardinality({k \in 1..Len(l) : Due(l, k) <= ticks})
           delta == ticks - Due(l, place)
           split == [k \in 1..Len(l) |->
                       IF k = place + 1 THEN [l[k] EXCEPT !.wDelta = @ - delta] ELSE l[k]]
       IN InsertAt(split, place + 1, [pThis |-> e, wDelta |-> delta,
                                      wPeriod |-> ticks, Flags |-> mode])

\* Schedule: the new link goes behind those that expire no later, and takes its
\* delta out of the next one's.  Without a free link nothing is scheduled.
Scheduled(l, e, ticks, mode) ==
  IF Len(l) = MaxEvents THEN l
  ELSE LET place == Cardinality({k \in 1..Len(l) : Due(l, k) <= ticks})
           delta == ticks - Due(l, place)
           split == [k \in 1..Len(l) |->
                       IF k = place + 1 THEN [l[k] EXCEPT !.wDelta = @ - delta] ELSE l[k]]
       IN InsertAt(split, place + 1, [pThis |-> e, wDelta |-> delta,
                                      wPeriod |-> ticks, Flags |-> mode])

\* Cancel: the first link of e goes, and the next one takes over its delta.
Cancelled(l, e) ==
  LET own == {k \in 1..Len(l) : l[k].pThis = e}
      at == CHOOSE k \in own : \A j \in own : k <= j
      merged == [k \in 1..Len(l) |->
                   IF k = at + 1 THEN [l[k] EXCEPT !.wDelta = @ + l[at].wDelta] ELSE l[k]]
  IN IF own = {} THEN l ELSE RemoveAt(merged, at)

\* Mutant: the mode is not looked at.
ExpireRearms(s) ==
  LET t == s.list[1]
      again == Scheduled(s.list, t.pThis, t.wPeriod, t.Flags)
  IN [list |-> Cancelled(again, t.pThis), fired |-> [s.fired EXCEPT ![t.pThis] = @ + 1]]

\* One turn of ProcessTimers' loop: the head's Event() is called, a periodic one
\* is scheduled again, and the first link of its event is freed.
Expire(s) ==
  LET t == s.list[1]
      again == IF t.Flags = "PERIODIC" THEN Scheduled(s.list, t.pThis, t.wPeriod, t.Flags)
               ELSE s.list
  IN [list |-> Cancelled(again, t.pThis), fired |-> [s.fired EXCEPT ![t.pThis] = @ + 1]]

\* A turn, when the head has no ticks left.
ExpireHead(s) == IF s.list # <<>> /\ s.list[1].wDelta = 0 THEN Expire(s) ELSE s

\* The loop of ProcessTimers, from a head whose delta is now 0.  The links it
\* adds do not expire at once, so MaxEvents turns are enough.
ExpireAll(s) ==
  LET turn[i \in 0..MaxEvents] == IF i = 0 THEN s ELSE ExpireHead(turn[i - 1])
  IN turn[MaxEvents]

NoneFired == [e \in Event |-> 0]

Init == list = <<>> /\ fired = NoneFired /\ call = <<"none">>

Schedule(e, ticks, mode) == /\ list' = Scheduled(list, e, ticks, mode)
                            /\ fired' = NoneFired
                            /\ call' = <<"Schedule", e, ticks, mode>>

Cancel(e) == /\ list' = Cancelled(list, e)
             /\ fired' = NoneFired
             /\ call' = <<"Cancel", e>>

ProcessTimers ==
  LET head == IF list = <<>> THEN 0 ELSE list[1].wDelta
      new == IF list = <<>> THEN [list |-> <<>>, fired |-> NoneFired]
             ELSE IF head <= 1
             THEN ExpireAll([list |-> [list EXCEPT ![1].wDelta = 0], fired |-> NoneFired])
             ELSE [list |-> [list EXCEPT ![1].wDelta = head - 1], fired |-> NoneFired]
  IN list' = new.list /\ fired' = new.fired /\ call' = <<"Tick">>

Next == \/ \E e \in Event, ticks \in Ticks, mode \in Mode : Schedule(e, ticks, mode)
        \/ \E e \in Event : Cancel(e)
        \/ ProcessTimers

Spec == Init /\ [][Next]_vars

-----------------------------------------------------------------------------
(* Properties.                                                              *)

\* The deltas of the list never add up to more than the longest delay, and no
\* delta goes below 0 (wDelta is unsigned: it would wrap).
TypeOK == /\ list \in Seq(Link) /\ Len(list) <= MaxEvents
          /\ Due(list, Len(list)) <= MaxTicks
          /\ list # <<>> => list[1].wDelta > 0
          /\ \A e \in Event : fired[e] \in 0..MaxEvents

\* The deadline a link stands for, and how many the list has of each.
DeadlineOf(l, k) == [event |-> l[k].pThis, left |-> Due(l, k), period |-> l[k].wPeriod,
                     mode |-> l[k].Flags]
Pending == [d \in {DeadlineOf(list, k) : k \in 1..Len(list)} |->
              Cardinality({k \in 1..Len(list) : DeadlineOf(list, k) = d})]

\* The delta list keeps every deadline: inserting, cancelling and re-arming
\* links anywhere in the list moves no other event's time by a tick, and each
\* event fires in the tick it asked for, neither twice nor never.
Service == INSTANCE Deadlines WITH pending <- Pending, Capacity <- MaxEvents
DeadlinesSpec == Service!Spec
=============================================================================

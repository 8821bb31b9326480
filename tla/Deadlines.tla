----------------------------- MODULE Deadlines ------------------------------
(***************************************************************************)
(* What the timer service of src/src/TIMER.CPP promises: every event       *)
(* scheduled fires exactly when its ticks have passed, a periodic one is   *)
(* armed again from the moment it fires, and cancelling takes the event's  *)
(* nearest deadline away.  The one exception is stated where it is made.   *)
(***************************************************************************)
EXTENDS Integers, FiniteSets

CONSTANTS Event,     \* the objects whose Event() is called
          Ticks,     \* the delays that can be asked for, from 1 on
          Capacity   \* how many deadlines can be pending

VARIABLES pending,   \* the deadlines there are, and how many of each
          fired,     \* how often the last tick called each Event()
          call       \* the last call and its arguments

dvars == <<pending, fired, call>>

Mode == {"SINGLE", "PERIODIC"}

Deadline(e, left, period, mode) ==
  [event |-> e, left |-> left, period |-> period, mode |-> mode]

NoneFired == [e \in Event |-> 0]

Init == pending = [d \in {} |-> 0] /\ fired = NoneFired /\ call = <<"none">>

Count(d) == IF d \in DOMAIN pending THEN pending[d] ELSE 0

\* The deadlines of S, with a number of its own for each copy.
Copies(S) == {c \in S \X (1..Capacity) : c[2] <= Count(c[1])}

Full == Cardinality(Copies(DOMAIN pending)) = Capacity

\* A full service takes no more deadlines.
Schedule(e, ticks, mode) ==
  LET d == Deadline(e, ticks, ticks, mode)
  IN /\ call' = <<"Schedule", e, ticks, mode>>
     /\ pending' = IF Full THEN pending
                   ELSE [c \in DOMAIN pending \cup {d} |-> Count(c) + (IF c = d THEN 1 ELSE 0)]
     /\ fired' = NoneFired

Of(e) == {d \in DOMAIN pending : d.event = e}

Without(d) == [c \in {c \in DOMAIN pending : c = d => pending[c] > 1} |->
                 pending[c] - (IF c = d THEN 1 ELSE 0)]

Cancel(e) ==
  /\ call' = <<"Cancel", e>>
  /\ IF Of(e) = {} THEN pending' = pending
     ELSE \E d \in Of(e) : (\A c \in Of(e) : d.left <= c.left) /\ pending' = Without(d)
  /\ fired' = NoneFired

Due == {d \in DOMAIN pending : d.left = 1}

Aged(d) == [d EXCEPT !.left = @ - 1]
Armed(d) == [d EXCEPT !.left = d.period]

\* The deadlines after a tick: those that waited, and the periodic ones that fired.
Waiting == {Aged(d) : d \in DOMAIN pending \ Due}
Again == {Armed(d) : d \in {d \in Due : d.mode = "PERIODIC"}}

\* How many of each.
CountAfter(d) == (IF d \in Waiting THEN Count([d EXCEPT !.left = @ + 1]) ELSE 0)
               + (IF d \in Again THEN Count([d EXCEPT !.left = 1]) ELSE 0)

\* A periodic deadline is armed again before its place is given back: when all
\* the places are taken, one may be lost.
Losses == {{}} \cup (IF Full THEN {{d} : d \in Again} ELSE {})

Tick ==
  /\ call' = <<"Tick">>
  /\ \E lost \in Losses :
       pending' = [d \in {d \in Waiting \cup Again : d \in lost => CountAfter(d) > 1} |->
                     CountAfter(d) - (IF d \in lost THEN 1 ELSE 0)]
  /\ fired' = [e \in Event |-> Cardinality(Copies({d \in Due : d.event = e}))]

Next == \/ \E e \in Event, ticks \in Ticks, mode \in Mode : Schedule(e, ticks, mode)
        \/ \E e \in Event : Cancel(e)
        \/ Tick

Spec == Init /\ [][Next]_dvars
=============================================================================

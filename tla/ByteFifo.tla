------------------------------ MODULE ByteFifo ------------------------------
(***************************************************************************)
(* What a ring buffer of src/src/utils/ringbuf.c promises its users: a     *)
(* bounded first-in first-out queue of bytes.  `got' is what the last      *)
(* operation handed back to its caller, `call' which one it was and on      *)
(* what.                                                                   *)
(***************************************************************************)
EXTENDS Integers, Sequences

CONSTANTS Byte,      \* the values a cell holds
          Capacity,  \* how many bytes may be queued
          MaxChunk   \* longest block one call moves

VARIABLES queue, got, call

fvars == <<queue, got, call>>

Blocks == UNION {[1..n -> Byte] : n \in 1..MaxChunk}

\* The newest n elements of s.
Newest(s, n) ==
  IF Len(s) <= n THEN s
  ELSE [i \in 1..n |-> s[Len(s) - n + i]]

Init == queue = <<>> /\ got = <<>> /\ call = <<"none">>

\* Bytes are accepted only as a whole block that fits.
Put(d) == /\ Len(queue) + Len(d) <= Capacity
          /\ queue' = queue \o d
          /\ got' = <<>> /\ call' = <<"put", d>>

\* Bytes produced in place are always accepted; the oldest make room.
Force(d) == /\ queue' = Newest(queue \o d, Capacity)
            /\ got' = <<>> /\ call' = <<"force", d>>

Take(n) == /\ n <= Len(queue)
           /\ got' = SubSeq(queue, 1, n)
           /\ queue' = SubSeq(queue, n + 1, Len(queue))
           /\ call' = <<"take", n>>

\* Up to n bytes are thrown away unread.
Drop(n) == /\ queue' = IF n >= Len(queue) THEN <<>>
                       ELSE SubSeq(queue, n + 1, Len(queue))
           /\ got' = <<>> /\ call' = <<"drop", n>>

Clear == queue' = <<>> /\ got' = <<>> /\ call' = <<"clear">>

Next == \/ \E d \in Blocks : Put(d) \/ Force(d)
        \/ \E n \in 1..MaxChunk : Take(n) \/ Drop(n)
        \/ Clear

Spec == Init /\ [][Next]_fvars
=============================================================================

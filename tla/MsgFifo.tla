------------------------------- MODULE MsgFifo ------------------------------
(***************************************************************************)
(* What a task's message queue promises: whole messages, first in first    *)
(* out.  A message is <<n, b1, ..., bn>>, its length byte in front.  A     *)
(* message that does not fit, or that comes while the task does not        *)
(* receive, is dropped and the sender is told.                             *)
(***************************************************************************)
EXTENDS Integers, Sequences

CONSTANTS Messages, Capacity

VARIABLES pending, receiving, got, rc,
          call   \* <<"put", m>> when the last step queued m

fvars == <<pending, receiving, got, rc, call>>

\* The bytes the pending messages take up.
Load(q) ==
  LET load[i \in 0..Len(q)] == IF i = 0 THEN 0 ELSE load[i - 1] + Len(q[i])
  IN load[Len(q)]

NoPut == call' \notin {<<"put", m>> : m \in Messages}

Init == pending = <<>> /\ receiving = FALSE /\ got = <<>> /\ rc = FALSE

Put(m) == /\ rc' = (receiving /\ Load(pending) + Len(m) <= Capacity)
          /\ pending' = IF rc' THEN Append(pending, m) ELSE pending
          /\ got' = <<>>
          /\ IF rc' THEN call' = <<"put", m>> ELSE NoPut
          /\ UNCHANGED receiving

Get == /\ rc' = (pending # <<>>)
       /\ got' = IF rc' THEN Head(pending) ELSE <<>>
       /\ pending' = IF rc' THEN Tail(pending) ELSE pending
       /\ NoPut
       /\ UNCHANGED receiving

\* The task starts or stops receiving; what it holds, it keeps.
Switch == /\ receiving' \in BOOLEAN
          /\ got' = <<>> /\ rc' = FALSE
          /\ NoPut
          /\ UNCHANGED pending

Next == (\E m \in Messages : Put(m)) \/ Get \/ Switch

Spec == Init /\ [][Next]_fvars
=============================================================================

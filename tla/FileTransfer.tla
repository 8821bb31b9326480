---------------------------- MODULE FileTransfer ----------------------------
(***************************************************************************)
(* What a file transfer over a bad line promises whatever the line does:   *)
(* the receiver writes the blocks in order, each once, as long as it runs, *)
(* and each side ends once, with a result.                                 *)
(***************************************************************************)
EXTENDS Naturals, Sequences

CONSTANTS N,             \* the blocks of the file
          SendResults, RecvResults

VARIABLES file,   \* the blocks written
          sent, received   \* the results, "none" until a side has ended

vars == <<file, sent, received>>

Init == file = <<>> /\ sent = "none" /\ received = "none"

Write == /\ received = "none"
         /\ Len(file) < N
         /\ file' = Append(file, Len(file) + 1)
         /\ UNCHANGED <<sent, received>>

EndSend == /\ sent = "none"
           /\ sent' \in SendResults
           /\ UNCHANGED <<file, received>>

EndRecv == /\ received = "none"
           /\ received' \in RecvResults
           /\ UNCHANGED <<file, sent>>

Next == Write \/ EndSend \/ EndRecv

Spec == Init /\ [][Next]_vars
=============================================================================

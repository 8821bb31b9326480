------------------------------- MODULE NmpHdr -------------------------------
(***************************************************************************)
(* The headers by which winlib.cpp (COM_TESTING) tells requests and their  *)
(* answers apart.                                                          *)
(***************************************************************************)
EXTENDS Integers

\* Op, Group and Id of a kind of request; the answer's Op is one more.
Header == [list |-> <<0, 1, 0>>, upload |-> <<2, 1, 1>>, reset |-> <<2, 0, 5>>]
Answered(kind) == [Header[kind] EXCEPT ![1] = @ + 1]
=============================================================================

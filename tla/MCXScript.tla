------------------------------ MODULE MCXScript ------------------------------
(* Sources for XScript: each shows one way in which records depend on each  *)
(* other; Short are all those of two lines over a few statements.           *)
EXTENDS XScript

L(key, args) == [key |-> key, args |-> args]
V(n, i) == [var |-> n, idx |-> i]
Open == L("serial", <<1, 3>>)
WithData(n, lines) == <<L("data", <<n>>)>> \o lines

a == 97
b == 98

Subroutines ==
  WithData(40, <<L("call", <<1>>), L("call", <<2>>), L("exit", <<7>>),
                 L("label", <<1>>), L("call", <<2>>), L("ret", <<>>),
                 L("label", <<2>>), L("ret", <<>>)>>)
Recursion == WithData(4, <<L("label", <<1>>), L("call", <<1>>), L("ret", <<>>)>>)
NoReturn == WithData(4, <<L("call", <<9>>), L("ret", <<>>)>>)
Loop ==
  WithData(60, <<L("var", <<1, 0, 5>>), L("label", <<1>>), L("call", <<2>>),
                 L("goto", <<1, V(1, 0), ">=", 2, 1>>), L("exit", <<>>),
                 L("label", <<2>>), L("test", <<1, V(1, 0), "<", 2, 0>>), L("ret", <<>>)>>)
ByteLoop ==
  WithData(40, <<L("buf", <<1, [n |-> 0, text |-> <<255>>]>>), L("label", <<1>>),
                 L("goto", <<1, V(1, 0), "==", 1, 1>>), L("test", <<-1, V(2, 0)>>)>>)
Receive ==
  WithData(40, <<Open, L("timeout", <<2>>), L("rx", <<<<a, a>>, 1>>), L("rx", <<<<b>>>>),
                 L("label", <<1>>), L("timeout", <<0>>), L("rx", <<<<b>>, 2>>), L("label", <<2>>)>>)
Store ==
  WithData(60, <<L("buf", <<3, [n |-> 4, text |-> <<a>>]>>), Open, L("timeout", <<1>>),
                 L("skip", <<2, V(3, 1), 5>>), L("serial", <<0>>), L("label", <<5>>),
                 L("txbuf", <<2, V(3, 0)>>)>>)
Missing == WithData(40, <<L("skip", <<1, V(4, 0), 1>>)>>)
Files2 == WithData(80, <<Open, L("log", <<1, <<a>>>>), L("txfile", <<1, <<a, b>>, 1>>), L("delay", <<2>>),
                         L("txbuf", <<1, V(8, 0)>>)>>)
Untyped == WithData(10, <<L("txfile", <<>>), L("ret", <<>>)>>)
Filled == WithData(3, <<L("//", <<>>), L("tx", <<<<a, 13>>>>), L("echo", <<<<a, b>>>>)>>)
FullText == WithData(2, <<L("echo", <<<<a, b>>>>), L("ret", <<>>)>>)
FullBuf == WithData(6, <<L("buf", <<1, [n |-> 5, text |-> <<a>>], [n |-> 2, text |-> <<b>>]>>)>>)
Escape == WithData(9, <<L("tx", <<<<a, WrongEsc>>>>)>>)
HexEsc == WithData(9, <<L("rx", <<<<a, WrongHex>>>>)>>)
TooMany == WithData(9, [i \in 1..8 |-> L("label", <<i>>)] \o <<L("ret", <<>>), L("ret", <<>>)>>)

Unknown == WithData(9, <<L("label", <<1>>), L("unknown", <<>>), L("label", <<2>>)>>)

Some == {L("rx", <<<<a>>>>), L("skip", <<1>>), L("var", <<1, 3>>), L("label", <<1>>),
         L("goto", <<1, V(1, 0), "none", 3, 1>>), L("delay", <<1>>), L("ret", <<>>),
         L("call", <<1>>)}
Short == {WithData(30, <<Open, L("timeout", <<1>>), s, t>>) : s, t \in Some}

Blank == L("blank", <<>>)
BlankBefore == <<Blank>>
BlankLines == WithData(20, <<L("call", <<1>>), L("tx", <<<<a>>>>), Blank, L("label", <<1>>), L("var", <<1, 7>>)>>)
BlankOnly == WithData(3, <<Blank, Blank>>)
Back == WithData(20, <<L("var", <<1, 0>>), L("test", <<-4, V(1, 0), "==", 1>>), L("ret", <<>>)>>)
Beyond == WithData(20, <<L("var", <<1, 0>>), L("test", <<3, V(1, 0), "==", 1>>), L("ret", <<>>)>>)
Unopened == {WithData(20, <<s>>) : s \in {L("rx", <<<<a>>>>), L("skip", <<1>>), L("tx", <<<<a>>>>),
                                          L("txfile", <<1, <<b>>>>)}}
Twice == WithData(20, <<Open, Open>>)

MCFiles == {Subroutines, Recursion, NoReturn, Loop, ByteLoop, Receive, Store, Missing, Files2,
            Untyped, Filled, FullText, FullBuf, Escape, HexEsc, TooMany, Unknown, <<L("label", <<1>>)>>, <<>>,
            BlankBefore, BlankLines, BlankOnly, Back, Beyond, Twice}
           \cup Unopened \cup Short
=============================================================================

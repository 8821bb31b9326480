------------------------------- MODULE MCUpload -----------------------------
(***************************************************************************)
(* The programs of winlib.cpp that use CBOR, on small instances: in a run  *)
(* either the uploader (COM_TESTING) or the buffer test (CBOR_TESTING).    *)
(***************************************************************************)
EXTENDS Upload, CborBuffer

VARIABLE part   \* which of the two programs runs
vars == <<part, uploadVars, cborVars>>

Opt(on) == [f \in {"port", "n", "i", "r", "t", "o"} |-> f \in on]
MCOptions == {Opt({}), Opt({"port", "i", "r", "o"}), Opt({"port", "n", "i"}), Opt({"port", "r"}), Opt({"t", "o"}),
              Opt({"port", "i", "t", "o"})}
MCTotals == {0, 25, 297, 300, 638}
MCNoise == {<<"06">>, <<"other", "B">>}

Letters(n) == [i \in 1..n |-> 96 + i]
Long(b) == Item("LONG", Zeros(8 - Len(b)) \o b)
MCItems == {Item("INT", 0), Item("INT", 23), Item("INT", 24), Item("INT", 32), Item("INT", 255), Item("INT", 256),
            Item("INT", 65536), Item("INT", -5), Long(<<23>>), Long(<<200>>), Long(<<1, 0>>), Long(<<1, 0, 0>>),
            Long(<<7, 6, 5, 4, 3>>), Item("TEXT", <<>>), Item("TEXT", Letters(24)), Item("BYTES", Letters(3)),
            Item("ARRAY", 2), Item("MAP", 3), Item("BREAK", 31)}
OneImage(n) == <<Item("TEXT", Letters(2)), Item("INT", n), Item("TEXT", Letters(3)), Item("TEXT", Letters(1))>>
ImageScript(maps) ==
  <<Item("MAP", 0), Item("TEXT", Letters(4)), Item("ARRAY", 0)>> \o maps
  \o <<Item("BREAK", 31), Item("BREAK", 31)>>
ImageMap(images) == ImageScript(<<Item("MAP", 0)>> \o images \o <<Item("BREAK", 31)>>)
MCScripts ==
  UNION {[1..n -> MCItems] : n \in 0..2}
  \cup {ImageScript(<<>>), ImageMap(OneImage(0)), ImageMap(OneImage(0) \o OneImage(1))}
  \cup {<<Item("MAP", 2)>> \o [i \in 1..n |-> Item("INT", i)] : n \in 14..16}

Init ==
  /\ UploadInit /\ CborInit
  /\ \/ part = "upload" /\ script = <<>> /\ bufsize = 8
     \/ part = "cbor" /\ opt = Opt({}) /\ total = 0
PortStep == part = "upload" /\ PortNext /\ UNCHANGED <<part, file, d, cborVars>>
Next ==
  \/ part = "upload" /\ UploadNext /\ UNCHANGED <<part, cborVars>>
  \/ part = "cbor" /\ CborNext /\ UNCHANGED <<part, uploadVars>>

\* Main's steps are not put off for ever, and what the line neither loses nor brings
\* late it brings.
Spec == Init /\ [][Next]_vars /\ WF_vars(PortStep)
=============================================================================

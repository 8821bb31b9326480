----------------------------- MODULE CborBuffer -----------------------------
(***************************************************************************)
(* One object of the class CBOR of winlib.cpp, as its CBOR_TESTING program *)
(* uses it: items are put into a buffer of some size, one call each, then  *)
(* the buffer is parsed into the token array and searched.                 *)
(***************************************************************************)
EXTENDS Cbor

CONSTANTS Scripts,     \* the sequences of items a program may put
          Sizes,       \* the sizes its buffer may have
          TokenSlots   \* the length of the token array

VARIABLES script,  \* the items yet to be put
          whole,   \* history: all of them
          kept,    \* history: those that found room
          bufsize, \* the size of the buffer
          buf,     \* data up to base
          parsed   \* what parse left: tokens, token_cnt, offset; nothing before it ran

cborVars == <<script, whole, kept, bufsize, buf, parsed>>

NotParsed == [tokens |-> [i \in 1..TokenSlots |-> Token("INT")], cnt |-> 0, offset |-> 0]

CborInit ==
  /\ script \in Scripts /\ whole = script
  /\ kept = <<>> /\ bufsize \in Sizes /\ buf = <<>> /\ parsed = NotParsed

PutNext ==
  /\ script # <<>>
  /\ script' = Tail(script)
  /\ buf' = Put(buf, bufsize, Head(script))
  /\ kept' = IF buf' = buf THEN kept ELSE Append(kept, Head(script))
  /\ UNCHANGED <<whole, bufsize, parsed>>

ParseAll ==
  /\ script = <<>> /\ parsed = NotParsed
  /\ parsed' = Parse(parsed.tokens, buf)
  /\ UNCHANGED <<script, whole, kept, bufsize, buf>>

CborNext == PutNext \/ ParseAll

-----------------------------------------------------------------------------
\* The numbers whose head the reader of the same file takes for something else.
Misread(item) ==
  \/ item.kind \in {"INT", "ARRAY", "MAP"} /\ item.v \in 24..31
  \/ item.kind = "INT" /\ -item.v \in 24..31
  \/ item.kind = "LONG" /\ ByteLong(item.v)

\* What a token says, in the form the writer was given it.
Said(t) ==
  Item(t.type, CASE t.type = "INT" -> t.sign * t.int
                 [] t.type = "LONG" -> t.long
                 [] t.type \in {"TEXT", "BYTES"} -> t.str
                 [] OTHER -> t.int)
AsItem(item) == IF item.kind = "LONG" /\ SubSeq(item.v, 1, 4) = Zeros(4)
                THEN Item("INT", Value(SubSeq(item.v, 5, 8))) ELSE item

\* Nothing is written behind the buffer, unless a long of 24 to 255 was put, which moves on by
\* two bytes that it has not asked for: by those two, and then by all that is put.
InBuffer == Len(buf) > bufsize => \E i \in DOMAIN kept : kept[i].kind = "LONG" /\ ByteLong(kept[i].v)

\* Whatever was put and found room is read back, item by item and in order, whatever
\* was left out for want of room; when it fills the token array, its first part is.
RoundTrip ==
  (parsed.cnt > 0 /\ \A i \in DOMAIN kept : ~Misread(kept[i])) =>
    LET n == IF Len(kept) < TokenSlots THEN Len(kept) ELSE TokenSlots
    IN /\ \A i \in 1..n : Said(parsed.tokens[i]) = AsItem(kept[i])
       /\ parsed.cnt = IF Len(kept) < TokenSlots THEN n + 1 ELSE n
       /\ parsed.offset = IF Len(kept) < TokenSlots THEN Len(buf) ELSE 0

\* The text code carries any buffer, and the check code behind a buffer of up to four
\* bytes tells of one that changed in a byte.
CodesSound ==
  parsed.cnt > 0 =>
    /\ Base64Decode(Base64Encode(buf, TRUE)) = [ok |-> TRUE, data |-> buf]
    /\ Len(buf) <= 4 =>
         /\ crc_xmodem(buf \o BigEndian(crc_xmodem(buf), 2)) = 0
         /\ \A i \in DOMAIN buf, b \in {1, 128} :
              crc_xmodem([buf EXCEPT ![i] = (@ + b) % 256]) # crc_xmodem(buf)

\* The image lists of the form the test builds: no map, or one map of n images, each a
\* slot and a version.
ImageList(n) ==
  <<"MAP", "TEXT", "ARRAY">>
  \o (IF n = 0 THEN <<>>
      ELSE <<"MAP">> \o FlattenSeq([i \in 1..n |-> <<"TEXT", "INT", "TEXT", "TEXT">>]) \o <<"BREAK">>)
  \o <<"BREAK", "BREAK">>
ImageLists == {ImageList(n) : n \in 0..3}

\* The image-list parser accepts the lists the test builds, and reads past the last
\* token of no list whose maps and arrays are closed.
ImageListsAccepted ==
  (parsed.cnt > 0 /\ kept = whole /\ Len(whole) < TokenSlots) =>
    LET kinds == [i \in DOMAIN whole |-> whole[i].kind]
    IN kinds \in ImageLists => ParseImages(parsed) = "accepted"

\* What is put into a buffer stays in it and comes out of it: as tokens, as an image list, and
\* after the codes in which it is sent.
BufferCarries == InBuffer /\ RoundTrip /\ ImageListsAccepted /\ CodesSound
=============================================================================

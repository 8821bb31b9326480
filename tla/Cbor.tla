-------------------------------- MODULE Cbor --------------------------------
(***************************************************************************)
(* The CBOR codec (src/cbor/cbor.c) and the class CBOR of winlib.cpp that  *)
(* writes items into a buffer and reads a buffer into an array of tokens.  *)
(* A buffer is a sequence of bytes, a text or byte string its bytes, a long*)
(* its eight bytes: 64 bits are more than an integer of TLC.               *)
(***************************************************************************)
EXTENDS Codes

CONSTANT Stale   \* the byte an unwritten place of the buffer happens to hold

Byte == 0..255
Zeros(n) == [i \in 1..n |-> 0]

Value(b) == FoldLeft(LAMBDA v, c : v * 256 + c, 0, b)

-----------------------------------------------------------------------------
(* Writing. A head is the major type and the number that goes with it.      *)

\* Mutant: 256 is taken for a number of one byte.
NumberHeadLong(major, n) ==
  CASE n < 32 -> <<major * 32 + n>>
    [] n \in 32..256 -> <<major * 32 + 24, n % 256>>
    [] n \in 257..65535 -> <<major * 32 + 25>> \o BigEndian(n, 2)
    [] OTHER -> <<major * 32 + 26>> \o BigEndian(n, 4)

NumberHead(major, n) ==
  CASE n < 32 -> <<major * 32 + n>>
    [] n \in 32..255 -> <<major * 32 + 24, n>>
    [] n \in 256..65535 -> <<major * 32 + 25>> \o BigEndian(n, 2)
    [] OTHER -> <<major * 32 + 26>> \o BigEndian(n, 4)

\* A long that one byte holds, but not its head.
ByteLong(b) == SubSeq(b, 1, 7) = Zeros(7) /\ b[8] >= 24

\* Two bytes more than it wrote, when one byte holds the number.
LongHead(major, b) ==
  LET fits(n) == SubSeq(b, 1, 8 - n) = Zeros(8 - n)
  IN CASE fits(1) /\ b[8] < 24 -> <<major * 32 + b[8]>>
       [] ByteLong(b) -> <<major * 32 + 24, b[8], Stale, Stale>>
       [] ~fits(1) /\ fits(2) -> <<major * 32 + 25>> \o SubSeq(b, 7, 8)
       [] ~fits(2) /\ fits(4) -> <<major * 32 + 26>> \o SubSeq(b, 5, 8)
       [] OTHER -> <<major * 32 + 27>> \o b

StringHead(major, bytes) ==
  LET n == Len(bytes)
  IN CASE n < 24 -> <<major * 32 + n>> \o bytes
       [] n \in 24..255 -> <<major * 32 + 24, n>> \o bytes
       [] n \in 256..65535 -> <<major * 32 + 25>> \o BigEndian(n, 2) \o bytes
       [] OTHER -> <<major * 32 + 26>> \o BigEndian(n, 4) \o bytes

\* The bytes of an item: a record of its kind and its value.
Bytes(item) ==
  CASE item.kind = "INT" -> IF item.v < 0 THEN NumberHead(1, -item.v) ELSE NumberHead(0, item.v)
    [] item.kind = "LONG" -> LongHead(0, item.v)
    [] item.kind = "BYTES" -> StringHead(2, item.v)
    [] item.kind = "TEXT" -> StringHead(3, item.v)
    [] item.kind = "ARRAY" -> NumberHead(4, item.v)
    [] item.kind = "MAP" -> NumberHead(5, item.v)
    [] item.kind = "BREAK" -> NumberHead(7, 31)

Item(kind, v) == [kind |-> kind, v |-> v]

\* The room an item asks for: that long takes two bytes more.
Needed(item) == IF item.kind = "LONG" /\ ByteLong(item.v) THEN 2 ELSE Len(Bytes(item))

\* put and def_*: an item that has no room leaves the buffer as it is. Behind the end of the
\* buffer the room is negative, which is a large one to the functions it is handed to.
Put(buf, size, item) ==
  LET room == size - Len(buf)
  IN IF Needed(item) <= room \/ room < 0 THEN buf \o Bytes(item) ELSE buf

-----------------------------------------------------------------------------
(* Reading. A token keeps the fields its new type does not set.             *)

Token(type) == [type |-> type, sign |-> 1, int |-> 0, long |-> Zeros(8), str |-> <<>>]

TokenType(major, minor) ==
  CASE minor = 31 /\ major \in {4, 5, 7} -> <<"ARRAY", "MAP", "SPECIAL", "BREAK">>[major - 3]
    [] minor \in 28..31 /\ ~(minor = 31 /\ major \in {4, 5, 7}) -> "ERROR"
    [] minor = 27 -> IF major < 2 THEN "LONG" ELSE "ERROR"
    [] major = 5 /\ minor \in 24..26 -> "ARRAY"
    [] OTHER -> <<"INT", "INT", "BYTES", "TEXT", "ARRAY", "MAP", "TAG", "SPECIAL">>[major + 1]

\* cbor_read_token: the token at an offset, and the offset after it.
ReadToken(old, data, offset) ==
  LET stays(type) == [token |-> [old EXCEPT !.type = type], offset |-> offset]
  IN IF offset >= Len(data) THEN stays("INCOMPLETE")
     ELSE
       LET major == data[offset + 1] \div 32
           minor == data[offset + 1] % 32
           type == TokenType(major, minor)
           length == IF minor \in 24..27 THEN 2^(minor - 24) ELSE 0
           at == offset + 1 + length
           number == SubSeq(data, offset + 2, at)
           read == IF type = "LONG" THEN [old EXCEPT !.type = type, !.long = number]
                   ELSE [old EXCEPT !.type = type,
                                    !.int = IF length = 0 THEN minor ELSE Value(number)]
           signed == [read EXCEPT !.sign = CASE major = 0 -> 1 [] major = 1 -> -1 [] OTHER -> @]
       IN CASE type = "ERROR" \/ Len(data) < at -> stays(IF type = "ERROR" THEN type ELSE "INCOMPLETE")
            [] OTHER -> IF type \notin {"TEXT", "BYTES"} THEN [token |-> signed, offset |-> at]
                        ELSE IF Len(data) - at < read.int
                        THEN [token |-> [read EXCEPT !.type = "INCOMPLETE"], offset |-> offset]
                        ELSE [token |-> [read EXCEPT !.str = SubSeq(data, at + 1, at + read.int)],
                              offset |-> at + read.int]

\* CBOR::parse: tokens until the data or the array ends; the offset it returns is 0
\* when the array does.
RECURSIVE ParseFrom(_, _, _, _)
ParseFrom(tokens, data, i, offset) ==
  IF i > Len(tokens) THEN [tokens |-> tokens, cnt |-> i - 1, offset |-> 0]
  ELSE LET r == ReadToken(tokens[i], data, offset)
           read == [tokens EXCEPT ![i] = r.token]
       IN IF r.token.type \in {"INCOMPLETE", "ERROR"}
          THEN [tokens |-> read, cnt |-> i, offset |-> r.offset]
          ELSE ParseFrom(read, data, i + 1, r.offset)
Parse(tokens, data) == ParseFrom(tokens, data, 1, 0)

\* get_first: the place of the first token of a type, or 0.
GetFirst(p, type) ==
  LET found == {i \in 1..p.cnt : p.tokens[i].type = type}
  IN IF found = {} THEN 0 ELSE Min(found)

\* get_key: the place of the token after the first text that is a prefix of the key, or 0.
GetKey(p, key) ==
  LET found == {i \in 1..p.cnt : p.tokens[i].type = "TEXT" /\ IsPrefix(p.tokens[i].str, key)}
  IN IF found = {} \/ Min(found) = p.cnt THEN 0 ELSE Min(found) + 1

\* myCBOR::parse over get_next: a map of texts to arrays of maps of texts to anything,
\* each closed by a break. It goes past the last token where one of them is not closed.
RECURSIVE Images(_, _, _)
Images(types, i, level) ==
  IF i > Len(types) THEN "crash"
  ELSE IF types[i] = "BREAK" THEN IF level = 1 THEN "accepted" ELSE Images(types, i + 1, level - 1)
  ELSE IF types[i] # <<"TEXT", "MAP", "TEXT">>[level] THEN "refused"
  ELSE IF level = 2 THEN Images(types, i + 1, 3)
  ELSE IF level = 1
  THEN IF i < Len(types) /\ types[i + 1] = "ARRAY" THEN Images(types, i + 2, 2) ELSE "refused"
  ELSE IF i = Len(types) THEN "crash"
  ELSE IF types[i + 1] = "BREAK" THEN "refused" ELSE Images(types, i + 2, 3)

ParseImages(p) ==
  LET first == GetFirst(p, "MAP")
      types == [i \in 1..p.cnt |-> p.tokens[i].type]
  IN IF first = 0 THEN "refused" ELSE Images(types, first + 1, 1)
=============================================================================

-------------------------------- MODULE Codes -------------------------------
(***************************************************************************)
(* The text coding (src/base64/base64.c) and the check code (src/crc.c) of *)
(* the packets that winlib.cpp exchanges with a boot loader.               *)
(***************************************************************************)
EXTENDS Integers, SequencesExt, Bitwise

\* The n low bytes of v, the high one first.
BigEndian(v, n) == [i \in 1..n |-> (v \div 256^(n - i)) % 256]

\* A character is its place in base64_chars, or = or one of no meaning.
Pad == 64
Alien == 65
InAlphabet(c) == c \in 0..Pad

Base64Encode(data, should_pad) ==
  LET n == Len(data)
      groups == (n + 2) \div 3
      diff == 3 * groups - n
      q(i) == IF i <= n THEN data[i] ELSE 0
      c(g) == q(3 * g - 2) * 65536 + q(3 * g - 1) * 256 + q(3 * g)
      chars == [k \in 1..4 * groups |-> LET g == (k + 3) \div 4 IN (c(g) \div 64^(4 * g - k)) % 64]
      kept == SubSeq(chars, 1, 4 * groups - diff)
  IN IF should_pad THEN kept \o [i \in 1..diff |-> Pad] ELSE kept

\* A group of four: marker -1 where token_decode fails, else its marker and 24 bits. A
\* character of no meaning counts as -1, and its borrow overwrites the marker.
TokenDecode(token) ==
  LET marker == Cardinality({i \in 1..Len(token) : token[i] = Pad})
      digit(i) == CASE token[i] = Pad -> 0 [] token[i] = Alien -> -1 [] OTHER -> token[i]
      val == digit(1) * 64^3 + digit(2) * 64^2 + digit(3) * 64 + digit(4)
      misplaced == \E i, j \in 1..Len(token) : i < j /\ token[i] = Pad /\ token[j] # Pad
  IN IF Len(token) < 4 \/ misplaced \/ marker > 2 \/ val = -1 THEN [marker |-> -1, val |-> 0]
     ELSE [marker |-> IF val < 0 THEN 255 ELSE marker, val |-> val % 2^24]

Decoded(t) ==
  SubSeq(BigEndian(t.val, 3), 1, CASE t.marker = 0 -> 3 [] t.marker = 1 -> 2 [] OTHER -> 1)

\* Groups up to the first that begins outside the alphabet.
Base64Decode(str) ==
  LET groups == 1..(Len(str) + 3) \div 4
      stops == {g \in groups : ~InAlphabet(str[4 * g - 3])}
      read == IF stops = {} THEN Cardinality(groups) ELSE Min(stops) - 1
      tokens == [g \in 1..read |->
                   TokenDecode(SubSeq(str, 4 * g - 3, IF 4 * g <= Len(str) THEN 4 * g ELSE Len(str)))]
  IN IF \E g \in 1..read : tokens[g].marker = -1 THEN [ok |-> FALSE, data |-> <<>>]
     ELSE [ok |-> TRUE, data |-> FlattenSeq([g \in 1..read |-> Decoded(tokens[g])])]

-----------------------------------------------------------------------------
CRC_POLY_CCITT == 4129

Shifted(crc) == (crc * 2) % 65536
TopBit(crc) == crc \div 32768

\* init_crcccitt_tab.
crc_tabccitt ==
  [i \in 0..255 |->
     FoldLeft(LAMBDA s, j : [crc |-> IF TopBit(s.crc) # TopBit(s.c)
                                     THEN Shifted(s.crc) ^^ CRC_POLY_CCITT ELSE Shifted(s.crc),
                             c |-> Shifted(s.c)],
              [crc |-> 0, c |-> i * 256], [j \in 1..8 |-> j]).crc]

update_crc_ccitt(crc, c) == ((crc * 256) % 65536) ^^ crc_tabccitt[(crc \div 256) ^^ c]
crc_xmodem(bytes) ==
  LET crc[i \in 0..Len(bytes)] == IF i = 0 THEN 0 ELSE update_crc_ccitt(crc[i - 1], bytes[i])
  IN crc[Len(bytes)]
=============================================================================

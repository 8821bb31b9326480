--------------------------------- MODULE Nmp --------------------------------
(***************************************************************************)
(* The packets of winlib.cpp (COM_TESTING): a CBOR map behind an NMP header*)
(* and before a check code, coded as text and cut into NLIP frames; and    *)
(* download, which puts captured upload requests together again.           *)
(***************************************************************************)
EXTENDS Cbor, NmpHdr

\* The keys of the maps, in ASCII.
Key == [data |-> <<100, 97, 116, 97>>, image |-> <<105, 109, 97, 103, 101>>, len |-> <<108, 101, 110>>,
        off |-> <<111, 102, 102>>, sha |-> <<115, 104, 97>>]
bytes_sha == [i \in 1..32 |-> 255 - i]

MGMT_NLIP_MAX_FRAME == 127

\* send_upload: def_map(5), then three pairs, and two more in the first request.
UploadItems(image, off, n) ==
  LET pair(key, item) == <<Item("TEXT", key), item>>
  IN <<Item("MAP", 5)>>
     \o pair(Key.data, Item("BYTES", SubSeq(image, off + 1, off + n)))
     \o pair(Key.image, Item("INT", 0))
     \o (IF off = 0 THEN pair(Key.len, Item("INT", Len(image))) ELSE <<>>)
     \o pair(Key.off, Item("INT", off))
     \o (IF off = 0 THEN pair(Key.sha, Item("BYTES", bytes_sha)) ELSE <<>>)

RequestItems(image, r) ==
  IF r.kind = "upload" THEN UploadItems(image, r.off, r.n) ELSE <<Item("MAP", 0)>>

\* nmp_format_buf: the packet, its text, and the frames, each but the first a
\* continuation. Of the check code only its two bytes matter: download does not look.
CheckCode == <<0, 0>>
Nmp(kind, seq, cbor) ==
  <<Header[kind][1], 0>> \o BigEndian(Len(cbor), 2) \o BigEndian(Header[kind][2], 2)
  \o <<seq, Header[kind][3]>> \o cbor

\* Mutant: the packet's length leaves the check code out.
PacketShort(kind, seq, cbor) == BigEndian(Len(cbor) + 8, 2) \o Nmp(kind, seq, cbor) \o CheckCode

Packet(kind, seq, cbor) == BigEndian(Len(cbor) + 10, 2) \o Nmp(kind, seq, cbor) \o CheckCode

Frames(packet) ==
  LET enc == Base64Encode(packet, TRUE)
      k == MGMT_NLIP_MAX_FRAME - 3
  IN [i \in 1..(Len(enc) + k - 1) \div k |->
        [initial |-> i = 1, text |-> SubSeq(enc, (i - 1) * k + 1, IF i * k < Len(enc) THEN i * k ELSE Len(enc))]]

RequestFrames(image, r) ==
  Frames(Packet(r.kind, r.seq, FlattenSeq([i \in DOMAIN RequestItems(image, r) |->
                                             Bytes(RequestItems(image, r)[i])])))

-----------------------------------------------------------------------------
(* download. Its state: the frames read (j), the packets (count), the      *)
(* length of the last initial frame's packet (len), total_len, the image   *)
(* written, the parser's tokens and how it ended.                          *)

DownloadStart(tokens) ==
  [j |-> 0, count |-> 0, len |-> 0, total |-> 0, image |-> <<>>, tokens |-> tokens, status |-> "reading"]

\* The frames of a packet: until len bytes are there, the check code aside. Behind the
\* last frame no header is found.
RECURSIVE Gather(_, _)
Gather(frames, g) ==
  IF g.j = Len(frames) THEN [g EXCEPT !.ok = FALSE]
  ELSE LET f == frames[g.j + 1]
           m == Base64Decode(f.text).data
           len == IF f.initial THEN m[1] * 256 + m[2] ELSE g.len
           more == [g EXCEPT !.j = @ + 1, !.dec = @ \o m, !.len = len]
       IN IF Len(more.dec) < len THEN Gather(frames, more) ELSE more

\* A round of download's loop. A key that is not there is a null pointer it follows.
DownloadPacket(d, frames) ==
  LET g == Gather(frames, [j |-> d.j, dec |-> <<>>, len |-> d.len, ok |-> TRUE])
      p == Parse(d.tokens, SubSeq(g.dec, 11, g.len))
      at(key) == GetKey(p, key)
      read == [d EXCEPT !.j = g.j, !.count = @ + 1, !.len = g.len, !.tokens = p.tokens]
      n == p.tokens[at(Key.data)].int
      total == IF d.count = 0 THEN p.tokens[at(Key.len)].int ELSE d.total
      off == p.tokens[at(Key.off)].int
  IN IF ~g.ok THEN [d EXCEPT !.status = "bad header"]
     ELSE IF at(Key.data) = 0 THEN [read EXCEPT !.status = "crash"]
     ELSE IF at(Key.off) = 0 \/ (d.count = 0 /\ at(Key.len) = 0)
     THEN [read EXCEPT !.image = @ \o p.tokens[at(Key.data)].str, !.status = "crash"]
     ELSE [read EXCEPT !.image = @ \o p.tokens[at(Key.data)].str, !.total = total,
                       !.status = IF off + n = total THEN "whole" ELSE "reading"]
=============================================================================

-------------------------------- MODULE Upload ------------------------------
(***************************************************************************)
(* The uploader of winlib.cpp (COM_TESTING) with what is in its files: an  *)
(* image to send, and in test mode a captured upload, which download puts  *)
(* together again.                                                         *)
(***************************************************************************)
EXTENDS Nmp, Uploader

VARIABLES file,        \* the frames download has loaded
          d            \* the state of download

uploadVars == <<uploaderVars, file, d>>

Image == [i \in 1..total |-> i % 251]   \* the file's bytes: only their places matter

\* upload's requests for an image: those send_upload_next sizes.
RECURSIVE Tiles(_, _)
Tiles(off, last) ==
  LET want == IF last = 0 THEN FirstSize ELSE NextSize
      n == IF off + want > total THEN total - off ELSE want
  IN <<[off |-> off, n |-> n]>> \o (IF off + n < total THEN Tiles(off + n, n) ELSE <<>>)

\* What an upload by itself would capture: the file test mode reads.
Captured == [i \in DOMAIN Tiles(0, 0) |->
               [kind |-> "upload", seq |-> i] @@ Tiles(0, 0)[i]]
CaptureFrames(requests) ==
  FlattenSeq([i \in DOMAIN requests |-> RequestFrames(Image, requests[i])])

UploadInit ==
  /\ UploaderInit
  /\ file = <<>> /\ d = DownloadStart([i \in 1..16 |-> Token("INT")])

\* In test mode the captured file is read; download then takes it a packet at a time.
Post ==
  /\ \E result \in TestResults : Test(result)
  /\ file' = IF stage' = "download" THEN CaptureFrames(Captured) ELSE file
  /\ d' = d

Download ==
  /\ stage = "download"
  /\ d' = DownloadPacket(d, file) /\ file' = file
  /\ Downloaded(d'.status)

UploadNext == ((MainNext \/ Babble) /\ UNCHANGED <<file, d>>) \/ Post \/ Download

-----------------------------------------------------------------------------
\* A captured upload is put together again, byte for byte; an image of 24 to 31 bytes,
\* whose length is written wrongly, is the exception.
DownloadRestoresImage ==
  /\ d.status = "whole" => d.image = Image
  /\ d.status \in {"crash", "bad header"} => total \in 24..31
=============================================================================

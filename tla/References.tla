------------------------------ MODULE References ------------------------------
(***************************************************************************)
(* How the device finds the pictures that a picture refers to.  V4L2 knows *)
(* a reference by the timestamp that was queued with its bitstream: the    *)
(* driver stamps a surface in vaEndPicture (picture.cc), sends the stamp   *)
(* along with the source buffer (v4l2.cc), and puts the stamps of the      *)
(* surfaces a picture refers to into the controls of its codec (h264.cc,   *)
(* mpeg2.cc, vp8.cc, vp9.cc).  The device copies the stamp to the buffer   *)
(* it decodes to and looks for it there.                                   *)
(*                                                                         *)
(* This composes the decode path of PictureClient with the stamps.  Two    *)
(* calls of vaEndPicture see different times: each waits for a decode, and *)
(* the clock is not set back.                                              *)
(***************************************************************************)
EXTENDS PictureClient

VARIABLES
  now,     \* gettimeofday: the number of vaEndPicture calls so far
  stamp,   \* Surface::timestamp
  sent,    \* the timestamp each source buffer was queued with
  mark     \* the timestamp of each destination buffer, of what it was decoded from

refVars == <<now, stamp, sent, mark>>
allVars == <<vars, refVars>>

NoStamp == 0      \* the timestamp of a surface that was never ended
Unmarked == -1    \* a buffer that nothing was decoded to has no timestamp

-----------------------------------------------------------------------------
(* What the controls say of a surface p that a picture on surface s refers to. *)

\* MPEG2: a surface that does not exist is replaced by the picture itself.
Mpeg2Reference(s, p) == IF p \in live THEN stamp[p] ELSE stamp[s]

\* VP8 and VP9: it is replaced by timestamp 0.
Vp8Reference(p) == IF p \in live THEN stamp[p] ELSE 0
Vp9Reference(p) == IF p \in live THEN stamp[p] ELSE 0

\* H264: the entries of the DPB start as zeros.
H264Reference(p) == IF p \in live THEN stamp[p] ELSE 0

\* The buffer the device takes for a timestamp: the first one that has it.
Found(t) == {b \in Surfaces : mark[b] = t /\ \A c \in Surfaces : mark[c] = t => b <= c}

-----------------------------------------------------------------------------
\* Variant: the buffer is queued without the timestamp.
SendNothing == sent' = [s \in Surfaces |-> IF ~InSrc(s) /\ InSrc(s)' THEN NoStamp ELSE sent[s]]

\* The source buffers that were queued in this step, with the stamp of their surface.
Send == sent' = [s \in Surfaces |-> IF ~InSrc(s) /\ InSrc(s)' THEN stamp'[s] ELSE sent[s]]

\* Variant: the surface is stamped after its buffers were queued.
StampLate(s) ==
  /\ now' = now + 1
  /\ stamp' = [stamp EXCEPT ![s] = now + 1]
  /\ sent' = [r \in Surfaces |-> IF ~InSrc(r) /\ InSrc(r)' THEN stamp[r] ELSE sent[r]]

\* vaEndPicture reads the clock first, and keeps the stamp if it fails later.
Stamp(s) ==
  /\ now' = now + 1
  /\ stamp' = [stamp EXCEPT ![s] = now + 1]
  /\ Send

RefEnd(s) == ClientEnd(s) /\ Stamp(s) /\ UNCHANGED mark

RefDecode ==
  /\ Decode
  /\ mark' = [mark EXCEPT ![Head(dstReady)] = sent[Head(srcReady).buf]]
  /\ UNCHANGED <<now, stamp, sent>>

RefInit ==
  /\ Init
  /\ now = 0
  /\ stamp = [s \in Surfaces |-> NoStamp]
  /\ sent = [s \in Surfaces |-> NoStamp]
  /\ mark = [s \in Surfaces |-> Unmarked]

RefNext ==
  \/ \E s \in Surfaces : ClientBegin(s) /\ UNCHANGED refVars
  \/ ClientRender /\ UNCHANGED refVars
  \/ \E s \in Surfaces : RefEnd(s)
  \/ WaitCompletion /\ UNCHANGED refVars
  \/ WaitFail /\ UNCHANGED refVars
  \/ RefDecode
  \/ \E s \in Surfaces : ClientShow(s) /\ UNCHANGED refVars
  \/ \E s \in Surfaces : ClientDerive(s) /\ UNCHANGED refVars

\* As in PictureClient.
RefFairness ==
  /\ WF_allVars(RefDecode)
  /\ WF_allVars(WaitCompletion /\ UNCHANGED refVars)
  /\ WF_allVars(ClientRender /\ UNCHANGED refVars)
  /\ \A s \in Surfaces : WF_allVars(RefEnd(s))
  /\ \A s \in Surfaces : WF_allVars(ClientShow(s) /\ UNCHANGED refVars)

RefSpec == RefInit /\ [][RefNext]_allVars /\ RefFairness

-----------------------------------------------------------------------------
(* Properties. *)

\* The surfaces a stream may refer to: their picture was decoded with success
\* and they were not taken for another one.
Referable == {r \in Surfaces : picOf[r] # 0 /\ call[r] \in {"ended", "none"}}

\* The timestamps the codecs send for a reference p of a picture on surface s.
Stamps(s, p) == {Mpeg2Reference(s, p), Vp8Reference(p), Vp9Reference(p), H264Reference(p)}

\* Whatever the codec, the timestamp that is sent for a reference leads the
\* device to the buffer that holds the picture, after failed submissions, and
\* after pictures that were decoded when vaEndPicture had given them up.
ReferencesFound ==
  media => \A r \in Referable : \A t \in Stamps(r, r) :
             Found(t) = {r} /\ (erred \/ content[r] = {picOf[r]})

\* A reference that is missing never leads the device to another picture: no
\* buffer is marked 0, and a picture that stands in for its own reference has a
\* timestamp no other buffer has.
MissingFindsNothing ==
  waiting => \A t \in Stamps(target, Invalid) : Found(t) \subseteq {target}
=============================================================================
